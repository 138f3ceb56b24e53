SPECIFICATION FairSpec
CONSTANTS
  Filled <- Tables
  Config <- Files
  MaxEdits = 2
  Careful <- Rules
  Walked <- WalkedTables
  Oid <- Few
  Root <- Roots
  MaxChanges = 2
INVARIANTS
  OpenedAsMeant
  RefusedForCause
  ListSorted
  InSubtree
  ListComplete
  SingleListed
  BadOidJustified
PROPERTY WalkEnds
