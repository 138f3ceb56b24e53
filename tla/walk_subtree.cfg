SPECIFICATION Spec
CONSTANTS
  Filled <- PlainTable
  Config <- NoFiles
  MaxEdits = 0
  Careful = {}
  Walked <- WalkedPlain
  Oid <- Alike
  Root <- AlikeRoot
  MaxChanges = 0
INVARIANT InSubtree
