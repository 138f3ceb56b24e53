--------------------------- MODULE MCUsmSessions ----------------------------
(***************************************************************************)
(* The sessions of version 3 on small instances.  Sessions are             *)
(* interchangeable, and so are the passwords but the first user's.         *)
(***************************************************************************)
EXTENDS UsmSessions, TLC

Symmetry == Permutations(Session) \cup Permutations(Password \ {Secret})
=============================================================================
