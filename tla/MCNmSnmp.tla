------------------------------ MODULE MCNmSnmp ------------------------------
(***************************************************************************)
(* The request engine on small instances.  Sessions are interchangeable,   *)
(* and so are request ids: no operator tells two of them apart but by      *)
(* equality, and every CHOOSE of the model has one possible value.         *)
(***************************************************************************)
EXTENDS NmSnmp, TLC

Symmetry == Permutations(Session) \cup Permutations(ReqId)

Notified == \E s \in Session, key \in CbKinds : <<s, key>> \in registry

(* The sessions a program or the engine still holds.                       *)
InHand == (Allocated \cup {stack[i].s : i \in DOMAIN stack}) \ {None}

(* A program has requests under way on two sessions without notification   *)
(* callbacks, or it has three sessions, with such callbacks, and no        *)
(* requests; from a trap callback it then pumps no events.  Requests and   *)
(* traps together are the matter of engine_orderly.                        *)
RequestsOrTraps ==
  \/ ~Notified /\ Cardinality(InHand) <= 2
  \/ issued = {} /\ Len(stack) <= 2
=============================================================================
