------------------------------ MODULE MCStraps ------------------------------
(***************************************************************************)
(* Trap forwarding on small instances.  Programs, connections and          *)
(* datagrams are interchangeable: the model compares them for equality     *)
(* only, and the order of the daemon's descriptors is left open.           *)
(***************************************************************************)
EXTENDS Straps, TLC

Symmetry == Permutations(Process) \cup Permutations(Conn) \cup Permutations(Trap)
=============================================================================
