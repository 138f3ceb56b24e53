--------------------------- MODULE AsynchContract ---------------------------
(***************************************************************************)
(* What a program can rely on about asynchronous requests, whatever goes   *)
(* on inside: a request belongs to an open session; its callback is        *)
(* invoked at most once, and only while the session is open; and nothing   *)
(* but its callback or the closing of its session ends it.                 *)
(*                                                                         *)
(* Whether a session may be closed at all while requests are pending on it *)
(* the contract leaves open.  The documentation says that it waits for     *)
(* them (EndsInCallback), which the code does not do.                      *)
(***************************************************************************)
CONSTANTS Session, ReqId, None

VARIABLES
  open,     \* the sessions the program may use
  request   \* per request id: <<state, session>>

Idle == {<<"unused", None>>, <<"over", None>>}
Busy == {"pending", "calling"} \X Session

ContractTypeOK ==
  /\ open \subseteq Session
  /\ request \in [ReqId -> Idle \cup Busy]

ContractInit ==
  /\ open = {}
  /\ request = [r \in ReqId |-> <<"unused", None>>]

OpenSession(s) ==
  /\ s \notin open
  /\ open' = open \cup {s}
  /\ UNCHANGED request

(* No callback comes after its session is closed: what is still pending on *)
(* the session, if anything is, is over.                                   *)
CloseSession(s) ==
  /\ s \in open
  /\ open' = open \ {s}
  /\ request' = [r \in ReqId |-> IF request[r] = <<"pending", s>>
                                 THEN <<"over", None>> ELSE request[r]]

Start(s, r) ==
  /\ s \in open
  /\ request[r] = <<"unused", None>>
  /\ request' = [request EXCEPT ![r] = <<"pending", s>>]
  /\ UNCHANGED open

(* A synchronous request uses up an id.                                    *)
Spend(r) ==
  /\ request[r] = <<"unused", None>>
  /\ request' = [request EXCEPT ![r] = <<"over", None>>]
  /\ UNCHANGED open

InvokeCallback(s, r) ==
  /\ s \in open
  /\ request[r] = <<"pending", s>>
  /\ request' = [request EXCEPT ![r] = <<"calling", s>>]
  /\ UNCHANGED open

(* Callbacks end, several at once when an error unwinds the stack.         *)
EndCallbacks(R) ==
  /\ \A r \in R : request[r] \in {"calling"} \X Session
  /\ request' = [r \in ReqId |-> IF r \in R THEN <<"over", None>> ELSE request[r]]
  /\ UNCHANGED open

ContractNext ==
  \/ \E s \in Session : OpenSession(s) \/ CloseSession(s)
  \/ \E s \in Session, r \in ReqId : Start(s, r) \/ InvokeCallback(s, r)
  \/ \E r \in ReqId : Spend(r)
  \/ \E R \in SUBSET ReqId : EndCallbacks(R)

ContractSpec == ContractInit /\ [][ContractNext]_<<open, request>>
-----------------------------------------------------------------------------
(* The documented promise beyond the contract (doc/snmp.html:3484-3490): a *)
(* session on which a request is pending is closed once the request has    *)
(* completed and its callback was called, so that a pending request ends   *)
(* in no other way.                                                        *)
EndsInCallback ==
  [][\A s \in Session, r \in ReqId :
       request[r] = <<"pending", s>> =>
         request'[r] \in {<<"pending", s>>, <<"calling", s>>}]_<<open, request>>
=============================================================================
