------------------------ MODULE NmSnmpOrderly_proofs ------------------------
(***************************************************************************)
(* What holds of the engine for programs that do not pump events from      *)
(* inside their callbacks (Orderly), and of the requests the library holds *)
(* when no REPORT answers a request in another's place.                    *)
(*                                                                         *)
(* HeldInv and OrderlyInv are inductive on top of Types, EngineInv and     *)
(* CallingOK.  The proof of OrderlyInv follows the C stack, which has a    *)
(* pump and a callback at most, and for a trap the order of the list.      *)
(***************************************************************************)
EXTENDS NmSnmp_proofs

(* No REPORT is answered for a request: nm_snmp_synch_input takes one for  *)
(* the request waited for, whichever it belongs to.                        *)
NoReports == "report" \notin Outcome
-----------------------------------------------------------------------------
(* The library holds what is pending.                                      *)

(* A step that takes from the library only what nobody has queued, queues  *)
(* only what it hands over, and lets no new request wait, keeps HeldInv.   *)
LEMMA HeldKept ==
  ASSUME Types, HeldInv,
         \A s \in Session : \A r \in as_reqs_lst'[s] : <<s, r>> \in lib => <<s, r>> \in lib',
         \A s \in Session : as_reqs_lst'[s] \subseteq as_reqs_lst[s],
         \A s \in Session : synch'[s].synch_req =>
           synch[s].synch_req /\ synch'[s].reqid = synch[s].reqid,
         issued' = issued
  PROVE  HeldInv'
<1>1. PendingIsHeld'
  BY DEF HeldInv, PendingIsHeld
<1>2. Queued' \subseteq Queued
  BY DEF Queued
<1> QED BY <1>1, <1>2 DEF HeldInv

(* Draining the close list takes nothing that is pending.                  *)
LEMMA HeldDrained ==
  ASSUME Types, EngineInv, HeldInv, DrainCloseList,
         UNCHANGED <<as_reqs_lst, issued>>,
         \A s \in Session : synch'[s].synch_req =>
           synch[s].synch_req /\ synch'[s].reqid = synch[s].reqid
  PROVE  HeldInv'
<1>1. ASSUME NEW s \in Session, NEW r \in as_reqs_lst[s], <<s, r>> \in lib
      PROVE  <<s, r>> \in lib'
  <2>1. s \in Listed /\ s \notin close_list
    BY DEF EngineInv, QueuesOK, LibrarySessionsOwned
  <2> QED BY <1>1, <2>1 DEF DrainCloseList, LibWithout
<1> QED BY <1>1, HeldKept

(* HeldInv survives what Lua code does.                                    *)
LEMMA HeldClient ==
  ASSUME Types, EngineInv, HeldInv, Client
  PROVE  HeldInv'
<1> USE DEF listVars, reqVars, syncVars, trapVars, cbVars, libVars
<1>1. ASSUME NEW s \in Session, NEW kinds \in SUBSET CbKinds, Open(s, kinds)
      PROVE  HeldInv'
  <2>1. lib' = lib /\ issued' = issued
    BY <1>1 DEF Open
  <2>2. \A t \in Session : as_reqs_lst'[t] \subseteq as_reqs_lst[t]
    BY <1>1 DEF Open, Types
  <2>3. \A t \in Session : synch'[t] = IF t = s THEN Blank ELSE synch[t]
    BY <1>1 DEF Open, Types
  <2> QED BY <2>1, <2>2, <2>3, HeldKept DEF Blank
<1>2. ASSUME NEW s \in Session, Close(s)
      PROVE  HeldInv'
  <2> USE DEF Close, FreeReqs, TrapUnref, DeferClose, CloseNow
  <2>1. issued' = issued
    BY <1>2
  <2>2. \A t \in Session : as_reqs_lst'[t] = IF t = s THEN {} ELSE as_reqs_lst[t]
    BY <1>2 DEF Types
  <2>3. \A t \in Session : synch'[t] \in {Blank, synch[t]}
    BY <1>2 DEF Types
  <2>4. \A t \in Session \ {s}, r \in ReqId : <<t, r>> \in lib => <<t, r>> \in lib'
    BY <1>2 DEF LibWithout
  <2>5. \A t \in Session : \A r \in as_reqs_lst'[t] : <<t, r>> \in lib => <<t, r>> \in lib'
    BY <2>2, <2>4 DEF Types
  <2>6. \A t \in Session : synch'[t].synch_req =>
          synch[t].synch_req /\ synch'[t].reqid = synch[t].reqid
    BY <2>3 DEF Blank
  <2> HIDE DEF Close, FreeReqs, TrapUnref, DeferClose, CloseNow
  <2> QED BY <2>1, <2>2, <2>5, <2>6, HeldKept
<1>3. ASSUME NEW s \in Session, NEW r \in ReqId, AsynchReq(s, r)
      PROVE  HeldInv'
  <2>1. /\ r \notin issued
        /\ issued' = issued \cup {r}
        /\ lib' = lib \cup {<<s, r>>}
        /\ synch' = synch
        /\ \A t \in Session :
             as_reqs_lst'[t] = as_reqs_lst[t] \cup (IF t = s THEN {r} ELSE {})
    BY <1>3 DEF AsynchReq, Send, Types
  <2>2. Queued' = Queued \cup {r}
    BY <2>1 DEF Queued
  <2>3. PendingIsHeld'
    BY <2>1 DEF HeldInv, PendingIsHeld
  <2> QED BY <2>1, <2>2, <2>3 DEF HeldInv
<1>4. ASSUME NEW s \in Session, NEW r \in ReqId, SynchReq(s, r)
      PROVE  HeldInv'
  <2>1. /\ r \notin issued
        /\ issued' = issued \cup {r}
        /\ lib' = lib \cup {<<s, r>>}
        /\ as_reqs_lst' = as_reqs_lst
    BY <1>4 DEF SynchReq, Send
  <2>2. \A t \in Session :
          synch'[t].reqid = IF t = s THEN r ELSE synch[t].reqid
    BY <1>4 DEF SynchReq, Types, SynchState
  <2>3. \A t \in Session \ {s} : synch'[t] = synch[t]
    BY <1>4 DEF SynchReq, Types
  <2>4. Queued' = Queued /\ Queued \subseteq issued
    BY <2>1 DEF Queued, EngineInv, QueuesOK
  <2>5. PendingIsHeld'
    BY <2>1 DEF HeldInv, PendingIsHeld
  <2> QED BY <2>1, <2>2, <2>3, <2>4, <2>5 DEF HeldInv
<1>5. ASSUME UNCHANGED <<reqVars, syncVars, libVars>>
      PROVE  HeldInv'
  BY <1>5, HeldKept
<1>6. ASSUME NEW fn, NEW s, StartPump(fn, s)
      PROVE  HeldInv'
  BY <1>5, <1>6 DEF StartPump
<1>7. ASSUME NEW s \in Session, NEW kinds \in SUBSET CbKinds, OpenFails(s, kinds)
      PROVE  HeldInv'
  BY <1>5, <1>7 DEF OpenFails
<1>8. CASE LuaError
  BY <1>5, <1>8 DEF LuaError, Unwind
<1> QED
  BY <1>1, <1>2, <1>3, <1>4, <1>6, <1>7, <1>8 DEF Client, Wait, EventLoop, Event

(* HeldInv survives what the library does: what it drops for a synchronous *)
(* request is the request waited for, which is in no queue.                *)
LEMMA HeldLibrary ==
  ASSUME Types, EngineInv, HeldInv, NoReports, Library
  PROVE  HeldInv'
<1> USE DEF listVars, reqVars, syncVars, trapVars, cbVars, libVars
<1>1. ASSUME NEW s \in Session, NEW r \in ReqId, NEW o \in Outcome,
             DeliverSynch(s, r, o)
      PROVE  HeldInv'
  <2>1. issued' = issued /\ as_reqs_lst' = as_reqs_lst
    BY <1>1 DEF DeliverSynch
  <2>2. \A t \in Session : /\ synch'[t].synch_req = synch[t].synch_req
                           /\ synch'[t].reqid = synch[t].reqid
    BY <1>1 DEF DeliverSynch, SynchInput, Types, SynchState
  <2>3. synch[s].synch_req /\ (r = synch[s].reqid \/ o = "not_in_time")
    BY <1>1 DEF DeliverSynch, SynchTakes, NoReports
  <2>4. lib' = lib \/ (r \notin Queued /\ lib' = lib \ {<<s, r>>})
    BY <1>1, <2>3 DEF DeliverSynch, LibAfter, HeldInv
  <2>5. \A t \in Session : \A q \in as_reqs_lst'[t] :
          <<t, q>> \in lib => <<t, q>> \in lib'
    BY <2>1, <2>4 DEF Queued
  <2> QED BY <2>1, <2>2, <2>5, HeldKept
<1>2. ASSUME NEW s \in Session, NEW r \in ReqId, NEW o \in Outcome,
             DeliverAsynch(s, r, o)
      PROVE  HeldInv'
  <2>1. \A t \in Session : as_reqs_lst'[t] \subseteq as_reqs_lst[t]
    BY <1>2 DEF DeliverAsynch, Dequeue, Types
  <2> QED BY <1>2, <2>1, HeldKept DEF DeliverAsynch
<1>3. ASSUME NEW s \in Session, NEW r \in ReqId, NEW o \in Outcome,
             DeliverUnknown(s, r, o)
      PROVE  HeldInv'
  <2>1. UNCHANGED <<reqVars, syncVars, issued>>
    BY <1>3 DEF DeliverUnknown
  <2>2. r \notin as_reqs_lst[s]
    BY <1>3 DEF DeliverUnknown, EngineInv, QueuesOK
  <2>3. lib' = lib \/ lib' = lib \ {<<s, r>>}
    BY <1>3 DEF DeliverUnknown, LibAfter
  <2>4. \A t \in Session : \A q \in as_reqs_lst'[t] :
          <<t, q>> \in lib => <<t, q>> \in lib'
    BY <2>1, <2>2, <2>3
  <2> QED BY <2>1, <2>4, HeldKept
<1>4. CASE TrapArrives
  BY <1>4, HeldKept DEF TrapArrives
<1> QED BY <1>1, <1>2, <1>3, <1>4 DEF Library, Deliver

(* HeldInv survives what the engine does by itself: a callback that        *)
(* returns lets the library drop a request that has left its queue.        *)
LEMMA HeldEngine ==
  ASSUME Types, EngineInv, CallingOK, HeldInv, Engine
  PROVE  HeldInv'
<1> USE DEF listVars, reqVars, syncVars, trapVars, cbVars, libVars
<1>1. CASE AsynchReturn
  <2>1. Len(stack) \in Calling
    BY <1>1, StackTypes, LenProperties DEF AsynchReturn, Calling, Top, Types
  <2>2. Top.r \notin Queued
    BY <2>1 DEF CallingOK, Top
  <2>3. /\ UNCHANGED <<reqVars, syncVars, issued>>
        /\ lib' = lib \/ lib' = lib \ {<<Top.s, Top.r>>}
    BY <1>1 DEF AsynchReturn
  <2>4. \A t \in Session : \A q \in as_reqs_lst'[t] :
          <<t, q>> \in lib => <<t, q>> \in lib'
    BY <2>2, <2>3 DEF Queued
  <2> QED BY <2>3, <2>4, HeldKept
<1>2. CASE SelectDone \/ TrapSkip \/ TrapCall \/ TrapReturn \/ TrapDone \/ TrapCallsNil
  <2>1. UNCHANGED <<reqVars, syncVars, libVars>>
    BY <1>2
    DEF SelectDone, TrapSkip, TrapCall, TrapReturn, TrapDone, TrapCallsNil, Unwind
  <2> QED BY <2>1, HeldKept
<1>3. CASE EventAgain \/ PumpReturn
  BY <1>3, HeldDrained DEF EventAgain, PumpReturn, EventEnds
<1>4. CASE SynchReturn
  <2>1. \A s \in Session : synch'[s].synch_req =>
          synch[s].synch_req /\ synch'[s].reqid = synch[s].reqid
    BY <1>4 DEF SynchReturn, SynchOver, Types, SynchState
  <2> QED BY <1>4, <2>1, HeldDrained DEF SynchReturn, EventEnds
<1> QED BY <1>1, <1>2, <1>3, <1>4 DEF Engine

(* HeldInv is inductive.                                                   *)
LEMMA HeldStep ==
  ASSUME Types, EngineInv, CallingOK, HeldInv, NoReports, [Next]_vars
  PROVE  HeldInv'
<1>1. CASE UNCHANGED vars
  BY <1>1, HeldKept DEF vars, reqVars, syncVars, libVars
<1> QED BY <1>1, HeldClient, HeldLibrary, HeldEngine DEF Next

(* Nothing is pending and nobody waits in the beginning.                   *)
LEMMA HeldInit == Init => HeldInv
BY DEF Init, HeldInv, PendingIsHeld, Blank

(* Unless a REPORT is taken for another request's, every pending request   *)
(* is held by the library, whatever callbacks do: its response or its      *)
(* timeout is yet to come, so that wait() and loop() have something to     *)
(* wait for.                                                               *)
THEOREM HoldsPending ==
  ASSUME NoReports
  PROVE  Spec => []PendingIsHeld
<1>1. Types /\ EngineInv /\ CallingOK /\ HeldInv /\ [Next]_vars => HeldInv'
  BY HeldStep
<1>2. HeldInv => PendingIsHeld
  BY DEF HeldInv
<1> QED BY <1>1, <1>2, HeldInit, InductiveInv, CallingInv, PTL DEF Spec
-----------------------------------------------------------------------------
(* The order of the session list.                                          *)

(* The first session is before all others; the next one of a session is    *)
(* before all that follow it.                                              *)
LEMMA ListOrder ==
  ASSUME Types, ListOK
  PROVE  /\ ListHead \in Listed \cup {None}
         /\ \A t \in Listed : ListHead # None /\ NotAfter(ListHead, t)
         /\ \A s \in Listed :
              /\ NextOf(s) \in Listed \cup {None}
              /\ \A t \in Listed \ {s} : NotAfter(s, t) =>
                   NextOf(s) # None /\ NotAfter(NextOf(s), t)
<1> DEFINE n == Len(sessions)
<1>1. /\ n \in Nat
      /\ DOMAIN sessions = 1 .. n
      /\ \A i \in 1 .. n : sessions[i] \in Session
      /\ None \notin Session
  BY ListTypes, ElementOfSeq, EngineAssumption DEF Types
<1>2. \A i \in 1 .. n : sessions[i] \in Listed
  BY <1>1 DEF Listed
<1>3. ASSUME sessions # <<>>
      PROVE  1 \in 1 .. n /\ ListHead = sessions[1]
  BY <1>1, <1>3, EmptySeq DEF Types, ListHead
<1>4. ASSUME NEW t \in Listed
      PROVE  ListHead # None /\ NotAfter(ListHead, t)
  <2>1. PICK j \in 1 .. n : sessions[j] = t
    BY <1>1 DEF Listed
  <2>2. 1 \in 1 .. n /\ 1 <= j /\ sessions # <<>>
    BY <1>1, <2>1
  <2> QED BY <1>1, <1>3, <2>1, <2>2 DEF NotAfter
<1>5. ASSUME NEW s \in Listed
      PROVE  NextOf(s) \in Listed \cup {None}
  <2>1. Position(s) \in 1 .. n
    BY ListTypes
  <2>2. Position(s) < n => Position(s) + 1 \in 1 .. n
    BY <1>1, <2>1
  <2> QED BY <1>2, <2>2 DEF NextOf
<1>6. ASSUME NEW s \in Listed, NEW t \in Listed \ {s}, NotAfter(s, t)
      PROVE  NextOf(s) # None /\ NotAfter(NextOf(s), t)
  <2>1. PICK i \in 1 .. n, j \in 1 .. n :
          i <= j /\ sessions[i] = s /\ sessions[j] = t
    BY <1>1, <1>6 DEF NotAfter
  <2>2. Position(s) = i
    BY <1>1, <2>1, ListTypes DEF ListOK
  <2>3. i < j /\ i < n /\ i + 1 \in 1 .. n /\ i + 1 <= j
    <3>1. i # j
      BY <2>1
    <3> QED BY <1>1, <2>1, <3>1
  <2>4. NextOf(s) = sessions[i + 1]
    BY <2>2, <2>3 DEF NextOf
  <2> QED BY <1>1, <2>1, <2>3, <2>4 DEF NotAfter
<1>7. ListHead \in Listed \cup {None}
  BY <1>2, <1>3 DEF ListHead
<1> QED BY <1>4, <1>5, <1>6, <1>7

(* Opening a session keeps the order of those that were there.             *)
LEMMA OpenOrder ==
  ASSUME Types, NEW s \in Session, NEW kinds \in SUBSET CbKinds, Open(s, kinds),
         NEW a, NEW b, NotAfter(a, b)
  PROVE  NotAfter(a, b)'
<1>1. PICK i \in 1 .. Len(sessions), j \in 1 .. Len(sessions) :
        i <= j /\ sessions[i] = a /\ sessions[j] = b
  BY ListTypes DEF NotAfter
<1>2. PICK k \in DOMAIN sessions', l \in DOMAIN sessions' : k = i + 1 /\ l = j + 1
  BY <1>1, ListTypes, OpenList
<1>3. k <= l /\ sessions'[k] = a /\ sessions'[l] = b
  <2>1. /\ k \in 1 .. (Len(sessions) + 1) /\ k # 1 /\ k - 1 = i
        /\ l \in 1 .. (Len(sessions) + 1) /\ l # 1 /\ l - 1 = j
    BY <1>1, <1>2, ListTypes
  <2> QED BY <1>1, <2>1, OpenList
<1> QED BY <1>3 DEF NotAfter

(* So does closing one, for the others.                                    *)
LEMMA CloseOrder ==
  ASSUME Types, NEW s \in Listed, sessions' = Unlinked(s),
         NEW a, NEW b, NotAfter(a, b), a # s, b # s
  PROVE  NotAfter(a, b)'
<1> DEFINE n == Len(sessions)
           p == Position(s)
           At(i) == IF i < p THEN i ELSE i - 1
<1>1. /\ n \in Nat
      /\ p \in 1 .. n
      /\ sessions[p] = s
      /\ DOMAIN sessions' = 1 .. (n - 1)
      /\ \A i \in 1 .. (n - 1) :
           sessions'[i] = IF i < p THEN sessions[i] ELSE sessions[i + 1]
  BY ListTypes DEF Unlinked
<1>2. PICK i \in 1 .. n, j \in 1 .. n :
        i <= j /\ sessions[i] = a /\ sessions[j] = b
  BY ListTypes DEF NotAfter
<1>3. ASSUME NEW k \in 1 .. n, k # p
      PROVE  At(k) \in 1 .. (n - 1) /\ sessions'[At(k)] = sessions[k]
  <2>1. CASE k < p
    BY <1>1, <2>1
  <2>2. CASE k > p
    <3>1. k - 1 \in 1 .. (n - 1) /\ ~(k - 1 < p) /\ (k - 1) + 1 = k
      BY <1>1, <2>2
    <3> QED BY <1>1, <2>2, <3>1
  <2> QED BY <1>1, <1>3, <2>1, <2>2
<1>4. i # p /\ j # p /\ At(i) <= At(j)
  BY <1>1, <1>2
<1>5. /\ At(i) \in DOMAIN sessions' /\ sessions'[At(i)] = a
      /\ At(j) \in DOMAIN sessions' /\ sessions'[At(j)] = b
  BY <1>1, <1>2, <1>3, <1>4
<1> HIDE DEF At
<1> QED BY <1>4, <1>5 DEF NotAfter
-----------------------------------------------------------------------------
(* The C stack of an orderly program.                                      *)

(* Where the program is, told by the number of frames.                     *)
LEMMA OrderlyShape ==
  ASSUME Types, StackOrderly
  PROVE  /\ Len(stack) \in {0, 1, 2}
         /\ DOMAIN stack = 1 .. Len(stack)
         /\ stack = <<>> <=> Len(stack) = 0
         /\ InCallback => CallingBack
         /\ \A at : InPump(at) => Len(stack) = 1
         /\ Len(stack) = 1 => Top = stack[1]
         /\ CallingBack => Top = stack[2]
         /\ Pumping => stack[1] \in Frame
         /\ CallingBack => stack[2] \in Frame
<1>1. /\ Len(stack) \in {0, 1, 2}
      /\ DOMAIN stack = 1 .. Len(stack)
      /\ \A i \in 1 .. Len(stack) : stack[i] \in Frame
  <2>1. Len(stack) \in Nat
    BY StackTypes
  <2>2. Len(stack) <= 2
    BY Zenon DEF StackOrderly
  <2>3. ASSUME NEW m \in Nat, m <= 2
        PROVE  m \in {0, 1, 2}
    BY <2>3
  <2>4. Len(stack) \in {0, 1, 2}
    BY <2>1, <2>2, <2>3
  <2> QED BY <2>4, LenProperties, ElementOfSeq DEF Types
<1>2. stack = <<>> <=> Len(stack) = 0
  BY <1>1, EmptySeq DEF Types
<1>3. /\ Len(stack) = 1 => Top = stack[1]
      /\ CallingBack => Top = stack[2]
  BY DEF Top, CallingBack
<1>4. \A at : InPump(at) => Len(stack) = 1
  <2>1. ASSUME NEW at, InPump(at), Len(stack) = 2
        PROVE  FALSE
    BY <1>3, <2>1 DEF InPump, StackOrderly, CallingBack, PumpFn
  <2> QED BY <1>1, <1>2, <2>1 DEF InPump
<1>5. InCallback => CallingBack
  <2>1. ASSUME InCallback, Len(stack) = 1
        PROVE  FALSE
    BY <1>3, <2>1 DEF InCallback, IsUserCallback, StackOrderly, Pumping, PumpFn
  <2> QED BY <1>1, <1>2, <2>1 DEF InCallback, CallingBack
<1> QED BY <1>1, <1>2, <1>3, <1>4, <1>5 DEF Pumping, CallingBack

(* The stacks a step leaves.                                               *)
LEMMA OrderlyMoves ==
  ASSUME Types, StackOrderly
  PROVE  /\ \A f \in Frame : stack' = Append(stack, f) =>
              /\ Len(stack') = Len(stack) + 1
              /\ stack'[Len(stack) + 1] = f
              /\ \A i \in 1 .. Len(stack) : stack'[i] = stack[i]
         /\ stack # <<>> =>
              /\ stack' = Popped =>
                   /\ Len(stack') = Len(stack) - 1
                   /\ \A i \in 1 .. (Len(stack) - 1) : stack'[i] = stack[i]
              /\ \A f \in Frame : stack' = Retop(f) =>
                   /\ Len(stack') = Len(stack)
                   /\ \A i \in 1 .. Len(stack) :
                        stack'[i] = IF i = Len(stack) THEN f ELSE stack[i]
              /\ \A f, g \in Frame : stack' = Append(Retop(f), g) /\ Len(stack) = 1 =>
                   Len(stack') = 2 /\ stack'[1] = f /\ stack'[2] = g
<1> DEFINE n == Len(stack)
<1>1. n \in Nat /\ stack \in Seq(Frame)
  BY StackTypes DEF Types
<1>2. ASSUME NEW f \in Frame, stack' = Append(stack, f)
      PROVE  /\ Len(stack') = n + 1
             /\ stack'[n + 1] = f
             /\ \A i \in 1 .. n : stack'[i] = stack[i]
  BY <1>1, <1>2, AppendProperties
<1>3. ASSUME stack # <<>>, stack' = Popped
      PROVE  /\ Len(stack') = n - 1
             /\ \A i \in 1 .. (n - 1) : stack'[i] = stack[i]
  <2> DEFINE m == n - 1
  <2>1. n \in Nat /\ n \in 1 .. n /\ m \in Nat /\ m = n - 1
    <3>1. n \in Nat /\ n \in 1 .. n
      BY <1>3, StackTypes
    <3> HIDE DEF n
    <3> QED BY <3>1
  <2> HIDE DEF n, m
  <2>2. \A i \in 1 .. m : stack[i] \in Frame
    <3>1. \A i \in 1 .. m : i \in 1 .. n
      BY <2>1
    <3> QED BY <1>1, <3>1, ElementOfSeq DEF n
  <2>3. stack' = SubSeq(stack, 1, m)
    BY <1>3 DEF Popped, m, n
  <2>4. Len(stack') = m /\ \A i \in 1 .. m : stack'[i] = stack[i]
    <3>1. /\ m \in Int /\ (IF 1 <= m THEN m - 1 + 1 ELSE 0) = m
          /\ m - 1 + 1 = m
          /\ \A i \in 1 .. m : 1 + i - 1 = i
      BY <2>1
    <3>2. /\ Len(SubSeq(stack, 1, m)) = IF 1 <= m THEN m - 1 + 1 ELSE 0
          /\ \A i \in 1 .. (m - 1 + 1) : SubSeq(stack, 1, m)[i] = stack[1 + i - 1]
      BY <2>2, <3>1, SubSeqProperties
    <3> QED BY <2>3, <3>1, <3>2
  <2> QED BY <2>1, <2>4
<1>4. ASSUME stack # <<>>, NEW f \in Frame
      PROVE  /\ Retop(f) \in Seq(Frame)
             /\ Len(Retop(f)) = n
             /\ \A i \in 1 .. n : Retop(f)[i] = IF i = n THEN f ELSE stack[i]
  <2>1. n \in 1 .. n
    BY <1>4, StackTypes
  <2> QED BY <1>1, <2>1, ExceptSeq DEF Retop
<1>5. ASSUME stack # <<>>, n = 1, NEW f \in Frame, NEW g \in Frame,
             stack' = Append(Retop(f), g)
      PROVE  Len(stack') = 2 /\ stack'[1] = f /\ stack'[2] = g
  <2>1. PICK q \in Seq(Frame) : /\ stack' = Append(q, g)
                                /\ Len(q) = n
                                /\ \A i \in 1 .. n : q[i] = IF i = n THEN f ELSE stack[i]
    BY <1>4, <1>5
  <2>2. q[1] = f
    BY <1>5, <2>1
  <2> QED BY <1>5, <2>1, <2>2, AppendProperties
<1> QED BY <1>2, <1>3, <1>4, <1>5

(* The pump and what it waits for stay as they are.                        *)
SameWait ==
  /\ Pumping' <=> Pumping
  /\ Pumping => /\ stack'[1].fn = stack[1].fn
                /\ stack'[1].s = stack[1].s
                /\ stack'[1].r = stack[1].r

(* A step that leaves the wait, its session and the flags as they are      *)
(* keeps WaitOrderly.                                                      *)
LEMMA WaitKept ==
  ASSUME WaitOrderly, SameWait, sync_reqs' = sync_reqs,
         \A s \in Session : synch'[s].synch_req <=> synch[s].synch_req,
         SynchWaits => stack[1].s \in Listed',
         Allocated \subseteq Allocated' \/ ~Pumping
  PROVE  WaitOrderly'
<1>1. SynchWaits' <=> SynchWaits
  BY DEF SameWait, SynchWaits
<1>2. SynchWaits => Pumping
  BY DEF SynchWaits
<1>3. \A s \in Session : synch'[s].synch_req <=> SynchWaits' /\ stack'[1].s = s
  BY <1>1, <1>2 DEF WaitOrderly, SameWait
<1>4. sync_reqs' = IF SynchWaits' THEN 1 ELSE 0
  BY <1>1 DEF WaitOrderly
<1>5. SynchWaits' => stack'[1].s \in Listed'
  BY <1>1, <1>2 DEF SameWait
<1>6. (Pumping /\ stack[1].fn = "wait")' => stack'[1].s \in Allocated'
  BY DEF WaitOrderly, SameWait
<1> QED BY <1>3, <1>4, <1>5, <1>6 DEF WaitOrderly
-----------------------------------------------------------------------------
(* OrderlyInv is inductive: what Lua code does.                            *)

(* Lua runs in the main program, or in a callback on top of a pump, where  *)
(* it may open, close and send asynchronously.                             *)
LEMMA LuaRuns ==
  ASSUME Types, StackOrderly, Orderly
  PROVE  /\ \A op : MayCall(op) =>
              \/ stack = <<>>
              \/ CallingBack /\ IsUserCallback(stack[2])
         /\ \A op : MayCall(op) /\ op \notin {"open", "close", "asynch"} =>
              Len(stack) = 0 /\ ~Pumping /\ ~CallingBack
         /\ ~LuaError
<1>1. \A op : MayCall(op) =>
        \/ stack = <<>>
        \/ CallingBack /\ IsUserCallback(stack[2]) /\ op \in CallbackOps
  BY OrderlyShape DEF MayCall, InCallback
<1>2. ASSUME NEW op, MayCall(op), op \notin {"open", "close", "asynch"}
      PROVE  Len(stack) = 0 /\ ~Pumping /\ ~CallingBack
  <2>1. stack = <<>>
    BY <1>1, <1>2 DEF Orderly
  <2>2. Len(stack) = 0
    BY <2>1, OrderlyShape
  <2> QED BY <2>2 DEF Pumping, CallingBack
<1>3. ~LuaError
  BY <1>2, OrderlyShape DEF LuaError, InCallback
<1> QED BY <1>1, <1>2, <1>3

(* A trap loop whose callback opens or closes sessions keeps its place:    *)
(* what it goes on to stays in the list, and so does what follows it.      *)
LEMMA TrapKept ==
  ASSUME TrapOrderly, UNCHANGED stack,
         CallingBack => IsUserCallback(stack[2]),
         CallingBack => Allocated \subseteq Allocated',
         CallingBack /\ stack[2].fn = "trap" /\ stack[2].nxt \in Listed =>
           stack[2].nxt \in Listed',
         \A t \in Allocated \cap Listed' : t \in Listed /\ cbs'[t] = cbs[t],
         \A a, b \in Listed' : NotAfter(a, b) => NotAfter(a, b)'
  PROVE  TrapOrderly'
<1> SUFFICES ASSUME CallingBack, stack[2].fn = "trap"
             PROVE  TrapOrderly'
  BY DEF TrapOrderly, CallingBack
<1> DEFINE f == stack[2]
<1>1. /\ f.at = "call"
      /\ f.nxt \in Listed \cup {None}
      /\ f.due \subseteq Allocated
      /\ \A t \in f.due \cap Listed :
           "trapcb" \in cbs[t] /\ f.nxt # None /\ NotAfter(f.nxt, t)
  BY DEF TrapOrderly, IsUserCallback
<1>2. f.nxt \in Listed' \cup {None} /\ f.due \subseteq Allocated'
  BY <1>1
<1>3. ASSUME NEW t \in f.due \cap Listed'
      PROVE  "trapcb" \in cbs'[t] /\ f.nxt # None /\ NotAfter(f.nxt, t)'
  <2>1. t \in Listed /\ cbs'[t] = cbs[t]
    BY <1>1
  <2>2. "trapcb" \in cbs[t] /\ f.nxt # None /\ NotAfter(f.nxt, t)
    BY <1>1, <2>1
  <2>3. f.nxt \in Listed' /\ t \in Listed'
    BY <1>2, <2>2
  <2> QED BY <2>1, <2>2, <2>3
<1> QED BY <1>1, <1>2, <1>3 DEF TrapOrderly

(* A session opened from a callback goes to the head of the list, before   *)
(* everything a trap loop has still to reach.                              *)
LEMMA OrderlyOpen ==
  ASSUME Types, EngineInv, OrderlyInv, Orderly,
         NEW s \in Session, NEW kinds \in SUBSET CbKinds, Open(s, kinds)
  PROVE  OrderlyInv'
<1> USE DEF OrderlyInv
<1>1. /\ Listed' = Listed \cup {s}
      /\ s \notin Allocated
      /\ Allocated \subseteq Allocated'
      /\ UNCHANGED <<stack, sync_reqs, in_usr_cback, lib>>
      /\ cmu \subseteq cmu'
      /\ Listed \subseteq Session
  BY OpenList, ListTypes, ZenonT(30) DEF Open, cbVars, Allocated
<1>2. StackOrderly'
  BY <1>1, Zenon DEF StackOrderly, Pumping, CallingBack
<1>3. WaitOrderly'
  <2>1. ~synch[s].synch_req
    BY <1>1 DEF WaitOrderly, Allocated
  <2>2. \A t \in Session : synch'[t] = IF t = s THEN Blank ELSE synch[t]
    BY DEF Open, Types
  <2>3. \A t \in Session : synch'[t].synch_req <=> synch[t].synch_req
    BY <2>1, <2>2 DEF Blank
  <2>4. SameWait
    BY <1>1 DEF SameWait, Pumping
  <2> QED BY <1>1, <2>3, <2>4, WaitKept DEF WaitOrderly
<1>4. CallOrderly'
  BY <1>1 DEF CallOrderly, CallingBack
<1>5. TrapOrderly'
  <2>1. CallingBack => IsUserCallback(stack[2])
    BY LuaRuns, OrderlyShape DEF Open, CallingBack
  <2>2. \A t \in Allocated \cap Listed' : t \in Listed /\ cbs'[t] = cbs[t]
    BY <1>1 DEF Open, Types
  <2>3. \A a, b \in Listed' : NotAfter(a, b) => NotAfter(a, b)'
    BY OpenOrder
  <2> QED BY <1>1, <2>1, <2>2, <2>3, TrapKept
<1> QED BY <1>2, <1>3, <1>4, <1>5

(* A session closed from a callback is neither the one waited for nor the  *)
(* one a trap loop goes on to, and its block and its library session stay. *)
LEMMA OrderlyClose ==
  ASSUME Types, EngineInv, OrderlyInv, Orderly, NEW s \in Session, Close(s)
  PROVE  OrderlyInv'
<1> USE DEF OrderlyInv
<1>1. /\ s \in Listed
      /\ sessions' = Unlinked(s)
      /\ UNCHANGED <<stack, sync_reqs, in_usr_cback>>
  BY DEF Close
<1>2. Listed' = Listed \ {s}
  <2> DEFINE u == Unlinked(s)
  <2>1. {u[i] : i \in DOMAIN u} = Listed \ {s}
    BY <1>1, UnlinkedProperties DEF EngineInv
  <2>2. sessions' = u
    BY <1>1
  <2> HIDE DEF u
  <2> QED BY <2>1, <2>2 DEF Listed
<1>3. StackOrderly'
  BY <1>1, Zenon DEF StackOrderly, Pumping, CallingBack
<1>4. CASE stack = <<>>
  <2>1. ~Pumping /\ ~CallingBack
    BY <1>4, OrderlyShape DEF Pumping, CallingBack
  <2>2. SameWait /\ ~CallingBack'
    BY <1>1, <2>1 DEF SameWait, Pumping, CallingBack
  <2>3. \A t \in Session : synch'[t].synch_req <=> synch[t].synch_req
    <3>1. \A t \in Session : ~synch[t].synch_req
      BY <2>1 DEF WaitOrderly, SynchWaits
    <3>2. \A t \in Session : synch'[t] \in {synch[t], Blank}
      BY DEF Close, FreeReqs, TrapUnref, DeferClose, CloseNow, Types
    <3> QED BY <3>1, <3>2 DEF Blank
  <2>4. WaitOrderly'
    BY <1>1, <2>1, <2>2, <2>3, WaitKept DEF SynchWaits
  <2> QED BY <1>3, <2>2, <2>4 DEF CallOrderly, TrapOrderly
<1>5. CASE stack # <<>>
  <2>1. CallingBack /\ IsUserCallback(stack[2]) /\ in_usr_cback
    BY <1>5, LuaRuns DEF Close, StackOrderly
  <2>2. ~InUse(s)
    <3>1. MayCall(IF InUse(s) THEN "close_busy" ELSE "close")
      BY DEF Close
    <3> QED BY <2>1, <3>1, LuaRuns
  <2>3. /\ leaked' = leaked \cup {s}
        /\ UNCHANGED <<cbs, synch, cmu, lib>>
    BY <2>1 DEF Close, FreeReqs, TrapUnref, DeferClose
  <2>4. Allocated' = Allocated
    BY <1>1, <1>2, <2>3 DEF Allocated
  <2>5. WaitOrderly'
    <3>1. SynchWaits => stack[1].s \in Listed'
      BY <1>2, <2>2, ListTypes DEF WaitOrderly, InUse
    <3>2. SameWait
      BY <1>1 DEF SameWait, Pumping
    <3> QED BY <1>1, <2>3, <2>4, <3>1, <3>2, WaitKept
  <2>6. CallOrderly'
    BY <1>1, <2>3 DEF CallOrderly, CallingBack
  <2>7. TrapOrderly'
    <3>1. stack[2].fn = "trap" => stack[2].nxt # s
      <4>1. 2 \in DOMAIN stack
        BY <2>1, OrderlyShape DEF CallingBack
      <4> QED BY <2>2, <4>1 DEF InUse
    <3>2. \A a, b \in Listed' : NotAfter(a, b) => NotAfter(a, b)'
      BY <1>1, <1>2, CloseOrder
    <3> QED BY <1>1, <1>2, <2>1, <2>3, <2>4, <3>1, <3>2, TrapKept
  <2> QED BY <1>3, <2>5, <2>6, <2>7
<1> QED BY <1>4, <1>5

(* Sending asynchronously touches nothing OrderlyInv speaks of but adds to *)
(* what the library holds.                                                 *)
LEMMA OrderlyAsynch ==
  ASSUME Types, EngineInv, OrderlyInv, Orderly,
         NEW s \in Session, NEW r \in ReqId, AsynchReq(s, r)
  PROVE  OrderlyInv'
<1> USE DEF OrderlyInv, listVars, syncVars, cbVars
<1>1. /\ UNCHANGED <<listVars, syncVars, in_usr_cback, cmu, stack>>
      /\ lib \subseteq lib'
  BY DEF AsynchReq, Send
<1>2. UNCHANGED <<Listed, Allocated, Pumping, CallingBack>>
  BY <1>1 DEF Listed, Allocated, Pumping, CallingBack
<1>3. StackOrderly'
  BY <1>1, <1>2, Zenon DEF StackOrderly
<1>4. WaitOrderly'
  BY <1>1, <1>2, WaitKept DEF SameWait, WaitOrderly
<1>5. CallOrderly'
  BY <1>1, <1>2 DEF CallOrderly
<1>6. TrapOrderly'
  BY <1>1, <1>2 DEF TrapOrderly, NotAfter
<1> QED BY <1>3, <1>4, <1>5, <1>6

(* A pump that starts is the only frame.                                   *)
LEMMA OrderlyPump ==
  ASSUME Types, OrderlyInv, Len(stack) = 0,
         NEW f \in Frame, f.fn \in PumpFn, stack' = Append(stack, f),
         UNCHANGED <<listVars, in_usr_cback>>
  PROVE  /\ Len(stack') = 1
         /\ stack'[1] = f
         /\ Pumping'
         /\ StackOrderly' /\ CallOrderly' /\ TrapOrderly'
         /\ UNCHANGED <<Listed, Allocated>>
<1> USE DEF OrderlyInv
<1>1. Len(stack') = 1 /\ stack'[1] = f
  BY OrderlyMoves
<1>2. Pumping' /\ ~CallingBack' /\ ~in_usr_cback'
  <2>1. ~in_usr_cback
    BY DEF StackOrderly, CallingBack
  <2> QED BY <1>1, <2>1 DEF Pumping, CallingBack
<1>3. StackOrderly'
  <2>1. Len(stack') <= 2 /\ stack'[1].fn \in PumpFn
    BY <1>1
  <2> QED BY <1>2, <2>1 DEF StackOrderly
<1>4. CallOrderly' /\ TrapOrderly'
  BY <1>2 DEF CallOrderly, TrapOrderly
<1> QED BY <1>1, <1>2, <1>3, <1>4 DEF listVars, Listed, Allocated

(* A synchronous request starts: the one that is waited for.               *)
LEMMA OrderlySynch ==
  ASSUME Types, EngineInv, OrderlyInv, Orderly,
         NEW s \in Session, NEW r \in ReqId, SynchReq(s, r)
  PROVE  OrderlyInv'
<1> DEFINE f == NewFrame("synch_req", "net", s, r)
<1>1. Len(stack) = 0 /\ ~Pumping
  <2>1. MayCall(IF InUse(s) THEN "synch_busy" ELSE "synch")
    BY DEF SynchReq
  <2> QED BY <2>1, LuaRuns DEF OrderlyInv
<1>2. f \in Frame /\ f.fn = "synch_req" /\ f.s = s
  BY NewFrameType DEF FrameAt, PumpFn, NewFrame
<1>3. /\ Len(stack') = 1
      /\ stack'[1] = f
      /\ Pumping'
      /\ StackOrderly' /\ CallOrderly' /\ TrapOrderly'
      /\ UNCHANGED <<Listed, Allocated>>
  <2>1. stack' = Append(stack, f) /\ UNCHANGED <<listVars, in_usr_cback>>
    BY DEF SynchReq, cbVars
  <2>2. f.fn \in PumpFn
    BY <1>2 DEF PumpFn
  <2> HIDE DEF f
  <2> QED BY <1>1, <1>2, <2>1, <2>2, OrderlyPump
<1> HIDE DEF f
<1>4. SynchWaits' /\ stack'[1].s = s /\ s \in Listed'
  BY <1>2, <1>3 DEF SynchWaits, SynchReq, Send
<1>5. \A t \in Session : synch'[t].synch_req <=> t = s
  <2>1. \A t \in Session : ~synch[t].synch_req
    BY <1>1 DEF OrderlyInv, WaitOrderly, SynchWaits
  <2>2. \A t \in Session \ {s} : synch'[t] = synch[t]
    BY DEF SynchReq, Types
  <2>3. synch'[s].synch_req
    BY DEF SynchReq, Types, SynchState
  <2> QED BY <2>1, <2>2, <2>3
<1>6. sync_reqs' = 1
  <2>1. sync_reqs = 0
    BY <1>1 DEF OrderlyInv, WaitOrderly, SynchWaits
  <2> QED BY <2>1 DEF SynchReq
<1>7. WaitOrderly'
  <2>1. stack'[1].fn # "wait"
    BY <1>2, <1>3
  <2> QED BY <1>4, <1>5, <1>6, <2>1 DEF WaitOrderly
<1> QED BY <1>3, <1>7 DEF OrderlyInv

(* wait(), loop() and event() start with nothing else on the stack.        *)
LEMMA OrderlyStart ==
  ASSUME Types, EngineInv, OrderlyInv, Orderly,
         NEW fn \in PumpFn \ {"synch_req"}, NEW s \in Session \cup {None},
         StartPump(fn, s), Len(stack) = 0, fn = "wait" => s \in Listed
  PROVE  OrderlyInv'
<1> DEFINE f == NewFrame(fn, EventStart, s, None)
<1>1. f \in Frame /\ f.fn = fn /\ f.s = s
  BY NewFrameType DEF EventStart, FrameAt, NewFrame
<1>2. /\ stack' = Append(stack, f)
      /\ UNCHANGED <<listVars, synch, sync_reqs, in_usr_cback>>
  BY DEF StartPump, cbVars, syncVars
<1> HIDE DEF f
<1>3. /\ Len(stack') = 1
      /\ stack'[1] = f
      /\ Pumping'
      /\ StackOrderly' /\ CallOrderly' /\ TrapOrderly'
      /\ UNCHANGED <<Listed, Allocated>>
  BY <1>1, <1>2, OrderlyPump
<1>4. ~SynchWaits' /\ ~SynchWaits
  BY <1>1, <1>3 DEF SynchWaits, Pumping
<1>5. WaitOrderly'
  <2>1. /\ \A t \in Session : ~synch'[t].synch_req
        /\ sync_reqs' = 0
    BY <1>2, <1>4 DEF OrderlyInv, WaitOrderly
  <2>2. stack'[1].fn = "wait" => stack'[1].s \in Allocated'
    BY <1>1, <1>3 DEF Allocated
  <2> QED BY <1>4, <2>1, <2>2 DEF WaitOrderly
<1> QED BY <1>3, <1>5 DEF OrderlyInv

(* OrderlyInv survives what Lua code does.                                 *)
LEMMA OrderlyClient ==
  ASSUME Types, EngineInv, OrderlyInv, Orderly, Client
  PROVE  OrderlyInv'
<1>1. ~LuaError /\ \A op \in {"wait", "loop", "event"} : MayCall(op) => Len(stack) = 0
  BY LuaRuns DEF OrderlyInv
<1>2. ASSUME NEW s \in Session, Wait(s)
      PROVE  OrderlyInv'
  BY <1>1, <1>2, OrderlyStart DEF Wait, PumpFn
<1>3. CASE EventLoop \/ Event
  BY <1>1, <1>3, OrderlyStart DEF EventLoop, Event, PumpFn
<1>4. ASSUME NEW s \in Session, NEW kinds \in SUBSET CbKinds, OpenFails(s, kinds)
      PROVE  OrderlyInv'
  <2>1. UNCHANGED <<sessions, cbs, leaked, synch, sync_reqs, in_usr_cback, cmu, lib,
                    stack, Pumping, CallingBack, SynchWaits, Listed, Allocated>>
    BY <1>4
    DEF OpenFails, syncVars, cbVars, libVars, Pumping, CallingBack, SynchWaits,
        Listed, Allocated
  <2>2. StackOrderly'
    BY <2>1, Zenon DEF OrderlyInv, StackOrderly
  <2> QED
    BY <2>1, <2>2
    DEF OrderlyInv, WaitOrderly, CallOrderly, TrapOrderly, NotAfter
<1> QED
  BY <1>1, <1>2, <1>3, <1>4, OrderlyOpen, OrderlyClose, OrderlyAsynch, OrderlySynch
  DEF Client
-----------------------------------------------------------------------------
(* OrderlyInv is inductive: what the library does.                         *)

(* A response to the request waited for, or to nobody, arrives.            *)
LEMMA OrderlySynchIn ==
  ASSUME Types, EngineInv, OrderlyInv,
         NEW s \in Session, NEW r \in ReqId, NEW o \in Outcome,
         DeliverSynch(s, r, o) \/ DeliverUnknown(s, r, o)
  PROVE  OrderlyInv'
<1> USE DEF OrderlyInv
<1>1. Len(stack) = 1 /\ ~CallingBack /\ ~in_usr_cback
  BY OrderlyShape DEF DeliverSynch, DeliverUnknown, Calls, CallingBack, StackOrderly
<1>2. UNCHANGED <<sessions, leaked, sync_reqs, stack>> /\ ~in_usr_cback'
  <2>1. CASE DeliverSynch(s, r, o)
    BY <1>1, <2>1 DEF DeliverSynch, listVars, cbVars
  <2>2. CASE DeliverUnknown(s, r, o)
    <3>1. in_usr_cback' = (in_usr_cback /\ s \notin Listed)
      BY <2>2 DEF DeliverUnknown
    <3>2. ~in_usr_cback'
      BY <1>1, <3>1, Zenon
    <3> QED BY <2>2, <3>2 DEF DeliverUnknown, listVars, syncVars
  <2> QED BY <2>1, <2>2
<1>3. UNCHANGED <<Pumping, CallingBack, Listed, Allocated>>
  BY <1>2 DEF Pumping, CallingBack, Listed, Allocated
<1>4. StackOrderly'
  BY <1>1, <1>2, <1>3, Zenon DEF StackOrderly
<1>5. \A t \in Session : synch'[t].synch_req <=> synch[t].synch_req
  <2>1. CASE DeliverSynch(s, r, o)
    BY <2>1 DEF DeliverSynch, SynchInput, Types, SynchState
  <2>2. CASE DeliverUnknown(s, r, o)
    BY <2>2 DEF DeliverUnknown, syncVars
  <2> QED BY <2>1, <2>2
<1>6. WaitOrderly'
  BY <1>2, <1>3, <1>5, WaitKept DEF SameWait, WaitOrderly
<1> QED BY <1>1, <1>3, <1>4, <1>6 DEF CallOrderly, TrapOrderly

(* A callback starts, for a session and a request the library holds.       *)
LEMMA OrderlyAsynchRsp ==
  ASSUME Types, EngineInv, OrderlyInv,
         NEW s \in Session, NEW r \in ReqId, NEW o \in Outcome,
         DeliverAsynch(s, r, o)
  PROVE  OrderlyInv'
<1> USE DEF OrderlyInv
<1>1. Len(stack) = 1 /\ Pumping
  BY OrderlyShape DEF DeliverAsynch, Calls, Pumping
<1>2. PICK f \in Frame : /\ f.fn = "asynch_rsp" /\ f.s = s /\ f.r = r
                         /\ stack' = Append(stack, f)
  <2>1. NewFrame("asynch_rsp", IF o = "not_in_time" THEN "keep" ELSE "drop", s, r) \in Frame
    BY NewFrameType DEF FrameAt
  <2> QED BY <2>1 DEF DeliverAsynch, NewFrame
<1>3. Len(stack') = 2 /\ stack'[1] = stack[1] /\ stack'[2] = f
  BY <1>1, <1>2, OrderlyMoves
<1>4. /\ UNCHANGED <<sessions, leaked, sync_reqs, synch, cmu, lib>>
      /\ in_usr_cback'
  <2>1. in_usr_cback' = TRUE
    BY DEF DeliverAsynch
  <2>2. in_usr_cback'
    BY <2>1, Zenon
  <2> QED BY <2>2 DEF DeliverAsynch, listVars, syncVars, libVars
<1>5. UNCHANGED <<Listed, Allocated>> /\ Pumping' /\ CallingBack'
  BY <1>3, <1>4 DEF Pumping, CallingBack, Listed, Allocated
<1>6. StackOrderly'
  <2>1. /\ Len(stack') <= 2
        /\ stack'[1].fn \in PumpFn
        /\ stack'[2].fn \in {"asynch_rsp", "trap"}
    BY <1>1, <1>2, <1>3 DEF StackOrderly
  <2> QED BY <1>4, <1>5, <2>1, Zenon DEF StackOrderly
<1>7. WaitOrderly'
  BY <1>1, <1>3, <1>4, <1>5, WaitKept DEF SameWait, WaitOrderly
<1>8. CallOrderly'
  <2>1. s \in cmu /\ <<s, r>> \in lib
    BY DEF DeliverAsynch, Calls, EngineInv, LibrarySessionsOwned
  <2> QED BY <1>2, <1>3, <1>4, <2>1 DEF CallOrderly
<1>9. TrapOrderly'
  BY <1>2, <1>3 DEF TrapOrderly
<1> QED BY <1>6, <1>7, <1>8, <1>9

(* A trap starts at the head of the list: all it is to reach follows.      *)
LEMMA OrderlyTrapArrives ==
  ASSUME Types, EngineInv, OrderlyInv, TrapArrives
  PROVE  OrderlyInv'
<1> USE DEF OrderlyInv
<1> DEFINE d == {t \in Listed : "trapcb" \in cbs[t]}
           f == [Top EXCEPT !.at = "close"]
           g == [NewFrame("trap", "next", ListHead, None) EXCEPT !.due = d]
<1>1. Len(stack) = 1 /\ Pumping /\ stack # <<>> /\ Top = stack[1] /\ Top \in Frame
  BY OrderlyShape DEF TrapArrives, Pumping
<1>2. /\ f \in Frame
      /\ f.fn = stack[1].fn /\ f.s = stack[1].s /\ f.r = stack[1].r
  <2>1. f \in Frame
    BY <1>1, FrameUpdates DEF FrameAt
  <2>2. f.fn = Top.fn /\ f.s = Top.s /\ f.r = Top.r
    BY <1>1 DEF Frame
  <2> QED BY <1>1, <2>1, <2>2
<1>3. d \in SUBSET Session /\ ListHead \in Session \cup {None}
  BY ListTypes
<1>4. /\ g \in Frame
      /\ g.fn = "trap" /\ g.at = "next" /\ g.s = ListHead /\ g.nxt = None /\ g.due = d
  BY <1>3, NewFrameType DEF FrameAt, NewFrame
<1>5. stack' = Append(Retop(f), g)
  BY DEF TrapArrives
<1> HIDE DEF f, g
<1> PICK h \in Frame : h = g
  BY <1>4
<1>6. Len(stack') = 2 /\ stack'[1] = f /\ stack'[2] = h
  BY <1>1, <1>2, <1>4, <1>5, OrderlyMoves
<1>7. UNCHANGED <<sessions, leaked, cbs, sync_reqs, synch>> /\ in_usr_cback'
  <2>1. in_usr_cback' = TRUE
    BY DEF TrapArrives
  <2>2. in_usr_cback'
    BY <2>1, Zenon
  <2> QED BY <2>2 DEF TrapArrives, listVars, syncVars
<1>8. UNCHANGED <<Listed, Allocated>> /\ Pumping' /\ CallingBack'
  BY <1>6, <1>7 DEF Pumping, CallingBack, Listed, Allocated
<1>9. StackOrderly'
  <2>1. /\ Len(stack') <= 2
        /\ stack'[1].fn \in PumpFn
        /\ stack'[2].fn \in {"asynch_rsp", "trap"}
    BY <1>1, <1>2, <1>4, <1>6 DEF StackOrderly
  <2> QED BY <1>7, <1>8, <2>1, Zenon DEF StackOrderly
<1>10. WaitOrderly'
  BY <1>1, <1>2, <1>6, <1>7, <1>8, WaitKept DEF SameWait, WaitOrderly
<1>11. CallOrderly'
  BY <1>4, <1>6 DEF CallOrderly
<1>12. TrapOrderly'
  <2>1. h.s \in Listed' \cup {None} /\ h.due \subseteq Allocated'
    BY <1>4, <1>8, ListOrder DEF EngineInv, Allocated
  <2>2. ASSUME NEW t \in h.due \cap Listed'
        PROVE  "trapcb" \in cbs'[t] /\ h.s # None /\ NotAfter(h.s, t)'
    <3>1. t \in Listed /\ "trapcb" \in cbs[t]
      BY <1>4, <1>8
    <3>2. h.s # None /\ NotAfter(h.s, t)
      BY <1>4, <3>1, ListOrder DEF EngineInv
    <3> QED BY <1>7, <3>1, <3>2 DEF NotAfter
  <2> QED BY <1>4, <1>6, <2>1, <2>2 DEF TrapOrderly
<1> QED BY <1>9, <1>10, <1>11, <1>12

(* OrderlyInv survives what the library does.                              *)
LEMMA OrderlyLibrary ==
  ASSUME Types, EngineInv, OrderlyInv, Library
  PROVE  OrderlyInv'
BY OrderlySynchIn, OrderlyAsynchRsp, OrderlyTrapArrives DEF Library, Deliver
-----------------------------------------------------------------------------
(* OrderlyInv is inductive: what the engine does by itself.                *)

(* A callback that is over leaves the pump below it.                       *)
LEMMA OrderlyReturn ==
  ASSUME Types, EngineInv, OrderlyInv, AsynchReturn \/ TrapDone
  PROVE  OrderlyInv'
<1> USE DEF OrderlyInv
<1>1. /\ stack # <<>>
      /\ Top.fn \in {"asynch_rsp", "trap"}
      /\ stack' = Popped
      /\ in_usr_cback' = FALSE
      /\ UNCHANGED <<sessions, leaked, sync_reqs, synch>>
  BY DEF AsynchReturn, TrapDone, AtSession, listVars, syncVars
<1>2. Len(stack) = 2 /\ Pumping
  BY <1>1, OrderlyShape DEF StackOrderly, Pumping, PumpFn
<1>3. Len(stack') = 1 /\ stack'[1] = stack[1]
  BY <1>1, <1>2, OrderlyMoves
<1>4. UNCHANGED <<Listed, Allocated>> /\ Pumping' /\ ~CallingBack'
  BY <1>1, <1>3 DEF Pumping, CallingBack, Listed, Allocated
<1>5. StackOrderly'
  <2>1. Len(stack') <= 2 /\ stack'[1].fn \in PumpFn
    BY <1>2, <1>3 DEF StackOrderly
  <2> QED BY <1>1, <1>4, <2>1, Zenon DEF StackOrderly
<1>6. WaitOrderly'
  BY <1>1, <1>2, <1>3, <1>4, WaitKept DEF SameWait, WaitOrderly
<1> QED BY <1>4, <1>5, <1>6 DEF CallOrderly, TrapOrderly

(* A pump that goes on.                                                    *)
LEMMA OrderlyGoesOn ==
  ASSUME Types, EngineInv, OrderlyInv, SelectDone \/ EventAgain
  PROVE  OrderlyInv'
<1> USE DEF OrderlyInv
<1>1. /\ \E at : InPump(at)
      /\ \E at \in FrameAt : stack' = Retop([Top EXCEPT !.at = at])
      /\ UNCHANGED <<sessions, leaked, sync_reqs, synch, in_usr_cback>>
  BY DEF SelectDone, EventAgain, EventEnds, EventStart, FrameAt, listVars, syncVars, cbVars
<1>2. Len(stack) = 1 /\ Pumping /\ ~CallingBack /\ stack # <<>>
      /\ Top = stack[1] /\ Top \in Frame
  BY <1>1, OrderlyShape DEF Pumping, CallingBack
<1>3. PICK f \in Frame : /\ stack' = Retop(f)
                         /\ f.fn = stack[1].fn /\ f.s = stack[1].s /\ f.r = stack[1].r
  <2>1. PICK at \in FrameAt : stack' = Retop([Top EXCEPT !.at = at])
    BY <1>1
  <2>2. [Top EXCEPT !.at = at] \in Frame
    BY <1>2, FrameUpdates
  <2>3. /\ [Top EXCEPT !.at = at].fn = Top.fn
        /\ [Top EXCEPT !.at = at].s = Top.s
        /\ [Top EXCEPT !.at = at].r = Top.r
    BY <1>2 DEF Frame
  <2> QED BY <1>2, <2>1, <2>2, <2>3
<1>4. Len(stack') = 1 /\ stack'[1] = f
  BY <1>2, <1>3, OrderlyMoves
<1>5. UNCHANGED <<Listed, Allocated>> /\ Pumping' /\ ~CallingBack'
  BY <1>1, <1>4 DEF Pumping, CallingBack, Listed, Allocated
<1>6. StackOrderly'
  <2>1. Len(stack') <= 2 /\ stack'[1].fn \in PumpFn
    BY <1>2, <1>3, <1>4 DEF StackOrderly
  <2> QED BY <1>1, <1>2, <1>5, <2>1, Zenon DEF StackOrderly
<1>7. WaitOrderly'
  BY <1>1, <1>2, <1>3, <1>4, <1>5, WaitKept DEF SameWait, WaitOrderly
<1> QED BY <1>5, <1>6, <1>7 DEF CallOrderly, TrapOrderly

(* A pump that is over leaves an empty stack; the flag of a synchronous    *)
(* request is cleared, its count taken back.                               *)
LEMMA OrderlyEnds ==
  ASSUME Types, EngineInv, OrderlyInv, PumpReturn \/ SynchReturn
  PROVE  OrderlyInv'
<1> USE DEF OrderlyInv
<1>1. /\ \E at : InPump(at)
      /\ stack' = Popped
      /\ UNCHANGED <<sessions, leaked, in_usr_cback>>
  BY DEF PumpReturn, SynchReturn, EventEnds, listVars
<1>2. Len(stack) = 1 /\ Pumping /\ ~CallingBack /\ stack # <<>> /\ Top = stack[1]
  BY <1>1, OrderlyShape DEF Pumping, CallingBack
<1>3. Len(stack') = 0
  BY <1>1, <1>2, OrderlyMoves
<1>4. ~Pumping' /\ ~CallingBack' /\ ~SynchWaits'
  BY <1>3 DEF Pumping, CallingBack, SynchWaits
<1>5. StackOrderly'
  <2>1. Len(stack') <= 2
    BY <1>3
  <2> QED BY <1>1, <1>2, <1>4, <2>1, Zenon DEF StackOrderly
<1>6. sync_reqs' = 0 /\ \A s \in Session : ~synch'[s].synch_req
  <2>1. CASE PumpReturn
    <3>1. ~SynchWaits /\ UNCHANGED <<synch, sync_reqs>>
      BY <1>2, <2>1 DEF PumpReturn, SynchWaits, syncVars
    <3> QED BY <3>1 DEF WaitOrderly
  <2>2. CASE SynchReturn
    <3>1. SynchWaits /\ SynchOver(stack[1].s)
      BY <1>2, <2>2 DEF SynchReturn, SynchWaits
    <3>2. sync_reqs' = 0
      BY <3>1 DEF SynchOver, WaitOrderly
    <3>3. \A s \in Session : synch'[s].synch_req => synch[s].synch_req /\ s # stack[1].s
      BY <3>1 DEF SynchOver, Types, SynchState
    <3> QED BY <3>1, <3>2, <3>3 DEF WaitOrderly
  <2> QED BY <2>1, <2>2
<1>7. WaitOrderly'
  BY <1>4, <1>6 DEF WaitOrderly
<1> QED BY <1>4, <1>5, <1>7 DEF CallOrderly, TrapOrderly

(* Where a trap loop stands and goes on, as TrapOrderly has it.            *)
TrapPlace(f) ==
  LET on == IF f.at = "next" THEN f.s ELSE f.nxt
  IN /\ f.at \in {"next", "call"}
     /\ f.at = "next" => f.nxt = None
     /\ on \in Listed \cup {None}
     /\ f.due \subseteq Allocated
     /\ \A t \in f.due \cap Listed :
          "trapcb" \in cbs[t] /\ on # None /\ NotAfter(on, t)

(* A trap loop that moves to such a place keeps OrderlyInv.                *)
LEMMA OrderlyTrapMoves ==
  ASSUME Types, EngineInv, OrderlyInv, stack # <<>>, Top.fn = "trap",
         NEW f \in Frame, f.fn = "trap", TrapPlace(f), stack' = Retop(f),
         UNCHANGED <<listVars, syncVars, in_usr_cback>>
  PROVE  OrderlyInv'
<1> USE DEF OrderlyInv
<1>1. Len(stack) = 2 /\ Pumping
  BY OrderlyShape DEF StackOrderly, Pumping, PumpFn
<1>2. Len(stack') = 2 /\ stack'[1] = stack[1] /\ stack'[2] = f
  BY <1>1, OrderlyMoves
<1>3. UNCHANGED <<sessions, leaked, cbs, synch, sync_reqs>>
  BY DEF listVars, syncVars
<1>4. UNCHANGED <<Listed, Allocated, CallingBack>> /\ Pumping' /\ CallingBack
  BY <1>1, <1>2, <1>3 DEF Pumping, CallingBack, Listed, Allocated
<1>5. StackOrderly'
  <2>1. /\ Len(stack') <= 2
        /\ stack'[1].fn \in PumpFn
        /\ stack'[2].fn \in {"asynch_rsp", "trap"}
    BY <1>1, <1>2 DEF StackOrderly
  <2> QED BY <1>4, <2>1, Zenon DEF StackOrderly
<1>6. WaitOrderly'
  BY <1>1, <1>2, <1>3, <1>4, WaitKept DEF SameWait, WaitOrderly
<1>7. CallOrderly'
  BY <1>2 DEF CallOrderly
<1>8. TrapOrderly'
  BY <1>2, <1>3, <1>4 DEF TrapPlace, TrapOrderly, NotAfter
<1> QED BY <1>5, <1>6, <1>7, <1>8

(* The innermost frame of a trap loop, before a step of it.                *)
LEMMA TrapTop ==
  ASSUME Types, OrderlyInv, stack # <<>>, Top.fn = "trap"
  PROVE  Top \in Frame /\ TrapPlace(Top)
<1>1. CallingBack
  BY OrderlyShape DEF OrderlyInv, StackOrderly, Pumping, CallingBack, PumpFn
<1>2. Top = stack[2] /\ Top \in Frame
  BY <1>1, OrderlyShape DEF OrderlyInv
<1> QED BY <1>1, <1>2 DEF OrderlyInv, TrapOrderly, TrapPlace

(* What is still due follows the next session, once the one the loop       *)
(* stands at is not due any more.                                          *)
LEMMA DueFollows ==
  ASSUME Types, EngineInv, TrapPlace(Top), Top.at = "next", Top.s # None,
         NEW d \in SUBSET Top.due, Top.s \notin d \cap Listed
  PROVE  /\ Top.s \in Listed
         /\ NextOf(Top.s) \in Listed \cup {None}
         /\ d \subseteq Allocated
         /\ \A t \in d \cap Listed :
              /\ "trapcb" \in cbs[t]
              /\ NextOf(Top.s) # None
              /\ NotAfter(NextOf(Top.s), t)
<1>1. Top.s \in Listed /\ d \subseteq Allocated
  BY DEF TrapPlace
<1>2. \A t \in d \cap Listed :
        "trapcb" \in cbs[t] /\ NotAfter(Top.s, t) /\ t # Top.s
  BY DEF TrapPlace
<1> QED BY <1>1, <1>2, ListOrder DEF EngineInv

(* The loop passes a session without a trap callback, which is not due.    *)
LEMMA OrderlyTrapSkip ==
  ASSUME Types, EngineInv, OrderlyInv, TrapSkip
  PROVE  OrderlyInv'
<1> DEFINE n == NextOf(Top.s)
           f == [Top EXCEPT !.s = n]
<1>1. /\ stack # <<>> /\ Top.fn = "trap" /\ Top.at = "next" /\ Top.s # None
      /\ "trapcb" \notin cbs[Top.s]
      /\ stack' = Retop(f)
      /\ UNCHANGED <<listVars, syncVars, in_usr_cback>>
  BY DEF TrapSkip, AtSession, cbVars
<1>2. Top \in Frame /\ TrapPlace(Top)
  BY <1>1, TrapTop
<1>3. Top.s \in Listed /\ Top.s \notin Top.due \cap Listed
  BY <1>1, <1>2 DEF TrapPlace
<1>4. /\ n \in Listed \cup {None}
      /\ Top.due \subseteq Allocated
      /\ \A t \in Top.due \cap Listed : "trapcb" \in cbs[t] /\ n # None /\ NotAfter(n, t)
  BY <1>1, <1>2, <1>3, DueFollows
<1>5. Listed \subseteq Session
  BY ListTypes
<1> HIDE DEF n
<1>6. /\ f \in Frame
      /\ f.fn = Top.fn /\ f.at = Top.at /\ f.s = n /\ f.nxt = Top.nxt /\ f.due = Top.due
  BY <1>2, <1>4, <1>5 DEF Frame
<1> HIDE DEF f
<1>7. TrapPlace(f)
  BY <1>1, <1>2, <1>4, <1>6 DEF TrapPlace
<1> QED BY <1>1, <1>6, <1>7, OrderlyTrapMoves

(* The loop calls a session, which is not due any more.                    *)
LEMMA OrderlyTrapCall ==
  ASSUME Types, EngineInv, OrderlyInv, TrapCall
  PROVE  OrderlyInv'
<1> DEFINE n == NextOf(Top.s)
           d == Top.due \ {Top.s}
           f == [Top EXCEPT !.at = "call", !.nxt = n, !.due = d]
<1>1. /\ stack # <<>> /\ Top.fn = "trap" /\ Top.at = "next" /\ Top.s # None
      /\ stack' = Retop([Top EXCEPT !.at = "call", !.nxt = n, !.due = @ \ {Top.s}])
      /\ UNCHANGED <<listVars, syncVars, in_usr_cback>>
  BY DEF TrapCall, AtSession, cbVars
<1>2. Top \in Frame /\ TrapPlace(Top)
  BY <1>1, TrapTop
<1>3. stack' = Retop(f)
  BY <1>1
<1>4. /\ n \in Listed \cup {None}
      /\ d \subseteq Allocated
      /\ \A t \in d \cap Listed : "trapcb" \in cbs[t] /\ n # None /\ NotAfter(n, t)
  <2>1. d \in SUBSET Top.due /\ Top.s \notin d \cap Listed
    OBVIOUS
  <2> HIDE DEF d
  <2> QED BY <1>1, <1>2, <2>1, DueFollows
<1>5. Listed \subseteq Session /\ d \subseteq Session
  BY <1>2, ListTypes, FrameFields
<1> HIDE DEF n, d
<1>6. f \in Frame
  BY <1>2, <1>4, <1>5, FrameUpdates DEF FrameAt
<1>7. f.fn = Top.fn /\ f.at = "call" /\ f.nxt = n /\ f.due = d
  BY <1>2 DEF Frame
<1> HIDE DEF f
<1>8. TrapPlace(f)
  BY <1>4, <1>7 DEF TrapPlace
<1> QED BY <1>1, <1>3, <1>6, <1>7, <1>8, OrderlyTrapMoves

(* The loop goes on to the session it has saved.                           *)
LEMMA OrderlyTrapReturn ==
  ASSUME Types, EngineInv, OrderlyInv, TrapReturn
  PROVE  OrderlyInv'
<1> DEFINE f == [Top EXCEPT !.at = "next", !.s = Top.nxt, !.nxt = None]
<1>1. /\ stack # <<>> /\ Top.fn = "trap" /\ Top.at = "call"
      /\ stack' = Retop(f)
      /\ UNCHANGED <<listVars, syncVars, in_usr_cback>>
  BY DEF TrapReturn, cbVars
<1>2. Top \in Frame /\ TrapPlace(Top)
  BY <1>1, TrapTop
<1>3. f \in Frame
  BY <1>2, FrameFields, FrameUpdates DEF FrameAt
<1>4. f.fn = Top.fn /\ f.at = "next" /\ f.s = Top.nxt /\ f.nxt = None /\ f.due = Top.due
  BY <1>2 DEF Frame
<1> HIDE DEF f
<1>5. TrapPlace(f)
  BY <1>1, <1>2, <1>4 DEF TrapPlace
<1> QED BY <1>1, <1>3, <1>4, <1>5, OrderlyTrapMoves

(* A trap loop that stands at sessions of the list never calls nil.        *)
LEMMA NeverCallsNil ==
  ASSUME Types, EngineInv, OrderlyInv
  PROVE  ~TrapCallsNil
<1> SUFFICES ASSUME TrapCallsNil PROVE FALSE
  OBVIOUS
<1>1. /\ stack # <<>> /\ Top.fn = "trap" /\ Top.at = "next" /\ Top.s # None
      /\ "trapcb" \in cbs[Top.s] /\ <<Top.s, "trapcb">> \notin registry
  BY DEF TrapCallsNil, AtSession
<1>2. Top.s \in Listed
  BY <1>1, TrapTop DEF TrapPlace
<1> QED BY <1>1, <1>2 DEF EngineInv, RegistryServesSessions

(* OrderlyInv is inductive relative to Types and EngineInv.                *)
LEMMA OrderlyStep ==
  ASSUME Types, EngineInv, OrderlyInv, Orderly, [Next]_vars
  PROVE  OrderlyInv'
<1>1. CASE Engine
  BY <1>1, OrderlyReturn, OrderlyGoesOn, OrderlyEnds, OrderlyTrapSkip,
     OrderlyTrapCall, OrderlyTrapReturn, NeverCallsNil DEF Engine
<1>2. CASE UNCHANGED vars
  <2>1. UNCHANGED <<sessions, cbs, leaked, synch, sync_reqs, in_usr_cback, cmu, lib,
                    stack, Pumping, CallingBack, SynchWaits, Listed, Allocated>>
    BY <1>2
    DEF vars, listVars, syncVars, cbVars, libVars, Pumping, CallingBack, SynchWaits,
        Listed, Allocated
  <2>2. StackOrderly'
    BY <2>1, Zenon DEF OrderlyInv, StackOrderly
  <2> QED
    BY <2>1, <2>2
    DEF OrderlyInv, WaitOrderly, CallOrderly, TrapOrderly, NotAfter
<1> QED BY <1>1, <1>2, OrderlyClient, OrderlyLibrary DEF Next

(* The main program starts with an empty stack.                            *)
LEMMA OrderlyInit == Init => OrderlyInv
<1> SUFFICES ASSUME Init PROVE OrderlyInv
  OBVIOUS
<1>1. Len(stack) = 0 /\ ~in_usr_cback
  BY EmptySeq DEF Init
<1>2. ~Pumping /\ ~CallingBack
  BY <1>1 DEF Pumping, CallingBack
<1>3. StackOrderly
  <2>1. Len(stack) <= 2
    BY <1>1
  <2> QED BY <1>1, <1>2, <2>1, Zenon DEF StackOrderly
<1>4. WaitOrderly
  BY <1>2 DEF WaitOrderly, SynchWaits, Init, Blank
<1> QED BY <1>2, <1>3, <1>4 DEF OrderlyInv, CallOrderly, TrapOrderly
-----------------------------------------------------------------------------
(* The theorems.                                                           *)

(* Such a program has a pump and a callback on its stack at most, waits on  *)
(* sessions that are there, and its trap loops keep to the list.            *)
THEOREM StaysOrderly ==
  ASSUME Orderly
  PROVE  Spec => []OrderlyInv
<1>1. Types /\ EngineInv /\ OrderlyInv /\ [Next]_vars => OrderlyInv'
  BY OrderlyStep
<1> QED BY <1>1, OrderlyInit, InductiveInv, PTL DEF Spec

(* nm_in_usr_cback is right: a close from a callback is deferred, one from *)
(* the main program is not.                                                *)
THEOREM FlagIsRight ==
  ASSUME Orderly
  PROVE  Spec => []FlagTellsCallback
<1>1. Types /\ OrderlyInv => FlagTellsCallback
  <2> SUFFICES ASSUME Types, OrderlyInv PROVE FlagTellsCallback
    OBVIOUS
  <2> USE DEF OrderlyInv
  <2>1. ASSUME NEW i \in DOMAIN stack, stack[i].fn \in {"asynch_rsp", "trap"}
        PROVE  CallingBack
    BY <2>1, OrderlyShape DEF StackOrderly, Pumping, CallingBack, PumpFn
  <2>2. CallingBack => \E i \in DOMAIN stack : stack[i].fn \in {"asynch_rsp", "trap"}
    <3>1. CallingBack => 2 \in DOMAIN stack
      BY OrderlyShape DEF CallingBack
    <3> QED BY <3>1 DEF StackOrderly
  <2> QED BY <2>1, <2>2, Zenon DEF StackOrderly, FlagTellsCallback
<1> QED BY <1>1, StaysOrderly, InductiveInv, PTL

(* What a callback returns to is there: neither its session nor its        *)
(* request has been taken from the library while it ran.                   *)
THEOREM ReturnsToLibrary ==
  ASSUME Orderly
  PROVE  Spec => []CallbackReturnsToLibrary
<1>1. Types /\ OrderlyInv => CallbackReturnsToLibrary
  BY OrderlyShape
  DEF OrderlyInv, StackOrderly, CallOrderly, CallbackReturnsToLibrary, Calling,
      Pumping, CallingBack, PumpFn
<1> QED BY <1>1, StaysOrderly, InductiveInv, PTL

(* No wait loop reads a session that has been freed.                       *)
THEOREM WaitsOnAllocated ==
  ASSUME Orderly
  PROVE  Spec => []PumpSessionAllocated
<1>1. Types /\ OrderlyInv => PumpSessionAllocated
  <2> SUFFICES ASSUME Types, OrderlyInv, NEW i \in DOMAIN stack,
                      stack[i].fn \in {"synch_req", "wait"}
               PROVE  stack[i].s \in Allocated
    BY DEF PumpSessionAllocated
  <2>1. i = 1 /\ Pumping
    BY OrderlyShape DEF OrderlyInv, StackOrderly, Pumping, CallingBack
  <2> QED BY <2>1 DEF OrderlyInv, WaitOrderly, SynchWaits, Allocated
<1> QED BY <1>1, StaysOrderly, InductiveInv, PTL

(* nm_snmp_sync_reqs and the synch_req flags tell what is waited for.      *)
THEOREM CountsSynch ==
  ASSUME Orderly
  PROVE  Spec => []SynchCounted
<1>1. Types /\ OrderlyInv => SynchCounted
  <2> SUFFICES ASSUME Types, OrderlyInv PROVE SynchCounted
    OBVIOUS
  <2> DEFINE waits == {i \in DOMAIN stack : stack[i].fn = "synch_req"}
  <2>1. waits = IF SynchWaits THEN {1} ELSE {}
    <3>1. ASSUME NEW i \in waits
          PROVE  i = 1 /\ SynchWaits
      BY OrderlyShape
      DEF OrderlyInv, StackOrderly, SynchWaits, Pumping, CallingBack
    <3>2. SynchWaits => 1 \in waits
      BY OrderlyShape DEF OrderlyInv, SynchWaits, Pumping
    <3> QED BY <3>1, <3>2
  <2>2. sync_reqs = Cardinality(waits)
    BY <2>1, FS_EmptySet, FS_Singleton, ZenonT(30) DEF OrderlyInv, WaitOrderly
  <2>3. \A s \in Listed : synch[s].synch_req <=> \E i \in waits : stack[i].s = s
    <3> HIDE DEF waits
    <3>1. Listed \subseteq Session
      BY ListTypes
    <3> QED BY <2>1, <3>1 DEF OrderlyInv, WaitOrderly
  <2> QED BY <2>2, <2>3 DEF SynchCounted
<1> QED BY <1>1, StaysOrderly, InductiveInv, PTL

(* The trap loop never leaves the list, though its callbacks open and      *)
(* close sessions under it.                                                *)
THEOREM TrapLoopStays ==
  ASSUME Orderly
  PROVE  Spec => []TrapLoopInList
<1>1. Types /\ OrderlyInv => TrapLoopInList
  <2> SUFFICES ASSUME Types, OrderlyInv, NEW i \in DOMAIN stack, stack[i].fn = "trap"
               PROVE  /\ stack[i].at = "next" => stack[i].s \in Listed \cup {None}
                      /\ stack[i].nxt \in Listed \cup {None}
    BY DEF TrapLoopInList
  <2>1. i = 2 /\ CallingBack
    BY OrderlyShape DEF OrderlyInv, StackOrderly, Pumping, CallingBack, PumpFn
  <2> QED BY <2>1 DEF OrderlyInv, TrapOrderly
<1> QED BY <1>1, StaysOrderly, InductiveInv, PTL

(* A trap is delivered to every session that was open with a trap callback *)
(* when it arrived and has not been closed by another session's callback.  *)
THEOREM TrapDelivered ==
  ASSUME Orderly
  PROVE  Spec => []TrapReachesAll
<1>1. Types /\ OrderlyInv => TrapReachesAll
  <2> SUFFICES ASSUME Types, OrderlyInv, NEW i \in DOMAIN stack, stack[i].fn = "trap",
                      stack[i].at = "next", stack[i].s = None
               PROVE  stack[i].due \cap Listed = {}
    BY DEF TrapReachesAll
  <2>1. i = 2 /\ CallingBack
    BY OrderlyShape DEF OrderlyInv, StackOrderly, Pumping, CallingBack, PumpFn
  <2> QED BY <2>1 DEF OrderlyInv, TrapOrderly
<1> QED BY <1>1, StaysOrderly, InductiveInv, PTL
-----------------------------------------------------------------------------
(* A synchronous request's state is its own, as the only frame that can    *)
(* own one has it.                                                         *)
OwnState ==
  SynchWaits =>
    LET st == synch[stack[1].s]
    IN /\ st.reqid = stack[1].r
       /\ st.waiting \/ st.of = stack[1].r

(* A step that keeps the wait, its request and its state keeps OwnState.   *)
LEMMA OwnKept ==
  ASSUME OwnState, SynchWaits' => SynchWaits,
         SynchWaits' => /\ stack'[1].s = stack[1].s
                        /\ stack'[1].r = stack[1].r
                        /\ synch'[stack[1].s] = synch[stack[1].s]
  PROVE  OwnState'
<1> SUFFICES ASSUME SynchWaits' PROVE OwnState'
  BY DEF OwnState
<1> QED BY DEF OwnState

(* Steps that leave the stack and the state of the waiting session alone.  *)
LEMMA OwnFrame ==
  ASSUME OwnState, UNCHANGED stack,
         SynchWaits => synch'[stack[1].s] = synch[stack[1].s]
  PROVE  OwnState'
<1>1. SynchWaits' <=> SynchWaits
  BY DEF SynchWaits, Pumping
<1> QED BY <1>1, OwnKept

(* What Lua code does leaves the state of the waiting session alone.       *)
LEMMA OwnClient ==
  ASSUME Types, EngineInv, OrderlyInv, Orderly, OwnState, Client
  PROVE  OwnState'
<1> USE DEF listVars, reqVars, syncVars, trapVars, cbVars, libVars
<1>1. SynchWaits => stack[1].s \in Listed /\ synch[stack[1].s].synch_req
                    /\ stack # <<>>
  <2>1. Listed \subseteq Session
    BY ListTypes
  <2> QED BY <2>1, OrderlyShape DEF OrderlyInv, WaitOrderly, SynchWaits, Pumping
<1>2. ASSUME NEW s \in Session, NEW kinds \in SUBSET CbKinds, Open(s, kinds)
      PROVE  OwnState'
  <2>1. \A t \in Session \ {s} : synch'[t] = synch[t]
    BY <1>2 DEF Open, Types
  <2>2. s \notin Listed /\ Listed \subseteq Session
    BY <1>2, ListTypes DEF Open, Allocated
  <2> QED BY <1>1, <1>2, <2>1, <2>2, OwnFrame DEF Open
<1>3. ASSUME NEW s \in Session, Close(s)
      PROVE  OwnState'
  <2>1. stack' = stack
    BY <1>3 DEF Close
  <2>2. SynchWaits => s # stack[1].s
    <3>1. MayCall(IF InUse(s) THEN "close_busy" ELSE "close")
      BY <1>3 DEF Close
    <3>2. stack # <<>> => ~InUse(s)
      BY <3>1, LuaRuns, OrderlyShape DEF OrderlyInv
    <3> QED BY <1>1, <3>2 DEF InUse
  <2>3. \A t \in Session \ {s} : synch'[t] = synch[t]
    BY <1>3 DEF Close, FreeReqs, TrapUnref, DeferClose, CloseNow, Types
  <2>4. Listed \subseteq Session
    BY ListTypes
  <2> QED BY <1>1, <2>1, <2>2, <2>3, <2>4, OwnFrame
<1>4. ASSUME NEW s \in Session, NEW r \in ReqId, SynchReq(s, r)
      PROVE  OwnState'
  <2> DEFINE f == NewFrame("synch_req", "net", s, r)
  <2>1. Len(stack) = 0
    <3>1. MayCall(IF InUse(s) THEN "synch_busy" ELSE "synch")
      BY <1>4 DEF SynchReq
    <3> QED BY <3>1, LuaRuns DEF OrderlyInv
  <2>2. f \in Frame /\ f.s = s /\ f.r = r
    BY NewFrameType DEF FrameAt, PumpFn, NewFrame
  <2>3. stack' = Append(stack, f)
    BY <1>4 DEF SynchReq
  <2> HIDE DEF f
  <2>4. stack'[1].s = s /\ stack'[1].r = r
    BY <2>1, <2>2, <2>3, OrderlyMoves DEF OrderlyInv
  <2>5. synch'[s].reqid = r /\ synch'[s].waiting
    BY <1>4 DEF SynchReq, Types, SynchState
  <2> QED BY <2>4, <2>5 DEF OwnState
<1>5. ASSUME NEW fn \in PumpFn \ {"synch_req"}, NEW s \in Session \cup {None},
             StartPump(fn, s), Len(stack) = 0
      PROVE  OwnState'
  <2>1. PICK f \in Frame : f.fn = fn /\ stack' = Append(stack, f)
    <3>1. NewFrame(fn, EventStart, s, None) \in Frame
      BY NewFrameType DEF EventStart, FrameAt
    <3> QED BY <1>5, <3>1 DEF StartPump, NewFrame
  <2>2. stack'[1] = f
    BY <1>5, <2>1, OrderlyMoves DEF OrderlyInv
  <2> QED BY <2>1, <2>2 DEF OwnState, SynchWaits
<1>6. ~LuaError /\ \A op \in {"wait", "loop", "event"} : MayCall(op) => Len(stack) = 0
  BY LuaRuns DEF OrderlyInv
<1>7. ASSUME NEW s \in Session, NEW r \in ReqId, AsynchReq(s, r)
      PROVE  OwnState'
  BY <1>7, OwnFrame DEF AsynchReq
<1>8. ASSUME NEW s \in Session, NEW kinds \in SUBSET CbKinds, OpenFails(s, kinds)
      PROVE  OwnState'
  BY <1>8, OwnFrame DEF OpenFails
<1>9. CASE (\E s \in Session : Wait(s)) \/ EventLoop \/ Event
  BY <1>5, <1>6, <1>9 DEF Wait, EventLoop, Event, PumpFn
<1> QED BY <1>2, <1>3, <1>4, <1>6, <1>7, <1>8, <1>9 DEF Client

(* What ends the wait is what was sent for it, or a REPORT that does not   *)
(* end it.                                                                 *)
LEMMA OwnLibrary ==
  ASSUME Types, EngineInv, OrderlyInv, OwnState, NoReports, Library
  PROVE  OwnState'
<1> USE DEF listVars, reqVars, syncVars, trapVars, cbVars, libVars
<1>1. ASSUME NEW s \in Session, NEW r \in ReqId, NEW o \in Outcome,
             DeliverSynch(s, r, o)
      PROVE  OwnState'
  <2>1. SynchWaits /\ stack[1].s = s
    BY <1>1 DEF DeliverSynch, SynchTakes, OrderlyInv, WaitOrderly
  <2>2. r = synch[s].reqid \/ o = "not_in_time"
    BY <1>1 DEF DeliverSynch, SynchTakes, NoReports
  <2>3. /\ synch'[s].reqid = synch[s].reqid
        /\ synch'[s].of = r
        /\ o = "not_in_time" => synch'[s].waiting
        /\ stack' = stack
    <3>1. synch'[s] = [synch[s] EXCEPT !.waiting = (o = "not_in_time"), !.of = r]
      BY <1>1 DEF DeliverSynch, SynchInput, Types
    <3>2. synch[s] \in SynchState
      BY DEF Types
    <3> QED BY <1>1, <3>1, <3>2 DEF DeliverSynch, SynchState
  <2> QED BY <2>1, <2>2, <2>3 DEF OwnState
<1>2. ASSUME NEW s \in Session, NEW r \in ReqId, NEW o \in Outcome,
             DeliverUnknown(s, r, o)
      PROVE  OwnState'
  BY <1>2, OwnFrame DEF DeliverUnknown
<1>3. ASSUME NEW s \in Session, NEW r \in ReqId, NEW o \in Outcome,
             DeliverAsynch(s, r, o)
      PROVE  OwnState'
  <2>1. PICK f \in Frame : stack' = Append(stack, f)
    <3>1. NewFrame("asynch_rsp", IF o = "not_in_time" THEN "keep" ELSE "drop", s, r) \in Frame
      BY NewFrameType DEF FrameAt
    <3> QED BY <1>3, <3>1 DEF DeliverAsynch
  <2>2. Len(stack) = 1 /\ stack'[1] = stack[1]
    <3>1. Len(stack) = 1
      BY <1>3, OrderlyShape DEF OrderlyInv, DeliverAsynch, Calls
    <3> QED BY <2>1, <3>1, OrderlyMoves DEF OrderlyInv
  <2>3. SynchWaits' => SynchWaits
    BY <2>2 DEF SynchWaits, Pumping
  <2> QED BY <1>3, <2>2, <2>3, OwnKept DEF DeliverAsynch
<1>4. CASE TrapArrives
  <2>1. SameWait
    <3> DEFINE d == {t \in Listed : "trapcb" \in cbs[t]}
               f == [Top EXCEPT !.at = "close"]
               g == [NewFrame("trap", "next", ListHead, None) EXCEPT !.due = d]
    <3>1. Len(stack) = 1 /\ stack # <<>> /\ Top = stack[1] /\ Top \in Frame
      BY <1>4, OrderlyShape DEF TrapArrives, OrderlyInv, Pumping
    <3>2. f \in Frame
      BY <3>1, FrameUpdates DEF FrameAt
    <3>3. f.fn = Top.fn /\ f.s = Top.s /\ f.r = Top.r
      BY <3>1 DEF Frame
    <3>4. g \in Frame
      <4>1. d \in SUBSET Session /\ ListHead \in Session \cup {None}
        BY ListTypes
      <4> QED BY <4>1, NewFrameType DEF FrameAt
    <3>5. stack' = Append(Retop(f), g)
      BY <1>4 DEF TrapArrives
    <3> HIDE DEF f, g
    <3>6. Len(stack') = 2 /\ stack'[1] = f
      BY <3>1, <3>2, <3>4, <3>5, OrderlyMoves DEF OrderlyInv
    <3> QED BY <3>1, <3>3, <3>6 DEF SameWait, Pumping
  <2> QED BY <1>4, <2>1, OwnKept DEF TrapArrives, SameWait, SynchWaits
<1> QED BY <1>1, <1>2, <1>3, <1>4 DEF Library, Deliver

(* So does what the engine does by itself.                                 *)
LEMMA OwnEngine ==
  ASSUME Types, EngineInv, OrderlyInv, OwnState, Engine
  PROVE  OwnState'
<1> USE DEF listVars, reqVars, syncVars, trapVars, cbVars, libVars
<1>1. ASSUME stack' = Popped, stack # <<>>, UNCHANGED synch
      PROVE  OwnState'
  <2>1. Len(stack) = 1 => ~SynchWaits'
    BY <1>1, OrderlyMoves DEF OrderlyInv, SynchWaits, Pumping
  <2>2. Len(stack) = 2 => Len(stack') = 1 /\ stack'[1] = stack[1]
    BY <1>1, OrderlyMoves DEF OrderlyInv
  <2>3. SynchWaits' => SynchWaits /\ stack'[1] = stack[1]
    BY <1>1, <2>1, <2>2, OrderlyShape DEF OrderlyInv, SynchWaits, Pumping
  <2> QED BY <1>1, <2>3, OwnKept
<1>2. ASSUME stack # <<>>, UNCHANGED synch,
             NEW f \in Frame, f.fn = Top.fn, stack' = Retop(f),
             Top.fn = "trap" \/ (f.s = Top.s /\ f.r = Top.r)
      PROVE  OwnState'
  <2>1. /\ Len(stack') = Len(stack)
        /\ \A i \in 1 .. Len(stack) : stack'[i] = IF i = Len(stack) THEN f ELSE stack[i]
    BY <1>2, OrderlyMoves DEF OrderlyInv
  <2>2. CASE Len(stack) = 1
    <3>1. Top = stack[1] /\ Top.fn # "trap" /\ stack'[1] = f
      BY <2>1, <2>2, OrderlyShape DEF OrderlyInv, StackOrderly, Pumping, PumpFn
    <3> QED BY <1>2, <2>1, <2>2, <3>1, OwnKept DEF SynchWaits, Pumping
  <2>3. CASE Len(stack) = 2
    <3>1. stack'[1] = stack[1]
      BY <2>1, <2>3
    <3> QED BY <1>2, <2>1, <2>3, <3>1, OwnKept DEF SynchWaits, Pumping
  <2> QED BY <1>2, <2>2, <2>3, OrderlyShape DEF OrderlyInv
<1>3. ASSUME stack # <<>>, NEW at \in FrameAt, NEW n \in Session \cup {None},
             NEW d \in SUBSET Session, NEW s \in Session \cup {None}
      PROVE  /\ [Top EXCEPT !.at = at] \in Frame
             /\ [Top EXCEPT !.s = s] \in Frame
             /\ [Top EXCEPT !.at = at, !.nxt = n, !.due = d] \in Frame
             /\ [Top EXCEPT !.at = at, !.s = s, !.nxt = n] \in Frame
             /\ [Top EXCEPT !.at = at].fn = Top.fn
             /\ [Top EXCEPT !.s = s].fn = Top.fn
             /\ [Top EXCEPT !.at = at, !.nxt = n, !.due = d].fn = Top.fn
             /\ [Top EXCEPT !.at = at, !.s = s, !.nxt = n].fn = Top.fn
             /\ [Top EXCEPT !.at = at].s = Top.s
             /\ [Top EXCEPT !.at = at].r = Top.r
  <2>1. Top \in Frame
    BY <1>3, StackTypes
  <2>2. /\ [Top EXCEPT !.at = at] \in Frame
        /\ [Top EXCEPT !.s = s] \in Frame
        /\ [Top EXCEPT !.at = at, !.nxt = n, !.due = d] \in Frame
        /\ [Top EXCEPT !.at = at, !.s = s, !.nxt = n] \in Frame
    BY <2>1, FrameUpdates
  <2>3. /\ [Top EXCEPT !.at = at].fn = Top.fn
        /\ [Top EXCEPT !.s = s].fn = Top.fn
        /\ [Top EXCEPT !.at = at, !.nxt = n, !.due = d].fn = Top.fn
        /\ [Top EXCEPT !.at = at, !.s = s, !.nxt = n].fn = Top.fn
    BY <2>1, FrameKeepsFn
  <2>4. [Top EXCEPT !.at = at].s = Top.s /\ [Top EXCEPT !.at = at].r = Top.r
    BY <2>1 DEF Frame
  <2> QED BY <2>2, <2>3, <2>4
<1>4. CASE SelectDone \/ EventAgain
  <2>1. /\ stack # <<>> /\ UNCHANGED synch
        /\ \E at \in FrameAt : stack' = Retop([Top EXCEPT !.at = at])
    BY <1>4 DEF SelectDone, EventAgain, EventEnds, InPump, EventStart, FrameAt
  <2> PICK at \in FrameAt : stack' = Retop([Top EXCEPT !.at = at])
    BY <2>1
  <2> QED BY <1>2, <1>3, <2>1, EngineAssumption
<1>5. CASE TrapSkip
  <2>1. Top.s \in Session
    BY <1>5, StackTypes, FrameFields DEF TrapSkip, AtSession
  <2>2. PICK n \in Session \cup {None} : stack' = Retop([Top EXCEPT !.s = n])
    BY <1>5, <2>1, ListTypes DEF TrapSkip
  <2>3. /\ [Top EXCEPT !.s = n] \in Frame
        /\ [Top EXCEPT !.s = n].fn = Top.fn
    BY <1>3, <1>5 DEF TrapSkip, AtSession, FrameAt
  <2> QED BY <1>2, <1>5, <2>2, <2>3 DEF TrapSkip, AtSession
<1>6. CASE TrapCall
  <2>1. Top.s \in Session /\ Top.due \ {Top.s} \in SUBSET Session
    BY <1>6, StackTypes, FrameFields DEF TrapCall, AtSession
  <2>2. PICK d \in SUBSET Session, n \in Session \cup {None} :
          stack' = Retop([Top EXCEPT !.at = "call", !.nxt = n, !.due = d])
    BY <1>6, <2>1, ListTypes DEF TrapCall
  <2> QED BY <1>2, <1>3, <1>6, <2>2 DEF TrapCall, AtSession, FrameAt
<1>7. CASE TrapReturn
  <2>1. Top.nxt \in Session \cup {None}
    BY <1>7, StackTypes, FrameFields DEF TrapReturn
  <2> QED BY <1>2, <1>3, <1>7, <2>1, ZenonT(30) DEF TrapReturn, FrameAt
<1>8. CASE AsynchReturn \/ TrapDone \/ PumpReturn
  BY <1>1, <1>8 DEF AsynchReturn, TrapDone, AtSession, PumpReturn, EventEnds, InPump
<1>9. CASE SynchReturn
  <2>1. Len(stack) = 1 /\ stack # <<>> /\ stack' = Popped
    BY <1>9, OrderlyShape DEF SynchReturn, EventEnds, OrderlyInv
  <2>2. ~SynchWaits'
    BY <2>1, OrderlyMoves DEF OrderlyInv, SynchWaits, Pumping
  <2> QED BY <2>2 DEF OwnState
<1> QED
  BY <1>4, <1>5, <1>6, <1>7, <1>8, <1>9, NeverCallsNil DEF Engine

(* Unless a REPORT is taken for another request's, what ends the wait of a *)
(* synchronous request is the outcome of the request that was sent, and    *)
(* nobody else has used its state meanwhile.                               *)
THEOREM OwnsState ==
  ASSUME Orderly, NoReports
  PROVE  Spec => []SynchOwnsState
<1>1. Init => OwnState
  <2>1. Init => Len(stack) = 0
    BY EmptySeq DEF Init
  <2> QED BY <2>1 DEF OwnState, SynchWaits, Pumping
<1>2. Types /\ EngineInv /\ OrderlyInv /\ OwnState /\ [Next]_vars => OwnState'
  <2>1. UNCHANGED vars => UNCHANGED <<stack, synch>>
    BY DEF vars, syncVars
  <2> QED BY <2>1, OwnClient, OwnLibrary, OwnEngine, OwnFrame DEF Next
<1>3. Types /\ OrderlyInv /\ OwnState => SynchOwnsState
  <2> SUFFICES ASSUME Types, OrderlyInv, OwnState,
                      NEW i \in DOMAIN stack, stack[i].fn = "synch_req"
               PROVE  LET st == synch[stack[i].s]
                      IN /\ st.synch_req
                         /\ st.reqid = stack[i].r
                         /\ st.waiting \/ st.of = stack[i].r
    BY DEF SynchOwnsState
  <2>1. i = 1 /\ SynchWaits
    BY OrderlyShape DEF OrderlyInv, StackOrderly, SynchWaits, Pumping, CallingBack
  <2>2. stack[1].s \in Session
    BY <2>1, ListTypes DEF OrderlyInv, WaitOrderly
  <2> QED BY <2>1, <2>2 DEF OrderlyInv, WaitOrderly, OwnState
<1> QED BY <1>1, <1>2, <1>3, StaysOrderly, InductiveInv, PTL DEF Spec
=============================================================================
