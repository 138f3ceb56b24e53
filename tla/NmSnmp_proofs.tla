--------------------------- MODULE NmSnmp_proofs ---------------------------
(***************************************************************************)
(* Theorems about the request engine, for any number of sessions and       *)
(* requests, any depth of nesting and whatever the program does inside its *)
(* callbacks: the invariants Types and EngineInv are inductive together,   *)
(* with them hold the four properties EngineInv consists of, and the       *)
(* engine implements AsynchContract.                                       *)
(***************************************************************************)
EXTENDS NmSnmp, FiniteSetTheorems, SequenceTheorems, TLAPS

-----------------------------------------------------------------------------
(* Type correctness, step by step, and the facts about the session list    *)
(* that the invariants rest on.  The type of the list survives a close     *)
(* because the list has no block twice, so the steps below assume ListOK   *)
(* beside Types.                                                           *)

(* The innermost frame, and the stacks a step leaves.                      *)
LEMMA StackTypes ==
  ASSUME Types
  PROVE  /\ Len(stack) \in Nat
         /\ \A f \in Frame : Append(stack, f) \in Seq(Frame)
         /\ \A i \in 0 .. Len(stack) : SubSeq(stack, 1, i) \in Seq(Frame)
         /\ stack # <<>> =>
              /\ Top \in Frame
              /\ Len(stack) \in 1 .. Len(stack)
              /\ Popped \in Seq(Frame)
              /\ \A f, g \in Frame : /\ Retop(f) \in Seq(Frame)
                                     /\ Append(Retop(f), g) \in Seq(Frame)
<1> USE DEF Types
<1>1. Len(stack) \in Nat /\ stack \in Seq(Frame)
  BY LenProperties
<1>2. \A i \in 0 .. Len(stack) : SubSeq(stack, 1, i) \in Seq(Frame)
  <2> TAKE i \in 0 .. Len(stack)
  <2>1. \A j \in 1 .. i : stack[j] \in Frame
    BY <1>1, ElementOfSeq
  <2> QED BY <1>1, <2>1, SubSeqProperties
<1>3. ASSUME stack # <<>>
      PROVE  /\ Top \in Frame
             /\ Len(stack) \in 1 .. Len(stack)
             /\ Popped \in Seq(Frame)
             /\ \A f, g \in Frame : /\ Retop(f) \in Seq(Frame)
                                    /\ Append(Retop(f), g) \in Seq(Frame)
  <2>1. Len(stack) \in 1 .. Len(stack)
    BY <1>1, <1>3, EmptySeq
  <2>2. Top \in Frame
    BY <1>1, <2>1, ElementOfSeq DEF Top
  <2>3. Popped \in Seq(Frame)
    BY <1>1, <1>2, <2>1 DEF Popped
  <2>4. \A f \in Frame : Retop(f) \in Seq(Frame)
    BY <1>1, <2>1, ExceptSeq DEF Retop
  <2> QED BY <2>1, <2>2, <2>3, <2>4, AppendProperties
<1> QED BY <1>1, <1>2, <1>3, AppendProperties

(* Positions in the session list, and the values read from it.             *)
LEMMA ListTypes ==
  ASSUME Types
  PROVE  /\ Listed \subseteq Session
         /\ Len(sessions) \in Nat
         /\ DOMAIN sessions = 1 .. Len(sessions)
         /\ \A s \in Listed : Position(s) \in 1 .. Len(sessions)
                              /\ sessions[Position(s)] = s
         /\ \A s \in Session : NextOf(s) \in Session \cup {None}
         /\ ListHead \in Session \cup {None}
<1> USE DEF Types
<1>1. /\ Len(sessions) \in Nat
      /\ DOMAIN sessions = 1 .. Len(sessions)
      /\ \A i \in 1 .. Len(sessions) : sessions[i] \in Session
  BY LenProperties, ElementOfSeq
<1>2. Listed \subseteq Session
  BY <1>1 DEF Listed
<1>3. \A s \in Listed : Position(s) \in 1 .. Len(sessions)
                        /\ sessions[Position(s)] = s
  BY <1>1 DEF Listed, Position
<1>4. ASSUME NEW s \in Session
      PROVE  NextOf(s) \in Session \cup {None}
  BY <1>1, <1>3, <1>4 DEF NextOf
<1>5. ListHead \in Session \cup {None}
  BY <1>1, EmptySeq DEF ListHead
<1> QED BY <1>1, <1>2, <1>3, <1>4, <1>5

(* Taking a session out of the list removes it and nothing else.           *)
LEMMA UnlinkedProperties ==
  ASSUME Types, ListOK, NEW s \in Listed
  PROVE  LET u == Unlinked(s)
         IN /\ u \in Seq(Session)
            /\ {u[i] : i \in DOMAIN u} = Listed \ {s}
            /\ \A i, j \in DOMAIN u : u[i] = u[j] => i = j
<1> DEFINE n == Len(sessions)
           p == Position(s)
           u == Unlinked(s)
<1>1. /\ n \in Nat
      /\ DOMAIN sessions = 1 .. n
      /\ p \in 1 .. n
      /\ sessions[p] = s
      /\ \A i \in 1 .. n : sessions[i] \in Session
  BY ListTypes, ElementOfSeq DEF Types
<1>2. /\ n - 1 \in Nat
      /\ DOMAIN u = 1 .. (n - 1)
      /\ \A i \in 1 .. (n - 1) :
           u[i] = IF i < p THEN sessions[i] ELSE sessions[i + 1]
  BY <1>1 DEF Unlinked
<1>3. \A i \in 1 .. (n - 1) : u[i] \in Session
  BY <1>1, <1>2
<1>4. u \in Seq(Session)
  <2>1. u \in [1 .. (n - 1) -> Session]
    BY <1>1 DEF Unlinked
  <2> QED BY <1>2, <2>1, SeqDef
<1>5. \A i, j \in 1 .. n : sessions[i] = sessions[j] => i = j
  BY <1>1 DEF ListOK
<1>6. \A i, j \in DOMAIN u : u[i] = u[j] => i = j
  BY <1>1, <1>2, <1>5
<1>7. {u[i] : i \in DOMAIN u} \subseteq Listed \ {s}
  BY <1>1, <1>2, <1>5 DEF Listed
<1>8. ASSUME NEW t \in Listed \ {s}
      PROVE  t \in {u[i] : i \in DOMAIN u}
  <2>1. PICK i \in 1 .. n : sessions[i] = t
    BY <1>1 DEF Listed
  <2>2. i # p
    BY <1>1, <2>1
  <2>3. CASE i < p
    <3>1. i \in 1 .. (n - 1) /\ u[i] = t
      BY <1>1, <1>2, <2>1, <2>3
    <3> QED BY <1>2, <3>1
  <2>4. CASE i > p
    <3>1. i - 1 \in 1 .. (n - 1) /\ u[i - 1] = t
      BY <1>1, <1>2, <2>1, <2>4
    <3> QED BY <1>2, <3>1
  <2> QED BY <1>1, <2>2, <2>3, <2>4
<1> QED BY <1>4, <1>6, <1>7, <1>8
-----------------------------------------------------------------------------
(* Type correctness.                                                       *)

FrameAt == {"net", "trap", "close", "drop", "keep", "next", "call"}

LEMMA NewFrameType ==
  ASSUME NEW fn \in PumpFn \cup {"asynch_rsp", "trap"}, NEW at \in FrameAt,
         NEW s \in Session \cup {None}, NEW r \in ReqId \cup {None}
  PROVE  /\ NewFrame(fn, at, s, r) \in Frame
         /\ \A d \in SUBSET Session : [NewFrame(fn, at, s, r) EXCEPT !.due = d] \in Frame
BY DEF Frame, NewFrame, FrameAt

LEMMA FrameFields ==
  ASSUME NEW f \in Frame
  PROVE  /\ f.s \in Session \cup {None}
         /\ f.r \in ReqId \cup {None}
         /\ f.nxt \in Session \cup {None}
         /\ f.due \subseteq Session
         /\ f.fn \in PumpFn \cup {"asynch_rsp", "trap"}
BY DEF Frame

LEMMA FrameUpdates ==
  ASSUME NEW f \in Frame, NEW at \in FrameAt,
         NEW s \in Session \cup {None}, NEW n \in Session \cup {None},
         NEW d \in SUBSET Session
  PROVE  /\ [f EXCEPT !.at = at] \in Frame
         /\ [f EXCEPT !.s = s] \in Frame
         /\ [f EXCEPT !.at = at, !.nxt = n, !.due = d] \in Frame
         /\ [f EXCEPT !.at = at, !.s = s, !.nxt = n] \in Frame
<1> USE DEF Frame, FrameAt
<1>1. [f EXCEPT !.at = at] \in Frame
  OBVIOUS
<1>2. [f EXCEPT !.s = s] \in Frame
  OBVIOUS
<1>3. [f EXCEPT !.nxt = n] \in Frame
  OBVIOUS
<1>4. [f EXCEPT !.at = at, !.nxt = n, !.due = d] \in Frame
  OBVIOUS
<1>5. [f EXCEPT !.at = at, !.s = s, !.nxt = n] \in Frame
  OBVIOUS
<1> QED BY <1>1, <1>2, <1>4, <1>5

LEMMA SynchUpdates ==
  ASSUME NEW st \in SynchState, NEW r \in ReqId, NEW b \in BOOLEAN
  PROVE  /\ [st EXCEPT !.synch_req = TRUE, !.reqid = r, !.waiting = TRUE] \in SynchState
         /\ [st EXCEPT !.waiting = b, !.of = r] \in SynchState
BY DEF SynchState

LEMMA InitTypes == Init => Types
<1> SUFFICES ASSUME Init PROVE Types
  OBVIOUS
<1> USE DEF Init
<1>1. sessions \in Seq(Session) /\ stack \in Seq(Frame)
  BY EmptySeq
<1>2. Blank \in SynchState
  BY DEF Blank, SynchState
<1>3. /\ synch \in [Session -> SynchState]
      /\ deadnext \in [Session -> Session \cup {None}]
      /\ cbs \in [Session -> SUBSET CbKinds]
      /\ as_reqs_lst \in [Session -> SUBSET ReqId]
      /\ as_reqs \in [Session -> Int]
  BY <1>2
<1>4. /\ registry \subseteq Session \X Keys
      /\ lib \subseteq Session \X ReqId
      /\ leaked \subseteq Session
      /\ close_list \subseteq Session
      /\ cmu \subseteq Session
      /\ issued \subseteq ReqId
  OBVIOUS
<1>5. /\ async_reqs \in Int
      /\ sync_reqs \in Int
      /\ ntraps \in Int
  OBVIOUS
<1>6. in_usr_cback \in BOOLEAN /\ trap_sock \in BOOLEAN
  BY Zenon
<1> QED BY <1>1, <1>3, <1>4, <1>5, <1>6 DEF Types

LEMMA OpenTypes ==
  ASSUME Types, NEW s \in Session, NEW kinds \in SUBSET CbKinds, Open(s, kinds)
  PROVE  Types'
<1> USE DEF Types, Open
<1>1. sessions' \in Seq(Session)
  BY ConcatProperties
<1>2. registry' \subseteq Session \X Keys
  BY EngineAssumption DEF Keys, OpenedKeys
<1>3. synch' \in [Session -> SynchState]
  BY DEF SynchState, Blank
<1> QED BY <1>1, <1>2, <1>3 DEF cbVars

LEMMA OpenFailsTypes ==
  ASSUME Types, NEW s \in Session, NEW kinds \in SUBSET CbKinds, OpenFails(s, kinds)
  PROVE  Types'
<1> USE DEF Types, OpenFails, syncVars, reqVars, trapVars, cbVars, libVars
<1>1. registry' \subseteq Session \X Keys
  BY EngineAssumption DEF Keys
<1> QED BY <1>1

LEMMA CloseTypes ==
  ASSUME Types, ListOK, NEW s \in Session, Close(s)
  PROVE  Types'
<1>1. sessions' \in Seq(Session)
  BY UnlinkedProperties DEF Close
<1>2. Cardinality(as_reqs_lst[s]) \in Int
  <2>1. as_reqs_lst[s] \in SUBSET ReqId
    BY DEF Types
  <2>2. IsFiniteSet(as_reqs_lst[s])
    BY <2>1, EngineAssumption, FS_Subset
  <2> QED BY <2>2, FS_CardinalityType
<1>3. /\ registry' \subseteq Session \X Keys
      /\ as_reqs_lst' \in [Session -> SUBSET ReqId]
      /\ as_reqs' \in [Session -> Int]
      /\ async_reqs' \in Int
      /\ sync_reqs' \in Int
      /\ in_usr_cback' \in BOOLEAN
      /\ ntraps' \in Int
      /\ trap_sock' \in BOOLEAN
      /\ issued' \subseteq ReqId
      /\ stack' \in Seq(Frame)
  BY <1>2 DEF Close, FreeReqs, TrapUnref, DeferClose, CloseNow, Types
<1>4. Blank \in SynchState
  BY DEF Blank, SynchState
<1>5. /\ deadnext' \in [Session -> Session \cup {None}]
      /\ cbs' \in [Session -> SUBSET CbKinds]
      /\ synch' \in [Session -> SynchState]
      /\ leaked' \subseteq Session
      /\ close_list' \subseteq Session
      /\ cmu' \subseteq Session
      /\ lib' \subseteq Session \X ReqId
  <2>1. CASE in_usr_cback
    <3>1. NextOf(s) \in Session \cup {None}
      BY ListTypes
    <3>2. deadnext' \in [Session -> Session \cup {None}]
      BY <2>1, <3>1 DEF Close, FreeReqs, TrapUnref, DeferClose, CloseNow, Types
    <3> QED BY <2>1, <3>2 DEF Close, FreeReqs, TrapUnref, DeferClose, CloseNow, Types
  <2>2. CASE ~in_usr_cback
    BY <1>4, <2>2 DEF Close, FreeReqs, TrapUnref, DeferClose, CloseNow, Types, LibWithout
  <2> QED BY <2>1, <2>2
<1> QED BY <1>1, <1>3, <1>5 DEF Types

LEMMA UnwindTypes ==
  ASSUME Types, Unwind
  PROVE  Types'
<1>1. Catchers \subseteq 0 .. Len(stack)
  BY StackTypes DEF Catchers
<1>2. stack' \in Seq(Frame)
  BY <1>1, StackTypes DEF Unwind
<1> QED
  BY <1>2
  DEF Unwind, Types, listVars, reqVars, syncVars, trapVars, cbVars, libVars

LEMMA ClientTypes ==
  ASSUME Types, ListOK, Client
  PROVE  Types'
<1> USE DEF Types, listVars, reqVars, syncVars, trapVars, cbVars, libVars
<1>1. ASSUME NEW s \in Session, NEW r \in ReqId, AsynchReq(s, r)
      PROVE  Types'
  BY <1>1 DEF AsynchReq, Send
<1>2. ASSUME NEW s \in Session, NEW r \in ReqId, SynchReq(s, r)
      PROVE  Types'
  <2>1. stack' \in Seq(Frame)
    BY <1>2, StackTypes, NewFrameType DEF SynchReq, PumpFn, FrameAt
  <2>2. synch' \in [Session -> SynchState]
    BY <1>2, SynchUpdates DEF SynchReq
  <2> QED BY <1>2, <2>1, <2>2 DEF SynchReq, Send
<1>3. ASSUME NEW fn \in PumpFn, NEW s \in Session \cup {None}, StartPump(fn, s)
      PROVE  Types'
  <2>1. stack' \in Seq(Frame)
    BY <1>3, StackTypes, NewFrameType DEF StartPump, EventStart, FrameAt
  <2> QED BY <1>3, <2>1 DEF StartPump
<1> QED
  BY <1>1, <1>2, <1>3, UnwindTypes, OpenTypes, OpenFailsTypes, CloseTypes
  DEF Client, Wait, EventLoop, Event, LuaError, PumpFn

LEMMA LibraryTypes ==
  ASSUME Types, Library
  PROVE  Types'
<1> USE DEF listVars, reqVars, syncVars, trapVars, cbVars, libVars
<1>1. ASSUME NEW s \in Session, NEW r \in ReqId, NEW o \in Outcome,
             DeliverSynch(s, r, o)
      PROVE  Types'
  <2>1. synch' \in [Session -> SynchState]
    BY <1>1, SynchUpdates DEF DeliverSynch, SynchInput, Types
  <2>2. lib' \subseteq Session \X ReqId
    BY <1>1 DEF DeliverSynch, SynchInput, Types, LibAfter
  <2> QED BY <1>1, <2>1, <2>2 DEF DeliverSynch, SynchInput, Types
<1>2. ASSUME NEW s \in Session, NEW r \in ReqId, NEW o \in Outcome,
             DeliverAsynch(s, r, o)
      PROVE  Types'
  <2>1. stack' \in Seq(Frame)
    BY <1>2, StackTypes, NewFrameType DEF DeliverAsynch, FrameAt
  <2> QED BY <1>2, <2>1 DEF DeliverAsynch, Dequeue, Types
<1>3. ASSUME NEW s \in Session, NEW r \in ReqId, NEW o \in Outcome,
             DeliverUnknown(s, r, o)
      PROVE  Types'
  <2>1. lib' \subseteq Session \X ReqId
    BY <1>3 DEF DeliverUnknown, Types, LibAfter
  <2>2. in_usr_cback' \in BOOLEAN
    BY <1>3 DEF DeliverUnknown, Types
  <2> QED BY <1>3, <2>1, <2>2 DEF DeliverUnknown, Types
<1>4. ASSUME TrapArrives
      PROVE  Types'
  <2>1. stack' \in Seq(Frame)
    <3> DEFINE d == {s \in Listed : "trapcb" \in cbs[s]}
    <3>1. d \in SUBSET Session /\ ListHead \in Session \cup {None}
      BY ListTypes
    <3>2. [NewFrame("trap", "next", ListHead, None) EXCEPT !.due = d] \in Frame
      BY <3>1, NewFrameType DEF FrameAt
    <3>3. stack # <<>> /\ [Top EXCEPT !.at = "close"] \in Frame
      BY <1>4, StackTypes, FrameUpdates DEF TrapArrives, InPump, FrameAt
    <3> QED BY <1>4, <3>2, <3>3, StackTypes DEF TrapArrives
  <2> QED BY <1>4, <2>1 DEF TrapArrives, Types
<1> QED BY <1>1, <1>2, <1>3, <1>4 DEF Library, Deliver

LEMMA EngineTypes ==
  ASSUME Types, Engine
  PROVE  Types'
<1> USE DEF listVars, reqVars, syncVars, trapVars, cbVars, libVars
<1>1. CASE AsynchReturn
  <2>1. stack' \in Seq(Frame)
    BY <1>1, StackTypes DEF AsynchReturn
  <2>2. lib' \subseteq Session \X ReqId
    BY <1>1 DEF AsynchReturn, Types
  <2> QED BY <1>1, <2>1, <2>2 DEF AsynchReturn, Types
<1>2. CASE SelectDone
  <2>1. stack' \in Seq(Frame)
    BY <1>2, StackTypes, FrameUpdates DEF SelectDone, InPump, FrameAt
  <2> QED BY <1>2, <2>1 DEF SelectDone, Types
<1>3. CASE TrapSkip
  <2>1. Top.s \in Session /\ Top \in Frame
    BY <1>3, StackTypes, FrameFields DEF TrapSkip, AtSession
  <2>2. stack' \in Seq(Frame)
    BY <1>3, <2>1, StackTypes, FrameUpdates, ListTypes
    DEF TrapSkip, AtSession, FrameAt
  <2> QED BY <1>3, <2>2 DEF TrapSkip, Types
<1>4. CASE TrapCall
  <2>1. Top.s \in Session /\ Top \in Frame /\ Top.due \ {Top.s} \in SUBSET Session
    BY <1>4, StackTypes, FrameFields DEF TrapCall, AtSession
  <2>2. stack' \in Seq(Frame)
    BY <1>4, <2>1, StackTypes, FrameUpdates, ListTypes
    DEF TrapCall, AtSession, FrameAt
  <2> QED BY <1>4, <2>2 DEF TrapCall, Types
<1>5. CASE TrapReturn
  <2>1. Top \in Frame /\ Top.nxt \in Session \cup {None}
    BY <1>5, StackTypes, FrameFields DEF TrapReturn
  <2>2. stack' \in Seq(Frame)
    BY <1>5, <2>1, StackTypes, FrameUpdates DEF TrapReturn, FrameAt
  <2> QED BY <1>5, <2>2 DEF TrapReturn, Types
<1>6. CASE TrapDone
  <2>1. stack' \in Seq(Frame)
    BY <1>6, StackTypes DEF TrapDone, AtSession
  <2> QED BY <1>6, <2>1 DEF TrapDone, Types
<1>7. CASE TrapCallsNil
  BY <1>7, UnwindTypes DEF TrapCallsNil
<1>8. ASSUME EventEnds
      PROVE  /\ stack # <<>>
             /\ Popped \in Seq(Frame)
             /\ cmu' \subseteq Session
             /\ lib' \subseteq Session \X ReqId
             /\ close_list' \subseteq Session
  BY <1>8, StackTypes
  DEF EventEnds, InPump, DrainCloseList, LibWithout, Types
<1>9. CASE EventAgain
  <2>1. stack' \in Seq(Frame)
    BY <1>8, <1>9, StackTypes, FrameUpdates DEF EventAgain, EventStart, FrameAt
  <2> QED BY <1>8, <1>9, <2>1 DEF EventAgain, Types
<1>10. CASE PumpReturn
  <2>1. stack' \in Seq(Frame)
    BY <1>8, <1>10 DEF PumpReturn
  <2> QED BY <1>8, <1>10, <2>1 DEF PumpReturn, Types
<1>11. CASE SynchReturn
  <2>1. stack' \in Seq(Frame)
    BY <1>8, <1>11 DEF SynchReturn
  <2>2. synch' \in [Session -> SynchState]
    <3>1. \A s \in Session : [synch[s] EXCEPT !.synch_req = FALSE] \in SynchState
      BY DEF Types, SynchState
    <3> QED BY <1>11, <3>1 DEF SynchReturn, SynchOver, Types
  <2> QED BY <1>8, <1>11, <2>1, <2>2 DEF SynchReturn, SynchOver, Types
<1> QED
  BY <1>1, <1>2, <1>3, <1>4, <1>5, <1>6, <1>7, <1>9, <1>10, <1>11 DEF Engine

-----------------------------------------------------------------------------
(* EngineInv.                                                              *)

(* What EngineInv speaks of.  Steps that leave it alone preserve EngineInv. *)
engineVars == <<sessions, leaked, cbs, registry, reqVars, close_list, trapVars,
                cmu, issued>>

LEMMA EngineInvFrame ==
  ASSUME EngineInv, UNCHANGED engineVars
  PROVE  EngineInv'
BY DEF EngineInv, ListOK, QueuesOK, PendingCounted, TrapRefCount,
       LibrarySessionsOwned, RegistryServesSessions, Listed, Queued,
       engineVars, reqVars, trapVars

(* Every set of sessions or requests is finite.                            *)
LEMMA Finite ==
  /\ \A S \in SUBSET Session : IsFiniteSet(S) /\ Cardinality(S) \in Nat
  /\ \A R \in SUBSET ReqId : IsFiniteSet(R) /\ Cardinality(R) \in Nat
BY EngineAssumption, FS_Subset, FS_CardinalityType

(* The sessions the trap reference count counts.                           *)
Notified == {s \in Listed : cbs[s] # {}}

LEMMA OpenList ==
  ASSUME Types, NEW s \in Session, NEW kinds \in SUBSET CbKinds, Open(s, kinds)
  PROVE  /\ DOMAIN sessions' = 1 .. (Len(sessions) + 1)
         /\ \A i \in 1 .. (Len(sessions) + 1) :
              sessions'[i] = IF i = 1 THEN s ELSE sessions[i - 1]
         /\ Listed' = Listed \cup {s}
<1>1. /\ Len(sessions) \in Nat
      /\ DOMAIN sessions = 1 .. Len(sessions)
  BY ListTypes
<1>2. /\ <<s>> \in Seq(Session)
      /\ Len(<<s>>) = 1
      /\ <<s>>[1] = s
  OBVIOUS
<1>3. /\ sessions' \in Seq(Session)
      /\ Len(sessions') = Len(sessions) + 1
      /\ \A i \in 1 .. (Len(sessions) + 1) :
           sessions'[i] = IF i <= 1 THEN <<s>>[i] ELSE sessions[i - 1]
  BY <1>1, <1>2, ConcatProperties DEF Open, Types
<1>4. DOMAIN sessions' = 1 .. (Len(sessions) + 1)
  BY <1>1, <1>3, LenProperties
<1>5. \A i \in 1 .. (Len(sessions) + 1) :
        sessions'[i] = IF i = 1 THEN s ELSE sessions[i - 1]
  BY <1>1, <1>2, <1>3
<1>6. Listed' \subseteq Listed \cup {s}
  BY <1>1, <1>4, <1>5 DEF Listed
<1>7. s \in Listed'
  <2>1. 1 \in 1 .. (Len(sessions) + 1) /\ sessions'[1] = s
    BY <1>1, <1>5
  <2> QED BY <1>4, <2>1 DEF Listed
<1>8. ASSUME NEW i \in 1 .. Len(sessions)
      PROVE  sessions[i] \in Listed'
  <2>1. i + 1 \in 1 .. (Len(sessions) + 1) /\ sessions'[i + 1] = sessions[i]
    BY <1>1, <1>5
  <2> QED BY <1>4, <2>1 DEF Listed
<1> QED BY <1>1, <1>4, <1>5, <1>6, <1>7, <1>8 DEF Listed

LEMMA OpenInv ==
  ASSUME Types, EngineInv,
         NEW s \in Session, NEW kinds \in SUBSET CbKinds, Open(s, kinds)
  PROVE  EngineInv'
<1> USE DEF EngineInv
<1>1. /\ s \notin Listed
      /\ s \notin leaked
      /\ Listed' = Listed \cup {s}
      /\ Listed \subseteq Session
      /\ as_reqs_lst[s] = {}
  BY OpenList, ListTypes DEF Open, Allocated, QueuesOK
<1>2. ListOK'
  <2>1. ASSUME NEW i \in DOMAIN sessions', NEW j \in DOMAIN sessions',
               sessions'[i] = sessions'[j]
        PROVE  i = j
    <3>1. /\ Len(sessions) \in Nat
          /\ DOMAIN sessions = 1 .. Len(sessions)
          /\ i \in 1 .. (Len(sessions) + 1)
          /\ j \in 1 .. (Len(sessions) + 1)
      BY ListTypes, OpenList
    <3>2. \A k \in 1 .. Len(sessions) : sessions[k] # s
      BY <1>1, <3>1 DEF Listed
    <3>3. CASE i = 1 \/ j = 1
      BY <2>1, <3>1, <3>2, <3>3, OpenList
    <3>4. CASE i # 1 /\ j # 1
      <4>1. /\ i - 1 \in DOMAIN sessions
            /\ j - 1 \in DOMAIN sessions
            /\ sessions[i - 1] = sessions[j - 1]
        BY <2>1, <3>1, <3>4, OpenList
      <4>2. i - 1 = j - 1
        BY <4>1 DEF ListOK
      <4> QED BY <3>1, <4>2
    <3> QED BY <3>3, <3>4
  <2> QED BY <1>1, <2>1 DEF ListOK, Open, cbVars
<1>3. as_reqs_lst' = as_reqs_lst
  BY <1>1 DEF Open, Types
<1>4. QueuesOK'
  BY <1>1, <1>3 DEF QueuesOK, Open
<1>5. PendingCounted'
  <2>1. as_reqs[s] = 0
    BY <1>1, FS_EmptySet DEF PendingCounted
  <2>2. as_reqs' = as_reqs
    BY <2>1 DEF Open, Types
  <2>3. Queued' = Queued /\ async_reqs' = async_reqs
    BY <1>3 DEF Queued, Open
  <2>4. \A t \in Session : as_reqs'[t] = Cardinality(as_reqs_lst'[t])
    BY <1>3, <2>2 DEF PendingCounted
  <2> QED BY <2>3, <2>4 DEF PendingCounted
<1>6. TrapRefCount'
  <2>1. /\ IsFiniteSet(Notified)
        /\ Cardinality(Notified) \in Nat
        /\ s \notin Notified
    BY <1>1, Finite DEF Notified
  <2>2. Notified' = IF kinds # {} THEN Notified \cup {s} ELSE Notified
    BY <1>1 DEF Notified, Open, Types
  <2>3. Cardinality(Notified') =
          IF kinds # {} THEN Cardinality(Notified) + 1 ELSE Cardinality(Notified)
    BY <2>1, <2>2, FS_AddElement
  <2>4. ntraps = Cardinality(Notified) /\ (trap_sock <=> ntraps > 0)
    BY DEF TrapRefCount, Notified
  <2>5. ntraps' = Cardinality(Notified')
    BY <2>3, <2>4 DEF Open
  <2>6. trap_sock' <=> ntraps' > 0
    <3>1. CASE kinds = {}
      BY <2>4, <3>1 DEF Open
    <3>2. CASE kinds # {} /\ ntraps = 0
      <4>1. trap_sock'
        BY <3>2, Zenon DEF Open
      <4>2. ntraps' > 0
        BY <3>2 DEF Open
      <4> QED BY <4>1, <4>2
    <3>3. CASE kinds # {} /\ ntraps # 0
      <4>1. ntraps > 0 /\ ntraps' > 0
        BY <2>1, <2>4, <3>3 DEF Open
      <4>2. trap_sock'
        BY <2>4, <4>1, Zenon DEF Open
      <4> QED BY <4>1, <4>2
    <3> QED BY <3>1, <3>2, <3>3
  <2> QED BY <2>5, <2>6 DEF TrapRefCount, Notified
<1>7. LibrarySessionsOwned'
  BY <1>1 DEF LibrarySessionsOwned, ListOK, Open, cbVars
<1>8. RegistryServesSessions'
  BY <1>1 DEF RegistryServesSessions, Open, OpenedKeys, Types
<1> QED BY <1>2, <1>4, <1>5, <1>6, <1>7, <1>8

LEMMA CloseInv ==
  ASSUME Types, EngineInv, NEW s \in Session, Close(s)
  PROVE  EngineInv'
<1> USE DEF EngineInv
<1>1. /\ s \in Listed
      /\ s \notin leaked
      /\ Listed \subseteq Session
      /\ sessions' = Unlinked(s)
  BY ListTypes DEF Close, ListOK
<1>2. /\ Listed' = Listed \ {s}
      /\ \A i, j \in DOMAIN sessions' : sessions'[i] = sessions'[j] => i = j
  <2> DEFINE u == Unlinked(s)
  <2>1. /\ {u[i] : i \in DOMAIN u} = Listed \ {s}
        /\ \A i, j \in DOMAIN u : u[i] = u[j] => i = j
    BY <1>1, UnlinkedProperties
  <2>2. sessions' = u
    BY <1>1
  <2> HIDE DEF u
  <2> QED BY <2>1, <2>2 DEF Listed
<1>3. ListOK'
  <2>1. CASE in_usr_cback
    BY <1>1, <1>2, <2>1 DEF ListOK, Close, FreeReqs, TrapUnref, DeferClose, CloseNow
  <2>2. CASE ~in_usr_cback
    BY <1>1, <1>2, <2>2 DEF ListOK, Close, FreeReqs, TrapUnref, DeferClose, CloseNow
  <2> QED BY <2>1, <2>2
<1>4. \A t \in Session : as_reqs_lst'[t] = IF t = s THEN {} ELSE as_reqs_lst[t]
  BY DEF Close, FreeReqs, TrapUnref, DeferClose, CloseNow, Types
<1>5. QueuesOK'
  BY <1>2, <1>4 DEF QueuesOK, Close, FreeReqs, TrapUnref, DeferClose, CloseNow
<1>6. PendingCounted'
  <2>1. /\ Queued \in SUBSET ReqId
        /\ as_reqs_lst[s] \in SUBSET Queued
    BY DEF Types, Queued
  <2>2. Queued' = Queued \ as_reqs_lst[s]
    BY <1>4 DEF Queued, QueuesOK
  <2>3. /\ Cardinality(Queued') = Cardinality(Queued) - Cardinality(as_reqs_lst[s])
    <3>1. Queued \cap as_reqs_lst[s] = as_reqs_lst[s]
      BY <2>1
    <3> QED BY <2>1, <2>2, <3>1, Finite, FS_Difference, ZenonT(30)
  <2>4. async_reqs' = Cardinality(Queued')
    BY <2>3 DEF PendingCounted, Close, FreeReqs, TrapUnref, DeferClose, CloseNow
  <2>5. ASSUME NEW t \in Session
        PROVE  as_reqs'[t] = Cardinality(as_reqs_lst'[t])
    <3>1. as_reqs'[t] = IF t = s THEN 0 ELSE as_reqs[t]
      BY DEF Close, FreeReqs, TrapUnref, DeferClose, CloseNow, Types
    <3> QED BY <1>4, <3>1, FS_EmptySet DEF PendingCounted
  <2> QED BY <2>4, <2>5 DEF PendingCounted
<1>7. TrapRefCount'
  <2>1. /\ IsFiniteSet(Notified)
        /\ Cardinality(Notified) \in Nat
        /\ s \in Notified <=> cbs[s] # {}
    BY <1>1, Finite DEF Notified
  <2>2. Notified' = Notified \ {s}
    BY <1>1, <1>2 DEF Notified, Close, FreeReqs, TrapUnref, DeferClose, CloseNow, Types
  <2>3. /\ Cardinality(Notified') \in Nat
        /\ Cardinality(Notified') =
             IF cbs[s] # {} THEN Cardinality(Notified) - 1 ELSE Cardinality(Notified)
    <3>1. Notified \ {s} \in SUBSET Session
      BY <1>1 DEF Notified
    <3> QED BY <2>1, <2>2, <3>1, FS_RemoveElement, Finite
  <2>4. ntraps = Cardinality(Notified) /\ (trap_sock <=> ntraps > 0)
    BY DEF TrapRefCount, Notified
  <2>5. ntraps' = Cardinality(Notified')
    BY <2>3, <2>4 DEF Close, FreeReqs, TrapUnref, DeferClose, CloseNow
  <2>6. trap_sock' <=> ntraps' > 0
    <3>1. CASE cbs[s] = {}
      BY <2>4, <3>1 DEF Close, FreeReqs, TrapUnref, DeferClose, CloseNow
    <3>2. CASE cbs[s] # {} /\ ntraps = 1
      <4>1. ~trap_sock'
        BY <3>2, Zenon DEF Close, FreeReqs, TrapUnref, DeferClose, CloseNow
      <4>2. ~(ntraps' > 0)
        BY <3>2 DEF Close, FreeReqs, TrapUnref, DeferClose, CloseNow
      <4> QED BY <4>1, <4>2
    <3>3. CASE cbs[s] # {} /\ ntraps # 1
      <4>1. ntraps > 0 /\ ntraps' > 0
        BY <2>1, <2>3, <2>4, <2>5, <3>3
      <4> QED BY <2>4, <3>3, <4>1 DEF Close, FreeReqs, TrapUnref, DeferClose, CloseNow
    <3> QED BY <3>1, <3>2, <3>3
  <2> QED BY <2>5, <2>6 DEF TrapRefCount, Notified
<1>8. LibrarySessionsOwned'
  <2>1. CASE in_usr_cback
    BY <1>1, <1>2, <2>1 DEF LibrarySessionsOwned, ListOK, Close, FreeReqs, TrapUnref, DeferClose, CloseNow
  <2>2. CASE ~in_usr_cback
    BY <1>1, <1>2, <2>2 DEF LibrarySessionsOwned, ListOK, Close, FreeReqs, TrapUnref, DeferClose, CloseNow
  <2> QED BY <2>1, <2>2
<1>9. RegistryServesSessions'
  <2>1. \A t \in Listed' : t \in Listed /\ t # s /\ cbs'[t] = cbs[t]
    BY <1>1, <1>2 DEF Close, FreeReqs, TrapUnref, DeferClose, CloseNow, Types
  <2>2. \A t, k : <<t, k>> \in registry /\ t # s => <<t, k>> \in registry'
    BY DEF Close, ClosedKeys
  <2> QED BY <2>1, <2>2 DEF RegistryServesSessions
<1> QED BY <1>3, <1>5, <1>6, <1>7, <1>8, <1>9

LEMMA AsynchReqInv ==
  ASSUME Types, EngineInv, NEW s \in Session, NEW r \in ReqId, AsynchReq(s, r)
  PROVE  EngineInv'
<1> USE DEF EngineInv
<1>1. /\ \A t \in Session :
           as_reqs_lst'[t] = as_reqs_lst[t] \cup (IF t = s THEN {r} ELSE {})
      /\ Listed' = Listed
      /\ s \in Listed
      /\ r \notin issued
      /\ issued' = issued \cup {r}
  BY DEF AsynchReq, Send, Types, listVars, Listed
<1>2. Queued \subseteq issued /\ Queued \in SUBSET ReqId
  BY DEF Queued, QueuesOK, Types
<1>3. QueuesOK'
  BY <1>1, <1>2 DEF QueuesOK, Queued
<1>4. PendingCounted'
  <2>1. Queued' = Queued \cup {r}
    BY <1>1 DEF Queued
  <2>2. Cardinality(Queued') = Cardinality(Queued) + 1
    BY <1>1, <1>2, <2>1, Finite, FS_AddElement
  <2>3. ASSUME NEW t \in Session
        PROVE  as_reqs'[t] = Cardinality(as_reqs_lst'[t])
    <3>1. r \notin as_reqs_lst[t] /\ as_reqs_lst[t] \in SUBSET ReqId
      BY <1>1, <1>2 DEF Queued, Types
    <3>2. as_reqs'[t] = IF t = s THEN as_reqs[t] + 1 ELSE as_reqs[t]
      BY DEF AsynchReq, Types
    <3>3. CASE t = s
      <4>1. Cardinality(as_reqs_lst'[t]) = Cardinality(as_reqs_lst[t]) + 1
        BY <1>1, <3>1, <3>3, Finite, FS_AddElement
      <4> QED BY <3>2, <3>3, <4>1 DEF PendingCounted
    <3>4. CASE t # s
      BY <1>1, <3>2, <3>4, ZenonT(30) DEF PendingCounted
    <3> QED BY <3>3, <3>4
  <2> QED BY <2>2, <2>3 DEF PendingCounted, AsynchReq
<1>5. /\ UNCHANGED <<listVars, trapVars, cbVars, cmu>>
      /\ ListOK' /\ TrapRefCount' /\ LibrarySessionsOwned' /\ RegistryServesSessions'
  BY DEF AsynchReq, Send, listVars, trapVars, cbVars, Listed, ListOK,
         TrapRefCount, LibrarySessionsOwned, RegistryServesSessions
<1> QED BY <1>3, <1>4, <1>5

LEMMA DeliverInv ==
  ASSUME Types, EngineInv,
         NEW s \in Session, NEW r \in ReqId, NEW o \in Outcome, Deliver(s, r, o)
  PROVE  EngineInv'
<1>1. CASE DeliverSynch(s, r, o) \/ DeliverUnknown(s, r, o)
  <2>1. UNCHANGED engineVars
    BY <1>1
    DEF DeliverSynch, DeliverUnknown, engineVars, listVars, reqVars, trapVars,
        cbVars
  <2> QED BY <2>1, EngineInvFrame
<1>2. CASE DeliverAsynch(s, r, o)
  <2> USE DEF EngineInv
  <2>1. /\ \A t \in Session :
             as_reqs_lst'[t] = as_reqs_lst[t] \ (IF t = s THEN {r} ELSE {})
        /\ r \in as_reqs_lst[s]
        /\ UNCHANGED <<listVars, trapVars, close_list, cmu, issued>>
    BY <1>2 DEF DeliverAsynch, Dequeue, Types, libVars
  <2>2. QueuesOK'
    BY <2>1 DEF QueuesOK, Listed, listVars
  <2>3. PendingCounted'
    <3>1. Queued \in SUBSET ReqId /\ r \in Queued
      BY <2>1 DEF Queued, Types
    <3>2. Queued' = Queued \ {r}
      BY <2>1 DEF Queued, QueuesOK
    <3>3. Cardinality(Queued') = Cardinality(Queued) - 1
      BY <3>1, <3>2, Finite, FS_RemoveElement
    <3>4. ASSUME NEW t \in Session
          PROVE  as_reqs'[t] = Cardinality(as_reqs_lst'[t])
      <4>1. as_reqs_lst[t] \in SUBSET ReqId
        BY DEF Types
      <4>2. as_reqs'[t] = IF t = s THEN as_reqs[t] - 1 ELSE as_reqs[t]
        BY <1>2 DEF DeliverAsynch, Dequeue, Types
      <4>3. CASE t = s
        <5>1. Cardinality(as_reqs_lst'[t]) = Cardinality(as_reqs_lst[t]) - 1
          BY <2>1, <4>1, <4>3, Finite, FS_RemoveElement
        <5> QED BY <4>2, <4>3, <5>1 DEF PendingCounted
      <4>4. CASE t # s
        BY <2>1, <4>2, <4>4 DEF PendingCounted
      <4> QED BY <4>3, <4>4
    <3> QED BY <1>2, <3>3, <3>4 DEF PendingCounted, DeliverAsynch, Dequeue
  <2>4. ListOK' /\ TrapRefCount' /\ LibrarySessionsOwned' /\ RegistryServesSessions'
    BY <2>1 DEF listVars, trapVars, Listed, ListOK, TrapRefCount,
                LibrarySessionsOwned, RegistryServesSessions
  <2> QED BY <2>2, <2>3, <2>4
<1> QED BY <1>1, <1>2 DEF Deliver

(* The end of nm_snmp_event empties the close list.                        *)
LEMMA DrainInv ==
  ASSUME Types, EngineInv, DrainCloseList,
         UNCHANGED <<listVars, reqVars, trapVars, issued>>
  PROVE  EngineInv'
<1> USE DEF EngineInv
<1>1. /\ Listed' = Listed
      /\ ListOK'
      /\ QueuesOK'
      /\ TrapRefCount'
      /\ RegistryServesSessions'
  BY DEF DrainCloseList, listVars, reqVars, trapVars, Listed, ListOK, QueuesOK,
         TrapRefCount, RegistryServesSessions
<1>2. PendingCounted'
  BY DEF PendingCounted, Queued, reqVars
<1>3. LibrarySessionsOwned'
  BY <1>1 DEF LibrarySessionsOwned, DrainCloseList
<1> QED BY <1>1, <1>2, <1>3

(* An open that fails leaves keys in the registry and nothing else.        *)
LEMMA OpenFailsInv ==
  ASSUME Types, EngineInv, NEW s \in Session, NEW kinds \in SUBSET CbKinds,
         OpenFails(s, kinds)
  PROVE  EngineInv'
<1> USE DEF EngineInv
<1>1. Listed' = Listed /\ registry \subseteq registry'
  BY DEF OpenFails, Listed
<1>2. ListOK' /\ QueuesOK' /\ PendingCounted' /\ TrapRefCount' /\ LibrarySessionsOwned'
  BY <1>1 DEF OpenFails, reqVars, trapVars, cbVars, libVars, ListOK, QueuesOK,
              PendingCounted, Queued, TrapRefCount, LibrarySessionsOwned
<1>3. RegistryServesSessions'
  BY <1>1 DEF OpenFails, RegistryServesSessions
<1> QED BY <1>2, <1>3

LEMMA EngineInvInit == Init => EngineInv
<1> SUFFICES ASSUME Init PROVE EngineInv
  OBVIOUS
<1>1. /\ sessions = <<>>
      /\ DOMAIN sessions = {}
      /\ Listed = {}
  BY DEF Init, Listed
<1>2. ListOK /\ QueuesOK /\ LibrarySessionsOwned /\ RegistryServesSessions
  BY <1>1 DEF Init, ListOK, QueuesOK, LibrarySessionsOwned, RegistryServesSessions
<1>3. PendingCounted
  <2>1. Queued = {}
    BY DEF Init, Queued
  <2> QED BY <2>1, FS_EmptySet DEF Init, PendingCounted
<1>4. TrapRefCount
  <2>1. ntraps = Cardinality({s \in Listed : cbs[s] # {}})
    <3>1. {s \in Listed : cbs[s] # {}} = {}
      BY <1>1
    <3> QED BY <3>1, FS_EmptySet DEF Init
  <2>2. ~trap_sock /\ ~(ntraps > 0)
    BY DEF Init
  <2> QED BY <2>1, <2>2 DEF TrapRefCount
<1> QED BY <1>2, <1>3, <1>4 DEF EngineInv

LEMMA EngineInvStep ==
  ASSUME Types, EngineInv, [Next]_vars
  PROVE  EngineInv'
<1> USE DEF listVars, reqVars, syncVars, trapVars, cbVars, libVars
<1>1. CASE UNCHANGED vars
  BY <1>1, EngineInvFrame DEF vars, engineVars
<1>2. CASE Client
  <2>1. ASSUME NEW s \in Session, NEW r \in ReqId, SynchReq(s, r)
        PROVE  EngineInv'
    <3>1. Listed' = Listed /\ UNCHANGED <<listVars, reqVars, trapVars, close_list, cmu>>
      BY <2>1 DEF SynchReq, Send, Listed
    <3>2. QueuesOK'
      BY <2>1, <3>1 DEF SynchReq, Send, QueuesOK, EngineInv
    <3>3. PendingCounted'
      BY <3>1 DEF PendingCounted, Queued, EngineInv
    <3> QED
      BY <3>1, <3>2, <3>3
      DEF EngineInv, ListOK, TrapRefCount, LibrarySessionsOwned,
          RegistryServesSessions
  <2>2. ASSUME NEW fn, NEW s, StartPump(fn, s)
        PROVE  EngineInv'
    BY <2>2, EngineInvFrame DEF StartPump, engineVars
  <2>3. CASE LuaError
    BY <2>3, EngineInvFrame DEF LuaError, Unwind, engineVars
  <2> QED
    BY <1>2, <2>1, <2>2, <2>3, OpenInv, OpenFailsInv, CloseInv, AsynchReqInv
    DEF Client, Wait, EventLoop, Event
<1>3. CASE Engine
  <2>1. CASE AsynchReturn \/ SelectDone
    BY <2>1, EngineInvFrame DEF AsynchReturn, SelectDone, engineVars
  <2>2. CASE TrapSkip \/ TrapCall \/ TrapReturn \/ TrapDone
    BY <2>2, EngineInvFrame DEF TrapSkip, TrapCall, TrapReturn, TrapDone, engineVars
  <2>3. CASE TrapCallsNil
    BY <2>3, EngineInvFrame DEF TrapCallsNil, Unwind, engineVars
  <2>4. CASE EventAgain \/ PumpReturn \/ SynchReturn
    BY <2>4, DrainInv DEF EventAgain, PumpReturn, SynchReturn, EventEnds
  <2> QED BY <1>3, <2>1, <2>2, <2>3, <2>4 DEF Engine
<1>4. CASE Library
  <2>1. CASE TrapArrives
    BY <2>1, EngineInvFrame DEF TrapArrives, engineVars
  <2> QED BY <1>4, <2>1, DeliverInv DEF Library
<1> QED BY <1>1, <1>2, <1>3, <1>4 DEF Next

LEMMA TypesStep ==
  ASSUME Types, EngineInv, [Next]_vars
  PROVE  Types'
<1>1. ListOK
  BY DEF EngineInv
<1>2. CASE UNCHANGED vars
  BY <1>2 DEF vars, listVars, reqVars, syncVars, trapVars, cbVars, libVars, Types
<1> QED
  BY <1>1, <1>2, ClientTypes, EngineTypes, LibraryTypes DEF Next
-----------------------------------------------------------------------------
(* The types and EngineInv together are inductive.                         *)
THEOREM InductiveInv == Spec => [](Types /\ EngineInv)
<1>1. Init => Types /\ EngineInv
  BY InitTypes, EngineInvInit
<1>2. Types /\ EngineInv /\ [Next]_vars => (Types /\ EngineInv)'
  BY TypesStep, EngineInvStep
<1> QED BY <1>1, <1>2, PTL DEF Spec

(* Every variable keeps its type: the list of sessions stays a list of     *)
(* blocks whatever is opened and closed from inside callbacks, and the     *)
(* counters the loops go by never become negative.                         *)
THEOREM TypeCorrect == Spec => []TypeOK
<1>1. Types /\ EngineInv => TypeOK
  <2> SUFFICES ASSUME Types, EngineInv PROVE TypeOK
    OBVIOUS
  <2>1. as_reqs \in [Session -> Nat]
    BY Finite DEF Types, EngineInv, PendingCounted
  <2>2. async_reqs \in Nat
    <3>1. Queued \in SUBSET ReqId
      BY DEF Queued, Types
    <3> QED BY <3>1, Finite DEF EngineInv, PendingCounted
  <2>3. ntraps \in Nat
    <3>1. {s \in Listed : cbs[s] # {}} \in SUBSET Session
      BY ListTypes
    <3> QED BY <3>1, Finite DEF EngineInv, TrapRefCount
  <2> QED BY <2>1, <2>2, <2>3 DEF TypeOK
<1> QED BY <1>1, InductiveInv, PTL

(* Both request counters are right at every moment: while callbacks run,   *)
(* after errors that unwind the C stack, after sessions closed with        *)
(* requests pending.                                                       *)
THEOREM CountsPending == Spec => []PendingCounted
<1>1. Types /\ EngineInv => PendingCounted
  BY DEF EngineInv
<1> QED BY <1>1, InductiveInv, PTL

(* The trap socket is open exactly while some session in the list has a    *)
(* notification callback, and the reference count tells how many have.     *)
THEOREM CountsTraps == Spec => []TrapRefCount
<1>1. Types /\ EngineInv => TrapRefCount
  BY DEF EngineInv
<1> QED BY <1>1, InductiveInv, PTL

(* A library session is in the list or on the close list until it is       *)
(* closed: none is lost, none is closed under a session still in use.      *)
THEOREM OwnsLibrarySessions == Spec => []LibrarySessionsOwned
<1>1. Types /\ EngineInv => LibrarySessionsOwned
  BY DEF EngineInv
<1> QED BY <1>1, InductiveInv, PTL

(* The registry serves every session of the list: the trap loop never      *)
(* calls nil as long as it stands at sessions of the list.                 *)
THEOREM ServesSessions == Spec => []RegistryServesSessions
<1>1. Types /\ EngineInv => RegistryServesSessions
  BY DEF EngineInv
<1> QED BY <1>1, InductiveInv, PTL

-----------------------------------------------------------------------------
(* The contract: every step of NmSnmp is a step of AsynchContract or       *)
(* changes nothing it sees.  The mapping sends a request to its            *)
(* RequestState, which is well defined because of CallingOK; the proof     *)
(* looks at what a step does to the frames of asynch_rsp and to the        *)
(* queues.                                                                 *)

(* The callback of request r runs for session s.                           *)
Called(s, r) == \E i \in Calling : stack[i].s = s /\ stack[i].r = r

(* What RequestState tells of a request.                                   *)
StateTells(r) ==
  /\ r \notin issued => RequestState(r) = <<"unused", None>>
  /\ \A s \in Session : Called(s, r) => RequestState(r) = <<"calling", s>>
  /\ \A s \in Session : r \in as_reqs_lst[s] => RequestState(r) = <<"pending", s>>
  /\ r \in issued \ Queued /\ (\A s \in Session : ~Called(s, r))
       => RequestState(r) = <<"over", None>>

(* The queues and the stack determine the state of every request.          *)
LEMMA StatesTell == EngineInv /\ CallingOK => \A r \in ReqId : StateTells(r)
<1> SUFFICES ASSUME EngineInv, CallingOK, NEW r \in ReqId
             PROVE  StateTells(r)
  OBVIOUS
<1> USE DEF CallingOK
<1>1. ASSUME r \notin issued
      PROVE  RequestState(r) = <<"unused", None>>
  <2>1. r \notin Queued /\ \A i \in Calling : stack[i].r # r
    BY <1>1 DEF EngineInv, QueuesOK, Queued
  <2> QED BY <1>1, <2>1 DEF RequestState
<1>2. ASSUME NEW s \in Session, NEW j \in Calling, stack[j].s = s, stack[j].r = r
      PROVE  RequestState(r) = <<"calling", s>>
  <2>1. r \in issued /\ \A i \in Calling : stack[i].r = r => i = j
    BY <1>2
  <2>2. (CHOOSE i \in Calling : stack[i].r = r) = j
    BY <1>2, <2>1
  <2> QED BY <1>2, <2>1, <2>2 DEF RequestState
<1>3. ASSUME NEW s \in Session, r \in as_reqs_lst[s]
      PROVE  RequestState(r) = <<"pending", s>>
  <2>1. /\ r \in issued /\ r \in Queued
        /\ \A i \in Calling : stack[i].r # r
        /\ \A t \in Session : r \in as_reqs_lst[t] => t = s
    BY <1>3 DEF EngineInv, QueuesOK, Queued
  <2>2. (CHOOSE t \in Session : r \in as_reqs_lst[t]) = s
    BY <1>3, <2>1
  <2> QED BY <2>1, <2>2 DEF RequestState
<1>4. ASSUME r \in issued \ Queued, \A s \in Session : ~Called(s, r)
      PROVE  RequestState(r) = <<"over", None>>
  <2>1. \A i \in Calling : stack[i].r # r
    BY <1>4 DEF Called
  <2> QED BY <1>4, <2>1 DEF RequestState
<1> QED BY <1>1, <1>2, <1>3, <1>4 DEF StateTells, Called

(* What a step does to the callbacks of requests.                          *)
FewerCalls ==
  /\ Calling' \subseteq Calling
  /\ \A i \in Calling' : stack'[i].s = stack[i].s /\ stack'[i].r = stack[i].r

SameCalls == FewerCalls /\ Calling' = Calling

(* Only frames of asynch_rsp matter to them.                               *)
LEMMA StackSteps ==
  ASSUME Types
  PROVE  /\ \A f \in Frame :
              f.fn # "asynch_rsp" /\ stack' = Append(stack, f) => SameCalls
         /\ \A n \in 0 .. Len(stack) : stack' = SubSeq(stack, 1, n) => FewerCalls
         /\ stack # <<>> /\ Top.fn # "asynch_rsp" =>
              /\ stack' = Popped => SameCalls
              /\ \A f \in Frame :
                   f.fn # "asynch_rsp" /\ stack' = Retop(f) => SameCalls
              /\ \A f, g \in Frame :
                   f.fn # "asynch_rsp" /\ g.fn # "asynch_rsp" /\ stack' = Append(Retop(f), g)
                     => SameCalls
<1> DEFINE n == Len(stack)
<1>1. /\ n \in Nat
      /\ stack \in Seq(Frame)
      /\ DOMAIN stack = 1 .. n
  BY LenProperties DEF Types
<1>3. ASSUME NEW f \in Frame, f.fn # "asynch_rsp", stack' = Append(stack, f)
      PROVE  SameCalls
  <2>1. /\ DOMAIN stack' = 1 .. (n + 1)
        /\ \A i \in 1 .. n : stack'[i] = stack[i]
        /\ stack'[n + 1] = f
    BY <1>1, <1>3, AppendProperties, LenProperties
  <2> QED BY <1>1, <1>3, <2>1 DEF SameCalls, FewerCalls, Calling
<1>4. ASSUME NEW m \in 0 .. n, stack' = SubSeq(stack, 1, m)
      PROVE  /\ DOMAIN stack' = 1 .. m
             /\ \A i \in 1 .. m : stack'[i] = stack[i]
             /\ FewerCalls
  <2>1. \A i \in 1 .. m : stack[i] \in Frame
    BY <1>1, ElementOfSeq
  <2>2. /\ DOMAIN stack' = 1 .. m
        /\ \A i \in 1 .. m : stack'[i] = stack[i]
    BY <1>1, <1>4, <2>1, SubSeqProperties, LenProperties
  <2> QED BY <1>1, <2>2 DEF FewerCalls, Calling
<1>5. ASSUME stack # <<>>, Top.fn # "asynch_rsp"
      PROVE  /\ stack' = Popped => SameCalls
             /\ \A f \in Frame :
                  f.fn # "asynch_rsp" /\ stack' = Retop(f) => SameCalls
             /\ \A f, g \in Frame :
                  f.fn # "asynch_rsp" /\ g.fn # "asynch_rsp" /\ stack' = Append(Retop(f), g)
                    => SameCalls
  <2>1. n \in 1 .. n /\ n - 1 \in 0 .. n /\ stack[n].fn # "asynch_rsp"
    BY <1>1, <1>5, StackTypes DEF Top
  <2>2. ASSUME stack' = Popped
        PROVE  SameCalls
    <3>1. /\ DOMAIN stack' = 1 .. (n - 1)
          /\ \A i \in 1 .. (n - 1) : stack'[i] = stack[i]
      BY <1>4, <2>1, <2>2 DEF Popped
    <3>2. \A i \in Calling : i \in Calling'
      BY <1>1, <2>1, <3>1 DEF Calling
    <3>3. \A i \in Calling' : i \in Calling /\ stack'[i] = stack[i]
      BY <1>1, <2>1, <3>1 DEF Calling
    <3> QED BY <3>2, <3>3 DEF SameCalls, FewerCalls
  <2>3. ASSUME NEW f \in Frame
        PROVE  /\ Retop(f) \in Seq(Frame)
               /\ DOMAIN Retop(f) = 1 .. n
               /\ Len(Retop(f)) = n
               /\ \A i \in 1 .. n : Retop(f)[i] = IF i = n THEN f ELSE stack[i]
    BY <1>1, <2>1, ExceptSeq, LenProperties DEF Retop
  <2>4. ASSUME NEW f \in Frame, f.fn # "asynch_rsp", stack' = Retop(f)
        PROVE  SameCalls
    <3>1. /\ DOMAIN stack' = 1 .. n
          /\ \A i \in 1 .. n : stack'[i] = IF i = n THEN f ELSE stack[i]
      BY <2>3, <2>4
    <3>2. \A i \in Calling : i \in Calling'
      BY <1>1, <2>1, <3>1 DEF Calling
    <3>3. \A i \in Calling' : i \in Calling /\ stack'[i] = stack[i]
      BY <1>1, <2>1, <2>4, <3>1 DEF Calling
    <3> QED BY <3>2, <3>3 DEF SameCalls, FewerCalls
  <2>5. ASSUME NEW f \in Frame, NEW g \in Frame,
               f.fn # "asynch_rsp", g.fn # "asynch_rsp",
               stack' = Append(Retop(f), g)
        PROVE  SameCalls
    <3>1. PICK q \in Seq(Frame) :
            /\ stack' = Append(q, g)
            /\ Len(q) = n
            /\ \A i \in 1 .. n : q[i] = IF i = n THEN f ELSE stack[i]
      BY <2>3, <2>5
    <3>2. /\ DOMAIN stack' = 1 .. (n + 1)
          /\ \A i \in 1 .. n : stack'[i] = q[i]
          /\ stack'[n + 1] = g
      BY <3>1, <2>1, AppendProperties, LenProperties
    <3>3. /\ \A i \in 1 .. (n - 1) : stack'[i] = stack[i]
          /\ stack'[n].fn # "asynch_rsp"
          /\ stack'[n + 1].fn # "asynch_rsp"
      <4>1. n \in 1 .. n /\ \A i \in 1 .. (n - 1) : i \in 1 .. n /\ i # n
        <5> HIDE DEF n
        <5>1. n \in Nat /\ n \in 1 .. n
          BY <1>1, <2>1
        <5> QED BY <5>1
      <4>2. stack'[n] = f
        BY <3>1, <3>2, <4>1
      <4>3. \A i \in 1 .. (n - 1) : stack'[i] = stack[i]
        BY <3>1, <3>2, <4>1
      <4> QED BY <2>5, <3>2, <4>2, <4>3
    <3>4. \A i \in Calling : i \in Calling'
      BY <1>1, <2>1, <3>2, <3>3 DEF Calling
    <3>5. \A i \in Calling' : i \in Calling /\ stack'[i] = stack[i]
      <4> TAKE i \in Calling'
      <4>1. i \in 1 .. (n + 1) /\ stack'[i].fn = "asynch_rsp"
        BY <3>2 DEF Calling
      <4>2. i \in 1 .. (n - 1)
        BY <1>1, <2>1, <3>3, <4>1
      <4> QED BY <1>1, <3>3, <4>1, <4>2 DEF Calling
    <3> QED BY <3>4, <3>5 DEF SameCalls, FewerCalls
  <2>6. \A f, g \in Frame :
      f.fn # "asynch_rsp" /\ g.fn # "asynch_rsp" /\ stack' = Append(Retop(f), g)
        => SameCalls
    BY <2>5
  <2>7. \A f \in Frame : f.fn # "asynch_rsp" /\ stack' = Retop(f) => SameCalls
    BY <2>4
  <2> QED BY <2>2, <2>6, <2>7
<1> QED BY <1>3, <1>4, <1>5

(* A step that adds no callback and queues only fresh requests keeps       *)
(* CallingOK.                                                              *)
LEMMA CallingKept ==
  ASSUME CallingOK, FewerCalls, issued \subseteq issued',
         Queued' \cap issued \subseteq Queued
  PROVE  CallingOK'
BY DEF CallingOK, FewerCalls

(* A step that is nothing to the contract but that callbacks may end.      *)
EndsCallbacks == FewerCalls /\ UNCHANGED <<sessions, issued, as_reqs_lst>>

(* What Lua code does, as the contract sees it.                            *)
LEMMA ClientSteps ==
  ASSUME Types, Client
  PROVE  \/ EndsCallbacks
         \/ /\ SameCalls
            /\ \/ \E s \in Session, kinds \in SUBSET CbKinds : Open(s, kinds)
               \/ \E s \in Session : Close(s)
               \/ \E s \in Session, r \in ReqId : AsynchReq(s, r) \/ SynchReq(s, r)
<1>1. ASSUME NEW fn \in PumpFn, NEW s \in Session \cup {None}, StartPump(fn, s)
      PROVE  EndsCallbacks
  <2>1. NewFrame(fn, EventStart, s, None) \in Frame
    BY NewFrameType DEF EventStart, FrameAt
  <2>2. NewFrame(fn, EventStart, s, None).fn # "asynch_rsp"
    BY DEF NewFrame, PumpFn
  <2>3. SameCalls
    BY <1>1, <2>1, <2>2, StackSteps DEF StartPump
  <2> QED
    BY <1>1, <2>3
    DEF SameCalls, EndsCallbacks, StartPump, listVars, reqVars, libVars
<1>2. CASE LuaError
  <2>1. Catchers \subseteq 0 .. Len(stack)
    BY StackTypes DEF Catchers
  <2>2. FewerCalls
    BY <1>2, <2>1, StackSteps DEF LuaError, Unwind
  <2> QED
    BY <1>2, <2>2 DEF LuaError, Unwind, EndsCallbacks, listVars, reqVars, libVars
<1>3. ASSUME NEW s \in Session, NEW r \in ReqId, SynchReq(s, r)
      PROVE  SameCalls
  <2>1. NewFrame("synch_req", "net", s, r) \in Frame
    BY NewFrameType DEF FrameAt, PumpFn
  <2>2. NewFrame("synch_req", "net", s, r).fn # "asynch_rsp"
    BY DEF NewFrame
  <2> QED BY <1>3, <2>1, <2>2, StackSteps DEF SynchReq
<1>4. UNCHANGED stack => SameCalls
  BY DEF SameCalls, FewerCalls, Calling
<1>5. ASSUME NEW s \in Session, NEW kinds \in SUBSET CbKinds, OpenFails(s, kinds)
      PROVE  EndsCallbacks
  BY <1>4, <1>5 DEF OpenFails, SameCalls, EndsCallbacks, reqVars, libVars
<1>6. CASE \E s \in Session : Wait(s)
  BY <1>1, <1>6 DEF Wait, PumpFn
<1>7. CASE EventLoop \/ Event
  BY <1>1, <1>7 DEF EventLoop, Event, PumpFn
<1>8. ASSUME NEW s \in Session, NEW kinds \in SUBSET CbKinds, Open(s, kinds)
      PROVE  SameCalls
  BY <1>4, <1>8 DEF Open
<1>9. ASSUME NEW s \in Session, Close(s)
      PROVE  SameCalls
  BY <1>4, <1>9 DEF Close
<1>10. ASSUME NEW s \in Session, NEW r \in ReqId, AsynchReq(s, r)
       PROVE  SameCalls
  BY <1>4, <1>10 DEF AsynchReq
<1> QED
  BY <1>2, <1>3, <1>5, <1>6, <1>7, <1>8, <1>9, <1>10 DEF Client

(* Changing other fields of a frame leaves its function alone.             *)
LEMMA FrameKeepsFn ==
  ASSUME NEW f \in Frame, NEW at, NEW s, NEW n, NEW d
  PROVE  /\ [f EXCEPT !.at = at].fn = f.fn
         /\ [f EXCEPT !.s = s].fn = f.fn
         /\ [f EXCEPT !.at = at, !.nxt = n, !.due = d].fn = f.fn
         /\ [f EXCEPT !.at = at, !.s = s, !.nxt = n].fn = f.fn
<1>1. f = [fn |-> f.fn, at |-> f.at, s |-> f.s, r |-> f.r, nxt |-> f.nxt, due |-> f.due]
  BY DEF Frame
<1>2. [f EXCEPT !.at = at].fn = f.fn
  BY <1>1
<1>3. [f EXCEPT !.s = s].fn = f.fn
  BY <1>1
<1>4. [f EXCEPT !.at = at, !.nxt = n, !.due = d].fn = f.fn
  BY <1>1
<1>5. [f EXCEPT !.at = at, !.s = s, !.nxt = n].fn = f.fn
  BY <1>1
<1> QED BY <1>2, <1>3, <1>4, <1>5

(* The engine by itself only ends callbacks.                               *)
LEMMA EngineSteps ==
  ASSUME Types, Engine
  PROVE  EndsCallbacks
<1> USE DEF listVars, reqVars, libVars
<1>1. CASE AsynchReturn
  <2>1. Len(stack) - 1 \in 0 .. Len(stack) /\ stack' = SubSeq(stack, 1, Len(stack) - 1)
    BY <1>1, StackTypes DEF AsynchReturn, Popped
  <2>2. FewerCalls
    BY <2>1, StackSteps
  <2> QED BY <1>1, <2>2 DEF AsynchReturn, EndsCallbacks
<1>2. CASE TrapCallsNil
  <2>1. Catchers \subseteq 0 .. Len(stack)
    BY StackTypes DEF Catchers
  <2>2. FewerCalls
    BY <1>2, <2>1, StackSteps DEF TrapCallsNil, Unwind
  <2> QED BY <1>2, <2>2 DEF TrapCallsNil, Unwind, EndsCallbacks
<1>3. ASSUME stack # <<>>, Top.fn # "asynch_rsp",
             \/ stack' = Popped
             \/ \E f \in Frame : f.fn = Top.fn /\ stack' = Retop(f),
             UNCHANGED <<sessions, issued, as_reqs_lst>>
      PROVE  EndsCallbacks
  BY <1>3, StackSteps DEF EndsCallbacks, SameCalls
<1>4. ASSUME stack # <<>>, NEW at \in FrameAt, NEW s \in Session \cup {None},
             NEW n \in Session \cup {None}, NEW d \in SUBSET Session
      PROVE  /\ [Top EXCEPT !.at = at] \in Frame
             /\ [Top EXCEPT !.at = at].fn = Top.fn
             /\ [Top EXCEPT !.s = s] \in Frame
             /\ [Top EXCEPT !.s = s].fn = Top.fn
             /\ [Top EXCEPT !.at = at, !.nxt = n, !.due = d] \in Frame
             /\ [Top EXCEPT !.at = at, !.nxt = n, !.due = d].fn = Top.fn
             /\ [Top EXCEPT !.at = at, !.s = s, !.nxt = n] \in Frame
             /\ [Top EXCEPT !.at = at, !.s = s, !.nxt = n].fn = Top.fn
  <2>1. Top \in Frame
    BY <1>4, StackTypes
  <2>2. /\ [Top EXCEPT !.at = at] \in Frame
        /\ [Top EXCEPT !.s = s] \in Frame
        /\ [Top EXCEPT !.at = at, !.nxt = n, !.due = d] \in Frame
        /\ [Top EXCEPT !.at = at, !.s = s, !.nxt = n] \in Frame
    BY <2>1, FrameUpdates
  <2>3. /\ [Top EXCEPT !.at = at].fn = Top.fn
        /\ [Top EXCEPT !.s = s].fn = Top.fn
        /\ [Top EXCEPT !.at = at, !.nxt = n, !.due = d].fn = Top.fn
        /\ [Top EXCEPT !.at = at, !.s = s, !.nxt = n].fn = Top.fn
    BY <2>1, FrameKeepsFn
  <2> QED BY <2>2, <2>3
<1>5. CASE SelectDone
  BY <1>3, <1>4, <1>5 DEF SelectDone, InPump, PumpFn, FrameAt
<1>6. CASE TrapSkip
  <2>1. Top.s \in Session
    BY <1>6, StackTypes, FrameFields DEF TrapSkip, AtSession
  <2> QED BY <1>3, <1>4, <1>6, <2>1, ListTypes DEF TrapSkip, AtSession, FrameAt
<1>7. CASE TrapCall
  <2>1. Top.s \in Session /\ Top.due \ {Top.s} \in SUBSET Session
    BY <1>7, StackTypes, FrameFields DEF TrapCall, AtSession
  <2>2. NextOf(Top.s) \in Session \cup {None} /\ "call" \in FrameAt
    BY <2>1, ListTypes DEF FrameAt
  <2>3. \E f \in Frame : f.fn = Top.fn /\ stack' = Retop(f)
    <3>1. PICK d \in SUBSET Session, n \in Session \cup {None} :
            stack' = Retop([Top EXCEPT !.at = "call", !.nxt = n, !.due = d])
      BY <1>7, <2>1, <2>2 DEF TrapCall
    <3>2. stack # <<>>
      BY <1>7 DEF TrapCall, AtSession
    <3> QED BY <1>4, <2>2, <3>1, <3>2, ZenonT(30)
  <2> QED BY <1>3, <1>7, <2>3 DEF TrapCall, AtSession
<1>8. CASE TrapReturn
  <2>1. Top.nxt \in Session \cup {None}
    BY <1>8, StackTypes, FrameFields DEF TrapReturn
  <2> QED BY <1>3, <1>4, <1>8, <2>1 DEF TrapReturn, FrameAt
<1>9. CASE TrapDone
  BY <1>3, <1>9 DEF TrapDone, AtSession
<1>10. CASE EventAgain
  BY <1>3, <1>4, <1>10 DEF EventAgain, EventEnds, InPump, PumpFn, FrameAt, EventStart
<1>11. CASE PumpReturn \/ SynchReturn
  BY <1>3, <1>11 DEF PumpReturn, SynchReturn, EventEnds, InPump, PumpFn
<1> QED
  BY <1>1, <1>2, <1>5, <1>6, <1>7, <1>8, <1>9, <1>10, <1>11 DEF Engine

(* The library calls back: for a request that is queued, its callback is   *)
(* the one that is added.                                                  *)
LEMMA LibrarySteps ==
  ASSUME Types, Library
  PROVE  \/ EndsCallbacks
         \/ \E s \in Session, r \in ReqId, o \in Outcome : DeliverAsynch(s, r, o)
<1>1. UNCHANGED stack => FewerCalls
  BY DEF FewerCalls, Calling
<1>2. ASSUME NEW s \in Session, NEW r \in ReqId, NEW o \in Outcome,
             DeliverSynch(s, r, o) \/ DeliverUnknown(s, r, o)
      PROVE  EndsCallbacks
  BY <1>1, <1>2
  DEF DeliverSynch, DeliverUnknown, EndsCallbacks, listVars, reqVars
<1>3. CASE TrapArrives
  <2> DEFINE d == {s \in Listed : "trapcb" \in cbs[s]}
             f == [Top EXCEPT !.at = "close"]
             g == [NewFrame("trap", "next", ListHead, None) EXCEPT !.due = d]
  <2>1. d \in SUBSET Session /\ ListHead \in Session \cup {None}
    BY ListTypes
  <2>2. g \in Frame /\ g.fn = "trap"
    BY <2>1, NewFrameType DEF FrameAt, NewFrame
  <2>3. stack # <<>> /\ f \in Frame /\ f.fn = Top.fn /\ Top.fn # "asynch_rsp"
    <3>1. stack # <<>> /\ Top.fn # "asynch_rsp"
      BY <1>3 DEF TrapArrives, InPump, PumpFn
    <3> QED BY <3>1, StackTypes, FrameUpdates, FrameKeepsFn DEF FrameAt
  <2>4. stack' = Append(Retop(f), g)
    BY <1>3 DEF TrapArrives
  <2> HIDE DEF f, g
  <2>5. SameCalls
    BY <2>2, <2>3, <2>4, StackSteps
  <2> QED
    BY <1>3, <2>5
    DEF TrapArrives, SameCalls, EndsCallbacks, listVars, reqVars, libVars
<1> QED BY <1>2, <1>3 DEF Library, Deliver

(* The callback DeliverAsynch adds.                                        *)
LEMMA CallStep ==
  ASSUME Types, NEW s \in Session, NEW r \in ReqId, NEW o \in Outcome,
         DeliverAsynch(s, r, o)
  PROVE  /\ Len(stack) + 1 \notin Calling
         /\ Calling' = Calling \cup {Len(stack) + 1}
         /\ \A i \in Calling : stack'[i] = stack[i]
         /\ stack'[Len(stack) + 1].s = s
         /\ stack'[Len(stack) + 1].r = r
<1> DEFINE n == Len(stack)
           at == IF o = "not_in_time" THEN "keep" ELSE "drop"
<1>1. /\ n \in Nat
      /\ stack \in Seq(Frame)
      /\ DOMAIN stack = 1 .. n
  BY LenProperties DEF Types
<1>2. NewFrame("asynch_rsp", at, s, r) \in Frame
  BY NewFrameType DEF FrameAt
<1>3. PICK f \in Frame : /\ stack' = Append(stack, f)
                         /\ f.fn = "asynch_rsp" /\ f.s = s /\ f.r = r
  BY <1>2 DEF DeliverAsynch, NewFrame
<1>4. /\ DOMAIN stack' = 1 .. (n + 1)
      /\ \A i \in 1 .. n : stack'[i] = stack[i]
      /\ stack'[n + 1] = f
  BY <1>1, <1>3, AppendProperties, LenProperties
<1> HIDE DEF n
<1> QED BY <1>1, <1>3, <1>4 DEF Calling, n

(* CallingOK is inductive relative to Types and EngineInv.                 *)
LEMMA CallingStep ==
  ASSUME Types, EngineInv, CallingOK, [Next]_vars
  PROVE  CallingOK'
<1>1. CASE EndsCallbacks
  BY <1>1, CallingKept DEF EndsCallbacks, Queued
<1>2. CASE SameCalls /\ \E s \in Session, kinds \in SUBSET CbKinds : Open(s, kinds)
  <2>1. issued' = issued /\ Queued' \subseteq Queued
    BY <1>2 DEF Open, Queued, Types
  <2> QED BY <1>2, <2>1, CallingKept DEF SameCalls
<1>3. CASE SameCalls /\ \E s \in Session : Close(s)
  <2>1. issued' = issued /\ Queued' \subseteq Queued
    BY <1>3 DEF Close, FreeReqs, TrapUnref, DeferClose, CloseNow, Queued, Types
  <2> QED BY <1>3, <2>1, CallingKept DEF SameCalls
<1>4. CASE SameCalls /\ \E s \in Session, r \in ReqId : AsynchReq(s, r) \/ SynchReq(s, r)
  <2>1. PICK r \in ReqId \ issued : issued' = issued \cup {r} /\ Queued' \subseteq Queued \cup {r}
    <3>1. ASSUME NEW s \in Session, NEW r \in ReqId, AsynchReq(s, r)
          PROVE  /\ r \in ReqId \ issued
                 /\ issued' = issued \cup {r}
                 /\ Queued' \subseteq Queued \cup {r}
      BY <3>1 DEF AsynchReq, Send, Queued, Types
    <3>2. ASSUME NEW s \in Session, NEW r \in ReqId, SynchReq(s, r)
          PROVE  /\ r \in ReqId \ issued
                 /\ issued' = issued \cup {r}
                 /\ Queued' \subseteq Queued \cup {r}
      BY <3>2 DEF SynchReq, Send, Queued, reqVars
    <3> QED BY <1>4, <3>1, <3>2
  <2> QED BY <1>4, <2>1, CallingKept DEF SameCalls
<1>5. ASSUME NEW s \in Session, NEW r \in ReqId, NEW o \in Outcome,
             DeliverAsynch(s, r, o)
      PROVE  CallingOK'
  <2>1. /\ issued' = issued
        /\ Queued' \subseteq Queued
        /\ r \in Queued
        /\ r \notin Queued'
        /\ r \in issued
    BY <1>5
    DEF DeliverAsynch, Dequeue, Queued, Types, libVars, EngineInv, QueuesOK
  <2>2. \A i \in Calling : stack[i].r # r
    BY <2>1 DEF CallingOK
  <2> QED BY <1>5, <2>1, <2>2, CallStep DEF CallingOK
<1>6. CASE UNCHANGED vars
  BY <1>1, <1>6
  DEF vars, EndsCallbacks, FewerCalls, Calling, listVars, reqVars, libVars
<1> QED
  BY <1>1, <1>2, <1>3, <1>4, <1>5, <1>6, ClientSteps, EngineSteps, LibrarySteps
  DEF Next
-----------------------------------------------------------------------------
(* The refinement.                                                         *)

StatesTold == \A r \in ReqId : StateTells(r)

(* Every request is in one of its four states.                             *)
LEMMA FourStates ==
  ASSUME EngineInv, CallingOK, NEW r \in ReqId
  PROVE  \/ /\ r \notin issued
            /\ \A s \in Session : ~Called(s, r) /\ r \notin as_reqs_lst[s]
         \/ \E s \in Session :
              /\ Called(s, r)
              /\ r \in issued
              /\ \A t \in Session : r \notin as_reqs_lst[t]
         \/ \E s \in Session :
              /\ r \in as_reqs_lst[s]
              /\ r \in issued
              /\ \A t \in Session : ~Called(t, r) /\ (r \in as_reqs_lst[t] => t = s)
         \/ /\ r \in issued \ Queued
            /\ \A s \in Session : ~Called(s, r) /\ r \notin as_reqs_lst[s]
BY DEF EngineInv, QueuesOK, CallingOK, Called, Queued

(* Without a change of what the state of a request depends on, it stays.   *)
LEMMA StateStays ==
  ASSUME EngineInv, CallingOK, StatesTold, StatesTold', SameCalls,
         NEW r \in ReqId, r \in issued <=> r \in issued',
         \A s \in Session : r \in as_reqs_lst[s] <=> r \in as_reqs_lst'[s]
  PROVE  RequestState(r)' = RequestState(r)
<1>1. \A s \in Session : Called(s, r) <=> Called(s, r)'
  BY DEF SameCalls, FewerCalls, Called
<1>2. r \in Queued <=> r \in Queued'
  BY DEF Queued
<1>3. StateTells(r) /\ StateTells(r)'
  BY DEF StatesTold
<1> QED BY <1>1, <1>2, <1>3, FourStates DEF StateTells

(* Callbacks that end are over; nothing else changes.                      *)
LEMMA EndsMapped ==
  ASSUME EngineInv, CallingOK, StatesTold, StatesTold', EndsCallbacks
  PROVE  Contract!EndCallbacks({r \in ReqId : RequestState(r)' # RequestState(r)})
<1> DEFINE R == {r \in ReqId : RequestState(r)' # RequestState(r)}
<1>1. Listed' = Listed /\ Queued' = Queued
  BY DEF EndsCallbacks, Listed, Queued
<1>2. ASSUME NEW r \in R
      PROVE  /\ RequestState(r) \in {"calling"} \X Session
             /\ RequestState(r)' = <<"over", None>>
  <2>1. \A s \in Session : Called(s, r)' => Called(s, r)
    BY DEF EndsCallbacks, FewerCalls, Called
  <2>2. StateTells(r) /\ StateTells(r)'
    BY DEF StatesTold
  <2>3. issued' = issued /\ as_reqs_lst' = as_reqs_lst
    BY DEF EndsCallbacks
  <2>4. PICK s \in Session : Called(s, r) /\ r \in issued /\ r \notin Queued
    <3>1. RequestState(r)' # RequestState(r)
      OBVIOUS
    <3> QED BY <1>1, <2>1, <2>2, <2>3, <3>1, FourStates DEF StateTells, Queued
  <2>5. RequestState(r) = <<"calling", s>>
    BY <2>2, <2>4 DEF StateTells
  <2>6. \A t \in Session : ~Called(t, r)'
    BY <2>1, <2>2, <2>4, <2>5 DEF StateTells
  <2>7. RequestState(r)' = <<"over", None>>
    BY <1>1, <2>2, <2>3, <2>4, <2>6 DEF StateTells
  <2> QED BY <2>5, <2>7
<1> QED BY <1>1, <1>2 DEF Contract!EndCallbacks

(* Opening a session changes no request.                                   *)
LEMMA OpenMapped ==
  ASSUME Types, EngineInv, CallingOK, StatesTold, StatesTold', SameCalls,
         NEW s \in Session, NEW kinds \in SUBSET CbKinds, Open(s, kinds)
  PROVE  Contract!OpenSession(s)
<1>1. s \notin Listed /\ Listed' = Listed \cup {s}
  BY OpenList DEF Open, Allocated
<1>2. as_reqs_lst' = as_reqs_lst /\ issued' = issued
  BY <1>1 DEF Open, Types, EngineInv, QueuesOK
<1>3. \A r \in ReqId : RequestState(r)' = RequestState(r)
  BY <1>2, StateStays
<1> QED BY <1>1, <1>3 DEF Contract!OpenSession

(* Closing a session cancels what is pending on it and nothing else.       *)
LEMMA CloseMapped ==
  ASSUME Types, EngineInv, CallingOK, StatesTold, StatesTold', SameCalls,
         NEW s \in Session, Close(s)
  PROVE  Contract!CloseSession(s)
<1>1. s \in Listed
  BY DEF Close
<1>2. Listed' = Listed \ {s}
  <2> DEFINE u == Unlinked(s)
  <2>1. {u[i] : i \in DOMAIN u} = Listed \ {s}
    BY <1>1, UnlinkedProperties DEF EngineInv
  <2>2. sessions' = u
    BY DEF Close
  <2> HIDE DEF u
  <2> QED BY <2>1, <2>2 DEF Listed
<1>3. /\ issued' = issued
      /\ \A t \in Session : as_reqs_lst'[t] = IF t = s THEN {} ELSE as_reqs_lst[t]
  BY DEF Close, FreeReqs, TrapUnref, DeferClose, CloseNow, Types
<1>4. ASSUME NEW r \in ReqId
      PROVE  RequestState(r)' = IF RequestState(r) = <<"pending", s>>
                                THEN <<"over", None>> ELSE RequestState(r)
  <2>1. StateTells(r) /\ StateTells(r)'
    BY DEF StatesTold
  <2>2. CASE r \in as_reqs_lst[s]
    <3>1. /\ r \in issued
          /\ \A t \in Session : ~Called(t, r)
          /\ \A t \in Session : r \in as_reqs_lst[t] => t = s
      BY <2>2, FourStates DEF EngineInv, QueuesOK
    <3>2. r \notin Queued' /\ \A t \in Session : ~Called(t, r)'
      BY <1>3, <3>1 DEF Queued, SameCalls, FewerCalls, Called
    <3> QED BY <1>3, <2>1, <2>2, <3>1, <3>2 DEF StateTells
  <2>3. CASE r \notin as_reqs_lst[s]
    <3>1. RequestState(r)' = RequestState(r)
      BY <1>3, <2>3, StateStays
    <3>2. RequestState(r) # <<"pending", s>>
      BY <2>1, <2>3, FourStates DEF StateTells, Queued
    <3> QED BY <3>1, <3>2
  <2> QED BY <2>2, <2>3
<1> QED BY <1>1, <1>2, <1>4 DEF Contract!CloseSession

(* An asynchronous request becomes pending; a synchronous one uses its     *)
(* id up without ever having a callback.                                   *)
LEMMA SendMapped ==
  ASSUME Types, EngineInv, CallingOK, StatesTold, StatesTold', SameCalls,
         NEW s \in Session, NEW r \in ReqId, AsynchReq(s, r) \/ SynchReq(s, r)
  PROVE  Contract!Start(s, r) \/ Contract!Spend(r)
<1>1. /\ s \in Listed
      /\ Listed' = Listed
      /\ r \notin issued
      /\ issued' = issued \cup {r}
  BY DEF AsynchReq, SynchReq, Send, listVars, Listed
<1>2. \A q \in ReqId : StateTells(q) /\ StateTells(q)'
  BY DEF StatesTold
<1>3. RequestState(r) = <<"unused", None>>
  BY <1>1, <1>2 DEF StateTells
<1>4. /\ \A t \in Session : ~Called(t, r) /\ r \notin as_reqs_lst[t]
      /\ \A t \in Session : ~Called(t, r)'
  BY <1>1, FourStates DEF SameCalls, FewerCalls, Called
<1>5. CASE AsynchReq(s, r)
  <2>1. \A t \in Session :
          as_reqs_lst'[t] = as_reqs_lst[t] \cup (IF t = s THEN {r} ELSE {})
    BY <1>5 DEF AsynchReq, Types
  <2>2. RequestState(r)' = <<"pending", s>>
    BY <1>2, <2>1 DEF StateTells
  <2>3. \A q \in ReqId \ {r} : RequestState(q)' = RequestState(q)
    BY <1>1, <2>1, StateStays
  <2> QED BY <1>1, <1>3, <2>2, <2>3 DEF Contract!Start
<1>6. CASE SynchReq(s, r)
  <2>1. as_reqs_lst' = as_reqs_lst
    BY <1>6 DEF SynchReq, reqVars
  <2>2. RequestState(r)' = <<"over", None>>
    <3>1. r \in issued' \ Queued'
      BY <1>1, <1>4, <2>1 DEF Queued
    <3> QED BY <1>2, <1>4, <3>1 DEF StateTells
  <2>3. \A q \in ReqId \ {r} : RequestState(q)' = RequestState(q)
    BY <1>1, <2>1, StateStays
  <2> QED BY <1>1, <1>3, <2>2, <2>3 DEF Contract!Spend
<1> QED BY <1>5, <1>6

(* The library answers a queued request: its callback starts.              *)
LEMMA CallMapped ==
  ASSUME Types, EngineInv, CallingOK, CallingOK', StatesTold, StatesTold',
         NEW s \in Session, NEW r \in ReqId, NEW o \in Outcome,
         DeliverAsynch(s, r, o)
  PROVE  Contract!InvokeCallback(s, r)
<1>1. /\ s \in Listed
      /\ Listed' = Listed
      /\ r \in as_reqs_lst[s]
      /\ issued' = issued
      /\ \A t \in Session :
           as_reqs_lst'[t] = as_reqs_lst[t] \ (IF t = s THEN {r} ELSE {})
  BY DEF DeliverAsynch, Dequeue, Types, listVars, libVars, Listed
<1>2. \A q \in ReqId : StateTells(q) /\ StateTells(q)'
  BY DEF StatesTold
<1>3. RequestState(r) = <<"pending", s>>
  BY <1>1, <1>2 DEF StateTells
<1>4. RequestState(r)' = <<"calling", s>>
  <2>1. Called(s, r)'
    BY CallStep DEF Called
  <2> QED BY <1>2, <2>1 DEF StateTells
<1>5. ASSUME NEW q \in ReqId \ {r}
      PROVE  RequestState(q)' = RequestState(q)
  <2>1. \A t \in Session : Called(t, q) <=> Called(t, q)'
    BY CallStep DEF Called
  <2>2. \A t \in Session : q \in as_reqs_lst[t] <=> q \in as_reqs_lst'[t]
    BY <1>1
  <2>3. q \in Queued <=> q \in Queued'
    BY <2>2 DEF Queued
  <2> QED BY <1>1, <1>2, <2>1, <2>2, <2>3, FourStates DEF StateTells
<1> QED BY <1>1, <1>3, <1>4, <1>5 DEF Contract!InvokeCallback

(* Every step maps to a step of the contract or to a stutter.              *)
LEMMA ContractStep ==
  ASSUME Types, EngineInv, CallingOK, CallingOK', StatesTold, StatesTold',
         [Next]_vars
  PROVE  \/ Contract!ContractNext
         \/ UNCHANGED <<Listed, [r \in ReqId |-> RequestState(r)]>>
<1>1. ASSUME EndsCallbacks
      PROVE  Contract!ContractNext
  BY <1>1, EndsMapped DEF Contract!ContractNext
<1>2. ASSUME SameCalls, NEW s \in Session, NEW kinds \in SUBSET CbKinds, Open(s, kinds)
      PROVE  Contract!ContractNext
  BY <1>2, OpenMapped DEF Contract!ContractNext
<1>3. ASSUME SameCalls, NEW s \in Session, Close(s)
      PROVE  Contract!ContractNext
  BY <1>3, CloseMapped DEF Contract!ContractNext
<1>4. ASSUME SameCalls, NEW s \in Session, NEW r \in ReqId,
             AsynchReq(s, r) \/ SynchReq(s, r)
      PROVE  Contract!ContractNext
  BY <1>4, SendMapped DEF Contract!ContractNext
<1>5. ASSUME NEW s \in Session, NEW r \in ReqId, NEW o \in Outcome,
             DeliverAsynch(s, r, o)
      PROVE  Contract!ContractNext
  BY <1>5, CallMapped DEF Contract!ContractNext
<1>6. CASE UNCHANGED vars
  <2>1. EndsCallbacks
    BY <1>6
    DEF vars, EndsCallbacks, FewerCalls, Calling, listVars, reqVars, libVars
  <2> QED BY <1>1, <2>1
<1> QED
  BY <1>1, <1>2, <1>3, <1>4, <1>5, <1>6, ClientSteps, EngineSteps, LibrarySteps
  DEF Next

(* The initial states map to the initial state of the contract.            *)
LEMMA ContractStart == Init => Contract!ContractInit
<1> SUFFICES ASSUME Init PROVE Contract!ContractInit
  OBVIOUS
<1>1. Listed = {}
  BY DEF Init, Listed
<1>2. \A r \in ReqId : RequestState(r) = <<"unused", None>>
  BY DEF Init, RequestState, Calling, Queued
<1> QED BY <1>1, <1>2 DEF Contract!ContractInit

(* A request whose callback runs has left its queue, and no second frame   *)
(* of the C stack is its callback's.                                       *)
THEOREM CallingInv == Spec => []CallingOK
<1>1. Init => CallingOK
  BY DEF Init, CallingOK, Calling
<1>2. Types /\ EngineInv /\ CallingOK /\ [Next]_vars => CallingOK'
  BY CallingStep
<1> QED BY <1>1, <1>2, InductiveInv, PTL DEF Spec

(* The engine implements the contract: a request's callback runs at most   *)
(* once and only while its session is open, never after a close, even when *)
(* callbacks pump events, send, close and raise errors themselves.         *)
THEOREM ImplementsContract == Spec => KeepsContract
<1>1. EngineInv /\ CallingOK => StatesTold
  BY StatesTell DEF StatesTold
<1>2. Types /\ EngineInv /\ CallingOK /\ CallingOK' /\ StatesTold /\ StatesTold' /\ [Next]_vars
        => [Contract!ContractNext]_<<Listed, [r \in ReqId |-> RequestState(r)]>>
  BY ContractStep
<1> QED
  BY <1>1, <1>2, ContractStart, InductiveInv, CallingInv, PTL
  DEF Spec, KeepsContract, Contract!ContractSpec
=============================================================================
