------------------------------- MODULE NmSnmp -------------------------------
(***************************************************************************)
(* The request engine of src/src/nm_snmp.c in its default build            *)
(* (-DUSE_SNMPTRAPD): the list of sessions, synchronous and asynchronous   *)
(* requests, the event pump, user callbacks, traps, and closing.           *)
(*                                                                         *)
(* The program is single threaded, yet its steps interleave: the pump      *)
(* (nm_snmp_event) lets the net-snmp library call back into luasnmp, which *)
(* calls Lua functions, which may call every primitive again, the pump     *)
(* included.  The C stack is therefore part of the state: `stack' holds    *)
(* one frame per activation that is waiting for something above it.  Lua   *)
(* runs when the stack is empty (the main program) or when a user callback *)
(* is on top; everything else is the engine or the library running.        *)
(*                                                                         *)
(* The library and the agents behind it are external: `lib' is the set of  *)
(* requests snmp_send has handed over and the library still holds, `cmu'   *)
(* the library sessions that are open.                                     *)
(***************************************************************************)
EXTENDS Integers, Sequences, FiniteSets

CONSTANTS
  Session,      \* the Tsession blocks malloc can return
  ReqId,        \* the request ids snmp_send can return, each at most once
  None,         \* NULL, and "no request"
  CallbackOps,  \* the primitives the program calls from inside its callbacks
  CbKinds,      \* the notification callbacks a session may be opened with
  Outcome,      \* how the library ends a request
  MaxDepth      \* bound on the C stack, in frames

AllOps == {"open", "close", "close_busy", "asynch", "synch", "synch_busy",
           "wait", "event", "loop", "error"}
AllOutcomes == {"response", "report", "not_in_time", "timeout"}

ASSUME EngineAssumption ==
  /\ IsFiniteSet(Session)
  /\ IsFiniteSet(ReqId)
  /\ None \notin Session \cup ReqId
  /\ CallbackOps \subseteq AllOps
  /\ CbKinds \subseteq {"trapcb", "infocb"}
  /\ Outcome \subseteq AllOutcomes
  /\ MaxDepth \in Nat

VARIABLES
  sessions,     \* nm_snmp_sessions, head first
  leaked,       \* unlinked Tsession blocks that nothing frees any more
  deadnext,     \* the `next' field an unlinked block keeps
  cbs,          \* per session: which of trapcb and infocb are not -1
  registry,     \* the session keys present in LUA_REGISTRYINDEX
  as_reqs_lst,  \* per session: request ids on the list of pending requests
  as_reqs,      \* per session: the counter beside that list
  async_reqs,   \* nm_snmp_async_reqs
  synch,        \* per session: synch_req and cmu_synch_state
  sync_reqs,    \* nm_snmp_sync_reqs
  in_usr_cback, \* nm_in_usr_cback
  close_list,   \* nm_close_list
  ntraps,       \* nm_snmp_ntraps
  trap_sock,    \* nm_trap_sock is open
  cmu,          \* library sessions that are open
  lib,          \* <<session, request>> pairs the library holds
  issued,       \* request ids handed out so far
  stack         \* the C stack, innermost frame last

listVars == <<sessions, leaked, deadnext, cbs, registry>>
reqVars  == <<as_reqs_lst, as_reqs, async_reqs>>
syncVars == <<synch, sync_reqs>>
trapVars == <<ntraps, trap_sock>>
cbVars   == <<in_usr_cback, close_list>>
libVars  == <<cmu, lib, issued>>
vars == <<listVars, reqVars, syncVars, trapVars, cbVars, libVars, stack>>

PumpFn == {"synch_req", "wait", "eventloop", "event"}

(* A frame: a pump is in its select phase ("net"), about to look at the    *)
(* trap socket ("trap") or about to drain the close list ("close"); a user *)
(* callback of a request tells whether the library drops the request when  *)
(* it returns ("drop", "keep"); a trap dispatch either runs a user callback*)
(* ("call") or stands at a session of the list ("next").                   *)
Frame == [fn : PumpFn \cup {"asynch_rsp", "trap"},
          at : {"net", "trap", "close", "drop", "keep", "next", "call"},
          s : Session \cup {None}, r : ReqId \cup {None},
          nxt : Session \cup {None},
          due : SUBSET Session] \* history: whom this trap is still to reach

NewFrame(fn, at, s, r) ==
  [fn |-> fn, at |-> at, s |-> s, r |-> r, nxt |-> None, due |-> {}]

Keys == {"lua_session", "trapcb", "infocb"}

(* What malloc gives and free leaves: fields nobody may read.              *)
Blank == [synch_req |-> FALSE, waiting |-> FALSE, reqid |-> None, of |-> None]

SynchState == [synch_req : BOOLEAN, waiting : BOOLEAN,
               reqid : ReqId \cup {None}, \* state->reqid
               of : ReqId \cup {None}]    \* request state->status and ->pdu are of

Listed == {sessions[i] : i \in DOMAIN sessions}
Allocated == Listed \cup leaked
Queued == UNION {as_reqs_lst[s] : s \in Session}

Position(s) == CHOOSE i \in DOMAIN sessions : sessions[i] = s

NextOf(s) ==
  IF s \in Listed
  THEN IF Position(s) < Len(sessions) THEN sessions[Position(s) + 1] ELSE None
  ELSE deadnext[s]

ListHead == IF sessions = <<>> THEN None ELSE sessions[1]

UnlinkedWithNext(s) == SelectSeq(sessions, LAMBDA t : t \notin {s, NextOf(s)})

Unlinked(s) ==
  [i \in 1 .. (Len(sessions) - 1) |->
     IF i < Position(s) THEN sessions[i] ELSE sessions[i + 1]]

Top == stack[Len(stack)]
Popped == SubSeq(stack, 1, Len(stack) - 1)
Retop(f) == [stack EXCEPT ![Len(stack)] = f]

IsUserCallback(f) == f.fn = "asynch_rsp" \/ (f.fn = "trap" /\ f.at = "call")
InCallback == stack # <<>> /\ IsUserCallback(Top)
InPump(at) == stack # <<>> /\ Top.fn \in PumpFn /\ Top.at = at

(* Lua code can call primitive `op': the main program calls anything, a    *)
(* callback what the program is written to call there.                     *)
MayCall(op) == stack = <<>> \/ (InCallback /\ op \in CallbackOps)

(* The session a synchronous request is waiting on, or that the trap loop  *)
(* has saved as its next one.                                              *)
InUse(s) == \/ synch[s].synch_req
            \/ \E i \in DOMAIN stack : stack[i].fn = "trap" /\ stack[i].nxt = s

Types ==
  /\ sessions \in Seq(Session)
  /\ leaked \subseteq Session
  /\ deadnext \in [Session -> Session \cup {None}]
  /\ cbs \in [Session -> SUBSET CbKinds]
  /\ registry \subseteq Session \X Keys
  /\ as_reqs_lst \in [Session -> SUBSET ReqId]
  /\ as_reqs \in [Session -> Int]
  /\ async_reqs \in Int
  /\ synch \in [Session -> SynchState]
  /\ sync_reqs \in Int
  /\ in_usr_cback \in BOOLEAN
  /\ close_list \subseteq Session
  /\ ntraps \in Int
  /\ trap_sock \in BOOLEAN
  /\ cmu \subseteq Session
  /\ lib \subseteq Session \X ReqId
  /\ issued \subseteq ReqId
  /\ stack \in Seq(Frame)

(* Every variable has its type, and the counters the loops of the engine   *)
(* test against 0 (as_reqs, nm_snmp_async_reqs, nm_snmp_ntraps) never      *)
(* become negative.                                                        *)
TypeOK ==
  /\ Types
  /\ as_reqs \in [Session -> Nat]
  /\ async_reqs \in Nat
  /\ ntraps \in Nat

Init ==
  /\ sessions = <<>>
  /\ leaked = {}
  /\ deadnext = [s \in Session |-> None]
  /\ cbs = [s \in Session |-> {}]
  /\ registry = {}
  /\ as_reqs_lst = [s \in Session |-> {}]
  /\ as_reqs = [s \in Session |-> 0]
  /\ async_reqs = 0
  /\ synch = [s \in Session |-> Blank]
  /\ sync_reqs = 0
  /\ in_usr_cback = FALSE
  /\ close_list = {}
  /\ ntraps = 0
  /\ trap_sock = FALSE
  /\ cmu = {}
  /\ lib = {}
  /\ issued = {}
  /\ stack = <<>>
-----------------------------------------------------------------------------
(* Opening and closing sessions.                                           *)

OpenedKeysTrapOnly(s, kinds) == {s} \X ((kinds \ {"infocb"}) \cup {"lua_session"})

(* What nm_snmp_open puts into the registry.                               *)
OpenedKeys(s, kinds) == {s} \X (kinds \cup {"lua_session"})

(* nm_snmp_open with parameters the library accepts: a fresh block becomes *)
(* the head of the list; the first session with a notification callback    *)
(* opens the trap socket.                                                  *)
Open(s, kinds) ==
  /\ MayCall("open")
  /\ s \notin Allocated
  /\ sessions' = <<s>> \o sessions
  /\ cbs' = [cbs EXCEPT ![s] = kinds]
  /\ registry' = registry \cup OpenedKeys(s, kinds)
  /\ synch' = [synch EXCEPT ![s] = Blank]
  /\ as_reqs_lst' = [as_reqs_lst EXCEPT ![s] = {}]
  /\ as_reqs' = [as_reqs EXCEPT ![s] = 0]
  /\ ntraps' = IF kinds # {} THEN ntraps + 1 ELSE ntraps
  /\ trap_sock' = (trap_sock \/ (kinds # {} /\ ntraps = 0))
  /\ cmu' = cmu \cup {s}
  /\ UNCHANGED <<leaked, deadnext, async_reqs, sync_reqs, cbVars, lib, issued,
                 stack>>

(* snmp_open fails: the block is freed, and the registry keeps what was put *)
(* there under its callbacks' addresses.                                   *)
OpenFails(s, kinds) ==
  /\ MayCall("open")
  /\ s \notin Allocated
  /\ registry' = registry \cup ({s} \X kinds)
  /\ UNCHANGED <<sessions, cbs, leaked, deadnext, syncVars, reqVars, trapVars,
                 cbVars, libVars, stack>>

FreeReqsKeepsCount(s) ==
  /\ as_reqs_lst' = [as_reqs_lst EXCEPT ![s] = {}]
  /\ as_reqs' = [as_reqs EXCEPT ![s] = 0]
  /\ UNCHANGED async_reqs

(* nm_snmp_freereqs: pending requests are freed without a callback.        *)
FreeReqs(s) ==
  /\ async_reqs' = async_reqs - Cardinality(as_reqs_lst[s])
  /\ as_reqs_lst' = [as_reqs_lst EXCEPT ![s] = {}]
  /\ as_reqs' = [as_reqs EXCEPT ![s] = 0]

TrapUnrefAlways(s) ==
  /\ ntraps' = ntraps - 1
  /\ trap_sock' = (trap_sock /\ ntraps # 1)

TrapUnrefTrapOnly(s) ==
  /\ ntraps' = IF "trapcb" \in cbs[s] THEN ntraps - 1 ELSE ntraps
  /\ trap_sock' = (trap_sock /\ ~("trapcb" \in cbs[s] /\ ntraps = 1))

TrapUnref(s) ==
  /\ ntraps' = IF cbs[s] # {} THEN ntraps - 1 ELSE ntraps
  /\ trap_sock' = (trap_sock /\ ~(cbs[s] # {} /\ ntraps = 1))

(* What nm_snmp_close removes from the registry: the session, and under    *)
(* either notification callback the key of trapcb, for infocb too.         *)
ClosedKeys(s) ==
  {<<s, "lua_session">>} \cup (IF cbs[s] # {} THEN {<<s, "trapcb">>} ELSE {})

(* The library drops the sessions in S: the callbacks snmp_close makes for *)
(* what is outstanding find no such session in the list and return.        *)
LibWithout(S) == {p \in lib : p[1] \notin S}

CloseNow(s) ==
  /\ cmu' = cmu \ {s}
  /\ lib' = LibWithout({s})
  /\ cbs' = [cbs EXCEPT ![s] = {}]
  /\ synch' = [synch EXCEPT ![s] = Blank]
  /\ UNCHANGED <<close_list, leaked, deadnext>>

DeferCloseNot(s) == CloseNow(s)

(* In a user callback the library session goes to the close list.  The     *)
(* block is freed neither here nor when the list is drained.               *)
DeferClose(s) ==
  /\ close_list' = close_list \cup {s}
  /\ leaked' = leaked \cup {s}
  /\ deadnext' = [deadnext EXCEPT ![s] = NextOf(s)]
  /\ UNCHANGED <<cbs, synch, cmu, lib>>

(* nm_snmp_close of a session in the list.                                 *)
Close(s) ==
  /\ MayCall(IF InUse(s) THEN "close_busy" ELSE "close")
  /\ s \in Listed
  /\ sessions' = Unlinked(s)
  /\ FreeReqs(s)
  /\ TrapUnref(s)
  /\ registry' = registry \ ClosedKeys(s)
  /\ IF in_usr_cback THEN DeferClose(s) ELSE CloseNow(s)
  /\ UNCHANGED <<sync_reqs, in_usr_cback, issued, stack>>
-----------------------------------------------------------------------------
(* Sending requests.                                                       *)

(* snmp_send accepts a PDU: the library holds a request with a fresh id.   *)
Send(s, r) ==
  /\ s \in Listed
  /\ r \in ReqId \ issued
  /\ lib' = lib \cup {<<s, r>>}
  /\ issued' = issued \cup {r}
  /\ UNCHANGED cmu

(* nm_snmp_asynch_req: queue the request and count it twice.               *)
AsynchReq(s, r) ==
  /\ MayCall("asynch")
  /\ Send(s, r)
  /\ as_reqs_lst' = [as_reqs_lst EXCEPT ![s] = @ \cup {r}]
  /\ as_reqs' = [as_reqs EXCEPT ![s] = @ + 1]
  /\ async_reqs' = async_reqs + 1
  /\ UNCHANGED <<listVars, syncVars, trapVars, cbVars, stack>>

(* A pump frame fits the bound together with one callback above it.        *)
Room == Len(stack) + 2 <= MaxDepth

(* Where nm_snmp_event starts: with no request pending anywhere it skips   *)
(* the select loop.                                                        *)
EventStart == IF async_reqs # 0 \/ sync_reqs # 0 THEN "net" ELSE "trap"

(* nm_snmp_synch_req up to its wait loop.                                  *)
SynchReq(s, r) ==
  /\ MayCall(IF InUse(s) THEN "synch_busy" ELSE "synch")
  /\ Room
  /\ Send(s, r)
  /\ synch' = [synch EXCEPT ![s] =
                  [@ EXCEPT !.synch_req = TRUE, !.reqid = r, !.waiting = TRUE]]
  /\ sync_reqs' = sync_reqs + 1
  /\ stack' = Append(stack, NewFrame("synch_req", "net", s, r))
  /\ UNCHANGED <<listVars, reqVars, trapVars, cbVars>>

(* nm_snmp_wait with requests pending, nm_snmp_eventloop with something to *)
(* wait for, and nm_snmp_event: with nothing to do the first two return at *)
(* once and change nothing.                                                *)
StartPump(fn, s) ==
  /\ Room
  /\ stack' = Append(stack, NewFrame(fn, EventStart, s, None))
  /\ UNCHANGED <<listVars, reqVars, syncVars, trapVars, cbVars, libVars>>

Wait(s) ==
  /\ MayCall("wait")
  /\ s \in Listed
  /\ as_reqs[s] # 0
  /\ StartPump("wait", s)

EventLoop ==
  /\ MayCall("loop")
  /\ async_reqs # 0 \/ ntraps # 0
  /\ StartPump("eventloop", None)

Event ==
  /\ MayCall("event")
  /\ StartPump("event", None)
-----------------------------------------------------------------------------
(* The library calls back: nm_snmp_callback, from snmp_read or             *)
(* snmp_timeout in the select phase of the innermost pump.                 *)

SynchTakesAny(s, r, o) == synch[s].synch_req

SynchTakesTimeout(s, r, o) ==
  /\ synch[s].synch_req
  /\ r = synch[s].reqid \/ o \in {"report", "not_in_time", "timeout"}

(* nm_snmp_synch_input claims what is for the request waited on, and any   *)
(* REPORT whatever request it belongs to.                                  *)
SynchTakes(s, r, o) ==
  /\ synch[s].synch_req
  /\ r = synch[s].reqid \/ o \in {"report", "not_in_time"}

Calls(s, r, o) ==
  /\ InPump("net")
  /\ <<s, r>> \in lib
  /\ o \in Outcome

(* A return of 1 makes the library drop the request, except after a        *)
(* REPORT about the time window; after a return of 0 only a request that   *)
(* timed out is dropped.                                                   *)
LibAfter(s, r, o, res) ==
  IF (res = 1 /\ o # "not_in_time") \/ o = "timeout" THEN lib \ {<<s, r>>} ELSE lib

SynchInputWaitsOn(s, r, o) ==
  synch' = [synch EXCEPT ![s] = [@ EXCEPT !.waiting = (o # "response"), !.of = r]]

(* The wait ends, except after a REPORT about the time window.             *)
SynchInput(s, r, o) ==
  synch' = [synch EXCEPT ![s] =
               [@ EXCEPT !.waiting = (o = "not_in_time"), !.of = r]]

DeliverSynch(s, r, o) ==
  /\ Calls(s, r, o)
  /\ s \in Listed
  /\ SynchTakes(s, r, o)
  /\ SynchInput(s, r, o)
  /\ lib' = LibAfter(s, r, o, 1)
  /\ UNCHANGED <<listVars, reqVars, sync_reqs, trapVars, cbVars, cmu, issued,
                 stack>>

DequeueKeepsRequest(s, r) ==
  /\ async_reqs' = async_reqs - 1
  /\ as_reqs' = [as_reqs EXCEPT ![s] = @ - 1]
  /\ UNCHANGED as_reqs_lst

DequeueKeepsCount(s, r) ==
  /\ as_reqs_lst' = [as_reqs_lst EXCEPT ![s] = @ \ {r}]
  /\ async_reqs' = async_reqs - 1
  /\ UNCHANGED as_reqs

(* nm_snmp_asynch_rsp unlinks the request before it calls the user's       *)
(* function; the library still holds it meanwhile.                         *)
Dequeue(s, r) ==
  /\ as_reqs_lst' = [as_reqs_lst EXCEPT ![s] = @ \ {r}]
  /\ async_reqs' = async_reqs - 1
  /\ as_reqs' = [as_reqs EXCEPT ![s] = @ - 1]

DeliverAsynch(s, r, o) ==
  /\ Calls(s, r, o)
  /\ s \in Listed
  /\ ~SynchTakes(s, r, o)
  /\ r \in as_reqs_lst[s]
  /\ Dequeue(s, r)
  /\ in_usr_cback' = TRUE
  /\ stack' = Append(stack, NewFrame("asynch_rsp",
                              IF o = "not_in_time" THEN "keep" ELSE "drop", s, r))
  /\ UNCHANGED <<listVars, syncVars, trapVars, close_list, libVars>>

(* Nobody waits for the request: its session has left the list, or the     *)
(* request has left the session's list.  The latter still passes through   *)
(* the assignments to nm_in_usr_cback.                                     *)
DeliverUnknown(s, r, o) ==
  /\ Calls(s, r, o)
  /\ s \in Listed => ~SynchTakes(s, r, o) /\ r \notin as_reqs_lst[s]
  /\ in_usr_cback' = (in_usr_cback /\ s \notin Listed)
  /\ lib' = LibAfter(s, r, o, 0)
  /\ UNCHANGED <<listVars, reqVars, syncVars, trapVars, close_list, cmu, issued,
                 stack>>

Deliver(s, r, o) ==
  \/ DeliverSynch(s, r, o)
  \/ DeliverAsynch(s, r, o)
  \/ DeliverUnknown(s, r, o)

AsynchReturnKeepsFlag ==
  /\ stack # <<>>
  /\ Top.fn = "asynch_rsp"
  /\ lib' = IF Top.at = "drop" THEN lib \ {<<Top.s, Top.r>>} ELSE lib
  /\ stack' = Popped
  /\ UNCHANGED <<listVars, reqVars, syncVars, trapVars, cbVars, cmu, issued>>

(* The user's function returns to nm_snmp_asynch_rsp.                      *)
AsynchReturn ==
  /\ stack # <<>>
  /\ Top.fn = "asynch_rsp"
  /\ in_usr_cback' = FALSE
  /\ lib' = IF Top.at = "drop" THEN lib \ {<<Top.s, Top.r>>} ELSE lib
  /\ stack' = Popped
  /\ UNCHANGED <<listVars, reqVars, syncVars, trapVars, close_list, cmu, issued>>

(* snmp_read or snmp_timeout has returned.                                 *)
SelectDone ==
  /\ InPump("net")
  /\ stack' = Retop([Top EXCEPT !.at = "trap"])
  /\ UNCHANGED <<listVars, reqVars, syncVars, trapVars, cbVars, libVars>>
-----------------------------------------------------------------------------
(* Traps forwarded by snmptrapd: nm_snmp_trap walks the session list.      *)

(* A datagram is on the trap socket.                                       *)
TrapArrives ==
  /\ InPump("trap")
  /\ ntraps # 0
  /\ trap_sock
  /\ in_usr_cback' = TRUE
  /\ stack' = Append(Retop([Top EXCEPT !.at = "close"]),
                     [NewFrame("trap", "next", ListHead, None) EXCEPT
                        !.due = {s \in Listed : "trapcb" \in cbs[s]}])
  /\ UNCHANGED <<listVars, reqVars, syncVars, trapVars, close_list, libVars>>

(* Like EventEnds below: reading a freed block ends what is modelled.      *)
AtSession == /\ stack # <<>>
             /\ Top.fn = "trap"
             /\ Top.at = "next"
             /\ Top.s \in Allocated \cup {None}

TrapSkipStops ==
  /\ AtSession
  /\ Top.s # None
  /\ "trapcb" \notin cbs[Top.s]
  /\ stack' = Retop([Top EXCEPT !.s = None])
  /\ UNCHANGED <<listVars, reqVars, syncVars, trapVars, cbVars, libVars>>

TrapSkip ==
  /\ AtSession
  /\ Top.s # None
  /\ "trapcb" \notin cbs[Top.s]
  /\ stack' = Retop([Top EXCEPT !.s = NextOf(Top.s)])
  /\ UNCHANGED <<listVars, reqVars, syncVars, trapVars, cbVars, libVars>>

(* The next session is read before the user's function runs.               *)
TrapCall ==
  /\ AtSession
  /\ Top.s # None
  /\ "trapcb" \in cbs[Top.s]
  /\ <<Top.s, "trapcb">> \in registry
  /\ stack' = Retop([Top EXCEPT !.at = "call", !.nxt = NextOf(Top.s),
                              !.due = @ \ {Top.s}])
  /\ UNCHANGED <<listVars, reqVars, syncVars, trapVars, cbVars, libVars>>

TrapReturn ==
  /\ stack # <<>>
  /\ Top.fn = "trap"
  /\ Top.at = "call"
  /\ stack' = Retop([Top EXCEPT !.at = "next", !.s = Top.nxt, !.nxt = None])
  /\ UNCHANGED <<listVars, reqVars, syncVars, trapVars, cbVars, libVars>>

TrapDone ==
  /\ AtSession
  /\ Top.s = None
  /\ in_usr_cback' = FALSE
  /\ stack' = Popped
  /\ UNCHANGED <<listVars, reqVars, syncVars, trapVars, close_list, libVars>>
-----------------------------------------------------------------------------
(* The end of nm_snmp_event and of the loops around it.                    *)

DrainKeepsList ==
  /\ cmu' = cmu \ close_list
  /\ lib' = LibWithout(close_list)
  /\ UNCHANGED close_list

DrainCloseList ==
  /\ cmu' = cmu \ close_list
  /\ lib' = LibWithout(close_list)
  /\ close_list' = {}

(* The loop condition of the function that called nm_snmp_event.           *)
GoesOn(f) ==
  \/ f.fn = "synch_req" /\ synch[f.s].waiting
  \/ f.fn = "wait" /\ as_reqs[f.s] # 0
  \/ f.fn = "eventloop" /\ (async_reqs # 0 \/ ntraps # 0)

(* A loop whose session's block has been freed reads freed memory: the     *)
(* program's behaviour is undefined from there on and the model stops.     *)
EventEnds ==
  /\ InPump("trap") \/ InPump("close")
  /\ Top.fn \in {"synch_req", "wait"} => Top.s \in Allocated
  /\ DrainCloseList

EventAgain ==
  /\ EventEnds
  /\ GoesOn(Top)
  /\ stack' = Retop([Top EXCEPT !.at = EventStart])
  /\ UNCHANGED <<listVars, reqVars, syncVars, trapVars, in_usr_cback, issued>>

PumpReturn ==
  /\ EventEnds
  /\ Top.fn # "synch_req"
  /\ ~GoesOn(Top)
  /\ stack' = Popped
  /\ UNCHANGED <<listVars, reqVars, syncVars, trapVars, in_usr_cback, issued>>

SynchOverKeepsFlag(s) ==
  /\ sync_reqs' = sync_reqs - 1
  /\ UNCHANGED synch

SynchOver(s) ==
  /\ synch' = [synch EXCEPT ![s] = [@ EXCEPT !.synch_req = FALSE]]
  /\ sync_reqs' = sync_reqs - 1

(* nm_snmp_synch_req after its wait loop.                                  *)
SynchReturn ==
  /\ EventEnds
  /\ Top.fn = "synch_req"
  /\ ~GoesOn(Top)
  /\ SynchOver(Top.s)
  /\ stack' = Popped
  /\ UNCHANGED <<listVars, reqVars, trapVars, in_usr_cback, issued>>

(* A Lua error leaves C frames by longjmp: nothing but the stack changes.  *)
(* It is caught by the main program or by a user callback further out.     *)
Catchers == {0} \cup {i \in 1 .. (Len(stack) - 1) : IsUserCallback(stack[i])}

Unwind ==
  /\ \E i \in Catchers : stack' = SubSeq(stack, 1, i)
  /\ UNCHANGED <<listVars, reqVars, syncVars, trapVars, cbVars, libVars>>

LuaError == InCallback /\ MayCall("error") /\ Unwind

(* A session without its registry key: lua_call on nil.                    *)
TrapCallsNil ==
  /\ AtSession
  /\ Top.s # None
  /\ "trapcb" \in cbs[Top.s]
  /\ <<Top.s, "trapcb">> \notin registry
  /\ Unwind
-----------------------------------------------------------------------------
Client ==
  \/ \E s \in Session : \E kinds \in SUBSET CbKinds : Open(s, kinds) \/ OpenFails(s, kinds)
  \/ \E s \in Session : Close(s)
  \/ \E s \in Session, r \in ReqId : AsynchReq(s, r)
  \/ \E s \in Session, r \in ReqId : SynchReq(s, r)
  \/ \E s \in Session : Wait(s)
  \/ EventLoop
  \/ Event
  \/ LuaError

Engine ==
  \/ AsynchReturn
  \/ SelectDone
  \/ TrapSkip
  \/ TrapCall
  \/ TrapReturn
  \/ TrapDone
  \/ TrapCallsNil
  \/ EventAgain
  \/ PumpReturn
  \/ SynchReturn

Library ==
  \/ \E s \in Session, r \in ReqId, o \in Outcome : Deliver(s, r, o)
  \/ TrapArrives

Next == Client \/ Engine \/ Library

Spec == Init /\ [][Next]_vars

(* Fairness: the engine runs, user callbacks return (WF on Engine), and    *)
(* the library's timers give up on every request it is asked about again   *)
(* and again (SF on its timeout).                                          *)
Fairness ==
  /\ WF_vars(Engine)
  /\ \A s \in Session, r \in ReqId : SF_vars(Deliver(s, r, "timeout"))

FairSpec == Spec /\ Fairness
-----------------------------------------------------------------------------
(* What holds whatever the program does in its callbacks.                  *)

(* The reference counters for pending requests agree with the lists: the   *)
(* per-session counter wait() loops on and the global one the event loop   *)
(* and the pump go by (nm_snmp_asynch_req, _asynch_rsp, _freereqs).        *)
PendingCounted ==
  /\ async_reqs = Cardinality(Queued)
  /\ \A s \in Session : as_reqs[s] = Cardinality(as_reqs_lst[s])

(* The trap reference count is the number of open sessions with a          *)
(* notification callback, and the trap socket is open exactly while there  *)
(* is one (nm_snmp_open, nm_snmp_close).                                   *)
TrapRefCount ==
  /\ ntraps = Cardinality({s \in Listed : cbs[s] # {}})
  /\ trap_sock <=> ntraps > 0

(* No library session is lost: each one that is open is either in the list *)
(* or waits on the close list, and never both (nm_snmp_close).             *)
LibrarySessionsOwned ==
  /\ cmu = Listed \cup close_list
  /\ Listed \cap close_list = {}

(* A session in the list can be handed to its callbacks: its Lua object    *)
(* and its notification functions are in the registry.                     *)
RegistryServesSessions ==
  \A s \in Listed : {s} \X (cbs[s] \cup {"lua_session"}) \subseteq registry

(* The list has no block twice and none that was unlinked; a session that  *)
(* waits to be closed was unlinked.                                        *)
ListOK ==
  /\ \A i, j \in DOMAIN sessions : sessions[i] = sessions[j] => i = j
  /\ Listed \cap leaked = {}
  /\ close_list \subseteq leaked

(* A request is pending on one session at most, and that one is open.      *)
QueuesOK ==
  /\ \A s \in Session : as_reqs_lst[s] \subseteq issued
  /\ \A s \in Session : as_reqs_lst[s] # {} => s \in Listed
  /\ \A s, t \in Session : s # t => as_reqs_lst[s] \cap as_reqs_lst[t] = {}

(* The inductive invariant behind the four properties above: the counters  *)
(* follow the list and the queues because these are what ListOK and        *)
(* QueuesOK say they are.                                                  *)
EngineInv ==
  /\ ListOK
  /\ QueuesOK
  /\ PendingCounted
  /\ TrapRefCount
  /\ LibrarySessionsOwned
  /\ RegistryServesSessions

(* The state of a request as the contract sees it.                         *)
Calling == {i \in DOMAIN stack : stack[i].fn = "asynch_rsp"}

RequestState(r) ==
  CASE r \notin issued -> <<"unused", None>>
    [] \E i \in Calling : stack[i].r = r ->
         <<"calling", stack[CHOOSE i \in Calling : stack[i].r = r].s>>
    [] /\ r \in Queued
       /\ \A i \in Calling : stack[i].r # r ->
         <<"pending", CHOOSE s \in Session : r \in as_reqs_lst[s]>>
    [] OTHER -> <<"over", None>>

(* What makes RequestState well defined: a request whose callback runs has *)
(* left the queue it was on, and no frame but one is its callback's.       *)
CallingOK ==
  \A i \in Calling :
    /\ stack[i].s \in Session
    /\ stack[i].r \in issued \ Queued
    /\ \A j \in Calling : stack[i].r = stack[j].r => i = j

Contract == INSTANCE AsynchContract
              WITH open <- Listed, request <- [r \in ReqId |-> RequestState(r)]

(* The engine implements the contract: a request's callback runs at most   *)
(* once and only while its session is open, even when the library calls    *)
(* back again for the same request, and no callback comes after a close.   *)
(* That the close may come first is no part of it: see the next property.  *)
KeepsContract == Contract!ContractSpec

(* A session that is closed while requests are pending waits for them, and *)
(* their callbacks are called first (doc/snmp.html:3484-3490).  The code   *)
(* does not: nm_snmp_close frees the requests (nm_snmp_freereqs) and the   *)
(* callbacks snmp_close makes for them find no session in the list.        *)
CallbackBeforeClose == Contract!EndsInCallback
-----------------------------------------------------------------------------
(* What holds when callbacks do not pump events themselves.                *)

(* nm_in_usr_cback is set exactly while a user callback is being executed. *)
FlagTellsCallback ==
  in_usr_cback <=> \E i \in DOMAIN stack : stack[i].fn \in {"asynch_rsp", "trap"}

(* A user callback returns into a library session and a request the        *)
(* library still has: nobody has closed or dropped them underneath it.     *)
CallbackReturnsToLibrary ==
  \A i \in Calling : stack[i].s \in cmu /\ <<stack[i].s, stack[i].r>> \in lib

(* A wait loop reads its session's memory: the block is still allocated.   *)
PumpSessionAllocated ==
  \A i \in DOMAIN stack : stack[i].fn \in {"synch_req", "wait"} => stack[i].s \in Allocated

(* The state of a synchronous request is its own until it returns: what    *)
(* ends the wait is the outcome of the request that was sent.              *)
SynchOwnsState ==
  \A i \in DOMAIN stack : stack[i].fn = "synch_req" =>
    LET st == synch[stack[i].s]
    IN /\ st.synch_req
       /\ st.reqid = stack[i].r
       /\ st.waiting \/ st.of = stack[i].r

(* nm_snmp_sync_reqs and synch_req tell the synchronous requests that are  *)
(* being waited for.                                                       *)
SynchCounted ==
  LET waits == {i \in DOMAIN stack : stack[i].fn = "synch_req"}
  IN /\ sync_reqs = Cardinality(waits)
     /\ \A s \in Listed : synch[s].synch_req <=> \E i \in waits : stack[i].s = s

(* Every pending request is still held by the library, which is what makes *)
(* wait() and loop() end: its response or its timeout is yet to come.      *)
PendingIsHeld ==
  \A s \in Session : \A r \in as_reqs_lst[s] : <<s, r>> \in lib

(* The trap loop stands at, and will go on to, a session in the list.      *)
TrapLoopInList ==
  \A i \in DOMAIN stack : stack[i].fn = "trap" =>
    /\ stack[i].at = "next" => stack[i].s \in Listed \cup {None}
    /\ stack[i].nxt \in Listed \cup {None}

(* A trap reaches every session that had a trap callback when it arrived   *)
(* and is still open when the loop over the sessions ends.                 *)
TrapReachesAll ==
  \A i \in DOMAIN stack :
    stack[i].fn = "trap" /\ stack[i].at = "next" /\ stack[i].s = None
      => stack[i].due \cap Listed = {}

(* Why these hold: such a program has a pump and a callback on its stack   *)
(* at most, and closes sessions from callbacks into the close list only.   *)
Orderly == CallbackOps \subseteq {"open", "close", "asynch"}

Pumping == Len(stack) \in {1, 2}
CallingBack == Len(stack) = 2
SynchWaits == Pumping /\ stack[1].fn = "synch_req"

StackOrderly ==
  /\ Len(stack) <= 2
  /\ Pumping => stack[1].fn \in PumpFn
  /\ CallingBack => stack[2].fn \in {"asynch_rsp", "trap"}
  /\ in_usr_cback <=> CallingBack

WaitOrderly ==
  /\ \A s \in Session : synch[s].synch_req <=> SynchWaits /\ stack[1].s = s
  /\ sync_reqs = IF SynchWaits THEN 1 ELSE 0
  /\ SynchWaits => stack[1].s \in Listed
  /\ Pumping /\ stack[1].fn = "wait" => stack[1].s \in Allocated

CallOrderly ==
  CallingBack /\ stack[2].fn = "asynch_rsp" =>
    stack[2].s \in cmu /\ <<stack[2].s, stack[2].r>> \in lib

(* In the list s stands before t, or is t.                                 *)
NotAfter(s, t) ==
  \E i, j \in DOMAIN sessions : i <= j /\ sessions[i] = s /\ sessions[j] = t

(* Where a trap loop goes on, everything it has still to reach follows.    *)
TrapOrderly ==
  CallingBack /\ stack[2].fn = "trap" =>
    LET f == stack[2]
        on == IF f.at = "next" THEN f.s ELSE f.nxt
    IN /\ f.at \in {"next", "call"}
       /\ f.at = "next" => f.nxt = None
       /\ on \in Listed \cup {None}
       /\ f.due \subseteq Allocated
       /\ \A t \in f.due \cap Listed :
            "trapcb" \in cbs[t] /\ on # None /\ NotAfter(on, t)

OrderlyInv == StackOrderly /\ WaitOrderly /\ CallOrderly /\ TrapOrderly

(* No request waited for synchronously is in a queue: what the library     *)
(* drops for it was nobody else's.                                         *)
HeldInv ==
  /\ PendingIsHeld
  /\ \A s \in Session :
       synch[s].synch_req => synch[s].reqid \in issued \ Queued

(* A synchronous request returns (to the main program).                    *)
SynchReturns ==
  \A s \in Session : (stack # <<>> /\ stack[1].fn = "synch_req" /\ stack[1].s = s)
                        ~> (stack = <<>>)

(* wait() returns: all requests pending for its session end.               *)
WaitReturns ==
  (stack # <<>> /\ stack[1].fn = "wait") ~> (stack = <<>>)

(* loop() returns once no session has a notification callback.             *)
LoopReturns ==
  (stack # <<>> /\ stack[1].fn = "eventloop" /\ [](ntraps = 0)) ~> (stack = <<>>)
=============================================================================
