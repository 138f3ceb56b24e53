# Verification of LuaSNMP

TLA+ models of LuaSNMP, a binding of the net-snmp library to Lua: what its
request engine, its trap daemon, its sessions and their configuration, its user
and access administration, its MIB names, its walk and its conversions do, the
properties that make them right, model-checked with TLC on small instances, and
theorems about the engine, the daemon, sessions, walks, names, access rules and
values that hold for instances of any size, checked with TLAPS: one for every
safety property of the runs that pass. Source locations are relative to the
repository.

1. The system
2. The modules
3. The runs
4. Proofs
5. What the checks found
6. What is not modelled
7. Plan

## 1. The system

One operating-system thread runs a Lua program. It calls `luasnmp.lua`, which
calls the primitives of `src/nm_snmp.c`, which call net-snmp. Nothing happens
in the background: answers, timeouts and notifications are looked at only while
some primitive pumps events (`nm_snmp_event`). The pump lets net-snmp call back
into `nm_snmp_callback`, which calls a Lua function of the program, which may
call every primitive again. That re-entrance is the program's concurrency, and
most of what is hard about it.

| Component | State | Operations | Talks to |
|---|---|---|---|
| Session and request engine, `src/nm_snmp.c` | list of sessions; per session a queue of pending requests with a counter, the state of a synchronous request, callback references; global request counters, "in a user callback" flag, close list, trap reference count; keys in Lua's registry | open, close, synchronous and asynchronous get, getnext, getbulk, set, inform; wait, event, loop; response and trap callbacks | net-snmp (calls, callbacks), Lua (calls, registry), trap reception |
| Trap reception, `src/nm_trap.c` | the trap socket | open, close, read one notification | snmptrapd's output (default build), or the straps daemon |
| straps daemon, `src/straps/straps.c` | trap port, table of clients, the packet being forwarded | receive, forward, accept, drop, end | programs, over a Unix domain socket |
| Variable, type and OID conversion, `src/nm_util.c` | none | values of the library to Lua and back | engine |
| Counter64, `src/nm_c64.c` | none (values are immutable userdata) | arithmetic, comparison, conversion | Lua metatables, conversions |
| MIB access, `src/nm_mib.c` | net-snmp's tree, which grows as files are loaded | name, OID, type, parent, successor, module of a node; load | net-snmp, conversions |
| Exceptions, `src/except.c` | none | `newtry`, `protect` | Lua |
| Lua session layer, `luasnmp.lua` | the session's table, net-snmp's user list | open with its checks, close, wrappers of requests, walk, users and passwords (USM), VACM | engine |
| `trapd.lua`, `trapserver.lua` | none | format and print what snmptrapd passes on | engine |
| module loading, `compat-5.1.lua`, `nm_init.c` | none | third-party loader | |

What is hard, and what makes each part correct:

* **Re-entrance.** A callback may open and close sessions, its own included,
  send and wait, pump, or raise an error that unwinds the C stack by `longjmp`
  between any two assignments. Correct: counters agree with queues, no library
  session is lost or used after it is closed, a request's callback runs at most
  once and only while its session is open, loops end.
* **Addresses as keys.** Callbacks wait in Lua's registry under addresses of
  fields of blocks that `malloc` hands out again. Correct: a request is never
  answered with what belonged to another.
* **Lifetimes across processes.** Programs and daemons start, are killed and
  come back independently. Correct: connected clients get each packet once,
  whole and in order; no connection dangles; a daemon nobody needs ends.
* **Lost answers.** The library repeats an unanswered SET, and a key change is
  a difference to the old key. Correct: no user is left with a key nobody
  knows; what is reported done is done.
* **Tables that change under the program.** `open` writes defaults and its own
  callback into the table it checks, and leaves them there when it fails.
  Correct: the session that is opened in the end is the one the program meant.
* **Names.** The same name means what the files loaded so far make of it, and
  names, OIDs and numbers share one index. Correct: a name leads back to its
  object, and the agent's rows are those the program meant.
* **A moving tree.** A walk is many requests. Correct: sorted, inside the
  subtree, complete, and it ends.
* **Widths.** Numbers pass through `int`, `long`, `double` and two halves of a
  Counter64. Correct: what is set is what was meant.

## 2. The modules

### NmSnmp: the request engine

The default build (`-DUSE_SNMPTRAPD`). One variable for each static variable
and field named in its declarations; `stack` is the C stack, one frame per
activation of `nm_snmp_synch_req`, `_wait`, `_eventloop`, `_event`,
`_asynch_rsp` and `_trap` that waits for something above it. A pump's frame says
which part of `nm_snmp_event` is next: select and the library (`net`), the trap
socket (`trap`), the close list (`close`).

Actions fall in three groups. `Client` is Lua code calling a primitive, from the
main program or from a callback on top of the stack (`MayCall`): `Open`,
`OpenFails` (the library refuses: registry keys stay behind), `Close` (which
does `CloseNow` or `DeferClose`), `AsynchReq`, `SynchReq`, `Wait`, `EventLoop`,
`Event`, and `LuaError`, which unwinds the stack. `Engine` is the code between:
`SelectDone`, `EventAgain`, the trap loop's `TrapSkip`, `TrapCall`,
`TrapCallsNil`, `TrapReturn` and `TrapDone`, and the returns `AsynchReturn`,
`PumpReturn`, `SynchReturn`; the end of every event drains the close list
(`DrainCloseList`). `Library` is net-snmp delivering the end of a request it
holds (`Deliver`, by way of `DeliverSynch`, `DeliverAsynch` or
`DeliverUnknown`), and `TrapArrives`.

Constants that describe the program: `CallbackOps` are the primitives its
callbacks call; `close_busy` and `synch_busy` are closing, or sending
synchronously on, a session that a synchronous request waits on or that the trap
loop has saved as its next one. `Outcome` is how requests end: a response, a
REPORT that ends a request, a REPORT "not in time window", a timeout.

`AsynchContract` is the abstract specification: open sessions, and for each
request whether it is unused, pending, in its callback or over.
`KeepsContract` states that the engine implements it under the mapping
`open <- Listed`, `request <- RequestState`. The contract says that no callback
comes after its session is closed; it leaves open whether a session may be closed
while requests are pending. The documentation says that it waits for them, which
the module states as `EndsInCallback` and `NmSnmp` as `CallbackBeforeClose`: the
code does not do it (`close_pending`, section 5).

### Requests and Values: what a request carries

`Requests` takes over where `NmSnmp` abstracts: the arguments of asynchronous
requests as the code finds them on Lua's stack (`Ref`, `Narg`, `UsrCallb`), the
registry under addresses of blocks that are used again, what reaches the
callback (`AsynchRsp`, `PushRsp`), and the way of a value from the agent to Lua,
through the arithmetic of Counter64 and back (`Get`, `Compute`, `Convert`, `Make`,
`Set`). One callback runs at
a time; their nesting is the matter of `NmSnmp`. `Values` has the conversions as
operators: `f_create_vb` (`CreateVb`), `f_create_vl` (`CreateVl`), `f_str2oid`,
`f_oid2str`, `f_create_time_table`, `f_format_time`, `c64_get` and the rest, with
an `int` from `-IntMax - 1` to `IntMax` (`INT_MAX`). Counter64 is modelled as the code has it, two halves of an
`unsigned long` put together for each operator (`C64Arith`, `C64DivMod`,
`C64Compare`) and taken apart again; `SetStoresMeaning` holds the results
against the arithmetic of the integers modulo `Word`, 2^64 in the code
(`Result64`). `Numbers` are
the numbers programs compute with.

Octet strings are of four sorts, because the code tells no others apart: empty,
not printable, a text, and a text that is hex notation. Casting a number to
`int` that does not fit is undefined in C; `ToInt` gives the results processors
give.

Two conditions narrow the properties, and each names a behaviour of the code a
reader should know of. `AsDocumented`: with `asynch_set` a callback or magic
value given as the last argument is not seen, because the code uses the bounds
of `inform` (`nm_snmp.c:1562`); `asynch_getbulk` without a callback is refused
even if the session has a default one, and without a magic value its callback
gets an address as its magic. `Exact`: counters and gauges from 2^31 on do not
survive the cast to `int`; a Counter64 of more than 32 bits set as a plain
number loses the upper ones; a time without `ticks` loses its deciseconds, since
one function writes `deciseconds` and the other reads `decisecondes`; and a text
that reads as hex becomes the octets it denotes when the type is left out.

### Straps: the trap daemon and its clients

The other build. The daemon's loop at the grain of its system calls: receive,
the write of a packet's head and of its body to one client after the other,
accept, dropping of closed clients, the end; and the programs: `nm_trap_open`
with its attempts and its start of a daemon, `nm_trap_close`, `nm_trap_event`,
kill. Sockets are bounded queues of pieces, and writes block.

### UsmSessions: version 3 sessions and their users

`open` and `close` of `luasnmp.lua` with the user list all sessions share in
net-snmp (the first to name a user fixes its keys; closing removes it), and
`newpassword`, `createuser`, `clonefromuser`, `deleteuser` as SETs that can get
lost, be applied unanswered, and be repeated. `__clone` is disabled in the code
and not modelled. `Careful` names what the program takes care of; each rule is
there because a property fails without it:

* `one_session_per_user`: closing one of two sessions of a user takes the user
  away from the other.
* `no_repeated_change`: a change of another user's key that is applied and then
  repeated leaves a key nobody knows (the own-key objects are protected by the
  failing authentication of the repetition).
* `auth_only`: see the finding on `newpassword`.

### SessionOpen and Walk

`SessionOpen` is `open` of `luasnmp.lua`, check after check (`Checked`), and
`nm_snmp_open` (`Taken`, `Session`): from the table a program fills, the tokens of
`snmp.conf` and the defaults to what net-snmp gets. Each check takes and returns
the table with the error so far (`Check`), fills in its default and does nothing
after an error. The program changes fields,
opens, changes fields of the table as the failed `open` has left it, tries
again, or gives the table up. `given` is what the program wrote, `table` what it has
become; `Values` has what may be written into each field and `Avoided` what of it
a careful program does not write. `Meant` and `Deserves` state the documentation (`doc/objects.html`,
session parameters) of `given`. `Careful` names what the program takes care of;
without any one of the rules `OpenedAsMeant` or `RefusedForCause` fails:

* `sets_again`: a failed `open` may have put `__trap` in the place of the trap
  callback, which a second one takes for the program's; or `nil` in the place of
  a number that is none, which a second one takes for an omitted one.
* `passphrases_again`: `password` is copied into `authPassphrase` and
  `privPassphrase`, so that correcting it in a table that was tried has no effect.
* `community_for_v1`: an SNMPv1 session without a community ends the process
  (`strlen` of nothing, `nm_snmp.c:758`), the default is for version 2 only.
* `no_port`: `port` is checked and not handed on (`REMOVE_THIS_2`, `nm_snmp.c:1001`).
* `no_contextID`: it is read under the name `contextId` (`nm_snmp.c:928`).
* `known_privType`: an encryption nobody knows is not refused, the library takes
  its default.
* `no_defVersion_1`: `defVersion 1` in `snmp.conf` makes sessions of version 2c, the
  numbers of Lua's constants being one less.
* `one_defPassphrase`: `defPassphrase` is preferred to `defAuthPassphrase` and
  `defPrivPassphrase`.

`Walk` extends it: `walk` on a session that was opened, whose `version` and
`includeroot` it uses; one action per request, against a tree that changes
between requests and an agent that may answer anything. The end of the subtree
is recognised on the OID's text with `string.find`, as in the code, so `Text` and
`Found` work on characters. Versions 2 and 3 end the tree the same way.

### Mib, Vacm and Administration: names and access rules

`Mib` is the tree of nodes the loaded files make and the look-up in it:
`f_getmibnode` (`GetMibNode`: a node to start from, the way down as far as the
parts of the name have nodes, `Deepest`, and the numbers left, `Below`),
`nm_mib_getname`, `f_oid2str`, parents, successors, types, `load`. A program
holds a text it was given for an OID while files are loaded. An OID of
`nm_util.h` holds `NMAX_SUBID` subidentifiers, half of what an agent may send, and
texts are read with `atoi`: `NamesDenote` speaks of OIDs that fit (`Fits`).

`Vacm` extends it with `createsectogroup`, `createview`, `createaccess` and their
deletions: names become indexes (`Encode`, `Instance`), masks octets (`ViewMask`),
types are taken from the tree as it is (`NewVar`), and the SET goes over a
network that loses, delays and repeats. The agent decodes indexes as the MIB
says (`Decode`). `Administration` is the abstract specification: tables of
rows under keys, calls that take effect as meant or not at all.
`KeepsAdministration` states that `Vacm` implements it, with the agent's decoded
rows for the tables. `Careful`: `plain_names` (a name of digits is encoded as an
OID, one that reads as hex is stored as the octets it spells) and
`mask_in_pairs` (a run of three digits and more is passed over).

### MC modules

`MCNmSnmp`, `MCRequests`, `MCStraps`, `MCUsmSessions`, `MCWalk`, `MCVacm` extend
their module with values for constants that a `.cfg` cannot write down, and with
symmetry sets. Symmetry is used only in runs without liveness properties.

## 3. The runs

| Run | Question | States |
|---|---|---|
| `engine_free` | Callbacks do anything, requests end in any way; sessions with notification callbacks are opened and closed from inside trap callbacks, with errors: do counters, ownership, reference count, registry, types and contract hold? | 234 000 |
| `engine_orderly` | Callbacks open, close and send, but neither pump nor touch a session in use: are the flag, the close list, synchronous requests and the trap loop right? | 258 000 |
| `engine_live` | Do `wait`, `loop` and synchronous requests return? | 22 000 |
| `requests` | Does each callback get its own, does a set store what was meant? | 83 000 |
| `straps` | Do clients get their packets, do connections and daemons end? | 66 000 |
| `usm` | Do sessions keep their users, users their passwords, and is success true? | 149 000 |
| `walk` | Is a session that is opened, after failures too, the one that was meant; is a walk's list sorted, inside, complete, and does it end? | 139 000 |
| `vacm` | Do names denote their objects, and does the agent have the rows that were meant? | 41 000 |
| `wait_report`, `close_pending`, `usm_passwords`, `walk_subtree` | counterexamples, section 5 | |

**Properties.** Engine, any program: `PendingCounted`, `TrapRefCount`,
`LibrarySessionsOwned`, `RegistryServesSessions`, `KeepsContract`. Engine,
orderly program: `FlagTellsCallback` (nm_in_usr_cback is right),
`CallbackReturnsToLibrary` (nothing a callback returns into has been closed),
`PumpSessionAllocated` (a loop reads memory that is still there),
`SynchOwnsState`, `SynchCounted`, `PendingIsHeld`, `TrapLoopInList`,
`TrapReachesAll`. The second group does fail for unrestrained programs: the flag
is no counter, so a nested pump clears it under its outer callback, and the
close list is drained inside callbacks; that is why the discipline is spelled
out in `CallbackOps`. Requests: `OwnCallback`, `SetStoresMeaning`. Straps:
`ClientsGetTraps`, `NoDanglingClient`, `ConnectionsServeSessions`,
`NoIdleDaemon`, `TrapsArrive`, `LossNoticed`, `DaemonEnds`. Users:
`SessionsKeepTheirUser`, `NoForgottenUser`, `PasswordKnown`, `SuccessMeansDone`.
Opening: `OpenedAsMeant`, `RefusedForCause`. Walk: `ListSorted`, `InSubtree`,
`ListComplete`, `SingleListed`, `BadOidJustified`, `WalkEnds`. Names and access
rules: `NamesDenote`, `KeepsAdministration`. The engine states the types of its
variables (`TypeOK`), which is proved. The comment above each property states it
and names the code it is about.

**Bounds.**
* Engine: two sessions and two or three request ids suffice for one
  session's request to end while another's waits, for a request sent from
  within a callback and for nested waits; three sessions are needed for the
  trap loop to have a predecessor, a current and a saved next session. Ids are
  used once, so behaviours are finite and may stop: `engine_free` does not check
  for deadlock. `MaxDepth = 4` allows pump, callback, pump, callback.
  `RequestsOrTraps` keeps `engine_free` to two kinds of program: two requests on
  two sessions, nested to that depth, or notification callbacks on three sessions,
  without requests and without pumps inside callbacks. Programs that have both
  are in `engine_orderly`, and the theorems have no such bound.
* Requests: two blocks, so that one is used again while another waits;
  two session handles one after the other; ints of two bits (`IntMax = 1`), with the least and
  greatest values and those beside the limits of the conversions. Values are
  looked at in synchronous requests before the first asynchronous one
  (`NoAsynch`, `NoValues`): values do not meet callbacks in the code. `Numbers`
  has the ends of a half and of the whole Counter64 and those between.
* Straps: two programs, two connections, two datagrams, sockets of one
  packet, one daemon starting at a time beside the one that runs. Connections
  and datagrams are used once, hence no deadlock check.
* Users: two sessions, two users, two passwords, one repetition: enough
  for a second user created from the first, for a repetition after an applied
  change and for a session opened with an outdated password.
* Opening: two changes (`MaxEdits`) of five tables under three
  configurations: enough for a table with two faults, and for one that fails
  and is corrected in two fields; with three changes (883 000 states) the same
  holds. Walks start on sessions of tables that were not changed (`Walked`).
* Names and access rules: OIDs of 11 subidentifiers, so that a long name and a
  long OID meet the limit; `IntMax = 255`, so that one subidentifier does;
  one repetition, one earlier call under way; browsing and administration one
  after the other (`OneAfterTheOther`): they share the tree only, and each is
  looked at with every tree.
* Walk: five objects before, at, below and after two roots, two changes
  of the tree during a walk.

**Fairness.** Engine: weak fairness of `Engine` says that the process runs and
that callbacks return; strong fairness of the timeout of each request says that
`snmp_timeout` runs when `select` finds nothing to read, again and again, and
that net-snmp gives up after its retries. What it excludes is traffic that keeps
`select` busy for ever. `LoopReturns` assumes that no session has a notification
callback, since `loop` serves those without end. Straps: the daemon runs, a
started one gets to its bind or fails, programs pump events (a client that does
not read blocks the daemon, as the code's own comment says). Walk: requests are
answered or time out.

## 4. Proofs

Eight modules of proofs. Their theorems hold for any finite sets of sessions,
requests, users, programs and connections, any tables and configurations, any
MIB files, any objects and any agent; what they
assume beyond the named assumptions on constants is a hypothesis of the theorem
and is given here with it. Every inductive invariant stands in the component's
module under "why these hold" and was checked by TLC before it was proved.

### The engine

`NmSnmp_proofs`, for any program in the callbacks and any
nesting: `TypeCorrect` (`TypeOK`), `CountsPending` (`PendingCounted`), `CountsTraps`
(`TrapRefCount`), `OwnsLibrarySessions` (`LibrarySessionsOwned`), `ServesSessions`
(`RegistryServesSessions`). The invariant is `Types /\ EngineInv` (`InductiveInv`).
`EngineInv` adds two conjuncts to the properties. `ListOK`: no block is twice in
the list, none is both listed and unlinked, and what waits to be closed was
unlinked; without it, unlinking a session could leave a second copy in the list,
and neither the trap count nor the library sessions would follow the list.
`QueuesOK`: a request is on one queue at most, that of a listed session, and was
issued; without it, dequeuing a request on one session would not take one off
the global count. `TypeOK` says that counters are natural numbers, which no type
argument gives; it follows from `PendingCounted` and `TrapRefCount`, so `Types` has
integers and `TypeCorrect` comes after the invariant. There is one lemma per
action that touches what `EngineInv` speaks of, a frame lemma for the others, and
lemmas on list removal and on frames of the stack.

In the same module, under the same assumptions: `ImplementsContract`, the
refinement `Spec => KeepsContract`. A request is in its callback when a frame of
the C stack says so, pending when a queue has it. `CallingOK` (`CallingInv`) makes
that a function of the state: a request whose callback runs has left its queue
and has one frame only. Then every action is a step of the contract or a
stutter (`StatesTell`, and one lemma per action); an error that unwinds the stack
ends several callbacks at once, which the contract allows as one step.

`NmSnmpOrderly_proofs` is about the discipline of section 3, as a hypothesis on a
constant: `Orderly == CallbackOps \subseteq {"open", "close", "asynch"}`. Under it
`StaysOrderly` proves `OrderlyInv`, and from it follow `FlagIsRight`
(`FlagTellsCallback`), `ReturnsToLibrary` (`CallbackReturnsToLibrary`),
`WaitsOnAllocated` (`PumpSessionAllocated`), `CountsSynch` (`SynchCounted`),
`TrapLoopStays` (`TrapLoopInList`) and `TrapDelivered` (`TrapReachesAll`). `OrderlyInv`
has four parts: the stack is empty, a pump, or a pump with a callback above it
(`StackOrderly`); sessions waited on are allocated and their flags and counter
agree (`WaitOrderly`); a response callback's session and request are still the
library's (`CallOrderly`); the sessions a trap is still due to lie at or after
the place the trap loop has saved (`TrapOrderly`). Two theorems need that no REPORT
is taken for another request's (`NoReports == "report" \notin Outcome`; the
finding `wait_report` shows why): `HoldsPending` (`PendingIsHeld`), for any program,
from `HeldInv`, and `OwnsState` (`SynchOwnsState`), for orderly ones.

`Requests_proofs`: `CallsOwnCallback` (`OwnCallback`), without a hypothesis. What a
callback gets is read from the registry under the addresses of its block, which
malloc hands out again, so the invariant (`RegistryInv`) says of every pending
block that the registry has under its addresses, and under those of the session,
what was given with its own request (`Kept`), and of a block whose callback runs
that nobody else has it yet. `Stored` writes the keys of a block anew whatever the
arguments were, so nothing of its predecessor shows through. The rest of the
proof is about the arguments: of which type each position of a call is
(`TailCases`), which the C code tells apart by position and type only.

In the same module: `SetsStoreMeaning` (`SetStoresMeaning`), without a hypothesis,
for ints of any width, `INT_MAX` of the code included; what is assumed of the
constants is that the values of an object are of its type and width (`ValuesOf`)
and the numbers are of 64 bits (`RequestsAssumption`). The property looks at one
set, but what it says must hold of any way the program came by the value, so the
invariant (`MeaningInductive`, `MeaningInv`) says how each type of varbind says a
value (`Says`): an OID as itself or as the signed text of `f_oid2str`, octets as
text or in hex, a time with or without its ticks, a Counter64 as any halves, also
too large a low one, that make its number. Then every get (`GotSays`), every
value the program writes down (`MakesKeeps`) and every step of arithmetic
(`ComputeKeeps`, `ConvertKeeps`, `AtLeastKeeps`) keeps it, and a set of a varbind that
says a value stores it under `Exact`, and otherwise still some value of the type
(`Arrives`, one lemma per type). Under these lie:
* the uniqueness of quotient and remainder (`Euclid`, `Splits`), from which the
  results on two halves put together are the ones modulo `Word` that `Result64`
  asks for (`Adds`, `Subtracts`, `Multiplies`, `Divides`), products of two numbers
  of 64 bits included (`Product`);
* what is left of a number cast to `int` and encoded (`SignedIs`, `SubidBack`): a
  subidentifier comes back from its text unless `f_isoid` refuses it for its sign;
* that the fields of a time add up to its ticks (`Ticks`), and that hex notation
  is read back as what it shows (`HexBack`).

### The straps daemon

`Straps_proofs`, without a hypothesis: `StrapsTypes` (`TypeOK`), `NoneDangles`
(`NoDanglingClient`), `NoneLeaks` (`ConnectionsServeSessions`), `NeverIdles`
(`NoIdleDaemon`), `GetsTraps` (`ClientsGetTraps`). The first two rest on
`ClientsOrderly`: a program that has no notification callback, or is still
opening, has no connection. `GetsTraps` rests on `ForwardOrderly` (the packet
being forwarded is the last of the log, and goes to clients accepted before it)
and `BacklogOrderly` (a connection is accepted once and nothing is written to it
before); `Passed` says piece by piece what `ClientsGetTraps` says with
subsequences.

### Sessions and users

`UsmSessions_proofs`: `TypeCorrect` (`TypeOK`) and `ForgetsUsers` (`NoForgottenUser`)
for any program. `KeepsUsers` (`SessionsKeepTheirUser`) under
`one_session_per_user`. `KnowsPasswords` (`PasswordKnown`) and `SucceedsIfSaid`
(`SuccessMeansDone`) under `Careful = Rules`: section 2 says what goes wrong without
each rule, and the finding `usm_passwords` is one such case. `KnownInv` adds to
`PasswordKnown` what holds while a SET is under way: the user's key is of a
password told before, or of the one the SET gives; and `ChangeOnce`: a change of
keys that may reach the agent a second time is one of the session's own user,
whose repetition is refused once the first copy was applied.

### Walks

`Session_proofs`: `OidCompareOrders` (the comparison is a strict total order),
`WalkTypes`, `WalkSorts` (`ListSorted`), `BadOidIsTrue` (`BadOidJustified`),
`WalkIsComplete` (`ListComplete`), `WalkStaysInside` (`InSubtree`) and `WalkGetsSingle`
(`SingleListed`). `SortedInv`: the place of the walk is at or after the root and
everything listed. `CompleteInv`: an object of the subtree that has always been
there is listed or lies ahead. `SingleInv`: while nothing is below the root, the
list is empty or the root. They rest on facts about OIDs: the order is total and
transitive, and a subtree is convex in it (`SubtreeConvex`), so that the first OID
outside ends the subtree. These compare OIDs at the least part in which they
differ (`Least`), which takes the place of an induction over their length.

The last two theorems assume `TextDecides`: for an object after the root, the
search in its text that the code does tells whether it lies below the root. The
finding `walk_subtree` has objects of which it does not; `MCWalk` evaluates the
assumption on the objects of both runs (`TextsOfObjects`).

### Opening a session

`Session_proofs`, for a program that takes care of everything section 2 lists
(`CarefulProgram == Careful = Rules`; section 2 says what goes wrong without each
rule): `OpensAsMeant` (`OpenedAsMeant`) and `RefusesForCause` (`RefusedForCause`), for
any tables and configurations and any number of attempts and of changes between
them. The assumption on the configuration is that what it says of a community
or a passphrase is a string.

The invariant is `OpenInv` (`OpenInductive`), and `MadeOf` is its heart: a field of
`table` is the one of `given`, or was left out there and has what `open` fills in
(`Fills`), or is one of the two sorts of field that a failed `open` takes away
(`trap`, and a number that is none). `contextID` is left open, for it alone may
keep what an earlier table said, and nobody reads it. The proof follows the chain
of checks. `Passes` says of a part of the chain which fields it touches and which
faults it looks for: its table is still made of the given one, its error is
deserved, and when there is none, the fields are those of the session meant and
the faults are not there. There is one lemma per check, `Link` joins two parts,
`Blocked` says that after an error nothing happens, and `Attempt` is the whole.

### Names

`Mib_proofs`, without a hypothesis: `MibInductive` (`MibInv`) and `NamesAlwaysDenote`
(`NamesDenote`). The invariant has two parts. `TreeOK`: nodes are those of the
files and no node is without its parent. `HeldOK`: the text the program holds is
an OID or `IsName`, labels of nodes on the OID's way and numbers behind them;
that the tree may have grown since is why this is weaker than being what
`nm_mib_getname` returns now. That such a name leads back is shown without
induction over its parts: of two ways through the tree that differ, the first
place where they do would have two siblings of one label or one number
(`OneWay`, by the least such place), the way goes as far as there are labels
(`LabelsReached`), and from there numbers are copied (`WayEnds`). The assumptions are
that siblings differ in their labels, that an OID has one node, and that the
files `mib.init` loads hang together.

### Access rules

`Vacm_proofs`: `ImplementsAdministration`, the refinement `KeepsAdministration`, for
any arguments of the calls, any files loaded meanwhile, any `NMAX_SUBID` and any
number of repetitions and late requests. Its hypothesis is `CarefulCaller`: the
program keeps both rules of section 2 (`Careful = Rules`), and `None` is no record
of a call (`NoneIsNoCall`; `None` is a value of the model). The assumptions are, of
the VACM MIB, that its columns are leaves of the tree with the types the calls
count on, and that a table's columns are in one file and at one depth
(`ColumnsAssumption`); of the program, that names are octets, OIDs are ints and a
mask is runs of hex digits (`ArgumentsAssumption`); and `IntMax >= 255`, so that
octets are ints.

The invariant is `VacmInv` (`VacmInductive`). `Carries` is its heart: a call, made or
late, has in its request the row it means, under the key it means, if it is fit
(`Fit`), and else no row's variables or nothing at all; so that whenever one of its
requests arrives, the agent does what was meant or refuses. `CallOK` adds that a
request that is not repeated is over when it is answered: such a call leaves
nothing behind. `TreeWhole` says that files are loaded as a whole: without it the
type of one column could be known and that of another not, and a call that is fit
could be refused.

That calls carry what they mean (`CallCarries`, and one lemma per call) is about
data, and is shown without induction over it:

* an index is joined from its parts by `FlattenSeq`, whose recursive function is
  known by a least length at which it were not (`FlattenIs`);
* the object's OID leads through the tree to its column and no further, with as
  much of the index as there is room for (`ObjectFound`, `KeysOfObject`);
* the strings with their lengths can be read in one way only, place by place, and
  an index that was cut in none (`SameReading`; `DecodeGroup`, `DecodeView`,
  `DecodeAccess`);
* what `key2octet` writes `f_create_vl` reads (`OctetsBack`), what does not read as
  hex it leaves alone (`PlainText`), and runs of up to two digits are the octets
  they spell (`MaskIs`).

### Model-checked only

* Liveness: `SynchReturns`, `WaitReturns`, `LoopReturns`, `TrapsArrive`, `LossNoticed`,
  `DaemonEnds`, `WalkEnds`. They rest on fairness and `ENABLED`, which are out of
  the prover's reach.

Every safety property of a passing run is stated by a theorem.

## 5. What the checks found

* `wait_report` (`WaitReturns`): while a synchronous request waits,
  `nm_snmp_synch_input` (`nm_snmp.c:1734`) takes every REPORT for its own, also
  one that answers an asynchronous request of that session. Nobody counts that
  request down, and `wait` never returns.
* `close_pending` (`CallbackBeforeClose`): closing a session frees its pending
  requests without calling their callbacks (`nm_snmp.c:1205`);
  `doc/snmp.html:3484-3490` says that the session is put into a queue and closed
  once the request has completed, after its callback. Only the library session
  ever waits on a queue, and only if the close is called from a callback.
* `usm_passwords` (`SuccessMeansDone`): `newpassword` with flag `p` or `ap`
  builds the variable for the privacy key but does not send it
  (`luasnmp.lua:1191`), and reports success.
* `walk_subtree` (`InSubtree`): a walk from `1.2` lists `1.20`
  (`luasnmp.lua:789`).

Behaviours the models have, kept out of the properties' way by a named condition
or by what the property speaks of:

* closing a session from a callback that pumped events (`FlagTellsCallback` needs
  the discipline), or the session the trap loop goes to next;
* the straps daemon ending before its first client was accepted
  (`NoIdleDaemon` speaks of daemons that had one);
* names and indexes of OIDs with more than `NMAX_SUBID` subidentifiers, which are
  cut off without an error;
* a walk with SNMPv1 of a single object at the end of the tree lists nothing;
* the rules of `Careful` in `SessionOpen`, `UsmSessions` and `Vacm`, `AsDocumented`
  and `Exact` in `Requests`.

Seen while reading and not part of a model: `c64_get` of a table as first of two
operands reads the fields of the second; a division by a zero Counter64 ends the
process; the table of type names of `nm_mib.c` (255-260) lacks commas, so that
three types have wrong names and three read past its end; `deletesectogroup`
drops one of its errors for want of a `return` (`luasnmp.lua:1415`); the security
models are looked up in upper case, which only `USM` is (1390); the straps build
of `nm_snmp_trap` does not compile (`nm_snmp.c:2311`) and `f_trapconv` writes MIB
types where the library wants ASN types; `nm_snmp_usmpassword` is compiled out.

## 6. What is not modelled

* Engine: the creation of keys beyond their effect on a user's row, and what
  `nm_snmp_keychange` does after the library has failed to encode a change (2732);
  printing functions (pure calls into net-snmp), memory as such (leaks are
  recorded where the model has the block, but nothing depends on them); the
  straps build of the trap dispatch, which does not compile.
* `open`: a table of a closed session opened again (its metatable turns every
  omitted field into a walk); the files `read_config` reads; `localport`.
* Conversions: floats, notifications (`f_trapconv`, `f_create_infovl`), strings
  that Lua converts to numbers and back.
* `nm_mib.c`: accessors that read one more field of a node, the list of modules.
* Counter64: `pow` and `sqrt`, which go through a double, and printing.
* `luasnmp.lua`: value formatting, the dissection of notifications (`__trap`), the
  syntactic sugar of sessions, `__clone`, which is disabled.
* straps' multicast socket, which `config.h` leaves out of the build; the Windows
  branches.
* `except.c` (LuaSocket's exceptions, without a state of their own), the trap
  scripts, the module loader, tests and examples.

## 7. Plan

Done, in this order: `NmSnmp` with `AsynchContract`, its first proofs, `Straps`,
`UsmSessions`, `Walk`, `Values` with `Requests`, `Mib` with `Vacm` and
`Administration`, `SessionOpen`; then the proofs of section 4.

Next, most important first:

1. Notifications: `f_create_infovl` and `__trap`, composed with `NmSnmp`'s trap loop.
