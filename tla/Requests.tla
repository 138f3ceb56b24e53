------------------------------ MODULE Requests ------------------------------
(***************************************************************************)
(* What a request carries from the program's call to its callback, and     *)
(* what a value becomes on its way to the agent and back: nm_snmp_getreq,  *)
(* nm_snmp_set_info_req, nm_snmp_asynch_req, nm_snmp_asynch_rsp and        *)
(* nm_snmp_pushrsp of src/src/nm_snmp.c with the conversions of Values.    *)
(*                                                                         *)
(* Callbacks, magic values and the session's handle wait in Lua's registry *)
(* under addresses of fields of C structures, which free and malloc use    *)
(* again.  How requests, callbacks and closing interleave is the matter of *)
(* NmSnmp; here one session is open at a time and one callback runs at a   *)
(* time, which may itself send requests and close the session.             *)
(***************************************************************************)
EXTENDS Values

CONSTANTS
  Function,  \* the callbacks the program gives with a request
  Default,   \* and the one it opens a session with
  Magic,     \* the magic values it gives
  Handle,    \* the session tables it opens, each once
  Block,     \* the ReqList blocks malloc can return
  None,      \* no block, nothing heard, nothing held
  Kinds,     \* the asynchronous requests the program makes
  Sample,    \* bound: the values an object of a type can have
  Numbers    \* bound: the numbers the program computes with

AllKinds == {"get", "getnext", "getbulk", "set", "inform"}
Types == {"OBJECT_ID", "OCTET_STR", "INTEGER", "IPADDRESS", "COUNTER", "GAUGE",
          "TIMETICKS", "OPAQUE", "COUNTER64", "NULL"}

Sorts == {"bin", "plain", "hex"}  \* what octet strings are sequences of

(* The values an object of a type can have, of the width they have on the  *)
(* wire, but for a time, which no conversion cuts.  "junk" is a text that  *)
(* is no address.                                                          *)
ValuesOf(type) ==
  CASE type = "OBJECT_ID" -> Seq(0 .. Half - 1)
    [] type \in {"OCTET_STR", "OPAQUE"} -> Seq(Sorts)
    [] type = "INTEGER" -> IntMin .. IntMax
    [] type = "IPADDRESS" -> Sample["IPADDRESS"] \cup {"junk"}
    [] type \in {"COUNTER", "GAUGE"} -> 0 .. Half - 1
    [] type = "TIMETICKS" -> Nat
    [] type = "COUNTER64" -> [high : 0 .. Half - 1, low : 0 .. Half - 1]
    [] type = "NULL" -> {<<>>}

ASSUME RequestsAssumption ==
  /\ Kinds \subseteq AllKinds
  /\ DOMAIN Sample = Types \ {"NULL"}
  /\ \A type \in DOMAIN Sample : Sample[type] \subseteq ValuesOf(type)
  /\ Numbers \subseteq 0 .. Word - 1

VARIABLES
  session,  \* the Tsession: is it in the list, and its fields
  registry, \* LUA_REGISTRYINDEX
  reqs,     \* the ReqList blocks, with what the program meant by the request
  calling,  \* the block whose callback runs
  heard,    \* history: what that callback was called with
  agent,    \* the object at the agent
  held      \* a varbind the program has, and history: what it means

vars == <<session, registry, reqs, calling, heard, agent, held>>

Keys == {"defcb", "lua_session"} \X {None} \cup {"reqcb", "magic"} \X Block
Fn(f) == Lua("function", f)
Free == [state |-> "free"]
Leaked == [state |-> "leaked"]  \* nobody has a pointer to it

(* A field's address is what the registry knows it by.                     *)
Address(key) == Lua("lightuserdata", key[1])

Closed ==
  [open |-> FALSE, handles |-> {}, defcb |-> -1, no_peer |-> FALSE, v1 |-> FALSE]

Init ==
  /\ session = Closed
  /\ registry = [k \in Keys |-> Nil]
  /\ reqs = [b \in Block |-> Free]
  /\ calling = None
  /\ heard = None
  /\ agent = Var("NULL", <<>>)
  /\ held = None

(* Bound: values are looked at in synchronous requests of a session        *)
(* without a callback of version 2 or 3, before the first asynchronous     *)
(* request; asynchronous ones are about an object that has no value.       *)
NoAsynch == /\ reqs = [b \in Block |-> Free]
            /\ \A k \in {"reqcb", "magic"} \X Block : registry[k] = Nil
NoValues == agent.type = "NULL" /\ held = None
-----------------------------------------------------------------------------
(* The session.                                                            *)

(* nm_snmp_open, as far as requests use it.                                *)
Open(h, cb, no_peer, v1) ==
  /\ ~session.open
  /\ calling = None
  /\ h \notin session.handles
  /\ session' = [open |-> TRUE, handles |-> session.handles \cup {h},
                 defcb |-> IF cb = Nil THEN -1 ELSE 1,
                 no_peer |-> no_peer, v1 |-> v1]
  /\ registry' = [registry EXCEPT ![<<"defcb", None>>] = cb,
                                  ![<<"lua_session", None>>] = Lua("table", h)]
  /\ UNCHANGED <<reqs, calling, heard, agent, held>>

FreeReqs ==
  [b \in Block |-> IF reqs[b].state = "pending" THEN Free ELSE reqs[b]]

(* nm_snmp_close: what the freed requests had in the registry stays there. *)
Close ==
  /\ session.open
  /\ reqs' = FreeReqs
  /\ registry' = [registry EXCEPT ![<<"defcb", None>>] = Nil,
                                  ![<<"lua_session", None>>] = Nil]
  /\ session' = [Closed EXCEPT !.handles = session.handles]
  /\ UNCHANGED <<calling, heard, agent, held>>
-----------------------------------------------------------------------------
(* The arguments of an asynchronous request: the session first, what is    *)
(* asked for just before the callback, the magic after it.                 *)

UsrCallb(kind) ==
  CASE kind = "getbulk" -> 5 [] kind = "inform" -> 4 [] OTHER -> 3

(* narg must be above this for a callback to be looked at, and above the   *)
(* next number for a magic value: the same for all requests of a function. *)
Narg(kind) == IF kind \in {"set", "inform"} THEN 3 ELSE 2

Arg(args, i) == IF i \in DOMAIN args THEN args[i] ELSE Lua("none", "none")

(* The index of an optional argument, or -1.  An index above the last      *)
(* argument is not nil.                                                    *)
Ref(args, i, narg) ==
  IF Len(args) > narg /\ Arg(args, i).t # "nil" THEN i ELSE -1

CbRef(kind, args) == Ref(args, UsrCallb(kind), Narg(kind))
MagicRef(kind, args) == Ref(args, UsrCallb(kind) + 1, Narg(kind) + 1)

Call(tail, kind) == [i \in 1 .. (UsrCallb(kind) - 1) |-> Lua("table", "given")] \o tail

(* The checks in the order of nm_snmp_getreq and nm_snmp_set_info_req; the *)
(* last is for names and values that cannot be converted.                  *)
Refused(kind, args, good) ==
  LET cb == CbRef(kind, args)
  IN \/ cb # -1 /\ Arg(args, cb).t # "function"
     \/ ~session.open
     \/ session.no_peer
     \/ cb = -1 /\ session.defcb = -1
     \/ kind = "inform" /\ session.v1
     \/ ~good

Refuse(kind, tail, good) ==
  /\ Refused(kind, Call(tail, kind), good)
  /\ UNCHANGED vars

(* Mutant: nothing is stored for an argument that is not there.           *)
StoredOnlyIfGiven(args, ref, key) ==
  IF ref \in DOMAIN args THEN args[ref] ELSE registry[key]

(* lua_pushvalue: the key, just pushed, is at -1 and at the first index    *)
(* above the arguments.                                                    *)
Stored(args, ref, key) ==
  IF ref \in DOMAIN args THEN args[ref] ELSE Address(key)

(* nm_snmp_asynch_req.  given is what the program meant by its arguments.  *)
AsynchReq(kind, tail, list, b) ==
  LET args == Call(tail, kind)
      Meant(i) == IF i \in DOMAIN tail THEN tail[i] ELSE Nil
  IN /\ NoValues
     /\ ~Refused(kind, args, TRUE)
     /\ reqs[b] = Free
     /\ registry' = [registry EXCEPT
          ![<<"reqcb", b>>] = Stored(args, CbRef(kind, args), <<"reqcb", b>>),
          ![<<"magic", b>>] = Stored(args, MagicRef(kind, args), <<"magic", b>>)]
     /\ reqs' = [reqs EXCEPT ![b] =
          [state |-> "pending", reqcb |-> CbRef(kind, args),
           magic |-> MagicRef(kind, args), is_list |-> list,
           given |-> [kind |-> kind, cb |-> Meant(1), magic |-> Meant(2),
                      dflt |-> registry[<<"defcb", None>>],
                      handle |-> registry[<<"lua_session", None>>].v,
                      list |-> list]]]
     /\ UNCHANGED <<session, calling, heard, agent, held>>
-----------------------------------------------------------------------------
(* The callback.                                                           *)

(* nm_snmp_pushrsp: variables and no status, variables and the status of   *)
(* the agent's answer, or no variables and the status of a failure.        *)
PushRsp(outcome, is_list) ==
  [vb |-> CASE outcome \in {"timeout", "internal error"} -> "nil"
            [] OTHER -> IF is_list THEN "vlist" ELSE "vbind",
   status |-> IF outcome = "noError" THEN "nil" ELSE outcome]

Outcomes == {"noError", "error status", "timeout", "internal error"}

MagicOf(b) == IF reqs[b].magic # -1 THEN registry[<<"magic", b>>] ELSE Nil

CallbackOf(b) ==
  registry[IF reqs[b].reqcb = -1 THEN <<"defcb", None>> ELSE <<"reqcb", b>>]

(* nm_snmp_asynch_rsp up to its call of the callback.                      *)
AsynchRsp(b, outcome) ==
  /\ calling = None
  /\ reqs[b].state = "pending"
  /\ heard' = [fn |-> CallbackOf(b), magic |-> MagicOf(b),
               session |-> registry[<<"lua_session", None>>],
               rsp |-> PushRsp(outcome, reqs[b].is_list)]
  /\ calling' = b
  /\ reqs' = [reqs EXCEPT ![b] = [@ EXCEPT !.state = "calling"]]
  /\ UNCHANGED <<session, registry, agent, held>>

(* ... and after it.                                                       *)
CallbackReturns ==
  /\ calling # None
  /\ registry' = [registry EXCEPT
       ![<<"reqcb", calling>>] = IF reqs[calling].reqcb # -1 THEN Nil ELSE @,
       ![<<"magic", calling>>] = IF reqs[calling].magic # -1 THEN Nil ELSE @]
  /\ reqs' = [reqs EXCEPT ![calling] = Free]
  /\ calling' = None
  /\ heard' = None
  /\ UNCHANGED <<session, agent, held>>

(* A Lua error in the callback: the block and its keys are left.           *)
CallbackFails ==
  /\ calling # None
  /\ reqs' = [reqs EXCEPT ![calling] = Leaked]
  /\ calling' = None
  /\ heard' = None
  /\ UNCHANGED <<session, registry, agent, held>>
-----------------------------------------------------------------------------
(* Values in synchronous requests.                                         *)

Ready == /\ NoAsynch
         /\ session.open
         /\ ~session.no_peer
         /\ session.defcb = -1 /\ ~session.v1

(* The object at the agent has a type, and its value changes.              *)
AgentChanges(type, val) ==
  /\ Ready
  /\ agent.type \in {"NULL", type}
  /\ agent' = Var(type, val)
  /\ UNCHANGED <<session, registry, reqs, calling, heard, held>>

(* nm_snmp_getreq: the program gets the object.                            *)
Get ==
  /\ Ready
  /\ agent.type # "NULL"
  /\ held' = [vb |-> CreateVb(agent), means |-> agent]
  /\ UNCHANGED <<session, registry, reqs, calling, heard, agent>>

(* The program computes with a Counter64 it has: its meaning is the number *)
(* that the documented arithmetic on 64 bits gives.                        *)
Has64 == held # None /\ held.vb.type = "COUNTER64" /\ held.means.type = "COUNTER64"

Becomes(x, n) ==
  /\ Has64
  /\ held' = [vb |-> [held.vb EXCEPT !.value = x], means |-> Var("COUNTER64", U2C(n))]
  /\ UNCHANGED <<session, registry, reqs, calling, heard, agent>>

Bits64 == 0 .. Word - 1

(* The one number of 64 bits that op has to give for a and b.              *)
Result64(op, a, b) ==
  CHOOSE n \in Bits64 :
    CASE op = "add" -> (a + b) \in {n, n + Word}
      [] op = "sub" -> n + b \in {a, a + Word}
      [] op = "mul" -> \E k \in Bits64 : a * b = n + k * Word
      [] op = "div" -> n * b <= a /\ a < (n + 1) * b
      [] op = "mod" -> n < b /\ \E k \in Bits64 : a = n + k * b

(* ... and a number, on either side; or with divmod, of which it takes one *)
(* result.  An operand is no table: c64_get would read its fields from the *)
(* second operand, and the documentation allows none.                      *)
Operand == Has64 /\ held.vb.value.t # "table"

Compute(op, n, first) ==
  LET num == Lua("number", n)
      x == IF first THEN num ELSE held.vb.value
      y == IF first THEN held.vb.value ELSE num
      mine == C2U(held.means.val)
      a == IF first THEN n ELSE mine
      b == IF first THEN mine ELSE n
  IN /\ Operand
     /\ op \in Divisions => b # 0
     /\ \/ Becomes(C64Arith(op, x, y), Result64(op, a, b))
        \/ op = "div" /\ Becomes(C64DivMod(x, y)[1], Result64(op, a, b))
        \/ op = "mod" /\ Becomes(C64DivMod(x, y)[2], Result64(op, a, b))

(* It turns it round, or into another form.                                *)
Convert ==
  LET mine == C2U(held.means.val)
  IN /\ Has64
     /\ \/ Becomes(C64Neg(held.vb.value), Result64("sub", 0, mine))
        \/ Becomes(C64ToTable(held.vb.value), mine)
        \/ Becomes(C64ToNumber(held.vb.value), mine)
        \/ Becomes(C64Number(held.vb.value), mine)

(* It keeps the greater of it and a number, or one instead of nothing.     *)
AtLeast(n) ==
  LET num == Lua("number", n)
      mine == C2U(held.means.val)
  IN /\ Operand
     /\ \/ C64Compare(held.vb.value, num) = -1 /\ Becomes(num, n)
        \/ C64Lt(num, held.vb.value) /\ Becomes(held.vb.value, IF mine > n THEN mine ELSE n)
        \/ C64IsZero(held.vb.value) /\ Becomes(Lua("number", 1), IF mine = 0 THEN 1 ELSE mine)

(* The program makes a value for the object's type, which means something. *)
Make(prim, x, means) ==
  /\ Ready
  /\ CmuType(prim) = agent.type
  /\ held' = [vb |-> [type |-> prim, value |-> x], means |-> means]
  /\ UNCHANGED <<session, registry, reqs, calling, heard, agent>>

(* What else the MIB may call an object of a type of the library, with the *)
(* numbers of nm_varbind.h: that of its Integer32 is DISPLAY's.            *)
MibTypes ==
  {<<"OCTET_STR", "BITSTRING">>, <<"OCTET_STR", "NSAPADDR">>, <<"INTEGER", "DISPLAY">>,
   <<"GAUGE", "UNSIGNED32">>, <<"IPADDRESS", "NETADDR">>}

NodeTypes(type) == {PrimType(type)} \cup {t[2] : t \in {u \in MibTypes : u[1] = type}}

(* f_create_vlist: the type of a varbind that has none is its node's.      *)
PrimTypesOf(vb, typed) == IF typed THEN {vb.type} ELSE NodeTypes(agent.type)

(* nm_snmp_set_info_req: the agent takes values of the object's type.      *)
Set(typed) ==
  /\ Ready
  /\ held # None
  /\ \E prim \in PrimTypesOf(held.vb, typed) \cap ValidTypes :
       \E var \in CreateVl(prim, held.vb.value) :
         /\ var.type = agent.type
         /\ agent' = Encoded(var)
  /\ UNCHANGED <<session, registry, reqs, calling, heard, held>>
-----------------------------------------------------------------------------
Tails ==
  {<<>>, <<Nil>>} \cup {<<Fn(f)>> : f \in Function}
  \cup {<<cb, Lua("string", m)>> : cb \in {Nil} \cup {Fn(f) : f \in Function}, m \in Magic}

(* Binary strings are given in hex notation, and times by their fields.    *)
Texts == Sample["OCTET_STR"] \ {<<"bin">>}
Fields(ticks) ==
  LET table == CreateTimeTable(ticks)
  IN [f \in DOMAIN table \ {"ticks"} |-> table[f]]

Makes ==
  \/ \E prim \in {"INTEGER", "COUNTER", "GAUGE"} : \E n \in Sample[prim] :
       Make(prim, Lua("number", n), Var(prim, n))
  \/ \E n \in 0 .. IntMax : Make("UINTEGER", Lua("number", n), Var("INTEGER", n))
  \/ \E text \in Texts : Make("DISPLAY", Lua("string", text), Var("OCTET_STR", text))
  \/ \E text \in Texts :
       Make("OCTETSTR", Lua("string", text),
            Var("OCTET_STR", IF ReadsAsHex(text) THEN HexOctets(text) ELSE text))
  \/ \E text \in Texts : Make("OPAQUE", Lua("string", text), Var("OPAQUE", HexOctets(text)))
  \/ \E ip \in Sample["IPADDRESS"] \cup {"junk"} :
       Make("NETADDR", Lua("string", ip), Var("IPADDRESS", ip))
  \/ \E oid \in Sample["OBJECT_ID"] : Make("OBJID", Lua("string", oid), Var("OBJECT_ID", oid))
  \/ \E n \in Sample["TIMETICKS"] :
       Make("TIMETICKS", Lua("table", Fields(n)), Var("TIMETICKS", n))
  \/ \E c \in Sample["COUNTER64"] :
       \/ Make("COUNTER64", Lua("table", c), Var("COUNTER64", c))
       \/ Make("COUNTER64", Lua("number", C2U(c)), Var("COUNTER64", c))

Next ==
  \/ \E h \in Handle, no_peer, v1 \in BOOLEAN :
       \E cb \in {Nil, Fn(Default)} : Open(h, cb, no_peer, v1)
  \/ Close
  \/ \E kind \in Kinds, tail \in Tails, good \in BOOLEAN : Refuse(kind, tail, good)
  \/ \E kind \in Kinds, tail \in Tails, list \in BOOLEAN, b \in Block :
       AsynchReq(kind, tail, list, b)
  \/ \E b \in Block, outcome \in Outcomes : AsynchRsp(b, outcome)
  \/ CallbackReturns
  \/ CallbackFails
  \/ \E type \in DOMAIN Sample : \E val \in Sample[type] : AgentChanges(type, val)
  \/ Get
  \/ \E n \in Numbers :
       \/ \E op \in Operators, first \in BOOLEAN : Compute(op, n, first)
       \/ AtLeast(n)
  \/ Convert
  \/ Makes
  \/ \E typed \in BOOLEAN : Set(typed)

Spec == Init /\ [][Next]_vars
-----------------------------------------------------------------------------
(* Where the arguments of a request are looked for as the documentation    *)
(* has them: not with set, whose callback needs a fourth and whose magic a *)
(* fifth argument, nor with getbulk without a magic.                       *)
AsDocumented(g) ==
  \/ g.kind \in {"get", "getnext", "inform"}
  \/ g.kind = "getbulk" /\ g.magic # Nil

CallbackIs(fn, g) ==
  /\ \/ fn = IF g.cb = Nil THEN g.dflt ELSE g.cb
     \/ g.kind = "set" /\ fn = g.dflt
  /\ fn.t = "function"

MagicIs(magic, b, g) ==
  IF AsDocumented(g) THEN magic = g.magic
  ELSE magic \in {g.magic, Nil, Address(<<"magic", b>>)}

(* A callback is called with what was given with its own request: the      *)
(* function, or else the session's default one, the magic value, the       *)
(* session the request was sent on, and variables in the form asked for,   *)
(* whatever was in the registry under the same addresses before            *)
(* (nm_snmp_asynch_req, nm_snmp_asynch_rsp, nm_snmp_freereqs).             *)
OwnCallback ==
  calling # None =>
    LET g == reqs[calling].given
    IN /\ CallbackIs(heard.fn, g)
       /\ MagicIs(heard.magic, calling, g)
       /\ heard.session = Lua("table", g.handle)
       /\ heard.rsp.status = "nil" => heard.rsp.vb # "nil"
       /\ heard.rsp.vb \in {"nil", IF g.list THEN "vlist" ELSE "vbind"}

(* The values that reach the agent as they are meant.  Not among them:     *)
(* numbers that are no int, Counter64s given as a number of more than one  *)
(* half, deciseconds in a time without ticks, and a text that reads as hex *)
(* set without its type.                                                   *)
Exact(vb, typed) ==
  /\ vb.type \in {"COUNTER", "GAUGE"} => vb.value.v <= IntMax
  /\ vb.type = "COUNTER64" => C64Get(vb.value).low < Half
  /\ vb.type = "TIMETICKS" =>
       "ticks" \in DOMAIN vb.value.v \/ vb.value.v.deciseconds = 0
  /\ vb.type = "DISPLAY" => typed \/ ~ReadsAsHex(vb.value.v)

(* What a set stores at the agent is what the program set: the very value  *)
(* it got from there, whatever became of the object since, or the one it   *)
(* computed or wrote down (f_create_vb, f_create_vlist, f_create_vl).      *)
SetStoresMeaning ==
  [][\A typed \in BOOLEAN :
       Set(typed) /\ Exact(held.vb, typed) => agent' = held.means]_vars
-----------------------------------------------------------------------------
(* Why OwnCallback holds.                                                  *)

(* What waits for the answer of a pending request is what was given with   *)
(* it, and its session is the one that is open.                            *)
Kept(b) ==
  LET g == reqs[b].given
  IN /\ session.open
     /\ reqs[b].is_list = g.list
     /\ registry[<<"defcb", None>>] = g.dflt
     /\ registry[<<"lua_session", None>>] = Lua("table", g.handle)
     /\ CallbackIs(CallbackOf(b), g)
     /\ MagicIs(MagicOf(b), b, g)

(* The registry has the open session's handle and its callback, if it has  *)
(* one, and the block whose callback runs is nobody else's.                *)
RegistryInv ==
  /\ DOMAIN registry = Keys /\ DOMAIN reqs = Block
  /\ session.defcb # -1 => registry[<<"defcb", None>>].t = "function"
  /\ session.open => \E h \in Handle : registry[<<"lua_session", None>>] = Lua("table", h)
  /\ calling # None => calling \in Block /\ reqs[calling].state = "calling"
  /\ \A b \in Block : reqs[b].state = "pending" => Kept(b)
-----------------------------------------------------------------------------
(* Why SetStoresMeaning holds.                                             *)

(* How a varbind of a type says the value m of an object: as f_create_vb   *)
(* says it, or as the program does.                                        *)
Says(vb, m) ==
  LET x == vb.value
  IN CASE vb.type = "OBJID" ->
            m.type = "OBJECT_ID" /\ x \in {Lua("string", Oid2Str(m.val)), Lua("string", m.val)}
       [] vb.type \in {"INTEGER", "COUNTER", "GAUGE"} ->
            m.type = vb.type /\ x = Lua("number", m.val)
       [] vb.type = "UINTEGER" ->
            m.type = "INTEGER" /\ m.val >= 0 /\ x = Lua("number", m.val)
       [] vb.type = "DISPLAY" -> m.type = "OCTET_STR" /\ x = Lua("string", m.val)
       [] vb.type = "OCTETSTR" ->
            /\ m.type = "OCTET_STR" /\ x.t = "string"
            /\ m.val = IF ReadsAsHex(x.v) THEN HexOctets(x.v) ELSE x.v
       [] vb.type = "OPAQUE" ->
            m.type = "OPAQUE" /\ x.t = "string" /\ m.val = HexOctets(x.v)
       [] vb.type \in {"IPADDR", "NETADDR"} ->
            m.type = "IPADDRESS" /\ x = Lua("string", m.val)
       [] vb.type = "TIMETICKS" ->
            /\ m.type = "TIMETICKS"
            /\ x \in {Lua("table", CreateTimeTable(m.val)), Lua("table", Fields(m.val))}
       [] vb.type = "COUNTER64" ->
            /\ m.type = "COUNTER64"
            /\ C64Get(x) \in [high : Nat, low : Nat]
            /\ C64Get(x).high * Half + C64Get(x).low = m.val.high * Half + m.val.low
       [] OTHER -> FALSE

IsValue(v) == v.type \in Types /\ v = Var(v.type, v.val) /\ v.val \in ValuesOf(v.type)

(* What the program has is a varbind that says a value of a type.          *)
Holds(h, type) ==
  /\ h = [vb |-> [type |-> h.vb.type, value |-> h.vb.value], means |-> h.means]
  /\ IsValue(h.means) /\ h.means.type = type
  /\ Says(h.vb, h.means)

(* The object has a value of its type, and what the program has is a       *)
(* varbind that says what it means.                                        *)
MeaningInv ==
  /\ IsValue(agent)
  /\ held # None => Holds(held, agent.type)
=============================================================================
