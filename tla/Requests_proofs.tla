--------------------------- MODULE Requests_proofs ----------------------------
(***************************************************************************)
(* A callback is called with what was given with its own request, for any  *)
(* blocks, callbacks, magic values and sessions and any number of          *)
(* requests; and a set stores what the program means, for ints of any      *)
(* width and any values.                                                   *)
(***************************************************************************)
EXTENDS Requests, SequenceTheorems, TLAPS

-----------------------------------------------------------------------------
(* The arguments of a request.                                             *)

Callbacks == {Nil} \cup {Fn(f) : f \in Function}
Magics == {Lua("string", m) : m \in Magic}
Given == {Lua("table", "given")} \cup Callbacks \cup Magics

(* A callback is nil or a function, and a magic value a string.            *)
LEMMA Tagged ==
  /\ \A cb \in Callbacks : cb.t \in {"nil", "function"} /\ (cb.t = "nil" => cb = Nil)
  /\ \A m \in Magics : m.t = "string"
BY DEF Callbacks, Magics, Fn, Lua, Nil

(* After what is asked for the program gives nothing, a callback, or a     *)
(* callback and a magic value.                                             *)
LEMMA TailCases ==
  ASSUME NEW tail \in Tails
  PROVE  /\ tail \in Seq(Given)
         /\ Len(tail) \in {0, 1, 2} /\ (Len(tail) = 0 <=> tail = <<>>)
         /\ Len(tail) > 0 => tail[1] \in Callbacks
         /\ Len(tail) = 2 => tail[2] \in Magics
<1>1. \/ tail = <<>>
      \/ \E cb \in Callbacks : tail = <<cb>>
      \/ \E cb \in Callbacks, m \in Magics : tail = <<cb, m>>
  BY DEF Tails, Callbacks, Magics
<1>2. Callbacks \subseteq Given /\ Magics \subseteq Given
  BY DEF Given
<1> HIDE DEF Callbacks, Magics, Given
<1>3. ASSUME NEW cb \in Callbacks, NEW m \in Magics
      PROVE  <<cb, m>> \in Seq(Given)
  <2>1. cb \in Given /\ m \in Given
    BY <1>2
  <2> QED BY <2>1
<1>4. <<>> \in Seq(Given)
  OBVIOUS
<1>5. tail \in Seq(Given)
  <2>1. CASE tail = <<>>
    BY <1>4, <2>1
  <2>2. ASSUME NEW cb \in Callbacks, tail = <<cb>>
        PROVE  tail \in Seq(Given)
    <3>1. cb \in Given
      BY <1>2
    <3> QED BY <2>2, <3>1
  <2>3. ASSUME NEW cb \in Callbacks, NEW m \in Magics, tail = <<cb, m>>
        PROVE  tail \in Seq(Given)
    BY <1>3, <2>3
  <2> QED BY <1>1, <2>1, <2>2, <2>3
<1>6. /\ Len(tail) \in {0, 1, 2} /\ (Len(tail) = 0 <=> tail = <<>>)
      /\ Len(tail) > 0 => tail[1] \in Callbacks
      /\ Len(tail) = 2 => tail[2] \in Magics
  BY <1>1
<1> QED BY <1>5, <1>6

(* The arguments: the session, what is asked for, and the tail.            *)
LEMMA CallArgs ==
  ASSUME NEW kind \in AllKinds, NEW tail \in Tails
  PROVE  LET n == UsrCallb(kind) - 1
             args == Call(tail, kind)
         IN /\ n \in {2, 3, 4} /\ Len(tail) \in Nat
            /\ Len(args) = n + Len(tail) /\ DOMAIN args = 1 .. n + Len(tail)
            /\ \A i \in 1 .. Len(tail) : args[n + i] = tail[i]
<1> DEFINE n == UsrCallb(kind) - 1
           head == [i \in 1 .. n |-> Lua("table", "given")]
<1>1. n \in {2, 3, 4} /\ n \in Nat
  BY DEF AllKinds, UsrCallb
<1> HIDE DEF n
<1>2. Lua("table", "given") \in Given
  BY DEF Given
<1>3. head \in Seq(Given) /\ Len(head) = n
  BY <1>1, <1>2
<1>4. tail \in Seq(Given) /\ Len(tail) \in Nat
  BY TailCases
<1>5. Call(tail, kind) = head \o tail
  BY DEF Call, n
<1> HIDE DEF head
<1>6. PICK h \in Seq(Given), r \in Seq(Given) : h = head /\ r = tail
  BY <1>3, <1>4
<1>7. /\ Len(h \o r) = Len(h) + Len(r) /\ DOMAIN (h \o r) = 1 .. Len(h) + Len(r)
      /\ \A i \in 1 .. Len(r) : (h \o r)[Len(h) + i] = r[i]
  OBVIOUS
<1>8. /\ Len(Call(tail, kind)) = n + Len(tail)
      /\ DOMAIN Call(tail, kind) = 1 .. n + Len(tail)
      /\ \A i \in 1 .. Len(tail) : Call(tail, kind)[n + i] = tail[i]
  BY <1>3, <1>5, <1>6, <1>7
<1> QED BY <1>1, <1>4, <1>8 DEF n

(* Where the callback and the magic value of a request are found, if it is *)
(* made with none, with a callback, or with both.                          *)
LEMMA Refs ==
  ASSUME NEW kind \in AllKinds, NEW tail \in Tails
  PROVE  LET n == UsrCallb(kind) - 1
             args == Call(tail, kind)
             cb == CbRef(kind, args)
             magic == MagicRef(kind, args)
         IN /\ kind = "getbulk" => n = 4
            /\ kind = "inform" => n = 3
            /\ kind \in {"get", "getnext", "set"} => n = 2
            /\ Arg(args, n + 1) = IF tail = <<>> THEN Lua("none", "none") ELSE tail[1]
            /\ Arg(args, n + 2) = IF Len(tail) < 2 THEN Lua("none", "none") ELSE tail[2]
            /\ cb = IF Len(tail) > Narg(kind) - n /\ Arg(args, n + 1).t # "nil"
                    THEN n + 1 ELSE -1
            /\ magic = IF Len(tail) > Narg(kind) + 1 - n /\ Arg(args, n + 2).t # "nil"
                       THEN n + 2 ELSE -1
            /\ n + 1 \in DOMAIN args <=> tail # <<>>
            /\ n + 2 \in DOMAIN args <=> Len(tail) = 2
<1> DEFINE n == UsrCallb(kind) - 1
           args == Call(tail, kind)
<1>1. /\ kind = "getbulk" => n = 4
      /\ kind = "inform" => n = 3
      /\ kind \in {"get", "getnext", "set"} => n = 2
  BY DEF UsrCallb
<1>2. /\ n \in Nat /\ Len(tail) \in Nat /\ Len(tail) <= 2
      /\ tail = <<>> <=> Len(tail) = 0
      /\ Len(args) = n + Len(tail) /\ DOMAIN args = 1 .. n + Len(tail)
      /\ \A i \in 1 .. Len(tail) : args[n + i] = tail[i]
  <2>1. Len(tail) \in {0, 1, 2} /\ (Len(tail) = 0 <=> tail = <<>>)
    BY TailCases, Zenon
  <2>2. /\ n \in {2, 3, 4} /\ Len(tail) \in Nat
        /\ Len(args) = n + Len(tail) /\ DOMAIN args = 1 .. n + Len(tail)
        /\ \A i \in 1 .. Len(tail) : args[n + i] = tail[i]
    BY CallArgs
  <2> HIDE DEF n, args
  <2> QED BY <2>1, <2>2
<1>3. n + 1 = UsrCallb(kind) /\ n + 2 = UsrCallb(kind) + 1
  BY DEF AllKinds, UsrCallb
<1>4. Narg(kind) \in Nat
  BY DEF Narg
<1> HIDE DEF n, args
<1>5. /\ n + 1 \in DOMAIN args <=> tail # <<>>
      /\ n + 2 \in DOMAIN args <=> Len(tail) = 2
  <2>1. PICK l \in Nat : l = Len(tail)
    BY <1>2
  <2>2. /\ n + 1 \in 1 .. n + l <=> l # 0
        /\ n + 2 \in 1 .. n + l <=> l >= 2
    BY <1>2
  <2> QED BY <1>2, <2>1, <2>2
<1>6. /\ Arg(args, n + 1) = IF tail = <<>> THEN Lua("none", "none") ELSE tail[1]
      /\ Arg(args, n + 2) = IF Len(tail) < 2 THEN Lua("none", "none") ELSE tail[2]
  BY <1>2, <1>5 DEF Arg
<1>7. /\ CbRef(kind, args) = IF Len(tail) > Narg(kind) - n /\ Arg(args, n + 1).t # "nil"
                             THEN n + 1 ELSE -1
      /\ MagicRef(kind, args) =
           IF Len(tail) > Narg(kind) + 1 - n /\ Arg(args, n + 2).t # "nil"
           THEN n + 2 ELSE -1
  BY <1>2, <1>3, <1>4 DEF CbRef, MagicRef, Ref
<1> QED BY <1>1, <1>5, <1>6, <1>7 DEF n, args

(* What is stored for a request that is not refused is the callback and    *)
(* the magic value it was given, where the documentation says they are;    *)
(* elsewhere at most the magic value is nil or the address it would be     *)
(* stored at.                                                              *)
LEMMA StoredIsGiven ==
  ASSUME NEW kind \in AllKinds, NEW tail \in Tails, NEW b, NEW g,
         ~Refused(kind, Call(tail, kind), TRUE),
         session.defcb # -1 => g.dflt.t = "function",
         g.kind = kind,
         g.cb = IF 1 \in DOMAIN tail THEN tail[1] ELSE Nil,
         g.magic = IF 2 \in DOMAIN tail THEN tail[2] ELSE Nil
  PROVE  LET args == Call(tail, kind)
             cb == CbRef(kind, args)
             magic == MagicRef(kind, args)
         IN /\ CallbackIs(IF cb = -1 THEN g.dflt ELSE Stored(args, cb, <<"reqcb", b>>), g)
            /\ MagicIs(IF magic # -1 THEN Stored(args, magic, <<"magic", b>>) ELSE Nil, b, g)
<1> DEFINE n == UsrCallb(kind) - 1
           args == Call(tail, kind)
           cb == CbRef(kind, args)
           magic == MagicRef(kind, args)
<1>1. /\ kind = "getbulk" => n = 4
      /\ kind = "inform" => n = 3
      /\ kind \in {"get", "getnext", "set"} => n = 2
      /\ n + 1 \in DOMAIN args <=> tail # <<>>
      /\ n + 2 \in DOMAIN args <=> Len(tail) = 2
      /\ Arg(args, n + 1) = IF tail = <<>> THEN Lua("none", "none") ELSE tail[1]
      /\ Arg(args, n + 2) = IF Len(tail) < 2 THEN Lua("none", "none") ELSE tail[2]
      /\ cb = IF Len(tail) > Narg(kind) - n /\ Arg(args, n + 1).t # "nil"
              THEN n + 1 ELSE -1
      /\ magic = IF Len(tail) > Narg(kind) + 1 - n /\ Arg(args, n + 2).t # "nil"
                 THEN n + 2 ELSE -1
  BY Refs
<1>2. /\ Len(tail) \in {0, 1, 2} /\ (Len(tail) = 0 <=> tail = <<>>)
      /\ DOMAIN tail = 1 .. Len(tail)
      /\ Len(tail) > 0 => tail[1].t \in {"nil", "function"} /\ (tail[1].t = "nil" => tail[1] = Nil)
      /\ Len(tail) = 2 => tail[2].t = "string"
  BY TailCases, Tagged
<1>3. /\ Lua("none", "none").t = "none" /\ Nil.t = "nil"
  BY DEF Lua, Nil
<1>4. /\ g.cb = IF Len(tail) > 0 THEN tail[1] ELSE Nil
      /\ g.magic = IF Len(tail) = 2 THEN tail[2] ELSE Nil
  BY <1>2
<1>5. /\ cb # -1 => Arg(args, cb).t = "function"
      /\ cb = -1 => g.dflt.t = "function"
  BY DEF Refused
<1>6. n \in Nat /\ n + 1 # -1 /\ n + 2 # -1 /\ Narg(kind) \in {2, 3}
  BY <1>1 DEF AllKinds, Narg
<1>7. /\ \A i, k : i \in DOMAIN args => Stored(args, i, k) = Arg(args, i)
      /\ \A i, k : i \notin DOMAIN args => Stored(args, i, k) = Address(k)
  BY DEF Stored, Arg
<1> HIDE DEF n, args, cb, magic
<1>8. CallbackIs(IF cb = -1 THEN g.dflt ELSE Stored(args, cb, <<"reqcb", b>>), g)
  <2>1. CASE cb # -1
    <3>1. cb = n + 1 /\ tail # <<>> /\ Arg(args, n + 1) = tail[1]
      BY <1>1, <1>3, <1>5, <2>1
    <3>2. tail[1].t = "function" /\ tail[1] # Nil /\ g.cb = tail[1]
      BY <1>2, <1>3, <1>4, <1>5, <2>1, <3>1
    <3>3. Stored(args, cb, <<"reqcb", b>>) = tail[1]
      BY <1>1, <1>7, <3>1
    <3>4. CallbackIs(tail[1], g)
      BY <3>2 DEF CallbackIs
    <3> QED BY <2>1, <3>3, <3>4
  <2>2. CASE cb = -1
    <3>1. g.dflt.t = "function"
      BY <1>5, <2>2
    <3>2. Len(tail) <= Narg(kind) - n \/ Arg(args, n + 1).t = "nil"
      BY <1>1, <1>2, <1>6, <2>2
    <3>3. CASE Arg(args, n + 1).t = "nil"
      BY <1>1, <1>2, <1>3, <1>4, <2>2, <3>1, <3>3 DEF CallbackIs
    <3>4. CASE Len(tail) <= Narg(kind) - n
      BY <1>1, <1>2, <1>4, <2>2, <3>1, <3>4 DEF CallbackIs, AllKinds, Narg
    <3> QED BY <3>2, <3>3, <3>4
  <2> QED BY <2>1, <2>2
<1>9. MagicIs(IF magic # -1 THEN Stored(args, magic, <<"magic", b>>) ELSE Nil, b, g)
  <2>1. CASE magic = n + 2 /\ Len(tail) = 2
    <3>1. g.magic = tail[2] /\ Stored(args, magic, <<"magic", b>>) = tail[2] /\ magic # -1
      BY <1>1, <1>4, <1>6, <1>7, <2>1
    <3> QED BY <3>1 DEF MagicIs
  <2>2. CASE magic = n + 2 /\ Len(tail) # 2
    <3>1. g.magic = Nil /\ Stored(args, magic, <<"magic", b>>) = Address(<<"magic", b>>)
          /\ magic # -1 /\ Len(tail) < 2
      BY <1>1, <1>2, <1>4, <1>6, <1>7, <2>2
    <3>2. kind = "getbulk"
      BY <1>1, <1>2, <1>6, <2>2, <3>1 DEF AllKinds, Narg
    <3> QED BY <3>1, <3>2 DEF MagicIs, AsDocumented
  <2>3. CASE magic = -1
    <3>1. Len(tail) = 2 => kind = "set"
      BY <1>1, <1>2, <1>3, <1>6, <2>3 DEF AllKinds, Narg
    <3>2. Len(tail) # 2 => g.magic = Nil
      BY <1>4
    <3> QED BY <2>3, <3>1, <3>2 DEF MagicIs, AsDocumented
  <2> QED BY <1>1, <2>1, <2>2, <2>3
<1> QED BY <1>8, <1>9 DEF args, cb, magic
-----------------------------------------------------------------------------
(* The steps.                                                              *)

CallbackInv == RegistryInv /\ OwnCallback

(* What keeps the session's and the requests' part of the registry, the    *)
(* blocks and the callback that runs keeps the invariant.                  *)
LEMMA Elsewhere ==
  ASSUME CallbackInv, UNCHANGED <<session, registry, reqs, calling, heard>>
  PROVE  CallbackInv'
<1>1. \A b \in Block : reqs[b].state = "pending" =>
        Kept(b)' /\ reqs'[b].state = "pending"
  BY DEF CallbackInv, RegistryInv, Kept, CallbackOf, MagicOf
<1>2. RegistryInv'
  BY <1>1 DEF CallbackInv, RegistryInv
<1>3. OwnCallback'
  BY DEF CallbackInv, OwnCallback
<1> QED BY <1>2, <1>3 DEF CallbackInv

(* Gets, sets and what the program makes of values.                        *)
LEMMA ValueSteps ==
  ASSUME \/ \E kind \in Kinds, tail \in Tails, good \in BOOLEAN : Refuse(kind, tail, good)
         \/ \E type \in DOMAIN Sample : \E val \in Sample[type] : AgentChanges(type, val)
         \/ Get
         \/ \E x \in Numbers :
              \/ \E op \in Operators, first \in BOOLEAN : Compute(op, x, first)
              \/ AtLeast(x)
         \/ Convert
         \/ Makes
         \/ \E typed \in BOOLEAN : Set(typed)
         \/ UNCHANGED vars
  PROVE  UNCHANGED <<session, registry, reqs, calling, heard>>
<1> DEFINE Same == UNCHANGED <<session, registry, reqs, calling, heard>>
<1>1. ASSUME NEW kind, NEW tail, NEW good, Refuse(kind, tail, good) PROVE Same
  BY <1>1 DEF Refuse, vars
<1>2. ASSUME NEW type, NEW val, AgentChanges(type, val) PROVE Same
  BY <1>2 DEF AgentChanges
<1>3. CASE Get
  BY <1>3 DEF Get
<1>4. ASSUME NEW x, NEW n, Becomes(x, n) PROVE Same
  BY <1>4 DEF Becomes
<1>5. ASSUME NEW op, NEW n, NEW first, Compute(op, n, first) PROVE Same
  BY <1>4, <1>5, Zenon DEF Compute
<1>6. ASSUME NEW n, AtLeast(n) PROVE Same
  BY <1>4, <1>6, Zenon DEF AtLeast
<1>7. CASE Convert
  BY <1>4, <1>7, Zenon DEF Convert
<1>8. ASSUME NEW prim, NEW x, NEW means, Make(prim, x, means) PROVE Same
  BY <1>8 DEF Make
<1>9. CASE Makes
  BY <1>8, <1>9, Zenon DEF Makes
<1>10. ASSUME NEW typed, Set(typed) PROVE Same
  BY <1>10 DEF Set
<1>11. CASE UNCHANGED vars
  BY <1>11 DEF vars
<1> QED BY <1>1, <1>2, <1>3, <1>5, <1>6, <1>7, <1>9, <1>10, <1>11, Zenon

(* Opening: the session's handle and its callback are put away.            *)
LEMMA OpenStep ==
  ASSUME CallbackInv, NEW h \in Handle, NEW cb \in {Nil, Fn(Default)},
         NEW no_peer, NEW v1, Open(h, cb, no_peer, v1)
  PROVE  CallbackInv'
<1>1. /\ <<"defcb", None>> \in Keys /\ <<"lua_session", None>> \in Keys
      /\ <<"defcb", None>> # <<"lua_session", None>>
  BY DEF Keys
<1>2. /\ session'.open = TRUE /\ session'.defcb = IF cb = Nil THEN -1 ELSE 1
      /\ UNCHANGED <<reqs, calling, heard>> /\ ~session.open
      /\ DOMAIN registry' = Keys
      /\ registry'[<<"defcb", None>>] = cb
      /\ registry'[<<"lua_session", None>>] = Lua("table", h)
  BY <1>1 DEF Open, CallbackInv, RegistryInv
<1>3. \A b \in Block : reqs[b].state # "pending"
  BY <1>2 DEF CallbackInv, RegistryInv, Kept
<1>4. cb # Nil => cb.t = "function"
  BY DEF Fn, Lua
<1>5. RegistryInv'
  BY <1>2, <1>3, <1>4 DEF CallbackInv, RegistryInv
<1>6. OwnCallback'
  BY <1>2 DEF CallbackInv, OwnCallback
<1> QED BY <1>5, <1>6 DEF CallbackInv

(* Closing: no request is pending afterwards, and the block of a callback  *)
(* that runs is left alone.                                                *)
LEMMA CloseStep ==
  ASSUME CallbackInv, Close
  PROVE  CallbackInv'
<1>1. /\ session'.open = FALSE /\ session'.defcb = -1
      /\ UNCHANGED <<calling, heard>> /\ DOMAIN registry' = Keys
      /\ reqs' = FreeReqs
  BY DEF Close, Closed, CallbackInv, RegistryInv
<1>2. /\ DOMAIN reqs' = Block
      /\ \A b \in Block : /\ reqs'[b].state # "pending"
                          /\ reqs[b].state # "pending" => reqs'[b] = reqs[b]
  BY <1>1 DEF FreeReqs, Free
<1>3. RegistryInv'
  BY <1>1, <1>2 DEF CallbackInv, RegistryInv
<1>4. OwnCallback'
  BY <1>1, <1>2 DEF CallbackInv, RegistryInv, OwnCallback
<1> QED BY <1>3, <1>4 DEF CallbackInv

(* A request: what was in the registry under the addresses of its block is *)
(* written over, that of other blocks is not.                              *)
LEMMA RequestStep ==
  ASSUME RequestsAssumption, CallbackInv, NEW kind \in Kinds, NEW tail \in Tails, NEW list,
         NEW b \in Block, AsynchReq(kind, tail, list, b)
  PROVE  CallbackInv'
<1> DEFINE args == Call(tail, kind)
           cb == CbRef(kind, args)
           magic == MagicRef(kind, args)
           g == [kind |-> kind, cb |-> IF 1 \in DOMAIN tail THEN tail[1] ELSE Nil,
                 magic |-> IF 2 \in DOMAIN tail THEN tail[2] ELSE Nil,
                 dflt |-> registry[<<"defcb", None>>],
                 handle |-> registry[<<"lua_session", None>>].v, list |-> list]
<1>1. /\ ~Refused(kind, args, TRUE) /\ reqs[b] = Free
      /\ registry' = [registry EXCEPT ![<<"reqcb", b>>] = Stored(args, cb, <<"reqcb", b>>),
                                      ![<<"magic", b>>] = Stored(args, magic, <<"magic", b>>)]
      /\ reqs' = [reqs EXCEPT ![b] = [state |-> "pending", reqcb |-> cb, magic |-> magic,
                                      is_list |-> list, given |-> g]]
      /\ UNCHANGED <<session, calling, heard>>
  BY DEF AsynchReq
<1>2. /\ DOMAIN registry = Keys /\ DOMAIN reqs = Block
      /\ session.defcb # -1 => registry[<<"defcb", None>>].t = "function"
      /\ session.open /\ \E h \in Handle : registry[<<"lua_session", None>>] = Lua("table", h)
  BY <1>1 DEF Refused, CallbackInv, RegistryInv
<1>3. /\ \A k \in {"reqcb", "magic"}, x \in Block : <<k, x>> \in Keys
      /\ \A k : <<"defcb", None>> # <<"reqcb", k>> /\ <<"defcb", None>> # <<"magic", k>>
      /\ \A k : <<"lua_session", None>> # <<"reqcb", k>> /\ <<"lua_session", None>> # <<"magic", k>>
      /\ <<"reqcb", b>> # <<"magic", b>>
  BY DEF Keys
<1>4. kind \in AllKinds
  BY DEF RequestsAssumption
<1>5. PICK r : r = g
  OBVIOUS
<1>6. /\ r.kind = kind /\ r.dflt = registry[<<"defcb", None>>] /\ r.list = list
      /\ r.handle = registry[<<"lua_session", None>>].v
      /\ r.cb = IF 1 \in DOMAIN tail THEN tail[1] ELSE Nil
      /\ r.magic = IF 2 \in DOMAIN tail THEN tail[2] ELSE Nil
  BY <1>5
<1>7. /\ CallbackIs(IF cb = -1 THEN r.dflt ELSE Stored(args, cb, <<"reqcb", b>>), r)
      /\ MagicIs(IF magic # -1 THEN Stored(args, magic, <<"magic", b>>) ELSE Nil, b, r)
  BY <1>1, <1>2, <1>4, <1>6, StoredIsGiven
<1> HIDE DEF args, cb, magic, g
<1>8. /\ reqs'[b].state = "pending" /\ reqs'[b].reqcb = cb /\ reqs'[b].magic = magic
      /\ reqs'[b].is_list = list /\ reqs'[b].given = r
      /\ \A x \in Block \ {b} : reqs'[x] = reqs[x]
      /\ DOMAIN reqs' = Block
  BY <1>1, <1>2, <1>5
<1>9. /\ registry'[<<"reqcb", b>>] = Stored(args, cb, <<"reqcb", b>>)
      /\ registry'[<<"magic", b>>] = Stored(args, magic, <<"magic", b>>)
      /\ \A x \in Block \ {b} : /\ registry'[<<"reqcb", x>>] = registry[<<"reqcb", x>>]
                                /\ registry'[<<"magic", x>>] = registry[<<"magic", x>>]
      /\ registry'[<<"defcb", None>>] = registry[<<"defcb", None>>]
      /\ registry'[<<"lua_session", None>>] = registry[<<"lua_session", None>>]
      /\ DOMAIN registry' = Keys
  <2>1. /\ DOMAIN registry' = Keys
        /\ \A k \in Keys :
             registry'[k] = IF k = <<"magic", b>> THEN Stored(args, magic, <<"magic", b>>)
                            ELSE IF k = <<"reqcb", b>> THEN Stored(args, cb, <<"reqcb", b>>)
                            ELSE registry[k]
    BY <1>1, <1>2
  <2>2. \A x \in Block \ {b} :
          /\ <<"reqcb", x>> \notin {<<"reqcb", b>>, <<"magic", b>>}
          /\ <<"magic", x>> \notin {<<"reqcb", b>>, <<"magic", b>>}
    OBVIOUS
  <2>3. <<"defcb", None>> \in Keys /\ <<"lua_session", None>> \in Keys
    BY DEF Keys
  <2> QED BY <1>3, <2>1, <2>2, <2>3
<1>10. Kept(b)'
  <2>1. registry[<<"lua_session", None>>] = Lua("table", r.handle)
    BY <1>2, <1>6 DEF Lua
  <2>2. CallbackIs(CallbackOf(b)', r)
    <3>1. CallbackOf(b)' = IF cb = -1 THEN r.dflt ELSE Stored(args, cb, <<"reqcb", b>>)
      BY <1>6, <1>8, <1>9 DEF CallbackOf
    <3> QED BY <1>7, <3>1
  <2>3. MagicIs(MagicOf(b)', b, r)
    <3>1. MagicOf(b)' = IF magic # -1 THEN Stored(args, magic, <<"magic", b>>) ELSE Nil
      BY <1>8, <1>9 DEF MagicOf
    <3> QED BY <1>7, <3>1
  <2> QED BY <1>1, <1>2, <1>6, <1>8, <1>9, <2>1, <2>2, <2>3 DEF Kept
<1>11. ASSUME NEW x \in Block \ {b}, reqs'[x].state = "pending"
       PROVE  Kept(x)'
  <2>1. Kept(x) /\ reqs'[x] = reqs[x]
    BY <1>8, <1>11 DEF CallbackInv, RegistryInv
  <2> QED BY <1>1, <1>9, <2>1 DEF Kept, CallbackOf, MagicOf
<1>12. calling # None => calling \in Block \ {b}
  BY <1>1 DEF CallbackInv, RegistryInv, Free
<1>13. RegistryInv'
  <2>1. /\ session' = session /\ calling' = calling
        /\ registry'[<<"defcb", None>>] = registry[<<"defcb", None>>]
        /\ registry'[<<"lua_session", None>>] = registry[<<"lua_session", None>>]
    BY <1>1, <1>9
  <2>2. DOMAIN registry' = Keys /\ DOMAIN reqs' = Block
    BY <1>8, <1>9
  <2>3. calling # None => calling \in Block /\ reqs'[calling].state = "calling"
    BY <1>8, <1>12 DEF CallbackInv, RegistryInv
  <2>4. \A x \in Block : reqs'[x].state = "pending" => Kept(x)'
    BY <1>10, <1>11
  <2> QED BY <1>2, <2>1, <2>2, <2>3, <2>4 DEF RegistryInv
<1>14. OwnCallback'
  BY <1>1, <1>8, <1>12 DEF CallbackInv, OwnCallback
<1> QED BY <1>13, <1>14 DEF CallbackInv

(* The answer: the callback is called with what was kept.                  *)
LEMMA ResponseStep ==
  ASSUME CallbackInv, NEW b \in Block, NEW outcome \in Outcomes, AsynchRsp(b, outcome)
  PROVE  CallbackInv'
<1>1. /\ calling = None /\ reqs[b].state = "pending" /\ calling' = b
      /\ heard' = [fn |-> CallbackOf(b), magic |-> MagicOf(b),
                   session |-> registry[<<"lua_session", None>>],
                   rsp |-> PushRsp(outcome, reqs[b].is_list)]
      /\ reqs' = [reqs EXCEPT ![b] = [@ EXCEPT !.state = "calling"]]
      /\ UNCHANGED <<session, registry>>
  BY DEF AsynchRsp
<1>2. DOMAIN reqs = Block /\ Kept(b)
  BY <1>1 DEF CallbackInv, RegistryInv
<1>3. reqs'[b].state = "calling" /\ \A x \in Block \ {b} : reqs'[x] = reqs[x]
  BY <1>1, <1>2
<1>4. RegistryInv'
  <2>1. \A x \in Block : reqs'[x].state = "pending" => Kept(x)'
    <3> SUFFICES ASSUME NEW x \in Block, reqs'[x].state = "pending" PROVE Kept(x)'
      OBVIOUS
    <3>1. x # b /\ reqs'[x] = reqs[x] /\ Kept(x)
      BY <1>3 DEF CallbackInv, RegistryInv
    <3> QED BY <1>1, <3>1 DEF Kept, CallbackOf, MagicOf
  <2>2. DOMAIN reqs' = Block
    BY <1>1, <1>2
  <2> QED BY <1>1, <1>3, <2>1, <2>2 DEF CallbackInv, RegistryInv
<1>5. OwnCallback'
  <2>1. PICK q : q = reqs[b]
    OBVIOUS
  <2>2. reqs'[b].given = reqs[b].given
    BY <1>1, <1>2
  <2>3. /\ heard'.fn = CallbackOf(b) /\ heard'.magic = MagicOf(b)
        /\ heard'.session = registry[<<"lua_session", None>>]
        /\ heard'.rsp = PushRsp(outcome, reqs[b].is_list)
    BY <1>1
  <2>4. PICK rsp : rsp = PushRsp(outcome, reqs[b].is_list)
    OBVIOUS
  <2>5. /\ rsp.status = "nil" => rsp.vb # "nil"
        /\ rsp.vb \in {"nil", IF reqs[b].is_list THEN "vlist" ELSE "vbind"}
    BY <2>4 DEF PushRsp, Outcomes
  <2> QED BY <1>1, <1>2, <2>2, <2>3, <2>4, <2>5 DEF OwnCallback, Kept
<1> QED BY <1>4, <1>5 DEF CallbackInv

(* The callback is over: what its block had in the registry goes, and      *)
(* nothing else.                                                           *)
LEMMA ReturnStep ==
  ASSUME CallbackInv, CallbackReturns \/ CallbackFails
  PROVE  CallbackInv'
<1>1. /\ calling # None /\ calling' = None /\ UNCHANGED session
      /\ \E q : q.state # "pending" /\ reqs' = [reqs EXCEPT ![calling] = q]
  <2>1. CASE CallbackReturns
    BY <2>1 DEF CallbackReturns, Free
  <2>2. CASE CallbackFails
    BY <2>2 DEF CallbackFails, Leaked
  <2> QED BY <2>1, <2>2
<1>2. /\ DOMAIN registry = Keys /\ DOMAIN reqs = Block /\ calling \in Block
      /\ reqs[calling].state = "calling"
  BY <1>1 DEF CallbackInv, RegistryInv
<1>3. /\ DOMAIN reqs' = Block /\ reqs'[calling].state # "pending"
      /\ \A x \in Block \ {calling} : reqs'[x] = reqs[x]
  BY <1>1, <1>2
<1>4. /\ DOMAIN registry' = Keys
      /\ \A k \in Keys \ {<<"reqcb", calling>>, <<"magic", calling>>} :
           registry'[k] = registry[k]
  BY <1>2 DEF CallbackReturns, CallbackFails
<1>5. /\ \A x \in Block \ {calling} : registry'[<<"reqcb", x>>] = registry[<<"reqcb", x>>]
      /\ \A x \in Block \ {calling} : registry'[<<"magic", x>>] = registry[<<"magic", x>>]
      /\ registry'[<<"defcb", None>>] = registry[<<"defcb", None>>]
      /\ registry'[<<"lua_session", None>>] = registry[<<"lua_session", None>>]
  <2> DEFINE gone == {<<"reqcb", calling>>, <<"magic", calling>>}
  <2>1. \A x \in Block \ {calling} :
          <<"reqcb", x>> \in Keys \ gone /\ <<"magic", x>> \in Keys \ gone
    BY DEF Keys
  <2>2. <<"defcb", None>> \in Keys \ gone /\ <<"lua_session", None>> \in Keys \ gone
    BY DEF Keys
  <2> QED BY <1>4, <2>1, <2>2
<1>6. \A x \in Block : reqs'[x].state = "pending" => Kept(x)'
  <2> SUFFICES ASSUME NEW x \in Block, reqs'[x].state = "pending" PROVE Kept(x)'
    OBVIOUS
  <2>1. x # calling /\ reqs'[x] = reqs[x] /\ Kept(x)
    BY <1>3 DEF CallbackInv, RegistryInv
  <2> QED BY <1>1, <1>5, <2>1 DEF Kept, CallbackOf, MagicOf
<1>7. RegistryInv'
  BY <1>1, <1>3, <1>4, <1>5, <1>6 DEF CallbackInv, RegistryInv
<1>8. OwnCallback'
  BY <1>1 DEF OwnCallback
<1> QED BY <1>7, <1>8 DEF CallbackInv

(* A callback is called with what was given with its own request: its      *)
(* function or else the session's default one, its magic value and the     *)
(* session it was sent on, however blocks and addresses are used again     *)
(* (nm_snmp_asynch_req, nm_snmp_asynch_rsp, nm_snmp_freereqs).             *)
THEOREM CallsOwnCallback == Spec => []OwnCallback
<1>1. Init => CallbackInv
  <2> SUFFICES ASSUME Init PROVE CallbackInv
    OBVIOUS
  <2>1. RegistryInv
    BY DEF Init, RegistryInv, Closed, Free
  <2>2. OwnCallback
    BY DEF Init, OwnCallback
  <2> QED BY <2>1, <2>2 DEF CallbackInv
<1>2. CallbackInv /\ [Next]_vars => CallbackInv'
  <2> SUFFICES ASSUME CallbackInv, [Next]_vars PROVE CallbackInv'
    OBVIOUS
  <2>1. ASSUME NEW h \in Handle, NEW no_peer \in BOOLEAN, NEW v1 \in BOOLEAN,
               NEW cb \in {Nil, Fn(Default)}, Open(h, cb, no_peer, v1)
        PROVE  CallbackInv'
    BY <2>1, OpenStep
  <2>2. CASE Close
    BY <2>2, CloseStep
  <2>3. ASSUME NEW kind \in Kinds, NEW tail \in Tails, NEW list \in BOOLEAN, NEW b \in Block,
               AsynchReq(kind, tail, list, b)
        PROVE  CallbackInv'
    BY <2>3, RequestStep, RequestsAssumption
  <2>4. ASSUME NEW b \in Block, NEW outcome \in Outcomes, AsynchRsp(b, outcome)
        PROVE  CallbackInv'
    BY <2>4, ResponseStep
  <2>5. CASE CallbackReturns \/ CallbackFails
    BY <2>5, ReturnStep
  <2>6. CASE UNCHANGED <<session, registry, reqs, calling, heard>>
    BY <2>6, Elsewhere
  <2> QED BY <2>1, <2>2, <2>3, <2>4, <2>5, <2>6, ValueSteps DEF Next
<1>3. CallbackInv => OwnCallback
  BY DEF CallbackInv
<1> QED BY <1>1, <1>2, <1>3, PTL DEF Spec
-----------------------------------------------------------------------------
(* Numbers of a width.                                                     *)

(* Quotient and remainder of a division by a positive number.              *)
LEMMA DivMod ==
  ASSUME NEW m \in Nat, m > 0, NEW n \in Int
  PROVE  /\ n \div m \in Int /\ n % m \in 0 .. m - 1
         /\ n = (n \div m) * m + (n % m)
OBVIOUS

(* There is one quotient and one remainder.                                *)
LEMMA Euclid ==
  ASSUME NEW m \in Nat, m > 0, NEW q \in Int, NEW r \in 0 .. m - 1,
         NEW k \in Int, NEW s \in 0 .. m - 1, q * m + r = k * m + s
  PROVE  q = k /\ r = s
<1>1. ASSUME NEW a \in Int, NEW b \in Int, a > b
      PROVE  a * m >= b * m + m
  <2> DEFINE d == a - b - 1
  <2>1. d \in Nat /\ a = b + 1 + d
    BY <1>1
  <2> HIDE DEF d
  <2>2. d * m \in Nat
    BY <2>1
  <2>3. a * m = b * m + m + d * m
    BY <2>1
  <2> QED BY <2>2, <2>3
<1>2. ~(q > k)
  <2> SUFFICES ASSUME q > k PROVE FALSE
    OBVIOUS
  <2> DEFINE x == q * m
             y == k * m
  <2>1. x >= y + m /\ x \in Int /\ y \in Int
    BY <1>1
  <2>2. x + r = y + s
    OBVIOUS
  <2> HIDE DEF x, y
  <2> QED BY <2>1, <2>2
<1>3. ~(k > q)
  <2> SUFFICES ASSUME k > q PROVE FALSE
    OBVIOUS
  <2> DEFINE x == q * m
             y == k * m
  <2>1. y >= x + m /\ x \in Int /\ y \in Int
    BY <1>1
  <2>2. x + r = y + s
    OBVIOUS
  <2> HIDE DEF x, y
  <2> QED BY <2>1, <2>2
<1>4. q = k
  BY <1>2, <1>3
<1> QED BY <1>4

(* A number that is split at m has these for quotient and remainder.       *)
LEMMA Splits ==
  ASSUME NEW m \in Nat, m > 0, NEW q \in Int, NEW r \in 0 .. m - 1, NEW n, n = q * m + r
  PROVE  n \in Int /\ n % m = r /\ n \div m = q
<1>1. n \in Int
  OBVIOUS
<1>2. /\ n \div m \in Int /\ n % m \in 0 .. m - 1
      /\ n = (n \div m) * m + (n % m)
  BY <1>1, DivMod
<1> DEFINE k == n \div m
           s == n % m
<1>3. k \in Int /\ s \in 0 .. m - 1 /\ k * m + s = q * m + r
  BY <1>2
<1> HIDE DEF k, s
<1>4. k = q /\ s = r
  BY <1>3, Euclid
<1> QED BY <1>1, <1>4 DEF k, s

(* An int, a half of a Counter64 and a Counter64.                          *)
LEMMA Widths ==
  /\ IntMax \in Nat /\ Half \in Nat /\ Half = IntMax + IntMax + 2 /\ Half >= 2
  /\ IntMin = -IntMax - 1
  /\ Word \in Nat /\ Word >= Half + Half /\ Word = Half * Half
<1>1. IntMax \in Nat /\ Half \in Nat /\ Half = IntMax + IntMax + 2 /\ Half >= 2
      /\ IntMin = -IntMax - 1
  BY WidthAssumption DEF Half, IntMin
<1>2. ASSUME NEW h \in Nat, h >= 2
      PROVE  h * h \in Nat /\ h * h >= h + h
  <2> DEFINE d == h - 2
  <2>1. d \in Nat /\ h = d + 2
    BY <1>2
  <2> HIDE DEF d
  <2>2. d * h \in Nat
    BY <2>1
  <2>3. h * h = d * h + h + h
    BY <2>1
  <2> QED BY <2>2, <2>3
<1>3. Half * Half \in Nat /\ Half * Half >= Half + Half
  BY <1>1, <1>2
<1> QED BY <1>1, <1>3 DEF Word

-----------------------------------------------------------------------------
(* The types.                                                              *)

(* nm_snmp_types, row by row.                                              *)
LEMMA Table ==
  /\ DOMAIN SnmpTypes = 1 .. 19
  /\ SnmpTypes[1] = <<"OBJECT_ID", "OBJID">> /\ SnmpTypes[2] = <<"OCTET_STR", "OCTETSTR">>
  /\ SnmpTypes[3] = <<"INTEGER", "INTEGER">> /\ SnmpTypes[4] = <<"IPADDRESS", "IPADDR">>
  /\ SnmpTypes[5] = <<"IPADDRESS", "NETADDR">> /\ SnmpTypes[6] = <<"COUNTER", "COUNTER">>
  /\ SnmpTypes[7] = <<"GAUGE", "GAUGE">> /\ SnmpTypes[8] = <<"TIMETICKS", "TIMETICKS">>
  /\ SnmpTypes[9] = <<"OPAQUE", "OPAQUE">> /\ SnmpTypes[10] = <<"NULL", "NULL">>
  /\ SnmpTypes[11] = <<"COUNTER64", "COUNTER64">>
  /\ SnmpTypes[12] = <<"OPAQUE_COUNTER64", "COUNTER64">>
  /\ SnmpTypes[13] = <<"OCTET_STR", "BITSTRING">> /\ SnmpTypes[14] = <<"OCTET_STR", "NSAPADDR">>
  /\ SnmpTypes[15] = <<"INTEGER", "UINTEGER">> /\ SnmpTypes[16] = <<"OCTET_STR", "DISPLAY">>
BY DEF SnmpTypes

(* The least row is the first one.                                         *)
LEMMA First ==
  ASSUME NEW rows \in SUBSET Int, NEW i \in rows, \A j \in rows : i <= j
  PROVE  FirstRow(rows) = i
<1>1. \A k \in rows : (\A j \in rows : k <= j) => k = i
  OBVIOUS
<1>2. \E k \in rows : \A j \in rows : k <= j
  OBVIOUS
<1> QED BY <1>1, <1>2 DEF FirstRow

(* f_prim_type finds the first row with a type of the library.             *)
LEMMA PrimRow ==
  ASSUME NEW cmu, NEW i \in 1 .. 19, SnmpTypes[i][1] = cmu,
         \A j \in 1 .. i - 1 : SnmpTypes[j][1] # cmu
  PROVE  PrimType(cmu) = SnmpTypes[i][2]
<1> DEFINE rows == {k \in DOMAIN SnmpTypes : SnmpTypes[k][1] = cmu}
<1>1. rows \in SUBSET Int /\ i \in rows /\ \A j \in rows : i <= j
  BY Table
<1>2. FirstRow(rows) = i /\ rows # {}
  BY <1>1, First
<1> QED BY <1>2 DEF PrimType

(* f_cmu_type finds the first row with a primitive type.                   *)
LEMMA CmuRow ==
  ASSUME NEW prim, NEW i \in 1 .. 19, SnmpTypes[i][2] = prim,
         \A j \in 1 .. i - 1 : SnmpTypes[j][2] # prim
  PROVE  CmuType(prim) = SnmpTypes[i][1]
<1> DEFINE rows == {k \in DOMAIN SnmpTypes : SnmpTypes[k][2] = prim}
<1>1. rows \in SUBSET Int /\ i \in rows /\ \A j \in rows : i <= j
  BY Table
<1>2. FirstRow(rows) = i
  BY <1>1, First
<1> QED BY <1>2 DEF CmuType

(* The primitive type of each type of the library.                         *)
LEMMA PrimTypes ==
  /\ PrimType("OBJECT_ID") = "OBJID" /\ PrimType("OCTET_STR") = "OCTETSTR"
  /\ PrimType("INTEGER") = "INTEGER" /\ PrimType("IPADDRESS") = "IPADDR"
  /\ PrimType("COUNTER") = "COUNTER" /\ PrimType("GAUGE") = "GAUGE"
  /\ PrimType("TIMETICKS") = "TIMETICKS" /\ PrimType("OPAQUE") = "OPAQUE"
  /\ PrimType("NULL") = "NULL" /\ PrimType("COUNTER64") = "COUNTER64"
<1>1. PrimType("OBJECT_ID") = SnmpTypes[1][2]
  BY PrimRow, Table
<1>2. PrimType("OCTET_STR") = SnmpTypes[2][2]
  BY PrimRow, Table
<1>3. PrimType("INTEGER") = SnmpTypes[3][2]
  BY PrimRow, Table
<1>4. PrimType("IPADDRESS") = SnmpTypes[4][2]
  BY PrimRow, Table
<1>5. PrimType("COUNTER") = SnmpTypes[6][2]
  BY PrimRow, Table
<1>6. PrimType("GAUGE") = SnmpTypes[7][2]
  BY PrimRow, Table
<1>7. PrimType("TIMETICKS") = SnmpTypes[8][2]
  BY PrimRow, Table
<1>8. PrimType("OPAQUE") = SnmpTypes[9][2]
  BY PrimRow, Table
<1>9. PrimType("NULL") = SnmpTypes[10][2]
  BY PrimRow, Table
<1>10. PrimType("COUNTER64") = SnmpTypes[11][2]
  BY PrimRow, Table
<1> QED
  BY <1>1, <1>2, <1>3, <1>4, <1>5, <1>6, <1>7, <1>8, <1>9, <1>10, Table

(* The type of the library that each primitive type stands for.            *)
LEMMA CmuTypes ==
  /\ CmuType("OBJID") = "OBJECT_ID" /\ CmuType("OCTETSTR") = "OCTET_STR"
  /\ CmuType("DISPLAY") = "OCTET_STR" /\ CmuType("INTEGER") = "INTEGER"
  /\ CmuType("UINTEGER") = "INTEGER" /\ CmuType("IPADDR") = "IPADDRESS"
  /\ CmuType("NETADDR") = "IPADDRESS" /\ CmuType("COUNTER") = "COUNTER"
  /\ CmuType("GAUGE") = "GAUGE" /\ CmuType("TIMETICKS") = "TIMETICKS"
  /\ CmuType("OPAQUE") = "OPAQUE" /\ CmuType("COUNTER64") = "COUNTER64"
  /\ CmuType("BITSTRING") = "OCTET_STR" /\ CmuType("NSAPADDR") = "OCTET_STR"
<1>1. CmuType("OBJID") = SnmpTypes[1][1]
  BY CmuRow, Table
<1>2. CmuType("OCTETSTR") = SnmpTypes[2][1]
  BY CmuRow, Table
<1>3. CmuType("DISPLAY") = SnmpTypes[16][1]
  BY CmuRow, Table
<1>4. CmuType("INTEGER") = SnmpTypes[3][1]
  BY CmuRow, Table
<1>5. CmuType("UINTEGER") = SnmpTypes[15][1]
  BY CmuRow, Table
<1>6. CmuType("IPADDR") = SnmpTypes[4][1]
  BY CmuRow, Table
<1>7. CmuType("NETADDR") = SnmpTypes[5][1]
  BY CmuRow, Table
<1>8. CmuType("COUNTER") = SnmpTypes[6][1]
  BY CmuRow, Table
<1>9. CmuType("GAUGE") = SnmpTypes[7][1]
  BY CmuRow, Table
<1>10. CmuType("TIMETICKS") = SnmpTypes[8][1]
  BY CmuRow, Table
<1>11. CmuType("OPAQUE") = SnmpTypes[9][1]
  BY CmuRow, Table
<1>12. CmuType("COUNTER64") = SnmpTypes[11][1]
  BY CmuRow, Table
<1>13. CmuType("BITSTRING") = SnmpTypes[13][1] /\ CmuType("NSAPADDR") = SnmpTypes[14][1]
  BY CmuRow, Table
<1> QED
  BY <1>1, <1>2, <1>3, <1>4, <1>5, <1>6, <1>7, <1>8, <1>9, <1>10, <1>11, <1>12, <1>13, Table

-----------------------------------------------------------------------------
(* Ints.                                                                   *)

(* What is left of a number at the width of an int, without and with its   *)
(* sign.                                                                   *)
LEMMA Wrap ==
  ASSUME NEW n \in Int
  PROVE  n % Half \in 0 .. Half - 1 /\ Signed(n) \in IntMin .. IntMax
<1>1. n % Half \in 0 .. Half - 1
  BY Widths, DivMod
<1>2. Signed(n) \in IntMin .. IntMax
  <2> DEFINE w == n % Half
  <2>1. w \in 0 .. Half - 1 /\ Signed(n) = IF w > IntMax THEN w - Half ELSE w
    BY <1>1 DEF Signed
  <2> HIDE DEF w
  <2> QED BY <2>1, Widths
<1> QED BY <1>1, <1>2

(* Numbers around zero modulo m.                                           *)
LEMMA SmallMod ==
  ASSUME NEW m \in Nat, m > 0
  PROVE  /\ \A n \in 0 .. m - 1 : n % m = n /\ n \div m = 0
         /\ \A n \in -m .. -1 : n % m = n + m
<1>1. ASSUME NEW n \in 0 .. m - 1
      PROVE  n % m = n /\ n \div m = 0
  <2>1. 0 \in Int /\ n = 0 * m + n
    OBVIOUS
  <2> QED BY <2>1, Splits
<1>2. ASSUME NEW n \in -m .. -1
      PROVE  n % m = n + m
  <2>1. -1 \in Int /\ n + m \in 0 .. m - 1 /\ n = (-1) * m + (n + m)
    OBVIOUS
  <2> QED BY <2>1, Splits
<1> QED BY <1>1, <1>2

(* An int is itself; a number too great for one comes out negative.        *)
LEMMA SignedIs ==
  /\ \A n \in 0 .. IntMax : Signed(n) = n
  /\ \A n \in IntMin .. -1 : Signed(n) = n
  /\ \A n \in IntMax + 1 .. Half - 1 : Signed(n) = n - Half
<1>1. ASSUME NEW n \in 0 .. Half - 1
      PROVE  n % Half = n
  BY Widths, SmallMod
<1>2. ASSUME NEW n \in 0 .. IntMax
      PROVE  Signed(n) = n
  <2>1. n % Half = n
    BY <1>1, Widths
  <2> QED BY <2>1, Widths DEF Signed
<1>3. ASSUME NEW n \in IntMin .. -1
      PROVE  Signed(n) = n
  <2>1. n \in -Half .. -1
    BY Widths
  <2>2. n % Half = n + Half
    BY <2>1, Widths, SmallMod
  <2> QED BY <2>2, Widths DEF Signed
<1>4. ASSUME NEW n \in IntMax + 1 .. Half - 1
      PROVE  Signed(n) = n - Half
  <2>1. n % Half = n
    BY <1>1, Widths
  <2> QED BY <2>1, Widths DEF Signed
<1> QED BY <1>2, <1>3, <1>4

(* A subidentifier comes back from the text that shows it when that has no *)
(* sign.                                                                   *)
LEMMA SubidBack ==
  ASSUME NEW n \in 0 .. Half - 1, NEW t, t = n \/ t = Signed(n), t >= 0
  PROVE  (Signed(t) % Word) % Half = n
<1>1. n \in Int /\ n % Half = n
  BY Widths, SmallMod
<1>2. CASE n <= IntMax
  <2>1. Signed(n) = n /\ t = n
    BY <1>2, SignedIs, Widths
  <2>2. n % Word = n
    <3>1. n \in 0 .. Word - 1 /\ Word \in Nat /\ Word > 0
      BY Widths
    <3> QED BY <3>1, SmallMod
  <2> QED BY <1>1, <2>1, <2>2
<1>3. CASE n > IntMax
  <2>1. Signed(n) = n - Half /\ t = n
    BY <1>3, SignedIs, Widths
  <2>2. (n - Half) % Word = n - Half + Word
    <3>1. n - Half \in -Word .. -1 /\ Word \in Nat /\ Word > 0
      BY Widths
    <3> QED BY <3>1, SmallMod
  <2>3. (n - Half + Word) % Half = n
    <3> DEFINE q == Half - 1
               x == n - Half + Word
    <3>1. q \in Int /\ x = q * Half + n
      BY Widths
    <3> HIDE DEF q, x
    <3>2. x % Half = n
      <4>1. Half \in Nat /\ Half > 0
        BY Widths
      <4> QED BY <3>1, <4>1, Splits
    <3> QED BY <3>2 DEF x
  <2> QED BY <2>1, <2>2, <2>3
<1> QED BY <1>1, <1>2, <1>3, Widths

-----------------------------------------------------------------------------
(* The conversions, case by case.                                          *)

(* What is stored of a value of the Lua type t.                            *)
Vl(prim, x, t, vals) == IF x.t = t THEN {Var(CmuType(prim), v) : v \in vals} ELSE {}

(* f_create_vl case by case: numbers,                                      *)
LEMMA VlNumber ==
  ASSUME NEW x, NEW prim \in {"INTEGER", "COUNTER", "GAUGE"}
  PROVE  CreateVl(prim, x) = Vl(prim, x, "number", ToInt(x.v))
BY Zenon DEF CreateVl, Vl, Exceptions

(* OIDs, unsigned numbers, times and Counter64s,                           *)
LEMMA VlOther ==
  ASSUME NEW x
  PROVE  /\ CreateVl("OBJID", x) =
              Vl("OBJID", x, "string", {Str2Oid(text) : text \in {y \in {x.v} : IsOid(y)}})
         /\ CreateVl("UINTEGER", x) = Vl("UINTEGER", x, "number", {x.v % Half})
         /\ CreateVl("TIMETICKS", x) = Vl("TIMETICKS", x, "table", {FormatTime(x.v)})
         /\ CreateVl("COUNTER64", x) = {Var(CmuType("COUNTER64"), C64Get(x))}
<1>1. CreateVl("OBJID", x) =
        Vl("OBJID", x, "string", {Str2Oid(text) : text \in {y \in {x.v} : IsOid(y)}})
  BY Zenon DEF CreateVl, Vl, Exceptions
<1>2. CreateVl("UINTEGER", x) = Vl("UINTEGER", x, "number", {x.v % Half})
  BY Zenon DEF CreateVl, Vl, Exceptions
<1>3. CreateVl("TIMETICKS", x) = Vl("TIMETICKS", x, "table", {FormatTime(x.v)})
  BY Zenon DEF CreateVl, Vl, Exceptions
<1>4. CreateVl("COUNTER64", x) = {Var(CmuType("COUNTER64"), C64Get(x))}
  BY Zenon DEF CreateVl, Vl, Exceptions
<1> QED BY <1>1, <1>2, <1>3, <1>4

(* octet strings,                                                          *)
LEMMA VlText ==
  ASSUME NEW x, NEW prim \in {"OCTETSTR", "DISPLAY", "OPAQUE", "BITSTRING", "NSAPADDR"}
  PROVE  CreateVl(prim, x) = Vl(prim, x, "string", OctetsOf(prim, x.v))
BY Zenon DEF CreateVl, Vl, Exceptions

(* addresses,                                                              *)
LEMMA VlAddress ==
  ASSUME NEW x, NEW prim \in {"IPADDR", "NETADDR"}
  PROVE  CreateVl(prim, x) = Vl(prim, x, "string", {x.v} \ {"255.255.255.255", "junk"})
BY Zenon DEF CreateVl, Vl, Exceptions

(* and what it refuses: a type it has no case for, and a number for the    *)
(* text that DISPLAY asks for.                                             *)
LEMMA VlRefused ==
  ASSUME NEW x
  PROVE  /\ CreateVl("UNSIGNED32", x) = {}
         /\ x.t = "number" => CreateVl("DISPLAY", x) = {}
<1>1. CreateVl("UNSIGNED32", x) = {}
  BY Zenon DEF CreateVl, Exceptions
<1>2. CreateVl("DISPLAY", x) = Vl("DISPLAY", x, "string", OctetsOf("DISPLAY", x.v))
  BY VlText
<1> QED BY <1>1, <1>2 DEF Vl

(* What the library encodes, type by type.                                 *)
LEMMA EncodedIs ==
  ASSUME NEW var
  PROVE  /\ var.type = "OBJECT_ID" =>
              Encoded(var) = Var("OBJECT_ID", [i \in DOMAIN var.val |-> var.val[i] % Half])
         /\ var.type = "INTEGER" => Encoded(var) = Var("INTEGER", Signed(var.val))
         /\ var.type \in {"COUNTER", "GAUGE"} => Encoded(var) = Var(var.type, var.val % Half)
         /\ var.type = "COUNTER64" =>
              Encoded(var) = Var("COUNTER64", [high |-> var.val.high % Half,
                                               low |-> var.val.low % Half])
         /\ var.type \in {"OCTET_STR", "OPAQUE", "IPADDRESS", "TIMETICKS"} => Encoded(var) = var
<1>1. ASSUME var.type = "OBJECT_ID"
      PROVE  Encoded(var) = Var("OBJECT_ID", [i \in DOMAIN var.val |-> var.val[i] % Half])
  BY <1>1, Zenon DEF Encoded
<1>2. ASSUME var.type = "INTEGER"
      PROVE  Encoded(var) = Var("INTEGER", Signed(var.val))
  BY <1>2, Zenon DEF Encoded
<1>3. ASSUME var.type \in {"COUNTER", "GAUGE"}
      PROVE  Encoded(var) = Var(var.type, var.val % Half)
  BY <1>3, Zenon DEF Encoded
<1>4. ASSUME var.type = "COUNTER64"
      PROVE  Encoded(var) = Var("COUNTER64", [high |-> var.val.high % Half,
                                              low |-> var.val.low % Half])
  BY <1>4, Zenon DEF Encoded
<1>5. ASSUME var.type \in {"OCTET_STR", "OPAQUE", "IPADDRESS", "TIMETICKS"}
      PROVE  Encoded(var) = var
  BY <1>5, Zenon DEF Encoded
<1> QED BY <1>1, <1>2, <1>3, <1>4, <1>5

LEMMA Encodes ==
  ASSUME NEW v
  PROVE  /\ Encoded(Var("OBJECT_ID", v)) = Var("OBJECT_ID", [i \in DOMAIN v |-> v[i] % Half])
         /\ Encoded(Var("INTEGER", v)) = Var("INTEGER", Signed(v))
         /\ Encoded(Var("COUNTER", v)) = Var("COUNTER", v % Half)
         /\ Encoded(Var("GAUGE", v)) = Var("GAUGE", v % Half)
         /\ Encoded(Var("COUNTER64", v)) =
              Var("COUNTER64", [high |-> v.high % Half, low |-> v.low % Half])
         /\ \A type \in {"OCTET_STR", "OPAQUE", "IPADDRESS", "TIMETICKS"} :
              Encoded(Var(type, v)) = Var(type, v)
<1>1. \A type : Var(type, v).type = type /\ Var(type, v).val = v
  BY DEF Var
<1> QED BY <1>1, EncodedIs

(* What a varbind says, type by type, and when it says something.          *)
LEMMA SaysIs ==
  ASSUME NEW vb, NEW m, Says(vb, m)
  PROVE  /\ vb.type = "OBJID" =>
              /\ m.type = "OBJECT_ID"
              /\ vb.value \in {Lua("string", Oid2Str(m.val)), Lua("string", m.val)}
         /\ vb.type \in {"INTEGER", "COUNTER", "GAUGE"} =>
              m.type = vb.type /\ vb.value = Lua("number", m.val)
         /\ vb.type = "UINTEGER" =>
              m.type = "INTEGER" /\ m.val >= 0 /\ vb.value = Lua("number", m.val)
         /\ vb.type = "DISPLAY" => m.type = "OCTET_STR" /\ vb.value = Lua("string", m.val)
         /\ vb.type = "OCTETSTR" =>
              /\ m.type = "OCTET_STR" /\ vb.value.t = "string"
              /\ m.val = IF ReadsAsHex(vb.value.v) THEN HexOctets(vb.value.v) ELSE vb.value.v
         /\ vb.type = "OPAQUE" =>
              m.type = "OPAQUE" /\ vb.value.t = "string" /\ m.val = HexOctets(vb.value.v)
         /\ vb.type \in {"IPADDR", "NETADDR"} =>
              m.type = "IPADDRESS" /\ vb.value = Lua("string", m.val)
         /\ vb.type = "TIMETICKS" =>
              /\ m.type = "TIMETICKS"
              /\ vb.value \in {Lua("table", CreateTimeTable(m.val)), Lua("table", Fields(m.val))}
         /\ vb.type = "COUNTER64" =>
              /\ m.type = "COUNTER64"
              /\ C64Get(vb.value) \in [high : Nat, low : Nat]
              /\ C64Get(vb.value).high * Half + C64Get(vb.value).low = m.val.high * Half + m.val.low
         /\ vb.type \in {"OBJID", "INTEGER", "COUNTER", "GAUGE", "UINTEGER", "DISPLAY", "OCTETSTR",
                         "OPAQUE", "IPADDR", "NETADDR", "TIMETICKS", "COUNTER64"}
BY Zenon DEF Says

(* The values of each type.                                                *)
LEMMA ValueSets ==
  /\ ValuesOf("OBJECT_ID") = Seq(0 .. Half - 1)
  /\ ValuesOf("OCTET_STR") = Seq(Sorts) /\ ValuesOf("OPAQUE") = Seq(Sorts)
  /\ ValuesOf("INTEGER") = IntMin .. IntMax
  /\ ValuesOf("IPADDRESS") = Sample["IPADDRESS"] \cup {"junk"}
  /\ ValuesOf("COUNTER") = 0 .. Half - 1 /\ ValuesOf("GAUGE") = 0 .. Half - 1
  /\ ValuesOf("TIMETICKS") = Nat
  /\ ValuesOf("COUNTER64") = [high : 0 .. Half - 1, low : 0 .. Half - 1]
  /\ ValuesOf("NULL") = {<<>>}
BY Zenon DEF ValuesOf

(* What the library encodes of var is a value of m's type.                 *)
Fits(var, m) ==
  /\ Encoded(var) = Var(m.type, Encoded(var).val)
  /\ Encoded(var).val \in ValuesOf(m.type)

-----------------------------------------------------------------------------
(* What arrives at the agent.                                              *)

(* A value that f_create_vl stores is of the primitive's type, made of a   *)
(* Lua value of the right type.                                            *)
LEMMA VlIs ==
  ASSUME NEW prim, NEW x, NEW t, NEW vals, NEW var \in Vl(prim, x, t, vals)
  PROVE  x.t = t /\ \E v \in vals : var = Var(CmuType(prim), v)
<1>1. x.t = t
  BY DEF Vl
<1> QED BY <1>1 DEF Vl

(* The parts of values.                                                    *)
LEMMA LuaIs ==
  ASSUME NEW t, NEW v
  PROVE  Lua(t, v).t = t /\ Lua(t, v).v = v /\ Var(t, v).type = t /\ Var(t, v).val = v
BY DEF Lua, Var

(* The OID that f_create_vl stores, and the unsigned number.               *)
LEMMA VlOid ==
  ASSUME NEW x, NEW var \in CreateVl("OBJID", x)
  PROVE  IsOid(x.v) /\ var = Var("OBJECT_ID", Str2Oid(x.v))
<1> DEFINE S == {Str2Oid(text) : text \in {y \in {x.v} : IsOid(y)}}
<1>1. \A v \in S : IsOid(x.v) /\ v = Str2Oid(x.v)
  OBVIOUS
<1>2. CreateVl("OBJID", x) = Vl("OBJID", x, "string", S)
  BY VlOther
<1> HIDE DEF S
<1>3. \E v \in S : var = Var(CmuType("OBJID"), v)
  BY <1>2, VlIs
<1> QED BY <1>1, <1>3, CmuTypes

LEMMA VlUnsigned ==
  ASSUME NEW x, NEW var \in CreateVl("UINTEGER", x)
  PROVE  var = Var("INTEGER", x.v % Half)
<1> DEFINE S == {x.v % Half}
<1>1. \A v \in S : v = x.v % Half
  OBVIOUS
<1>2. CreateVl("UINTEGER", x) = Vl("UINTEGER", x, "number", S)
  BY VlOther
<1> HIDE DEF S
<1>3. \E v \in S : var = Var(CmuType("UINTEGER"), v)
  BY <1>2, VlIs
<1> QED BY <1>1, <1>3, CmuTypes

(* An OID arrives as meant when it is taken at all: f_isoid refuses a text *)
(* with a sign, which shows a subidentifier that is no int.                *)
LEMMA OidArrives ==
  ASSUME NEW vb, NEW m, IsValue(m), Says(vb, m), vb.type = "OBJID",
         NEW var \in CreateVl("OBJID", vb.value)
  PROVE  Encoded(var) = m
<1> DEFINE text == vb.value.v
           oid == m.val
<1>1. m.type = "OBJECT_ID" /\ (text = oid \/ text = Oid2Str(oid))
  BY SaysIs, LuaIs
<1>2. oid \in Seq(0 .. Half - 1) /\ m = Var("OBJECT_ID", oid)
  BY <1>1, ValueSets DEF IsValue
<1>3. IsOid(text) /\ var = Var("OBJECT_ID", Str2Oid(text))
  BY VlOid
<1> HIDE DEF text, oid
<1>4. DOMAIN text = DOMAIN oid /\ DOMAIN oid = 1 .. Len(oid)
  BY <1>1, <1>2 DEF Oid2Str
<1>5. \A i \in DOMAIN oid : (Signed(text[i]) % Word) % Half = oid[i]
  <2> TAKE i \in DOMAIN oid
  <2>1. oid[i] \in 0 .. Half - 1
    <3> DEFINE S == 0 .. Half - 1
    <3> HIDE DEF S
    <3>1. oid \in Seq(S)
      BY <1>2 DEF S
    <3>2. oid[i] \in S
      BY <3>1
    <3> QED BY <3>2 DEF S
  <2>2. text[i] = oid[i] \/ text[i] = Signed(oid[i])
    BY <1>1 DEF Oid2Str
  <2>3. text[i] >= 0
    BY <1>3, <1>4 DEF IsOid
  <2> QED BY <2>1, <2>2, <2>3, SubidBack
<1>6. [i \in DOMAIN Str2Oid(text) |-> Str2Oid(text)[i] % Half] = [i \in DOMAIN oid |-> oid[i]]
  <2>1. Str2Oid(text) = [i \in DOMAIN oid |-> Signed(text[i]) % Word]
    BY <1>4 DEF Str2Oid
  <2> QED BY <1>5, <2>1
<1>7. [i \in DOMAIN oid |-> oid[i]] = oid
  BY <1>2
<1>8. Encoded(var) = Var("OBJECT_ID", [i \in DOMAIN Str2Oid(text) |-> Str2Oid(text)[i] % Half])
  BY <1>3, Encodes
<1> QED BY <1>2, <1>6, <1>7, <1>8

(* A number arrives when it is an int; any other arrives as some value of  *)
(* the type.                                                               *)
LEMMA NumberArrives ==
  ASSUME NEW vb, NEW m, IsValue(m), Says(vb, m), vb.type \in {"INTEGER", "COUNTER", "GAUGE"},
         NEW var \in CreateVl(vb.type, vb.value)
  PROVE  Fits(var, m) /\ (vb.value.v <= IntMax => Encoded(var) = m)
<1> DEFINE n == m.val
<1>1. m = Var(vb.type, n) /\ m.type = vb.type /\ vb.value.v = n /\ n \in ValuesOf(vb.type)
  BY SaysIs, LuaIs DEF IsValue
<1>2. n \in Int /\ (vb.type = "INTEGER" => n \in IntMin .. IntMax)
      /\ (vb.type # "INTEGER" => n \in 0 .. Half - 1)
  BY <1>1, Widths, ValueSets, SMTT(40)
<1>3. PICK v \in ToInt(n) : var = Var(vb.type, v)
  <2>1. \E v \in ToInt(vb.value.v) : var = Var(CmuType(vb.type), v)
    BY VlNumber, VlIs
  <2>2. CmuType(vb.type) = vb.type
    BY CmuTypes
  <2> QED BY <1>1, <2>1, <2>2
<1> HIDE DEF n
<1>4. v \in IntMin .. IntMax /\ (n \in IntMin .. IntMax => v = n)
  BY <1>2, Widths DEF ToInt
<1>5. CASE vb.type = "INTEGER"
  <2>1. Encoded(var) = Var("INTEGER", Signed(v))
    BY <1>3, <1>5, Encodes
  <2>2. v = n /\ Signed(v) = v
    BY <1>2, <1>4, <1>5, SignedIs, Widths
  <2>3. Encoded(var) = m
    BY <1>1, <1>5, <2>1, <2>2
  <2> QED BY <2>3 DEF Fits, IsValue
<1>6. CASE vb.type # "INTEGER"
  <2>1. Encoded(var) = Var(vb.type, v % Half)
    BY <1>3, <1>6, Encodes
  <2>2. v % Half \in 0 .. Half - 1
    BY <1>4, Wrap, Widths
  <2>3. ValuesOf(vb.type) = 0 .. Half - 1
    BY <1>6, ValueSets
  <2>4. Encoded(var).val = v % Half
    BY <2>1, LuaIs
  <2>5. Fits(var, m)
    BY <1>1, <2>1, <2>2, <2>3, <2>4 DEF Fits
  <2>6. ASSUME n <= IntMax
        PROVE  v % Half = n
    <3>1. n \in 0 .. Half - 1 /\ n \in IntMin .. IntMax
      BY <1>2, <1>6, <2>6, Widths
    <3>2. n % Half = n
      BY <3>1, SmallMod, Widths
    <3> QED BY <1>4, <3>1, <3>2
  <2> QED BY <1>1, <2>1, <2>5, <2>6
<1> QED BY <1>5, <1>6

(* An unsigned number arrives, with its own type or its node's.            *)
LEMMA UnsignedArrives ==
  ASSUME NEW vb, NEW m, IsValue(m), Says(vb, m), vb.type = "UINTEGER",
         NEW prim \in {"UINTEGER", "INTEGER", "DISPLAY"}, NEW var \in CreateVl(prim, vb.value)
  PROVE  Encoded(var) = m
<1> DEFINE n == m.val
<1>1. m = Var("INTEGER", n) /\ vb.value.v = n /\ n >= 0 /\ n \in ValuesOf("INTEGER")
  BY SaysIs, LuaIs DEF IsValue
<1>2. n \in 0 .. IntMax /\ n \in 0 .. Half - 1 /\ n \in IntMin .. IntMax
  BY <1>1, Widths, ValueSets, SMTT(40)
<1>3. \E v \in ToInt(n) \cup {n % Half} : var = Var("INTEGER", v)
  <2>1. CASE prim = "UINTEGER"
    BY <1>1, <2>1, VlUnsigned
  <2>2. CASE prim = "INTEGER"
    BY <1>1, <2>2, VlNumber, VlIs, CmuTypes
  <2>3. CASE prim = "DISPLAY"
    BY <2>3, SaysIs, LuaIs, VlRefused
  <2> QED BY <2>1, <2>2, <2>3
<1> HIDE DEF n
<1>4. ToInt(n) = {n}
  BY <1>2 DEF ToInt
<1>5. n % Half = n
  BY <1>2, Widths, SmallMod
<1>6. var = Var("INTEGER", n)
  BY <1>3, <1>4, <1>5
<1>7. Encoded(var) = Var("INTEGER", Signed(n))
  BY <1>6, Encodes
<1> QED BY <1>1, <1>2, <1>7, SignedIs

(* Tails and fronts of sequences.                                          *)
LEMMA TailIs ==
  ASSUME NEW S, NEW s \in Seq(S), s # <<>>
  PROVE  Tail(s) \in Seq(S) /\ Len(Tail(s)) = Len(s) - 1 /\ Len(s) \in Nat
         /\ \A i \in 1 .. Len(s) - 1 : Tail(s)[i] = s[i + 1]
OBVIOUS

LEMMA Fronted ==
  ASSUME NEW S, NEW a \in S, NEW o \in Seq(S), NEW s, s = <<a>> \o o
  PROVE  s \in Seq(S) /\ s # <<>> /\ Head(s) = a /\ Tail(s) = o
<1>1. s \in Seq(S) /\ Len(s) = Len(o) + 1 /\ Len(o) \in Nat
  OBVIOUS
<1>2. s[1] = a
  OBVIOUS
<1>3. \A i \in 1 .. Len(o) : s[i + 1] = o[i]
  OBVIOUS
<1>4. s # <<>> /\ Head(s) = a
  BY <1>1, <1>2
<1>5. Tail(s) \in Seq(S) /\ Len(Tail(s)) = Len(o)
  BY <1>1, <1>4, TailIs
<1>6. \A i \in 1 .. Len(o) : Tail(s)[i] = o[i]
  BY <1>1, <1>3, <1>4, TailIs
<1>7. Tail(s) = o
  BY <1>5, <1>6
<1> QED BY <1>1, <1>4, <1>7

(* What reads as hex is turned into octets, and hex notation back into     *)
(* what it shows.                                                          *)
LEMMA HexOctetsAre ==
  ASSUME NEW text \in Seq(Sorts)
  PROVE  HexOctets(text) \in Seq(Sorts)
BY TailIs DEF HexOctets

LEMMA HexBack ==
  ASSUME NEW o \in Seq(Sorts)
  PROVE  HexText(o) \in Seq(Sorts) /\ ReadsAsHex(HexText(o)) /\ HexOctets(HexText(o)) = o
<1>1. CASE o = <<>>
  BY <1>1 DEF HexText, ReadsAsHex, HexOctets
<1>2. CASE o # <<>>
  <2> DEFINE s == <<"hex">> \o o
  <2>1. "hex" \in Sorts
    BY DEF Sorts
  <2>2. s \in Seq(Sorts) /\ s # <<>> /\ Head(s) = "hex" /\ Tail(s) = o
    BY <2>1, Fronted
  <2>3. HexText(o) = s
    BY <1>2 DEF HexText
  <2> HIDE DEF s
  <2> QED BY <2>2, <2>3 DEF ReadsAsHex, HexOctets
<1> QED BY <1>1, <1>2

(* An octet string arrives, but for a text that reads as hex and goes      *)
(* without its type.                                                       *)
LEMMA TextArrives ==
  ASSUME NEW vb, NEW m, IsValue(m), Says(vb, m), vb.type \in {"DISPLAY", "OCTETSTR", "OPAQUE"},
         NEW prim, \/ prim = vb.type
                   \/ /\ vb.type \in {"DISPLAY", "OCTETSTR"}
                      /\ prim \in {"OCTETSTR", "BITSTRING", "NSAPADDR"},
         NEW var \in CreateVl(prim, vb.value)
  PROVE  /\ Fits(var, m)
         /\ (vb.type = "DISPLAY" /\ prim # "DISPLAY" => ~ReadsAsHex(vb.value.v)) => Encoded(var) = m
<1> DEFINE text == vb.value.v
           o == m.val
<1>1. PICK v \in OctetsOf(prim, text) : var = Var(CmuType(prim), v)
  BY VlText, VlIs
<1>2. /\ m = Var(m.type, o) /\ m.type = CmuType(prim) /\ m.type \in {"OCTET_STR", "OPAQUE"}
      /\ o \in Seq(Sorts)
  BY SaysIs, CmuTypes, ValueSets DEF IsValue
<1>3. Encoded(var) = Var(m.type, v)
  <2>1. var = Var(m.type, v)
    BY <1>1, <1>2
  <2> QED BY <1>2, <2>1, Encodes
<1>4. /\ vb.type = "DISPLAY" => text = o
      /\ vb.type = "OCTETSTR" => o = IF ReadsAsHex(text) THEN HexOctets(text) ELSE text
      /\ vb.type = "OPAQUE" => o = HexOctets(text)
  BY SaysIs, LuaIs
<1> HIDE DEF text, o
<1>5. CASE prim = "DISPLAY"
  <2>1. v = o
    BY <1>1, <1>4, <1>5 DEF OctetsOf
  <2> QED BY <1>2, <1>3, <2>1 DEF Fits, IsValue
<1>6. CASE prim = "OPAQUE"
  <2>1. v = o
    BY <1>1, <1>4, <1>6 DEF OctetsOf
  <2> QED BY <1>2, <1>3, <2>1 DEF Fits, IsValue
<1>7. CASE prim \in {"OCTETSTR", "BITSTRING", "NSAPADDR"} /\ vb.type = "OCTETSTR"
  <2>1. v = o
    BY <1>1, <1>4, <1>7 DEF OctetsOf
  <2> QED BY <1>2, <1>3, <2>1 DEF Fits, IsValue
<1>8. CASE prim \in {"OCTETSTR", "BITSTRING", "NSAPADDR"} /\ vb.type = "DISPLAY"
  <2>1. v = IF ReadsAsHex(text) THEN HexOctets(text) ELSE text
    BY <1>1, <1>8 DEF OctetsOf
  <2>2. v \in Seq(Sorts) /\ (~ReadsAsHex(text) => v = o)
    BY <1>2, <1>4, <1>8, <2>1, HexOctetsAre
  <2>3. Encoded(var).val = v /\ ValuesOf(m.type) = Seq(Sorts)
    BY <1>2, <1>3, LuaIs, ValueSets
  <2>4. Fits(var, m)
    BY <1>3, <2>2, <2>3 DEF Fits
  <2> QED BY <1>2, <1>3, <1>8, <2>2, <2>4 DEF text
<1> QED BY <1>5, <1>6, <1>7, <1>8

(* An address arrives.                                                     *)
LEMMA AddressArrives ==
  ASSUME NEW vb, NEW m, IsValue(m), Says(vb, m), vb.type \in {"IPADDR", "NETADDR"},
         NEW prim \in {"IPADDR", "NETADDR"}, NEW var \in CreateVl(prim, vb.value)
  PROVE  Encoded(var) = m
<1> DEFINE S == {vb.value.v} \ {"255.255.255.255", "junk"}
<1>1. \A v \in S : v = vb.value.v
  OBVIOUS
<1>2. CreateVl(prim, vb.value) = Vl(prim, vb.value, "string", S)
  BY VlAddress
<1> HIDE DEF S
<1>3. \E v \in S : var = Var(CmuType(prim), v)
  BY <1>2, VlIs
<1>4. m = Var("IPADDRESS", m.val) /\ vb.value.v = m.val
  BY SaysIs, LuaIs DEF IsValue
<1>5. var = Var("IPADDRESS", m.val)
  BY <1>1, <1>3, <1>4, CmuTypes
<1> QED BY <1>4, <1>5, Encodes

(* The fields of a time add up to its ticks.                               *)
LEMMA Ticks ==
  ASSUME NEW n \in Nat
  PROVE  LET minutes == ((n \div 8640000) * 24 + ((n \div 360000) % 24)) * 60 + ((n \div 6000) % 60)
             seconds == minutes * 60 + ((n \div 100) % 60)
         IN seconds \in Nat /\ n = seconds * 100 + (n % 100)
<1> DEFINE s == n \div 100
           m == n \div 6000
           h == n \div 360000
           d == n \div 8640000
<1>1. s \in Nat /\ m \in Nat /\ h \in Nat /\ d \in Nat
  OBVIOUS
<1>2. n = s * 100 + (n % 100)
  OBVIOUS
<1>3. m = s \div 60 /\ h = m \div 60 /\ d = h \div 24
  OBVIOUS
<1> HIDE DEF s, m, h, d
<1>4. s = m * 60 + (s % 60) /\ m = h * 60 + (m % 60) /\ h = d * 24 + (h % 24)
  BY <1>1, <1>3
<1> DEFINE minutes == (d * 24 + (h % 24)) * 60 + (m % 60)
<1>5. minutes = m /\ minutes * 60 + (s % 60) = s
  BY <1>1, <1>4
<1> QED BY <1>1, <1>2, <1>5 DEF s, m, h, d

(* The time that f_create_vl stores.                                       *)
LEMMA VlTicks ==
  ASSUME NEW x, NEW var \in CreateVl("TIMETICKS", x)
  PROVE  var = Var("TIMETICKS", FormatTime(x.v))
<1> DEFINE S == {FormatTime(x.v)}
<1>1. \A v \in S : v = FormatTime(x.v)
  OBVIOUS
<1>2. CreateVl("TIMETICKS", x) = Vl("TIMETICKS", x, "table", S)
  BY VlOther
<1> HIDE DEF S
<1>3. \E v \in S : var = Var(CmuType("TIMETICKS"), v)
  BY <1>2, VlIs
<1> QED BY <1>1, <1>3, CmuTypes

(* What the program writes down of a time.                                 *)
LEMMA FieldsAre ==
  ASSUME NEW n \in Nat, NEW t, t = Fields(n)
  PROVE  /\ DOMAIN t = {"deciseconds", "seconds", "minutes", "hours", "days"}
         /\ t["deciseconds"] = n % 100 /\ t["seconds"] = (n \div 100) % 60
         /\ t["minutes"] = (n \div 6000) % 60 /\ t["hours"] = (n \div 360000) % 24
         /\ t["days"] = n \div 8640000
<1> DEFINE table == CreateTimeTable(n)
<1>1. /\ DOMAIN table = {"ticks", "deciseconds", "seconds", "minutes", "hours", "days"}
      /\ table["deciseconds"] = n % 100 /\ table["seconds"] = (n \div 100) % 60
      /\ table["minutes"] = (n \div 6000) % 60 /\ table["hours"] = (n \div 360000) % 24
      /\ table["days"] = n \div 8640000
  BY DEF CreateTimeTable
<1>2. t = [f \in DOMAIN table \ {"ticks"} |-> table[f]]
  BY DEF Fields
<1> HIDE DEF table
<1>3. DOMAIN t = {"deciseconds", "seconds", "minutes", "hours", "days"}
  BY <1>1, <1>2
<1> QED BY <1>1, <1>2, <1>3

(* f_format_time of fields without ticks.                                  *)
LEMMA FormatIs ==
  ASSUME NEW t, "ticks" \notin DOMAIN t
  PROVE  FormatTime(t) =
           (((Field(t, "days") * 24 + Field(t, "hours")) * 60 + Field(t, "minutes")) * 60
             + Field(t, "seconds")) * 100 + Field(t, "decisecondes")
BY Zenon DEF FormatTime

(* A time arrives when it has its ticks or no deciseconds.                 *)
LEMMA TimeArrives ==
  ASSUME NEW vb, NEW m, IsValue(m), Says(vb, m), vb.type = "TIMETICKS",
         NEW var \in CreateVl("TIMETICKS", vb.value)
  PROVE  /\ Fits(var, m)
         /\ ("ticks" \in DOMAIN vb.value.v \/ vb.value.v.deciseconds = 0) => Encoded(var) = m
<1> DEFINE n == m.val
           t == vb.value.v
<1>1. /\ m = Var("TIMETICKS", n) /\ m.type = "TIMETICKS" /\ n \in Nat
      /\ t = CreateTimeTable(n) \/ t = Fields(n)
  BY SaysIs, LuaIs, ValueSets DEF IsValue
<1>2. Encoded(var) = Var("TIMETICKS", FormatTime(t)) /\ Encoded(var).val = FormatTime(t)
  <2>1. var = Var("TIMETICKS", FormatTime(t))
    BY VlTicks
  <2> HIDE DEF t
  <2>2. Encoded(var) = var
    BY <2>1, Encodes
  <2> QED BY <2>1, <2>2, LuaIs
<1> HIDE DEF n, t
<1>3. CASE t = CreateTimeTable(n)
  <2>1. FormatTime(t) = n
    BY <1>3 DEF FormatTime, CreateTimeTable
  <2> QED BY <1>1, <1>2, <2>1 DEF Fits, IsValue
<1>4. CASE t = Fields(n)
  <2> DEFINE d == n \div 8640000
             h == (n \div 360000) % 24
             mi == (n \div 6000) % 60
             s == (n \div 100) % 60
             seconds == ((d * 24 + h) * 60 + mi) * 60 + s
  <2>1. FormatTime(t) = seconds * 100 + 0 /\ "ticks" \notin DOMAIN t /\ t["deciseconds"] = n % 100
    <3>1. /\ DOMAIN t = {"deciseconds", "seconds", "minutes", "hours", "days"}
          /\ t["deciseconds"] = n % 100 /\ t["seconds"] = s
          /\ t["minutes"] = mi /\ t["hours"] = h /\ t["days"] = d
      BY <1>1, <1>4, FieldsAre
    <3> HIDE DEF d, h, mi, s
    <3>2. /\ Field(t, "days") = d /\ Field(t, "hours") = h
          /\ Field(t, "minutes") = mi /\ Field(t, "seconds") = s
          /\ Field(t, "decisecondes") = 0
      BY <3>1 DEF Field
    <3>3. "ticks" \notin DOMAIN t /\ t["deciseconds"] = n % 100
      BY <3>1
    <3>4. FormatTime(t) = (((d * 24 + h) * 60 + mi) * 60 + s) * 100 + 0
      BY <3>2, <3>3, FormatIs, Zenon
    <3> QED BY <3>3, <3>4
  <2>2. seconds \in Nat /\ n = seconds * 100 + (n % 100)
    BY <1>1, Ticks
  <2> HIDE DEF d, h, mi, s, seconds
  <2>3. FormatTime(t) \in Nat /\ (n % 100 = 0 => FormatTime(t) = n)
    BY <1>1, <2>1, <2>2
  <2>4. Fits(var, m)
    BY <1>1, <1>2, <2>3, ValueSets DEF Fits
  <2> QED BY <1>1, <1>2, <2>1, <2>3, <2>4 DEF t
<1> QED BY <1>1, <1>3, <1>4

-----------------------------------------------------------------------------
(* The arithmetic on 64 bits.                                              *)

(* A value in one of the forms of a Counter64 means the number n.          *)
Means64(x, n) ==
  /\ C64Get(x) \in [high : Nat, low : Nat] /\ n \in 0 .. Word - 1
  /\ C64Get(x).high * Half + C64Get(x).low = n

Halves == [high : 0 .. Half - 1, low : 0 .. Half - 1]

(* The number two halves make, and the halves of a number.                 *)
LEMMA WordOf ==
  ASSUME NEW c \in Halves
  PROVE  c.high * Half + c.low \in 0 .. Word - 1 /\ C2U(c) = c.high * Half + c.low
<1> DEFINE h == c.high
           l == c.low
           n == h * Half + l
<1>1. h \in 0 .. Half - 1 /\ l \in 0 .. Half - 1
  BY DEF Halves
<1> HIDE DEF h, l
<1>2. n \in 0 .. Word - 1
  <2> DEFINE x == h * Half
             d == Half - 1 - h
             y == d * Half
  <2>1. x \in Nat /\ d \in Nat /\ h = Half - 1 - d
    BY <1>1, Widths
  <2>2. y \in Nat
    <3> HIDE DEF d
    <3> QED BY <2>1, Widths
  <2>3. x + y = Half * Half - Half
    <3>1. x + y = (h + d) * Half
      BY <1>1, <2>1, Widths
    <3>2. h + d = Half - 1
      BY <1>1, Widths
    <3>3. (Half - 1) * Half = Half * Half - Half
      BY Widths
    <3> QED BY <3>1, <3>2, <3>3
  <2>4. n = x + l /\ Word = Half * Half
    BY Widths
  <2> HIDE DEF x, y, n, d
  <2> DEFINE w == Half * Half
  <2>5. w = Word /\ Word \in Nat /\ Half \in Nat
    BY Widths
  <2> HIDE DEF w
  <2>6. x + y = w - Half
    BY <2>3 DEF w
  <2> QED BY <1>1, <2>1, <2>2, <2>4, <2>5, <2>6
<1>3. n % Word = n
  <2> HIDE DEF n
  <2>1. Word \in Nat /\ Word > 0
    BY Widths
  <2> QED BY <1>2, <2>1, SmallMod
<1>4. C2U(c) = n % Word
  BY DEF C2U, n, h, l
<1> QED BY <1>2, <1>3, <1>4 DEF n, h, l

LEMMA HalvesOf ==
  ASSUME NEW n \in 0 .. Word - 1
  PROVE  U2C(n) \in Halves /\ U2C(n).high * Half + U2C(n).low = n
<1> DEFINE h == n \div Half
           l == n % Half
<1>1. h \in Int /\ l \in 0 .. Half - 1 /\ n = h * Half + l /\ n \in Int
  <2>1. Half \in Nat /\ Half > 0 /\ n \in Int
    BY Widths
  <2> QED BY <2>1, DivMod
<1>2. U2C(n) = [high |-> h, low |-> l]
  BY DEF U2C
<1> HIDE DEF h, l
<1>3. h >= 0
  <2> SUFFICES ASSUME h < 0 PROVE FALSE
    BY <1>1
  <2> DEFINE d == -1 - h
  <2>1. d \in Nat /\ h = -1 - d
    BY <1>1
  <2> HIDE DEF d
  <2>2. d * Half \in Nat /\ h * Half = -Half - d * Half
    BY <2>1, Widths
  <2> DEFINE x == h * Half
             y == d * Half
  <2>3. y \in Nat /\ x = -Half - y /\ n = x + l /\ Half \in Nat
    BY <1>1, <2>2, Widths
  <2> HIDE DEF x, y
  <2> QED BY <1>1, <2>3, Widths
<1>4. h <= Half - 1
  <2> SUFFICES ASSUME h >= Half PROVE FALSE
    BY <1>1, Widths
  <2> DEFINE d == h - Half
  <2>1. d \in Nat /\ h = Half + d
    BY <1>1, Widths
  <2> HIDE DEF d
  <2>2. d * Half \in Nat /\ h * Half = Half * Half + d * Half
    BY <2>1, Widths
  <2> DEFINE x == h * Half
             y == d * Half
             w == Half * Half
  <2>3. y \in Nat /\ x = w + y /\ n = x + l /\ w = Word /\ w \in Nat
    BY <1>1, <2>2, Widths
  <2> HIDE DEF x, y, w
  <2> QED BY <1>1, <2>3, Widths
<1>5. U2C(n) \in Halves
  BY <1>1, <1>2, <1>3, <1>4, Widths DEF Halves
<1> QED BY <1>1, <1>2, <1>5

(* c64_get of each form.                                                   *)
LEMMA GetIs ==
  ASSUME NEW v
  PROVE  /\ C64Get(Lua("number", v)) = [high |-> v \div Word, low |-> v % Word]
         /\ C64Get(Lua("table", v)) = [high |-> v.high, low |-> v.low]
         /\ C64Get(Lua("userdata", v)) = v
<1>1. \A t : Lua(t, v).t = t /\ Lua(t, v).v = v
  BY LuaIs
<1>2. C64Get(Lua("number", v)) = [high |-> v \div Word, low |-> v % Word]
  BY <1>1, Zenon DEF C64Get
<1>3. C64Get(Lua("table", v)) = [high |-> v.high, low |-> v.low]
  BY <1>1, Zenon DEF C64Get
<1>4. C64Get(Lua("userdata", v)) = v
  BY <1>1, Zenon DEF C64Get
<1> QED BY <1>2, <1>3, <1>4

(* Each form of a number of 64 bits means it.                              *)
LEMMA Forms64 ==
  ASSUME NEW n \in 0 .. Word - 1
  PROVE  /\ Means64(Lua("number", n), n)
         /\ Means64(Lua("table", U2C(n)), n) /\ Means64(Lua("userdata", U2C(n)), n)
<1>1. n \div Word = 0 /\ n % Word = n /\ Word \in Nat
  <2>1. Word \in Nat /\ Word > 0
    BY Widths
  <2> QED BY <2>1, SmallMod
<1>2. Means64(Lua("number", n), n)
  <2>1. C64Get(Lua("number", n)) = [high |-> 0, low |-> n]
    BY <1>1, GetIs
  <2> QED BY <1>1, <2>1, Widths DEF Means64
<1> DEFINE c == U2C(n)
<1>3. c \in Halves /\ c.high * Half + c.low = n
  BY HalvesOf
<1> HIDE DEF c
<1>4. c \in [high : Nat, low : Nat] /\ [high |-> c.high, low |-> c.low] = c
  BY <1>3, Widths DEF Halves
<1>5. C64Get(Lua("table", c)) = c /\ C64Get(Lua("userdata", c)) = c
  BY <1>4, GetIs
<1> QED BY <1>2, <1>3, <1>4, <1>5 DEF Means64, c

(* The arithmetic works on what a value means.                             *)
LEMMA WordIs ==
  ASSUME NEW x, NEW n, Means64(x, n)
  PROVE  C2U(C64Get(x)) = n /\ n \in 0 .. Word - 1
<1> DEFINE c == C64Get(x)
           k == c.high * Half + c.low
<1>1. C2U(c) = k % Word /\ k = n /\ n \in 0 .. Word - 1
  BY DEF C2U, Means64
<1> HIDE DEF c, k
<1>2. n % Word = n
  <2>1. Word \in Nat /\ Word > 0
    BY Widths
  <2> QED BY <1>1, <2>1, SmallMod
<1> QED BY <1>1, <1>2 DEF c

(* What Result64 looks for.                                                *)
Gives(op, a, b, n) ==
  CASE op = "add" -> (a + b) \in {n, n + Word}
    [] op = "sub" -> n + b \in {a, a + Word}
    [] op = "mul" -> \E k \in Bits64 : a * b = n + k * Word
    [] op = "div" -> n * b <= a /\ a < (n + 1) * b
    [] op = "mod" -> n < b /\ \E k \in Bits64 : a = n + k * b

(* The one number that fits is the result.                                 *)
LEMMA ResultIs ==
  ASSUME NEW op, NEW a, NEW b, NEW n \in Bits64, Gives(op, a, b, n),
         \A r \in Bits64 : Gives(op, a, b, r) => r = n
  PROVE  Result64(op, a, b) = n
<1>1. Result64(op, a, b) \in Bits64 /\ Gives(op, a, b, Result64(op, a, b))
  BY Zenon DEF Result64, Gives
<1> QED BY <1>1

(* What each operation has to give.                                        *)
LEMMA GivesIs ==
  ASSUME NEW a, NEW b, NEW n
  PROVE  /\ Gives("add", a, b, n) <=> (a + b) \in {n, n + Word}
         /\ Gives("sub", a, b, n) <=> n + b \in {a, a + Word}
         /\ Gives("mul", a, b, n) <=> \E k \in Bits64 : a * b = n + k * Word
         /\ Gives("div", a, b, n) <=> n * b <= a /\ a < (n + 1) * b
         /\ Gives("mod", a, b, n) <=> n < b /\ \E k \in Bits64 : a = n + k * b
<1>1. Gives("add", a, b, n) <=> (a + b) \in {n, n + Word}
  BY Zenon DEF Gives
<1>2. Gives("sub", a, b, n) <=> n + b \in {a, a + Word}
  BY Zenon DEF Gives
<1>3. Gives("mul", a, b, n) <=> \E k \in Bits64 : a * b = n + k * Word
  BY Zenon DEF Gives
<1>4. Gives("div", a, b, n) <=> n * b <= a /\ a < (n + 1) * b
  BY Zenon DEF Gives
<1>5. Gives("mod", a, b, n) <=> n < b /\ \E k \in Bits64 : a = n + k * b
  BY Zenon DEF Gives
<1> QED BY <1>1, <1>2, <1>3, <1>4, <1>5

(* Sums,                                                                   *)
LEMMA Adds ==
  ASSUME NEW a \in Bits64, NEW b \in Bits64
  PROVE  Result64("add", a, b) = (a + b) % Word /\ (a + b) % Word \in Bits64
<1> DEFINE n == (a + b) % Word
<1>1. Word \in Nat /\ Word > 0 /\ Bits64 = 0 .. Word - 1
  BY Widths DEF Bits64
<1>2. n \in Bits64 /\ (a + b = n \/ a + b = n + Word)
  <2>1. CASE a + b < Word
    <3>1. a + b \in 0 .. Word - 1
      BY <1>1, <2>1
    <3> QED BY <1>1, <3>1, SmallMod
  <2>2. CASE a + b >= Word
    <3> DEFINE q == 1
               r == a + b - Word
               s == a + b
    <3>1. q \in Int /\ r \in 0 .. Word - 1 /\ s = q * Word + r
      BY <1>1, <2>2
    <3> HIDE DEF q, r, s
    <3>2. s % Word = r
      BY <1>1, <3>1, Splits
    <3> QED BY <1>1, <3>1, <3>2 DEF s, r
  <2> QED BY <1>1, <2>1, <2>2
<1> HIDE DEF n
<1>3. Gives("add", a, b, n) /\ \A r \in Bits64 : Gives("add", a, b, r) => r = n
  <2>1. \A r \in Bits64 : (a + b) \in {r, r + Word} => r = n
    BY <1>1, <1>2
  <2> QED BY <1>2, <2>1, GivesIs
<1> QED BY <1>2, <1>3, ResultIs DEF n

(* differences,                                                            *)
LEMMA Subtracts ==
  ASSUME NEW a \in Bits64, NEW b \in Bits64
  PROVE  Result64("sub", a, b) = (a - b) % Word /\ (a - b) % Word \in Bits64
<1> DEFINE n == (a - b) % Word
<1>1. Word \in Nat /\ Word > 0 /\ Bits64 = 0 .. Word - 1
  BY Widths DEF Bits64
<1>2. n \in Bits64 /\ (n + b = a \/ n + b = a + Word)
  <2>1. CASE a >= b
    <3>1. a - b \in 0 .. Word - 1
      BY <1>1, <2>1
    <3> QED BY <1>1, <3>1, SmallMod
  <2>2. CASE a < b
    <3>1. a - b \in -Word .. -1
      BY <1>1, <2>2
    <3>2. (a - b) % Word = a - b + Word
      BY <1>1, <3>1, SmallMod
    <3> QED BY <1>1, <3>1, <3>2
  <2> QED BY <1>1, <2>1, <2>2
<1> HIDE DEF n
<1>3. Gives("sub", a, b, n) /\ \A r \in Bits64 : Gives("sub", a, b, r) => r = n
  <2>1. \A r \in Bits64 : r + b \in {a, a + Word} => r = n
    BY <1>1, <1>2
  <2> QED BY <1>2, <2>1, GivesIs
<1> QED BY <1>2, <1>3, ResultIs DEF n

(* Multiples grow by the factor at least.                                  *)
LEMMA Order ==
  ASSUME NEW m \in Nat, NEW a \in Int, NEW b \in Int, a > b
  PROVE  a * m >= b * m + m
<1> DEFINE d == a - b - 1
<1>1. d \in Nat /\ a = b + 1 + d
  OBVIOUS
<1> HIDE DEF d
<1>2. d * m \in Nat
  BY <1>1
<1>3. a * m = b * m + m + d * m
  BY <1>1
<1> QED BY <1>2, <1>3

(* The product of two numbers below w has a quotient below w.              *)
LEMMA Product ==
  ASSUME NEW w \in Nat, w > 0, NEW a \in 0 .. w - 1, NEW b \in 0 .. w - 1
  PROVE  /\ a * b \in Nat /\ (a * b) % w \in 0 .. w - 1 /\ (a * b) \div w \in 0 .. w - 1
         /\ a * b = ((a * b) % w) + ((a * b) \div w) * w
<1> DEFINE p == a * b
           k == p \div w
           n == p % w
<1>1. p \in Nat
  OBVIOUS
<1>2. p <= (w - 1) * w
  <2> DEFINE c == w - 1 - a
             d == w - b
  <2>1. c \in Nat /\ d \in Nat /\ a = w - 1 - c /\ b = w - d
    OBVIOUS
  <2>2. p + a * d = a * w
    <3>1. a * b + a * d = a * (b + d)
      BY <2>1
    <3>2. b + d = w
      BY <2>1
    <3> QED BY <3>1, <3>2
  <2>3. a * w + c * w = (w - 1) * w
    <3>1. a * w + c * w = (a + c) * w
      BY <2>1
    <3>2. a + c = w - 1
      BY <2>1
    <3> QED BY <3>1, <3>2
  <2> DEFINE x == a * d
             y == c * w
             z == a * w
             u == (w - 1) * w
  <2> HIDE DEF c, d
  <2>4. x \in Nat /\ y \in Nat /\ z \in Int /\ u \in Int
    BY <2>1
  <2> HIDE DEF x, y, z, u, p
  <2>5. p + x = z /\ z + y = u
    BY <2>2, <2>3 DEF x, y, z, u
  <2>6. p <= u
    BY <1>1, <2>4, <2>5
  <2> QED BY <2>6 DEF u
<1> HIDE DEF p
<1>3. k \in Int /\ n \in 0 .. w - 1 /\ p = k * w + n
  BY <1>1, DivMod
<1> HIDE DEF k, n
<1>4. k >= 0
  <2> SUFFICES ASSUME 0 > k PROVE FALSE
    BY <1>3
  <2>1. 0 * w >= k * w + w
    BY <1>3, Order
  <2> DEFINE x == k * w
  <2>2. x \in Int /\ 0 >= x + w /\ p = x + n
    BY <1>3, <2>1
  <2> HIDE DEF x
  <2> QED BY <1>1, <1>3, <2>2
<1>5. k <= w - 1
  <2> SUFFICES ASSUME k > w - 1 PROVE FALSE
    BY <1>3
  <2>1. k * w >= (w - 1) * w + w
    BY <1>3, Order
  <2> DEFINE x == k * w
             u == (w - 1) * w
  <2>2. x \in Int /\ u \in Int /\ x >= u + w /\ p = x + n /\ p <= u
    BY <1>2, <1>3, <2>1
  <2> HIDE DEF x, u
  <2> QED BY <1>1, <1>3, <2>2
<1>6. p = n + k * w
  BY <1>1, <1>3
<1> QED BY <1>1, <1>3, <1>4, <1>5, <1>6 DEF p, k, n

(* products,                                                               *)
LEMMA Multiplies ==
  ASSUME NEW a \in Bits64, NEW b \in Bits64
  PROVE  Result64("mul", a, b) = (a * b) % Word /\ (a * b) % Word \in Bits64
<1> DEFINE p == a * b
           n == p % Word
           k == p \div Word
<1>1. Word \in Nat /\ Word > 0 /\ Bits64 = 0 .. Word - 1
  BY Widths DEF Bits64
<1>2. p \in Nat /\ n \in Bits64 /\ k \in Bits64 /\ p = n + k * Word
  BY <1>1, Product
<1> HIDE DEF k, n, p
<1>3. ASSUME NEW r \in Bits64, NEW j \in Bits64, p = r + j * Word
      PROVE  r = n
  <2>1. n \in 0 .. Word - 1 /\ r \in 0 .. Word - 1 /\ k \in Int /\ j \in Int
    BY <1>1, <1>2
  <2>2. k * Word + n = j * Word + r
    BY <1>1, <1>2, <1>3, <2>1
  <2> QED BY <1>1, <2>1, <2>2, Euclid
<1>4. Gives("mul", a, b, n)
  <2>1. a * b = n + k * Word
    BY <1>2 DEF p
  <2> QED BY <1>2, <2>1, GivesIs
<1>5. \A r \in Bits64 : Gives("mul", a, b, r) => r = n
  <2> TAKE r \in Bits64
  <2> HAVE Gives("mul", a, b, r)
  <2>1. PICK j \in Bits64 : a * b = r + j * Word
    BY GivesIs
  <2> QED BY <1>3, <2>1 DEF p
<1>6. Result64("mul", a, b) = n
  BY <1>2, <1>4, <1>5, ResultIs
<1> QED BY <1>2, <1>6 DEF n, p

(* quotients and remainders of 64 bits are what the arithmetic of the code *)
(* gives.                                                                  *)
LEMMA Divides ==
  ASSUME NEW a \in Bits64, NEW b \in Bits64, b # 0
  PROVE  /\ Result64("div", a, b) = (a \div b) % Word /\ (a \div b) % Word \in Bits64
         /\ Result64("mod", a, b) = (a % b) % Word /\ (a % b) % Word \in Bits64
<1> DEFINE q == a \div b
           r == a % b
<1>1. Word \in Nat /\ Word > 0 /\ Bits64 = 0 .. Word - 1
  BY Widths DEF Bits64
<1>2. a \in Nat /\ b \in Nat /\ b > 0 /\ a < Word /\ b < Word
  BY <1>1
<1>3. q \in Int /\ r \in 0 .. b - 1 /\ a = q * b + r
  BY <1>2, DivMod
<1> HIDE DEF q, r
<1>4. q >= 0 /\ q <= a
  <2>1. q >= 0
    <3> SUFFICES ASSUME 0 > q PROVE FALSE
      BY <1>3
    <3>1. 0 * b >= q * b + b
      BY <1>2, <1>3, Order
    <3> DEFINE x == q * b
    <3>2. x \in Int /\ 0 >= x + b /\ a = x + r
      BY <1>2, <1>3, <3>1
    <3> HIDE DEF x
    <3> QED BY <1>2, <1>3, <3>2
  <2>2. q * b >= q
    <3> DEFINE d == b - 1
    <3>1. d \in Nat /\ b = d + 1
      BY <1>2
    <3> HIDE DEF d
    <3>2. q * d \in Nat /\ q * b = q * d + q
      BY <1>3, <2>1, <3>1
    <3> QED BY <1>3, <3>2
  <2> DEFINE x == q * b
  <2>3. x \in Int /\ x >= q /\ a = x + r
    BY <1>2, <1>3, <2>2
  <2> HIDE DEF x
  <2> QED BY <1>2, <1>3, <2>1, <2>3
<1>5. q \in Bits64 /\ r \in Bits64
  BY <1>1, <1>2, <1>3, <1>4
<1>6. q % Word = q /\ r % Word = r
  BY <1>1, <1>5, SmallMod
<1>7. ASSUME NEW k \in Int, NEW s \in 0 .. b - 1, a = k * b + s
      PROVE  k = q /\ s = r
  <2>1. q * b + r = k * b + s
    BY <1>3, <1>7
  <2> QED BY <1>2, <1>3, <2>1, Euclid
<1>8. Result64("div", a, b) = q
  <2>1. \A k \in Int : (k + 1) * b = k * b + b /\ k * b \in Int
    BY <1>2
  <2>2. q * b <= a /\ a < (q + 1) * b
    <3> DEFINE x == q * b
    <3>1. x \in Int /\ a = x + r /\ (q + 1) * b = x + b
      BY <1>3, <2>1
    <3> HIDE DEF x
    <3>2. x <= a /\ a < x + b
      BY <1>2, <1>3, <3>1
    <3> QED BY <3>1, <3>2 DEF x
  <2>3. ASSUME NEW k \in Bits64, k * b <= a, a < (k + 1) * b
        PROVE  k = q
    <3> DEFINE x == k * b
               s == a - x
    <3>1. k \in Int
      BY <1>1
    <3>2. x \in Int /\ x <= a /\ a < x + b
      BY <2>1, <2>3, <3>1
    <3> HIDE DEF x
    <3>3. s \in 0 .. b - 1 /\ a = x + s
      BY <1>2, <3>2
    <3> HIDE DEF s
    <3> QED BY <1>7, <3>1, <3>3 DEF x
  <2>4. Gives("div", a, b, q)
    BY <2>2, GivesIs
  <2>5. \A k \in Bits64 : Gives("div", a, b, k) => k = q
    BY <2>3, GivesIs
  <2> QED BY <1>5, <2>4, <2>5, ResultIs
<1>9. Result64("mod", a, b) = r
  <2>1. r < b /\ a = r + q * b
    BY <1>2, <1>3
  <2>2. Gives("mod", a, b, r)
    BY <1>5, <2>1, GivesIs
  <2>3. ASSUME NEW s \in Bits64, Gives("mod", a, b, s)
        PROVE  s = r
    <3>1. s < b /\ \E k \in Bits64 : a = s + k * b
      BY <2>3, GivesIs
    <3>2. PICK k \in Bits64 : a = s + k * b
      BY <3>1
    <3>3. k \in Int /\ s \in 0 .. b - 1
      BY <1>1, <1>2, <3>1
    <3>4. a = k * b + s
      BY <1>2, <3>2, <3>3
    <3> QED BY <1>7, <3>3, <3>4
  <2>4. \A s \in Bits64 : Gives("mod", a, b, s) => s = r
    BY <2>3
  <2> QED BY <1>5, <2>2, <2>4, ResultIs
<1> QED BY <1>5, <1>6, <1>8, <1>9 DEF q, r

(* A Counter64 the program has stands for the number it means.             *)
LEMMA CounterSays ==
  ASSUME NEW vb, NEW m, IsValue(m), Says(vb, m), vb.type = "COUNTER64"
  PROVE  /\ m = Var("COUNTER64", m.val) /\ m.val \in Halves
         /\ Means64(vb.value, C2U(m.val))
<1>1. m = Var("COUNTER64", m.val) /\ m.val \in Halves
  BY SaysIs, ValueSets DEF IsValue, Halves
<1>2. C2U(m.val) \in 0 .. Word - 1 /\ C2U(m.val) = m.val.high * Half + m.val.low
  BY <1>1, WordOf
<1>3. C64Get(vb.value) \in [high : Nat, low : Nat]
      /\ C64Get(vb.value).high * Half + C64Get(vb.value).low = m.val.high * Half + m.val.low
  BY SaysIs
<1> QED BY <1>1, <1>2, <1>3 DEF Means64

(* A Counter64 arrives when its low word is that of a half.                *)
LEMMA CounterArrives ==
  ASSUME NEW vb, NEW m, IsValue(m), Says(vb, m), vb.type = "COUNTER64",
         NEW var \in CreateVl("COUNTER64", vb.value)
  PROVE  Fits(var, m) /\ (C64Get(vb.value).low < Half => Encoded(var) = m)
<1> DEFINE c == C64Get(vb.value)
           d == m.val
<1>1. var = Var("COUNTER64", c)
  BY VlOther, CmuTypes
<1>2. /\ c \in [high : Nat, low : Nat] /\ c.high * Half + c.low = d.high * Half + d.low
      /\ m = Var("COUNTER64", d) /\ m.type = "COUNTER64" /\ d \in Halves
  BY SaysIs, CounterSays
<1> DEFINE e == [high |-> c.high % Half, low |-> c.low % Half]
<1>3. Encoded(var) = Var("COUNTER64", e) /\ Encoded(var).val = e
  <2> HIDE DEF c
  <2>1. Encoded(var) = Var("COUNTER64", e)
    BY <1>1, Encodes
  <2> HIDE DEF e
  <2> QED BY <2>1, LuaIs
<1> HIDE DEF c, d
<1>4. Half \in Nat /\ Half > 0
  BY Widths
<1>5. e \in Halves /\ Halves = ValuesOf("COUNTER64")
  <2>1. c.high % Half \in 0 .. Half - 1 /\ c.low % Half \in 0 .. Half - 1
    BY <1>2, <1>4, DivMod
  <2> QED BY <2>1, ValueSets DEF Halves
<1>6. Fits(var, m)
  BY <1>2, <1>3, <1>5 DEF Fits
<1>7. ASSUME c.low < Half
      PROVE  e = d
  <2>1. /\ c.high \in Int /\ d.high \in 0 .. Half - 1
        /\ c.low \in 0 .. Half - 1 /\ d.low \in 0 .. Half - 1
    BY <1>2, <1>4, <1>7 DEF Halves
  <2>2. c.high = d.high /\ c.low = d.low
    <3> DEFINE q == c.high
               r == c.low
               k == d.high
               t == d.low
    <3>1. q \in Int /\ k \in Int /\ r \in 0 .. Half - 1 /\ t \in 0 .. Half - 1
      BY <2>1, <1>4
    <3>2. q * Half + r = k * Half + t
      BY <1>2
    <3> HIDE DEF q, r, k, t
    <3>3. q = k /\ r = t
      BY <1>4, <3>1, <3>2, Euclid
    <3> QED BY <3>3 DEF q, r, k, t
  <2>3. c.high % Half = d.high /\ c.low % Half = d.low
    BY <1>4, <2>1, <2>2, SmallMod
  <2>4. d = [high |-> d.high, low |-> d.low]
    BY <1>2 DEF Halves
  <2> QED BY <2>3, <2>4
<1> QED BY <1>2, <1>3, <1>6, <1>7 DEF c

(* An operation on what means a and b means what it gives for them.        *)
LEMMA Arith ==
  ASSUME NEW x, NEW y, NEW a, NEW b, Means64(x, a), Means64(y, b),
         NEW op \in Operators, op \in Divisions => b # 0
  PROVE  Result64(op, a, b) \in 0 .. Word - 1 /\ Means64(C64Arith(op, x, y), Result64(op, a, b))
<1>1. C2U(C64Get(x)) = a /\ C2U(C64Get(y)) = b /\ a \in Bits64 /\ b \in Bits64
  BY WordIs DEF Bits64
<1>2. op \in {"add", "sub", "mul", "div", "mod"}
  BY DEF Operators, Divisions
<1>3. C64Arith(op, x, y) = Lua("userdata", U2C(Result64(op, a, b))) /\ Result64(op, a, b) \in Bits64
  <2>1. CASE op = "add"
    <3>1. C64Arith(op, x, y) = Lua("userdata", U2C((a + b) % Word))
      BY <1>1, <2>1, Zenon DEF C64Arith
    <3> QED BY <1>1, <2>1, <3>1, Adds
  <2>2. CASE op = "sub"
    <3>1. C64Arith(op, x, y) = Lua("userdata", U2C((a - b) % Word))
      BY <1>1, <2>2, Zenon DEF C64Arith
    <3> QED BY <1>1, <2>2, <3>1, Subtracts
  <2>3. CASE op = "mul"
    <3>1. C64Arith(op, x, y) = Lua("userdata", U2C((a * b) % Word))
      BY <1>1, <2>3, Zenon DEF C64Arith
    <3> QED BY <1>1, <2>3, <3>1, Multiplies
  <2>4. CASE op = "div"
    <3>1. C64Arith(op, x, y) = Lua("userdata", U2C((a \div b) % Word))
      BY <1>1, <2>4, Zenon DEF C64Arith
    <3>2. b # 0
      BY <2>4 DEF Divisions
    <3> QED BY <1>1, <2>4, <3>1, <3>2, Divides
  <2>5. CASE op = "mod"
    <3>1. C64Arith(op, x, y) = Lua("userdata", U2C((a % b) % Word))
      BY <1>1, <2>5, Zenon DEF C64Arith
    <3>2. b # 0
      BY <2>5 DEF Divisions
    <3> QED BY <1>1, <2>5, <3>1, <3>2, Divides
  <2> QED BY <1>2, <2>1, <2>2, <2>3, <2>4, <2>5
<1> QED BY <1>3, Forms64 DEF Bits64

-----------------------------------------------------------------------------
(* What the program gets, computes and writes down says what it means.     *)

LEMMA SaysWhen ==
  ASSUME NEW vb, NEW m
  PROVE  /\ /\ vb.type = "OBJID" /\ m.type = "OBJECT_ID"
            /\ vb.value \in {Lua("string", Oid2Str(m.val)), Lua("string", m.val)}
            => Says(vb, m)
         /\ /\ vb.type \in {"INTEGER", "COUNTER", "GAUGE"} /\ m.type = vb.type
            /\ vb.value = Lua("number", m.val)
            => Says(vb, m)
         /\ /\ vb.type = "UINTEGER" /\ m.type = "INTEGER" /\ m.val >= 0
            /\ vb.value = Lua("number", m.val)
            => Says(vb, m)
         /\ vb.type = "DISPLAY" /\ m.type = "OCTET_STR" /\ vb.value = Lua("string", m.val)
            => Says(vb, m)
         /\ /\ vb.type = "OCTETSTR" /\ m.type = "OCTET_STR" /\ vb.value.t = "string"
            /\ m.val = IF ReadsAsHex(vb.value.v) THEN HexOctets(vb.value.v) ELSE vb.value.v
            => Says(vb, m)
         /\ /\ vb.type = "OPAQUE" /\ m.type = "OPAQUE" /\ vb.value.t = "string"
            /\ m.val = HexOctets(vb.value.v)
            => Says(vb, m)
         /\ /\ vb.type \in {"IPADDR", "NETADDR"} /\ m.type = "IPADDRESS"
            /\ vb.value = Lua("string", m.val)
            => Says(vb, m)
         /\ /\ vb.type = "TIMETICKS" /\ m.type = "TIMETICKS"
            /\ vb.value \in {Lua("table", CreateTimeTable(m.val)), Lua("table", Fields(m.val))}
            => Says(vb, m)
         /\ /\ vb.type = "COUNTER64" /\ m.type = "COUNTER64"
            /\ C64Get(vb.value) \in [high : Nat, low : Nat]
            /\ C64Get(vb.value).high * Half + C64Get(vb.value).low = m.val.high * Half + m.val.low
            => Says(vb, m)
BY Zenon DEF Says

(* f_create_vb type by type.                                               *)
LEMMA CreateVbIs ==
  ASSUME NEW var
  PROVE  LET Vb(type, t, v) == [type |-> type, value |-> Lua(t, v)]
         IN /\ var.type = "OBJECT_ID" => CreateVb(var) = Vb("OBJID", "string", Oid2Str(var.val))
            /\ var.type = "OCTET_STR" /\ Printable(var.val) =>
                 CreateVb(var) = Vb("DISPLAY", "string", var.val)
            /\ var.type = "OCTET_STR" /\ ~Printable(var.val) =>
                 CreateVb(var) = Vb("OCTETSTR", "string", HexText(var.val))
            /\ var.type = "OPAQUE" => CreateVb(var) = Vb("OPAQUE", "string", HexText(var.val))
            /\ var.type \in {"INTEGER", "COUNTER", "GAUGE"} =>
                 CreateVb(var) = Vb(var.type, "number", var.val)
            /\ var.type = "IPADDRESS" => CreateVb(var) = Vb("IPADDR", "string", var.val)
            /\ var.type = "TIMETICKS" =>
                 CreateVb(var) = Vb("TIMETICKS", "table", CreateTimeTable(var.val))
            /\ var.type = "COUNTER64" => CreateVb(var) = Vb("COUNTER64", "userdata", var.val)
<1> DEFINE Vb(type, t, v) == [type |-> type, value |-> Lua(t, v)]
<1>1. ASSUME var.type = "OBJECT_ID"
      PROVE  CreateVb(var) = Vb("OBJID", "string", Oid2Str(var.val))
  BY <1>1, PrimTypes, Zenon DEF CreateVb
<1>2. ASSUME var.type = "OCTET_STR", Printable(var.val)
      PROVE  CreateVb(var) = Vb("DISPLAY", "string", var.val)
  BY <1>2, PrimTypes, Zenon DEF CreateVb
<1>3. ASSUME var.type = "OCTET_STR", ~Printable(var.val)
      PROVE  CreateVb(var) = Vb("OCTETSTR", "string", HexText(var.val))
  BY <1>3, PrimTypes, Zenon DEF CreateVb
<1>4. ASSUME var.type = "OPAQUE"
      PROVE  CreateVb(var) = Vb("OPAQUE", "string", HexText(var.val))
  BY <1>4, PrimTypes, Zenon DEF CreateVb
<1>5. ASSUME var.type \in {"INTEGER", "COUNTER", "GAUGE"}
      PROVE  CreateVb(var) = Vb(var.type, "number", var.val)
  <2>1. PrimType(var.type) = var.type
    BY <1>5, PrimTypes
  <2> QED BY <1>5, <2>1, Zenon DEF CreateVb
<1>6. ASSUME var.type = "IPADDRESS"
      PROVE  CreateVb(var) = Vb("IPADDR", "string", var.val)
  BY <1>6, PrimTypes, Zenon DEF CreateVb
<1>7. ASSUME var.type = "TIMETICKS"
      PROVE  CreateVb(var) = Vb("TIMETICKS", "table", CreateTimeTable(var.val))
  BY <1>7, PrimTypes, Zenon DEF CreateVb
<1>8. ASSUME var.type = "COUNTER64"
      PROVE  CreateVb(var) = Vb("COUNTER64", "userdata", var.val)
  BY <1>8, PrimTypes, Zenon DEF CreateVb
<1> QED BY <1>1, <1>2, <1>3, <1>4, <1>5, <1>6, <1>7, <1>8

(* What f_create_vb makes of a value says it.                              *)
LEMMA GotSays ==
  ASSUME NEW var, IsValue(var), var.type # "NULL", NEW h,
         h = [vb |-> CreateVb(var), means |-> var]
  PROVE  Holds(h, var.type)
<1> DEFINE vb == CreateVb(var)
           v == var.val
<1>1. var.type \in {"OBJECT_ID", "OCTET_STR", "INTEGER", "IPADDRESS", "COUNTER", "GAUGE",
                    "TIMETICKS", "OPAQUE", "COUNTER64"}
      /\ v \in ValuesOf(var.type)
  BY DEF IsValue, Types
<1>2. Says(vb, var) /\ vb = [type |-> vb.type, value |-> vb.value]
  <2>1. CASE var.type = "OBJECT_ID"
    <3>1. vb = [type |-> "OBJID", value |-> Lua("string", Oid2Str(v))]
      BY <2>1, CreateVbIs
    <3> QED BY <2>1, <3>1, SaysWhen
  <2>2. CASE var.type = "OCTET_STR" /\ Printable(v)
    <3>1. vb = [type |-> "DISPLAY", value |-> Lua("string", v)]
      BY <2>2, CreateVbIs
    <3> QED BY <2>2, <3>1, SaysWhen
  <2>3. CASE var.type = "OCTET_STR" /\ ~Printable(v)
    <3>1. vb = [type |-> "OCTETSTR", value |-> Lua("string", HexText(v))]
      BY <2>3, CreateVbIs
    <3>2. v \in Seq(Sorts)
      BY <1>1, <2>3, ValueSets
    <3>3. ReadsAsHex(HexText(v)) /\ HexOctets(HexText(v)) = v
      BY <3>2, HexBack
    <3> HIDE DEF vb, v
    <3>4. vb.type = "OCTETSTR" /\ vb.value.t = "string" /\ vb.value.v = HexText(v)
      BY <3>1, LuaIs
    <3> QED BY <2>3, <3>1, <3>3, <3>4, SaysWhen DEF v
  <2>4. CASE var.type = "OPAQUE"
    <3>1. vb = [type |-> "OPAQUE", value |-> Lua("string", HexText(v))]
      BY <2>4, CreateVbIs
    <3>2. v \in Seq(Sorts)
      BY <1>1, <2>4, ValueSets
    <3>3. HexOctets(HexText(v)) = v
      BY <3>2, HexBack
    <3> HIDE DEF vb, v
    <3>4. vb.type = "OPAQUE" /\ vb.value.t = "string" /\ vb.value.v = HexText(v)
      BY <3>1, LuaIs
    <3> QED BY <2>4, <3>1, <3>3, <3>4, SaysWhen DEF v
  <2>5. CASE var.type \in {"INTEGER", "COUNTER", "GAUGE"}
    <3>1. vb = [type |-> var.type, value |-> Lua("number", v)]
      BY <2>5, CreateVbIs
    <3> QED BY <2>5, <3>1, SaysWhen
  <2>6. CASE var.type = "IPADDRESS"
    <3>1. vb = [type |-> "IPADDR", value |-> Lua("string", v)]
      BY <2>6, CreateVbIs
    <3> QED BY <2>6, <3>1, SaysWhen
  <2>7. CASE var.type = "TIMETICKS"
    <3>1. vb = [type |-> "TIMETICKS", value |-> Lua("table", CreateTimeTable(v))]
      BY <2>7, CreateVbIs
    <3> QED BY <2>7, <3>1, SaysWhen
  <2>8. CASE var.type = "COUNTER64"
    <3>1. vb = [type |-> "COUNTER64", value |-> Lua("userdata", v)]
      BY <2>8, CreateVbIs
    <3>2. v \in Halves
      BY <1>1, <2>8, ValueSets DEF Halves
    <3> HIDE DEF vb, v
    <3>3. C64Get(vb.value) = v /\ vb.type = "COUNTER64"
      BY <3>1, GetIs
    <3>4. v \in [high : Nat, low : Nat]
      BY <3>2, Widths DEF Halves
    <3> QED BY <2>8, <3>1, <3>3, <3>4, SaysWhen DEF v
  <2> QED BY <1>1, <2>1, <2>2, <2>3, <2>4, <2>5, <2>6, <2>7, <2>8
<1> HIDE DEF vb
<1>3. h = [vb |-> vb, means |-> var]
  BY DEF vb
<1> QED BY <1>2, <1>3 DEF Holds

(* The Counter64 the program computes with.                                *)
LEMMA Kept64 ==
  ASSUME MeaningInv, Has64
  PROVE  /\ agent.type = "COUNTER64" /\ held.vb = [type |-> "COUNTER64", value |-> held.vb.value]
         /\ Means64(held.vb.value, C2U(held.means.val))
<1>1. held # None /\ held.vb.type = "COUNTER64" /\ held.means.type = "COUNTER64"
  BY DEF Has64
<1>2. Holds(held, agent.type)
  BY <1>1 DEF MeaningInv
<1>3. IsValue(held.means) /\ Says(held.vb, held.means) /\ held.means.type = agent.type
  BY <1>2 DEF Holds
<1>4. held = [vb |-> [type |-> held.vb.type, value |-> held.vb.value], means |-> held.means]
  BY <1>2 DEF Holds
<1>5. held.vb = [type |-> held.vb.type, value |-> held.vb.value]
  BY <1>4
<1> QED BY <1>1, <1>3, <1>5, CounterSays

(* It may become anything that means the number it should.                 *)
LEMMA BecomesKeeps ==
  ASSUME MeaningInv, NEW x, NEW n, Becomes(x, n), Means64(x, n)
  PROVE  MeaningInv'
<1> DEFINE vb == [type |-> "COUNTER64", value |-> x]
           m == Var("COUNTER64", U2C(n))
<1>1. Has64 /\ held' = [vb |-> [held.vb EXCEPT !.value = x], means |-> m] /\ agent' = agent
  BY DEF Becomes
<1>2. agent.type = "COUNTER64" /\ held.vb = [type |-> "COUNTER64", value |-> held.vb.value]
  BY <1>1, Kept64
<1>3. held' = [vb |-> vb, means |-> m]
  BY <1>1, <1>2
<1>4. U2C(n) \in Halves /\ U2C(n).high * Half + U2C(n).low = n
  BY HalvesOf DEF Means64
<1>5. m.type = "COUNTER64" /\ m.val = U2C(n) /\ vb.type = "COUNTER64" /\ vb.value = x
  BY LuaIs
<1>6. IsValue(m)
  BY <1>4, <1>5, ValueSets DEF IsValue, Types, Halves
<1>7. Says(vb, m)
  <2> HIDE DEF vb, m
  <2>1. C64Get(x) \in [high : Nat, low : Nat] /\ C64Get(x).high * Half + C64Get(x).low = n
    BY DEF Means64
  <2> QED BY <1>4, <1>5, <2>1, SaysWhen
<1>8. Holds(held', "COUNTER64")
  <2>1. vb = [type |-> vb.type, value |-> vb.value]
    OBVIOUS
  <2> HIDE DEF vb, m
  <2> QED BY <1>3, <1>5, <1>6, <1>7, <2>1 DEF Holds
<1> QED BY <1>1, <1>2, <1>8 DEF MeaningInv

(* Arithmetic with a number, conversions and comparisons.                  *)
LEMMA ComputeKeeps ==
  ASSUME MeaningInv, NEW n \in Numbers, NEW op \in Operators, NEW first \in BOOLEAN,
         Compute(op, n, first)
  PROVE  MeaningInv'
<1> DEFINE num == Lua("number", n)
           mine == C2U(held.means.val)
           x == IF first THEN num ELSE held.vb.value
           y == IF first THEN held.vb.value ELSE num
           a == IF first THEN n ELSE mine
           b == IF first THEN mine ELSE n
           r == Result64(op, a, b)
<1>1. /\ Has64 /\ (op \in Divisions => b # 0)
      /\ \/ Becomes(C64Arith(op, x, y), r)
         \/ op = "div" /\ Becomes(C64DivMod(x, y)[1], r)
         \/ op = "mod" /\ Becomes(C64DivMod(x, y)[2], r)
  BY Zenon DEF Compute, Operand
<1>2. Means64(num, n) /\ Means64(held.vb.value, mine)
  BY <1>1, Kept64, Forms64, RequestsAssumption
<1>3. Means64(x, a) /\ Means64(y, b)
  <2> HIDE DEF num, mine
  <2> QED BY <1>2, Zenon
<1> HIDE DEF num, mine, x, y, a, b
<1>4. Means64(C64Arith(op, x, y), r)
  BY <1>1, <1>3, Arith
<1>5. Becomes(C64Arith(op, x, y), r)
  <2>1. C64DivMod(x, y)[1] = C64Arith("div", x, y) /\ C64DivMod(x, y)[2] = C64Arith("mod", x, y)
    BY DEF C64DivMod
  <2> QED BY <1>1, <2>1, Zenon
<1> QED BY <1>4, <1>5, BecomesKeeps

LEMMA ConvertKeeps ==
  ASSUME MeaningInv, Convert
  PROVE  MeaningInv'
<1> DEFINE mine == C2U(held.means.val)
           x == held.vb.value
           zero == Lua("number", 0)
<1>1. /\ Has64
      /\ \/ Becomes(C64Neg(x), Result64("sub", 0, mine))
         \/ Becomes(C64ToTable(x), mine)
         \/ Becomes(C64ToNumber(x), mine)
         \/ Becomes(C64Number(x), mine)
  BY Zenon DEF Convert
<1>2. Means64(x, mine)
  BY <1>1, Kept64
<1> HIDE DEF mine, x
<1>3. C2U(C64Get(x)) = mine /\ mine \in 0 .. Word - 1
  BY <1>2, WordIs
<1>4. Means64(C64ToTable(x), mine) /\ Means64(C64ToNumber(x), mine)
  BY <1>3, Forms64 DEF C64ToTable, C64ToNumber
<1>5. Means64(C64Number(x), mine)
  BY <1>2, GetIs DEF C64Number, Means64
<1>6. Means64(C64Neg(x), Result64("sub", 0, mine))
  <2>1. 0 \in Bits64 /\ mine \in Bits64
    BY <1>3, Widths DEF Bits64
  <2> DEFINE r == (0 - mine) % Word
  <2>2. r = Result64("sub", 0, mine) /\ r \in 0 .. Word - 1
    BY <2>1, Subtracts DEF Bits64
  <2>3. (Word - mine) % Word = r
    <3>1. Word \in Nat /\ Word > 0
      BY Widths
    <3>2. CASE mine = 0
      <4> DEFINE w == Word - mine
                 q == 1
                 z == 0
      <4>1. w = q * Word + z /\ q \in Int /\ z \in 0 .. Word - 1
        BY <1>3, <3>1, <3>2
      <4> HIDE DEF w, q, z
      <4>2. w % Word = z
        BY <3>1, <4>1, Splits
      <4>3. 0 % Word = 0
        BY <3>1, SmallMod
      <4>4. 0 - mine = 0
        BY <3>2
      <4> QED BY <4>2, <4>3, <4>4 DEF w, z
    <3>3. CASE mine # 0
      <4>1. Word - mine \in 0 .. Word - 1 /\ 0 - mine \in -Word .. -1
        BY <1>3, <3>1, <3>3
      <4>2. (Word - mine) % Word = Word - mine /\ (0 - mine) % Word = 0 - mine + Word
        BY <3>1, <4>1, SmallMod
      <4> QED BY <1>3, <3>1, <4>2
    <3> QED BY <3>2, <3>3
  <2> HIDE DEF r
  <2>4. C64Neg(x) = Lua("userdata", U2C(r))
    BY <1>3, <2>3 DEF C64Neg
  <2> QED BY <2>2, <2>4, Forms64
<1> QED BY <1>1, <1>4, <1>5, <1>6, BecomesKeeps

LEMMA AtLeastKeeps ==
  ASSUME MeaningInv, NEW n \in Numbers, AtLeast(n)
  PROVE  MeaningInv'
<1> DEFINE num == Lua("number", n)
           mine == C2U(held.means.val)
           x == held.vb.value
<1>1. /\ Has64
      /\ \/ C64Compare(x, num) = -1 /\ Becomes(num, n)
         \/ C64Lt(num, x) /\ Becomes(x, IF mine > n THEN mine ELSE n)
         \/ C64IsZero(x) /\ Becomes(Lua("number", 1), IF mine = 0 THEN 1 ELSE mine)
  BY Zenon DEF AtLeast, Operand
<1>2. Means64(x, mine) /\ Means64(num, n) /\ Means64(Lua("number", 1), 1)
  <2>1. 1 \in 0 .. Word - 1
    BY Widths
  <2> QED BY <1>1, <2>1, Kept64, Forms64, RequestsAssumption
<1> HIDE DEF mine, x, num
<1>3. C2U(C64Get(x)) = mine /\ C2U(C64Get(num)) = n
  BY <1>2, WordIs
<1>4. (C64Lt(num, x) => mine > n) /\ (C64IsZero(x) => mine = 0)
  BY <1>2, <1>3 DEF C64Lt, C64IsZero, Means64
<1>5. Becomes(num, n) \/ Becomes(x, mine) \/ Becomes(Lua("number", 1), 1)
  <2>1. C64Lt(num, x) => (IF mine > n THEN mine ELSE n) = mine
    BY <1>4
  <2>2. C64IsZero(x) => (IF mine = 0 THEN 1 ELSE mine) = 1
    BY <1>4
  <2> QED BY <1>1, <2>1, <2>2, Zenon
<1> QED BY <1>2, <1>5, BecomesKeeps

(* A value the program writes down, if it says what it means.              *)
LEMMA MakeKeeps ==
  ASSUME MeaningInv, NEW prim, NEW x, NEW type, NEW v, Make(prim, x, Var(type, v)),
         type \in Types, type = CmuType(prim), v \in ValuesOf(type),
         \A vb, m : /\ vb.type = prim /\ vb.value = x /\ m.type = type /\ m.val = v
                    => Says(vb, m)
  PROVE  MeaningInv'
<1> DEFINE vb == [type |-> prim, value |-> x]
           m == Var(type, v)
<1>1. held' = [vb |-> vb, means |-> m] /\ agent' = agent /\ agent.type = type
  BY DEF Make
<1>2. vb.type = prim /\ vb.value = x /\ vb = [type |-> vb.type, value |-> vb.value]
      /\ m.type = type /\ m.val = v
  BY LuaIs
<1> HIDE DEF vb, m
<1>3. Says(vb, m)
  BY <1>2
<1>4. IsValue(m)
  BY <1>2 DEF IsValue, m
<1>5. Holds(held', type)
  BY <1>1, <1>2, <1>3, <1>4 DEF Holds
<1> QED BY <1>1, <1>5 DEF MeaningInv

LEMMA SampleIs ==
  ASSUME NEW type \in Types \ {"NULL"}, NEW v \in Sample[type]
  PROVE  v \in ValuesOf(type)
BY RequestsAssumption

(* Every value the program writes down says what it means.                 *)
LEMMA MakesKeeps ==
  ASSUME MeaningInv, Makes
  PROVE  MeaningInv'
<1>1. ASSUME NEW prim \in {"INTEGER", "COUNTER", "GAUGE"}, NEW n \in Sample[prim],
             Make(prim, Lua("number", n), Var(prim, n))
      PROVE  MeaningInv'
  <2>1. prim \in Types \ {"NULL"} /\ prim = CmuType(prim) /\ n \in ValuesOf(prim)
    BY CmuTypes, SampleIs DEF Types
  <2> QED BY <1>1, <2>1, MakeKeeps, SaysWhen
<1>2. ASSUME NEW n \in 0 .. IntMax, Make("UINTEGER", Lua("number", n), Var("INTEGER", n))
      PROVE  MeaningInv'
  <2>1. /\ "INTEGER" \in Types /\ "INTEGER" = CmuType("UINTEGER")
        /\ n \in ValuesOf("INTEGER") /\ n >= 0
    BY CmuTypes, ValueSets, Widths DEF Types
  <2> QED BY <1>2, <2>1, MakeKeeps, SaysWhen
<1>3. ASSUME NEW text \in Texts, Make("DISPLAY", Lua("string", text), Var("OCTET_STR", text))
      PROVE  MeaningInv'
  <2>1. "OCTET_STR" \in Types /\ "OCTET_STR" = CmuType("DISPLAY") /\ text \in ValuesOf("OCTET_STR")
    BY CmuTypes, SampleIs DEF Types, Texts
  <2> QED BY <1>3, <2>1, MakeKeeps, SaysWhen
<1>4. ASSUME NEW text \in Texts
      PROVE  text \in Seq(Sorts) /\ HexOctets(text) \in Seq(Sorts)
  BY <1>4, SampleIs, ValueSets, HexOctetsAre DEF Types, Texts
<1>5. ASSUME NEW text \in Texts,
             Make("OCTETSTR", Lua("string", text),
                  Var("OCTET_STR", IF ReadsAsHex(text) THEN HexOctets(text) ELSE text))
      PROVE  MeaningInv'
  <2> DEFINE o == IF ReadsAsHex(text) THEN HexOctets(text) ELSE text
             x == Lua("string", text)
  <2>1. "OCTET_STR" \in Types /\ "OCTET_STR" = CmuType("OCTETSTR") /\ o \in ValuesOf("OCTET_STR")
    BY <1>4, CmuTypes, ValueSets DEF Types
  <2>2. x.t = "string" /\ o = IF ReadsAsHex(x.v) THEN HexOctets(x.v) ELSE x.v
    BY LuaIs
  <2>3. Make("OCTETSTR", x, Var("OCTET_STR", o))
    BY <1>5
  <2> HIDE DEF o, x
  <2>4. \A vb, m : /\ vb.type = "OCTETSTR" /\ vb.value = x /\ m.type = "OCTET_STR" /\ m.val = o
                   => Says(vb, m)
    BY <2>2, SaysWhen
  <2> QED BY <2>1, <2>3, <2>4, MakeKeeps
<1>6. ASSUME NEW text \in Texts,
             Make("OPAQUE", Lua("string", text), Var("OPAQUE", HexOctets(text)))
      PROVE  MeaningInv'
  <2> DEFINE o == HexOctets(text)
             x == Lua("string", text)
  <2>1. "OPAQUE" \in Types /\ "OPAQUE" = CmuType("OPAQUE") /\ o \in ValuesOf("OPAQUE")
    BY <1>4, CmuTypes, ValueSets DEF Types
  <2>2. x.t = "string" /\ o = HexOctets(x.v)
    BY LuaIs
  <2>3. Make("OPAQUE", x, Var("OPAQUE", o))
    BY <1>6
  <2> HIDE DEF o, x
  <2>4. \A vb, m : /\ vb.type = "OPAQUE" /\ vb.value = x /\ m.type = "OPAQUE" /\ m.val = o
                   => Says(vb, m)
    BY <2>2, SaysWhen
  <2> QED BY <2>1, <2>3, <2>4, MakeKeeps
<1>7. ASSUME NEW ip \in Sample["IPADDRESS"] \cup {"junk"},
             Make("NETADDR", Lua("string", ip), Var("IPADDRESS", ip))
      PROVE  MeaningInv'
  <2>1. "IPADDRESS" \in Types /\ "IPADDRESS" = CmuType("NETADDR") /\ ip \in ValuesOf("IPADDRESS")
    BY CmuTypes, ValueSets DEF Types
  <2> QED BY <1>7, <2>1, MakeKeeps, SaysWhen
<1>8. ASSUME NEW oid \in Sample["OBJECT_ID"],
             Make("OBJID", Lua("string", oid), Var("OBJECT_ID", oid))
      PROVE  MeaningInv'
  <2>1. "OBJECT_ID" \in Types /\ "OBJECT_ID" = CmuType("OBJID") /\ oid \in ValuesOf("OBJECT_ID")
    BY CmuTypes, SampleIs DEF Types
  <2> QED BY <1>8, <2>1, MakeKeeps, SaysWhen
<1>9. ASSUME NEW n \in Sample["TIMETICKS"],
             Make("TIMETICKS", Lua("table", Fields(n)), Var("TIMETICKS", n))
      PROVE  MeaningInv'
  <2>1. "TIMETICKS" \in Types /\ "TIMETICKS" = CmuType("TIMETICKS") /\ n \in ValuesOf("TIMETICKS")
    BY CmuTypes, SampleIs DEF Types
  <2> QED BY <1>9, <2>1, MakeKeeps, SaysWhen
<1>10. ASSUME NEW c \in Sample["COUNTER64"], NEW x,
              x = Lua("table", c) \/ x = Lua("number", C2U(c)),
              Make("COUNTER64", x, Var("COUNTER64", c))
       PROVE  MeaningInv'
  <2>1. "COUNTER64" \in Types /\ "COUNTER64" = CmuType("COUNTER64") /\ c \in ValuesOf("COUNTER64")
    BY CmuTypes, SampleIs DEF Types
  <2>2. c \in Halves
    BY <2>1, ValueSets DEF Halves
  <2> DEFINE n == C2U(c)
  <2>3. n \in 0 .. Word - 1 /\ n = c.high * Half + c.low
    BY <2>2, WordOf
  <2>4. Means64(x, n)
    <3>1. CASE x = Lua("table", c)
      <4>1. C64Get(x) = [high |-> c.high, low |-> c.low]
        BY <3>1, GetIs
      <4> HIDE DEF n
      <4> QED BY <2>2, <2>3, <4>1, Widths DEF Halves, Means64
    <3>2. CASE x = Lua("number", C2U(c))
      BY <2>3, <3>2, Forms64
    <3> QED BY <1>10, <3>1, <3>2
  <2> HIDE DEF n
  <2>5. \A vb, m : /\ vb.type = "COUNTER64" /\ vb.value = x /\ m.type = "COUNTER64" /\ m.val = c
                   => Says(vb, m)
    <3> SUFFICES ASSUME NEW vb, NEW m, vb.type = "COUNTER64", vb.value = x,
                        m.type = "COUNTER64", m.val = c
                 PROVE  Says(vb, m)
      OBVIOUS
    <3>1. C64Get(vb.value) \in [high : Nat, low : Nat]
          /\ C64Get(vb.value).high * Half + C64Get(vb.value).low = m.val.high * Half + m.val.low
      BY <2>3, <2>4 DEF Means64
    <3> QED BY <3>1, SaysWhen
  <2> QED BY <1>10, <2>1, <2>5, MakeKeeps
<1>11. ASSUME NEW c \in Sample["COUNTER64"],
              \/ Make("COUNTER64", Lua("table", c), Var("COUNTER64", c))
              \/ Make("COUNTER64", Lua("number", C2U(c)), Var("COUNTER64", c))
       PROVE  MeaningInv'
  BY <1>10, <1>11
<1> QED BY <1>1, <1>2, <1>3, <1>5, <1>6, <1>7, <1>8, <1>9, <1>11, Zenon DEF Makes

(* The object changes, but not its type.                                   *)
LEMMA AgentKeeps ==
  ASSUME MeaningInv, NEW type \in DOMAIN Sample, NEW val \in Sample[type], AgentChanges(type, val)
  PROVE  MeaningInv'
<1>1. type \in Types \ {"NULL"} /\ val \in ValuesOf(type)
  BY SampleIs, RequestsAssumption
<1>2. agent' = Var(type, val) /\ held' = held /\ agent.type \in {"NULL", type}
  BY DEF AgentChanges
<1>3. agent'.type = type /\ agent'.val = val
  BY <1>2, LuaIs
<1>4. IsValue(agent')
  BY <1>1, <1>2, <1>3 DEF IsValue
<1>5. ASSUME held # None
      PROVE  agent.type = type
  <2>1. Holds(held, agent.type)
    BY <1>5 DEF MeaningInv
  <2>2. Says(held.vb, held.means) /\ held.means.type = agent.type
    BY <2>1 DEF Holds
  <2>3. held.means.type # "NULL"
    BY <2>2, SaysIs
  <2> QED BY <1>2, <2>2, <2>3
<1> QED BY <1>2, <1>3, <1>4, <1>5 DEF MeaningInv

(* A varbind from a get says what the object was.                          *)
LEMMA GetKeeps ==
  ASSUME MeaningInv, Get
  PROVE  MeaningInv'
<1>1. held' = [vb |-> CreateVb(agent), means |-> agent] /\ agent' = agent /\ agent.type # "NULL"
  BY DEF Get
<1>2. IsValue(agent)
  BY DEF MeaningInv
<1>3. Holds(held', agent.type)
  BY <1>1, <1>2, GotSays
<1> QED BY <1>1, <1>2, <1>3 DEF MeaningInv

-----------------------------------------------------------------------------
(* Sets.                                                                   *)

(* The types a varbind is set with: its own or its node's.                 *)
PrimsOf(vb, m) == {vb.type} \cup NodeTypes(m.type)

(* The types of nodes, sort by sort.                                       *)
LEMMA NodeTypesAre ==
  ASSUME NEW type
  PROVE  /\ type = "OCTET_STR" => NodeTypes(type) = {"OCTETSTR", "BITSTRING", "NSAPADDR"}
         /\ type = "INTEGER" => NodeTypes(type) = {"INTEGER", "DISPLAY"}
         /\ type = "GAUGE" => NodeTypes(type) = {"GAUGE", "UNSIGNED32"}
         /\ type = "IPADDRESS" => NodeTypes(type) = {"IPADDR", "NETADDR"}
         /\ type = "OBJECT_ID" => NodeTypes(type) = {"OBJID"}
         /\ type \in {"COUNTER", "TIMETICKS", "OPAQUE", "COUNTER64"} => NodeTypes(type) = {type}
<1> DEFINE others == {t[2] : t \in {u \in MibTypes : u[1] = type}}
<1>1. \A p : p \in others <=> \E u \in MibTypes : u[1] = type /\ p = u[2]
  OBVIOUS
<1>2. \A p : p \in others <=>
           \/ type = "OCTET_STR" /\ p \in {"BITSTRING", "NSAPADDR"}
           \/ type = "INTEGER" /\ p = "DISPLAY"
           \/ type = "GAUGE" /\ p = "UNSIGNED32"
           \/ type = "IPADDRESS" /\ p = "NETADDR"
  <2> HIDE DEF others
  <2> QED BY <1>1 DEF MibTypes
<1>3. NodeTypes(type) = {PrimType(type)} \cup others
  BY DEF NodeTypes
<1> HIDE DEF others
<1> QED BY <1>2, <1>3, PrimTypes

(* What the agent gets is a value of the object's type, and the one that   *)
(* is meant if the conversion is exact.                                    *)
LEMMA Arrives ==
  ASSUME NEW vb, NEW m, IsValue(m), Says(vb, m), NEW prim \in PrimsOf(vb, m),
         NEW var \in CreateVl(prim, vb.value)
  PROVE  /\ Fits(var, m)
         /\ /\ vb.type \in {"COUNTER", "GAUGE"} => vb.value.v <= IntMax
            /\ vb.type = "COUNTER64" => C64Get(vb.value).low < Half
            /\ vb.type = "TIMETICKS" =>
                 "ticks" \in DOMAIN vb.value.v \/ vb.value.v.deciseconds = 0
            /\ vb.type = "DISPLAY" /\ prim # "DISPLAY" => ~ReadsAsHex(vb.value.v)
            => Encoded(var) = m
<1>1. ASSUME Encoded(var) = m PROVE Fits(var, m)
  BY <1>1 DEF Fits, IsValue
<1>2. CASE vb.type = "OBJID"
  <2>1. prim = "OBJID"
    BY <1>2, SaysIs, NodeTypesAre DEF PrimsOf
  <2> QED BY <1>1, <1>2, <2>1, OidArrives
<1>3. CASE vb.type \in {"INTEGER", "COUNTER", "GAUGE"}
  <2>1. prim = vb.type /\ m.type = vb.type /\ vb.value = Lua("number", m.val)
    <3>1. m.type = vb.type /\ vb.value = Lua("number", m.val)
      BY <1>3, SaysIs
    <3>2. prim \in {vb.type, "DISPLAY", "UNSIGNED32"}
      BY <1>3, <3>1, NodeTypesAre DEF PrimsOf
    <3> QED BY <3>1, <3>2, LuaIs, VlRefused
  <2>2. Fits(var, m) /\ (vb.value.v <= IntMax => Encoded(var) = m)
    BY <1>3, <2>1, NumberArrives
  <2>3. vb.type = "INTEGER" => vb.value.v <= IntMax
    BY <2>1, LuaIs, ValueSets, Widths DEF IsValue
  <2> QED BY <1>3, <2>2, <2>3
<1>4. CASE vb.type = "UINTEGER"
  <2>1. prim \in {"UINTEGER", "INTEGER", "DISPLAY"}
    BY <1>4, SaysIs, NodeTypesAre DEF PrimsOf
  <2> QED BY <1>1, <1>4, <2>1, UnsignedArrives
<1>5. CASE vb.type \in {"DISPLAY", "OCTETSTR", "OPAQUE"}
  <2>1. \/ prim = vb.type
        \/ /\ vb.type \in {"DISPLAY", "OCTETSTR"}
           /\ prim \in {"OCTETSTR", "BITSTRING", "NSAPADDR"}
    <3>1. \/ vb.type \in {"DISPLAY", "OCTETSTR"} /\ m.type = "OCTET_STR"
          \/ vb.type = "OPAQUE" /\ m.type = "OPAQUE"
      BY <1>5, SaysIs
    <3>2. prim = vb.type \/ prim \in NodeTypes(m.type)
      BY DEF PrimsOf
    <3>3. /\ m.type = "OCTET_STR" => NodeTypes(m.type) = {"OCTETSTR", "BITSTRING", "NSAPADDR"}
          /\ m.type = "OPAQUE" => NodeTypes(m.type) = {"OPAQUE"}
      BY NodeTypesAre
    <3> QED BY <3>1, <3>2, <3>3
  <2> QED BY <1>5, <2>1, TextArrives
<1>6. CASE vb.type \in {"IPADDR", "NETADDR"}
  <2>1. prim \in {"IPADDR", "NETADDR"}
    BY <1>6, SaysIs, NodeTypesAre DEF PrimsOf
  <2> QED BY <1>1, <1>6, <2>1, AddressArrives
<1>7. CASE vb.type = "TIMETICKS"
  <2>1. prim = "TIMETICKS"
    BY <1>7, SaysIs, NodeTypesAre DEF PrimsOf
  <2> QED BY <1>7, <2>1, TimeArrives
<1>8. CASE vb.type = "COUNTER64"
  <2>1. prim = "COUNTER64"
    BY <1>8, SaysIs, NodeTypesAre DEF PrimsOf
  <2> QED BY <1>8, <2>1, CounterArrives
<1>9. vb.type \in {"OBJID", "INTEGER", "COUNTER", "GAUGE", "UINTEGER", "DISPLAY", "OCTETSTR",
                   "OPAQUE", "IPADDR", "NETADDR", "TIMETICKS", "COUNTER64"}
  BY SaysIs
<1> QED BY <1>2, <1>3, <1>4, <1>5, <1>6, <1>7, <1>8, <1>9

(* A set stores what is meant, and some value of the object's type         *)
(* otherwise.                                                              *)
LEMMA SetStep ==
  ASSUME MeaningInv, NEW typed \in BOOLEAN, Set(typed)
  PROVE  MeaningInv' /\ (Exact(held.vb, typed) => agent' = held.means)
<1> DEFINE vb == held.vb
           m == held.means
<1>1. /\ held # None /\ held' = held
      /\ \E prim \in PrimTypesOf(vb, typed) :
           \E var \in CreateVl(prim, vb.value) : agent' = Encoded(var)
  BY DEF Set
<1>a. PICK prim \in PrimTypesOf(vb, typed) :
        \E var \in CreateVl(prim, vb.value) : agent' = Encoded(var)
  BY <1>1
<1>2. PICK var \in CreateVl(prim, vb.value) : agent' = Encoded(var)
  BY <1>a
<1>3. Holds(held, agent.type)
  BY <1>1 DEF MeaningInv
<1>4. IsValue(m) /\ Says(vb, m) /\ m.type = agent.type
  BY <1>3 DEF Holds
<1> HIDE DEF vb, m
<1>5. prim \in PrimsOf(vb, m) /\ (typed => prim = vb.type)
  BY <1>a, <1>4 DEF PrimTypesOf, PrimsOf
<1>6. /\ Fits(var, m)
      /\ /\ vb.type \in {"COUNTER", "GAUGE"} => vb.value.v <= IntMax
         /\ vb.type = "COUNTER64" => C64Get(vb.value).low < Half
         /\ vb.type = "TIMETICKS" =>
              "ticks" \in DOMAIN vb.value.v \/ vb.value.v.deciseconds = 0
         /\ vb.type = "DISPLAY" /\ prim # "DISPLAY" => ~ReadsAsHex(vb.value.v)
         => Encoded(var) = m
  BY <1>a, <1>2, <1>4, <1>5, Arrives
<1>7. Exact(vb, typed) => Encoded(var) = m
  BY <1>5, <1>6, Zenon DEF Exact
<1>8. IsValue(agent') /\ agent'.type = agent.type
  <2>1. agent' = Var(m.type, agent'.val) /\ agent'.val \in ValuesOf(m.type)
    BY <1>2, <1>6 DEF Fits
  <2>2. agent'.type = m.type
    BY <2>1, LuaIs
  <2> QED BY <1>4, <2>1, <2>2 DEF IsValue
<1>9. MeaningInv'
  BY <1>1, <1>3, <1>8 DEF MeaningInv
<1> QED BY <1>2, <1>7, <1>9 DEF vb, m

(* Every step.                                                             *)
LEMMA MeaningStep ==
  ASSUME MeaningInv, [Next]_vars
  PROVE  MeaningInv'
<1>1. ASSUME UNCHANGED <<agent, held>>
      PROVE  MeaningInv'
  BY <1>1 DEF MeaningInv
<1>2. ASSUME NEW h \in Handle, NEW no_peer \in BOOLEAN, NEW v1 \in BOOLEAN,
             NEW cb \in {Nil, Fn(Default)}, Open(h, cb, no_peer, v1)
      PROVE  MeaningInv'
  BY <1>1, <1>2 DEF Open
<1>3. CASE Close
  BY <1>1, <1>3 DEF Close
<1>4. ASSUME NEW kind, NEW tail, NEW good, Refuse(kind, tail, good)
      PROVE  MeaningInv'
  BY <1>1, <1>4 DEF Refuse, vars
<1>5. ASSUME NEW kind, NEW tail, NEW list, NEW b, AsynchReq(kind, tail, list, b)
      PROVE  MeaningInv'
  BY <1>1, <1>5, Zenon DEF AsynchReq
<1>6. ASSUME NEW b, NEW outcome, AsynchRsp(b, outcome)
      PROVE  MeaningInv'
  BY <1>1, <1>6, Zenon DEF AsynchRsp
<1>7. CASE CallbackReturns
  BY <1>1, <1>7 DEF CallbackReturns
<1>8. CASE CallbackFails
  BY <1>1, <1>8 DEF CallbackFails
<1>9. ASSUME NEW type \in DOMAIN Sample, NEW val \in Sample[type], AgentChanges(type, val)
      PROVE  MeaningInv'
  BY <1>9, AgentKeeps
<1>10. CASE Get
  BY <1>10, GetKeeps
<1>11. ASSUME NEW n \in Numbers,
              (\E op \in Operators, first \in BOOLEAN : Compute(op, n, first)) \/ AtLeast(n)
       PROVE  MeaningInv'
  BY <1>11, ComputeKeeps, AtLeastKeeps
<1>12. CASE Convert
  BY <1>12, ConvertKeeps
<1>13. CASE Makes
  BY <1>13, MakesKeeps
<1>14. ASSUME NEW typed \in BOOLEAN, Set(typed)
       PROVE  MeaningInv'
  BY <1>14, SetStep
<1>15. CASE UNCHANGED vars
  BY <1>1, <1>15 DEF vars
<1> QED BY <1>2, <1>3, <1>4, <1>5, <1>6, <1>7, <1>8, <1>9, <1>10, <1>11, <1>12, <1>13, <1>14,
           <1>15, Zenon DEF Next

(* The object has a value of its type, and the varbind the program has     *)
(* says what it means, whatever the program gets, computes and writes down *)
(* (f_create_vb, c64_op1, c64_op2).                                        *)
THEOREM MeaningInductive == Spec => []MeaningInv
<1>1. Init => MeaningInv
  BY ValueSets, LuaIs DEF Init, MeaningInv, IsValue, Types
<1>2. MeaningInv /\ [Next]_vars => MeaningInv'
  BY MeaningStep
<1> QED BY <1>1, <1>2, PTL DEF Spec

(* What a set stores at the agent is what the program set, for ints of any *)
(* width, any values of the types and any arithmetic on 64 bits between a  *)
(* get and a set (f_create_vb, f_create_vlist, f_create_vl).               *)
THEOREM SetsStoreMeaning == Spec => SetStoresMeaning
<1>1. MeaningInv /\ [Next]_vars =>
        [\A typed \in BOOLEAN :
           Set(typed) /\ Exact(held.vb, typed) => agent' = held.means]_vars
  BY SetStep
<1> QED BY <1>1, MeaningInductive, PTL DEF Spec, SetStoresMeaning
=============================================================================
