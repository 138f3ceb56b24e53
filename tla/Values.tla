------------------------------- MODULE Values -------------------------------
(***************************************************************************)
(* The conversions between the values of Lua and those of the net-snmp     *)
(* library: src/src/nm_util.c (types, OIDs, octet strings, numbers, times) *)
(* and src/src/nm_c64.c (Counter64).                                       *)
(*                                                                         *)
(* A Lua value is [t |-> its Lua type, v |-> its contents], a value of the *)
(* library [type |-> its ASN type, val |-> its contents].  Numbers keep    *)
(* their widths: an int and each half of a Counter64 have as many bits as  *)
(* INT_MAX says (32 in the code), a long, and with it u_long and each      *)
(* field of the struct counter64, twice as many.  Octet strings are of a   *)
(* few sorts that the code distinguishes:                                  *)
(*   <<>>          the empty one,                                          *)
(*   <<"bin">>     octets of which at least one is not printable,          *)
(*   <<"plain">>   a text that does not read as hex,                       *)
(*   <<"hex">> \o o  the text that is the hex notation of o.               *)
(* Left out: floats, strings that read as numbers, numbers for strings.    *)
(***************************************************************************)
EXTENDS Integers, Sequences, FiniteSets

CONSTANT IntMax    \* INT_MAX: 2^31 - 1 in the code

ASSUME WidthAssumption == IntMax \in Nat

IntMin == -IntMax - 1
Half == 2 * (IntMax + 1)   \* the values of a half of a Counter64
Word == Half * Half        \* the values of a Counter64

Lua(t, v) == [t |-> t, v |-> v]
Nil == Lua("nil", "nil")

Var(type, val) == [type |-> type, val |-> val]
-----------------------------------------------------------------------------
(* Types.                                                                  *)

(* nm_snmp_types: the library's type and the one of the primitives.        *)
SnmpTypes ==
  << <<"OBJECT_ID", "OBJID">>, <<"OCTET_STR", "OCTETSTR">>,
     <<"INTEGER", "INTEGER">>, <<"IPADDRESS", "IPADDR">>,
     <<"IPADDRESS", "NETADDR">>, <<"COUNTER", "COUNTER">>,
     <<"GAUGE", "GAUGE">>, <<"TIMETICKS", "TIMETICKS">>,
     <<"OPAQUE", "OPAQUE">>, <<"NULL", "NULL">>,
     <<"COUNTER64", "COUNTER64">>, <<"OPAQUE_COUNTER64", "COUNTER64">>,
     <<"OCTET_STR", "BITSTRING">>, <<"OCTET_STR", "NSAPADDR">>,
     <<"INTEGER", "UINTEGER">>, <<"OCTET_STR", "DISPLAY">>,
     <<"noSuchObject", "NOSUCHOBJECT">>,
     <<"noSuchInstance", "NOSUCHINSTANCE">>,
     <<"endOfMibView", "ENDOFMIBVIEW">> >>

FirstRow(rows) == CHOOSE i \in rows : \A j \in rows : i <= j

(* f_prim_type: the first row with this type of the library.               *)
PrimType(cmu) ==
  LET rows == {i \in DOMAIN SnmpTypes : SnmpTypes[i][1] = cmu}
  IN IF rows = {} THEN "OTHER" ELSE SnmpTypes[FirstRow(rows)][2]

(* f_cmu_type, for the types f_create_vl lets through.                     *)
CmuType(prim) ==
  SnmpTypes[FirstRow({i \in DOMAIN SnmpTypes : SnmpTypes[i][2] = prim})][1]

Exceptions == {"NOSUCHOBJECT", "NOSUCHINSTANCE", "ENDOFMIBVIEW"}

(* nm_snmp_validtype lets UNSIGNED32 and NETADDR through as well.          *)
ValidTypes == {SnmpTypes[i][2] : i \in DOMAIN SnmpTypes} \cup {"UNSIGNED32"}
-----------------------------------------------------------------------------
(* Object identifiers: texts are sequences of the numbers they show.       *)

Signed(n) == IF n % Half > IntMax THEN (n % Half) - Half ELSE n % Half

(* f_oid2str prints each subidentifier as an int.                          *)
Oid2Str(oid) == [i \in DOMAIN oid |-> Signed(oid[i])]

(* f_isoid: digits and dots only.                                          *)
IsOid(text) == \A i \in DOMAIN text : text[i] >= 0

(* f_str2oid: atoi's int, extended to the u_long of an oid.                *)
Str2Oid(text) == [i \in DOMAIN text |-> Signed(text[i]) % Word]
-----------------------------------------------------------------------------
(* Octet strings.                                                          *)

HexText(o) == IF o = <<>> THEN <<>> ELSE <<"hex">> \o o
ReadsAsHex(text) == text = <<>> \/ Head(text) = "hex"
HexOctets(text) == IF text = <<>> THEN <<>> ELSE Tail(text)
Printable(o) == o # <<>> /\ o # <<"bin">>
-----------------------------------------------------------------------------
(* TimeTicks.                                                              *)

(* f_create_time_table.                                                    *)
CreateTimeTable(ticks) ==
  [ticks |-> ticks,
   deciseconds |-> ticks % 100,
   seconds |-> (ticks \div 100) % 60,
   minutes |-> (ticks \div 6000) % 60,
   hours |-> (ticks \div 360000) % 24,
   days |-> ticks \div 8640000]

Field(table, name) == IF name \in DOMAIN table THEN table[name] ELSE 0

(* f_format_time, which asks for a field no one else calls so.             *)
FormatTime(table) ==
  IF "ticks" \in DOMAIN table THEN table["ticks"]
  ELSE LET hours == Field(table, "days") * 24 + Field(table, "hours")
           minutes == hours * 60 + Field(table, "minutes")
           seconds == minutes * 60 + Field(table, "seconds")
       IN seconds * 100 + Field(table, "decisecondes")
-----------------------------------------------------------------------------
(* Counter64: the struct of two u_long, and its value.                     *)

(* c64_get splits a number at the width of u_long.                         *)
C64Get(x) ==
  CASE x.t = "number" -> [high |-> x.v \div Word, low |-> x.v % Word]
    [] x.t = "table" -> [high |-> x.v.high, low |-> x.v.low]
    [] x.t = "userdata" -> x.v
    [] OTHER -> [high |-> 0, low |-> 0]

(* Mutant: the high word is not counted.                                  *)
C2UForgetsHigh(c) == c.low

C2U(c) == (c.high * Half + c.low) % Word
U2C(n) == [high |-> n \div Half, low |-> n % Half]

(* number: what c64_get makes of it, whatever its halves hold.             *)
C64Number(x) == Lua("userdata", C64Get(x))

(* c64_op1 and c64_op2, which work on 64 bits: a number, a table of        *)
(* halves, and the arithmetic, to which a divisor of zero is the end of    *)
(* the process.  pow and sqrt, which go through a double, are left out, as *)
(* is what a number loses beyond the 53 bits of one.                       *)
C64ToNumber(x) == Lua("number", C2U(C64Get(x)))
C64ToTable(x) == Lua("table", U2C(C2U(C64Get(x))))
C64Neg(x) == Lua("userdata", U2C((Word - C2U(C64Get(x))) % Word))
C64IsZero(x) == C2U(C64Get(x)) = 0

Divisions == {"div", "mod"}
Operators == {"add", "sub", "mul"} \cup Divisions

C64Arith(op, x, y) ==
  LET a == C2U(C64Get(x))
      b == C2U(C64Get(y))
      Result(n) == Lua("userdata", U2C(n % Word))
  IN CASE op = "add" -> Result(a + b)
       [] op = "sub" -> Result(a - b)
       [] op = "mul" -> Result(a * b)
       [] op = "div" -> Result(a \div b)
       [] op = "mod" -> Result(a % b)

C64DivMod(x, y) == <<C64Arith("div", x, y), C64Arith("mod", x, y)>>

C64Compare(x, y) ==
  LET a == C2U(C64Get(x))
      b == C2U(C64Get(y))
  IN IF a > b THEN 1 ELSE IF a < b THEN -1 ELSE 0
C64Lt(x, y) == C2U(C64Get(x)) < C2U(C64Get(y))
-----------------------------------------------------------------------------
(* From the library to Lua.                                                *)

CreateVb(var) ==
  LET prim == PrimType(var.type)
      Vb(type, t, v) == [type |-> type, value |-> Lua(t, v)]
  IN CASE prim = "OBJID" -> Vb(prim, "string", Oid2Str(var.val))
       [] prim = "OCTETSTR" /\ Printable(var.val) -> Vb("DISPLAY", "string", var.val)
       [] prim = "OCTETSTR" /\ ~Printable(var.val) -> Vb(prim, "string", HexText(var.val))
       [] prim = "OPAQUE" -> Vb(prim, "string", HexText(var.val))
       [] prim \in {"INTEGER", "COUNTER", "GAUGE"} -> Vb(prim, "number", var.val)
       [] prim = "IPADDR" -> Vb(prim, "string", var.val)
       [] prim = "TIMETICKS" -> Vb(prim, "table", CreateTimeTable(var.val))
       [] prim = "COUNTER64" -> Vb(prim, "userdata", var.val)
       [] OTHER -> [type |-> prim, value |-> Nil]
-----------------------------------------------------------------------------
(* From Lua to the library.                                                *)

(* The cast (int) of a number that has no int is undefined: the processors *)
(* the library is built for give the least or the nearest one.             *)
ToInt(n) ==
  IF n \in IntMin .. IntMax THEN {n} ELSE {IntMin, IF n < 0 THEN IntMin ELSE IntMax}

OctetsOf(prim, text) ==
  IF prim # "DISPLAY" /\ ReadsAsHex(text) THEN {HexOctets(text)}
  ELSE IF prim \in {"DISPLAY", "OCTETSTR"} THEN {text} ELSE {}

(* f_create_vl: the values it may store, none when it refuses.             *)
CreateVl(prim, x) ==
  LET Of(t, vals) == IF x.t = t THEN {Var(CmuType(prim), v) : v \in vals} ELSE {}
  IN CASE prim = "OBJID" ->
            Of("string", {Str2Oid(text) : text \in {y \in {x.v} : IsOid(y)}})
       [] prim \in {"OCTETSTR", "DISPLAY", "OPAQUE", "BITSTRING", "NSAPADDR"} ->
            Of("string", OctetsOf(prim, x.v))
       [] prim \in {"INTEGER", "COUNTER", "GAUGE"} -> Of("number", ToInt(x.v))
       [] prim = "UINTEGER" -> Of("number", {x.v % Half})
       [] prim \in {"IPADDR", "NETADDR"} ->  \* inet_addr's error is an address too
            Of("string", {x.v} \ {"255.255.255.255", "junk"})
       [] prim = "TIMETICKS" -> Of("table", {FormatTime(x.v)})
       [] prim = "COUNTER64" -> {Var(CmuType(prim), C64Get(x))}
       [] prim \in Exceptions \cup {"NULL"} -> {Var(CmuType(prim), <<>>)}
       [] OTHER -> {}

(* What the library encodes of it: the fields at their width on the wire.  *)
Encoded(var) ==
  CASE var.type = "OBJECT_ID" -> Var(var.type, [i \in DOMAIN var.val |-> var.val[i] % Half])
    [] var.type = "INTEGER" -> Var(var.type, Signed(var.val))
    [] var.type \in {"COUNTER", "GAUGE"} -> Var(var.type, var.val % Half)
    [] var.type = "COUNTER64" ->
         Var(var.type, [high |-> var.val.high % Half, low |-> var.val.low % Half])
    [] OTHER -> var
=============================================================================
