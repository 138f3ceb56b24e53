-------------------------------- MODULE Vacm --------------------------------
(***************************************************************************)
(* The administration of access rights: createsectogroup, createview,      *)
(* createaccess and their deletions in src/luasnmp.lua, which write names  *)
(* into the indexes of the agent's VACM tables and take the types of the   *)
(* columns from the MIB tree (module Mib), and the SET that carries them   *)
(* out over a network that loses, delays and repeats messages.             *)
(*                                                                         *)
(* Names are sequences of octets; the dots of an OID given as a name are   *)
(* left out.  A mask is the sequence of its runs of hex digits.  There is  *)
(* one agent, and only this program administers it.                        *)
(***************************************************************************)
EXTENDS Mib

CONSTANTS
  VacmOid,      \* the columns' OIDs
  SecToGroups,  \* the calls' arguments: [secmodel, secname, groupname],
  Views,        \* [viewname, subtree, mask, flag],
  Accesses,     \* [group, secmodel, seclevel, match, readview, writeview,
                \*  notifyview, context]
  Retries,      \* bound: times a session may repeat a request
  MaxLate,      \* bound: earlier calls of which requests are under way
  Careful       \* what the program takes care of, a subset of the next

Rules == {"plain_names", "mask_in_pairs"}

Columns ==
  [sec2Group |-> {"sec2GroupStatus", "groupName"},
   view |-> {"viewTreeFamilyStatus", "viewTreeFamilyMask", "viewTreeFamilyType"},
   access |-> {"accessStatus", "accessContextMatch", "accessReadViewName",
               "accessWriteViewName", "accessNotifyViewName"}]

Integer == {"sec2GroupStatus", "viewTreeFamilyStatus", "viewTreeFamilyType",
            "accessStatus", "accessContextMatch"}
ColumnType(c) == IF c \in Integer THEN "INTEGER" ELSE "OCTETSTR"

ASSUME VacmAssumption ==
  /\ DOMAIN VacmOid = UNION {Columns[t] : t \in DOMAIN Columns}
  /\ IntMax >= 255
  /\ Retries \in Nat
  /\ MaxLate \in Nat
  /\ Careful \subseteq Rules

(* Of the VACM MIB: columns are leaves of the tree, a table's columns are   *)
(* in one file and at one depth, and the nodes above are no objects.       *)
ASSUME ColumnsAssumption ==
  \A t \in DOMAIN Columns : \A c \in Columns[t] :
    /\ VacmOid[c] \in Seq(0 .. IntMax) \ {<< >>}
    /\ \A d \in DOMAIN VacmOid : IsPrefix(VacmOid[c], VacmOid[d]) => c = d
    /\ \A d \in Columns[t] : Len(VacmOid[c]) = Len(VacmOid[d])
    /\ \A f \in DOMAIN MibFile : \A n \in MibFile[f] :
         /\ IsPrefix(VacmOid[c], n.oid) =>
              /\ n.oid = VacmOid[c]
              /\ n.type = ColumnType(c)
              /\ \A d \in Columns[t] : \E m \in MibFile[f] : m.oid = VacmOid[d]
         /\ IsPrefix(n.oid, VacmOid[c]) /\ n.oid # VacmOid[c] =>
              n.type \notin {"INTEGER", "OCTETSTR"}

VARIABLES
  table,    \* the agent's rows
  call,     \* the call the program waits for, or None
  left,     \* how often the library will still repeat its request
  sent,     \* the number of its requests under way
  answers,  \* the agent's answers to it under way
  late,     \* earlier calls with requests still under way
  result    \* what the last call returned, or None

netVars == <<left, sent, answers>>
adminVars == <<table, call, left, sent, answers, late, result>>
vars == <<mibVars, adminVars>>
-----------------------------------------------------------------------------
(* Texts.  Characters are their codes.                                     *)

Colon == 58
Digits == 48 .. 57
Nibble == [c \in Digits \cup (97 .. 102) |-> IF c \in Digits THEN c - 48 ELSE c - 87]
HexChar(n) == IF n < 10 THEN n + 48 ELSE n + 87

(* isoid of a name.                                                        *)
IsNumber(name) == name # << >> /\ \A i \in DOMAIN name : name[i] \in Digits
NumberOf(name) == FoldLeft(LAMBDA n, c : 10 * n + (c - 48), 0, name)

(* key2octet: "61:62".                                                     *)
Key2Octet(name) ==
  [i \in 1 .. 3 * Len(name) - 1 |->
     LET octet == name[(i + 2) \div 3]
     IN CASE i % 3 = 1 -> HexChar(octet \div 16)
          [] i % 3 = 2 -> HexChar(octet % 16)
          [] i % 3 = 0 -> Colon]

(* f_create_vl: pairs of hex digits with a colon after each.               *)
ReadsAsOctets(text) ==
  /\ Len(text) % 3 # 1
  /\ \A i \in DOMAIN text : IF i % 3 = 0 THEN text[i] = Colon ELSE text[i] \in DOMAIN Nibble

ToOctets(text) ==
  IF ReadsAsOctets(text)
  THEN [k \in 1 .. (Len(text) + 1) \div 3 |->
          16 * Nibble[text[3 * k - 2]] + Nibble[text[3 * k - 1]]]
  ELSE text

(* createview's reading of the mask: a run of one digit has a 0 put after  *)
(* it, and one of more than two is passed over, for the error is returned  *)
(* to gsub.                                                                *)
ViewMask(runs) ==
  FlattenSeq([i \in DOMAIN runs |->
    CASE Len(runs[i]) = 1 -> << 16 * runs[i][1] >>
      [] Len(runs[i]) = 2 -> << 16 * runs[i][1] + runs[i][2] >>
      [] OTHER -> << >>])
-----------------------------------------------------------------------------
(* Variables.                                                              *)

Text(name) == Lua("string", name)
Number(n) == Lua("number", n)
OidArg(oid) == Lua("oid", oid)

(* Mutant: an OID within an index without its length.                      *)
EncodeWithoutLength(x) ==
  CASE x.t = "number" -> << x.v >>
    [] x.t = "oid" -> x.v
    [] x.t = "string" /\ IsNumber(x.v) -> << 1, NumberOf(x.v) >>
    [] x.t = "string" /\ ~IsNumber(x.v) -> << Len(x.v) >> \o x.v

(* instance, which ends at the first argument that is nil.                 *)
Encode(x) ==
  CASE x.t = "number" -> << x.v >>
    [] x.t = "oid" -> << Len(x.v) >> \o x.v
    [] x.t = "string" /\ IsNumber(x.v) -> << 1, NumberOf(x.v) >>
    [] x.t = "string" /\ ~IsNumber(x.v) -> << Len(x.v) >> \o x.v

Instance(args) ==
  FlattenSeq([i \in DOMAIN args |->
    IF \E j \in 1 .. i : args[j].t = "nil" THEN << >> ELSE Encode(args[i])])

(* secmodels is asked for the name in capitals.                            *)
SecModels == [SNMPv1 |-> 1, SNMPv2c |-> 2, USM |-> 3]
Upper == [SNMPv1 |-> "SNMPV1", SNMPv2 |-> "SNMPV2", USM |-> "USM"]
SecModel(m) == IF Upper[m] \in DOMAIN SecModels THEN Number(SecModels[Upper[m]]) ELSE Nil

SecLevels == [NOAUTHNOPRIV |-> 1, AUTHNOPRIV |-> 2, AUTHPRIV |-> 3]
RowStatus == [createAndGo |-> 4, destroy |-> 6]
ViewTypes == [include |-> 1, exclude |-> 2]
Matching == [exact |-> 1, prefix |-> 2]

Of(numbers, name) == IF name \in DOMAIN numbers THEN Number(numbers[name]) ELSE Nil

(* newvar takes the type from the MIB tree.                                *)
NewVar(column, inst, value) ==
  LET oid == VacmOid[column] \o inst
  IN [oid |-> oid, types |-> MibType(NumText(oid)), value |-> value]

(* f_create_vlist_from_objid: the variable as it is sent, or nothing.      *)
CreateVlist(vb) ==
  LET values(type) ==
        CASE type = "INTEGER" /\ vb.value.t = "number" -> {vb.value.v}
          [] type = "OCTETSTR" /\ vb.value.t = "string" -> {ToOctets(vb.value.v)}
          [] OTHER -> {}
  IN UNION {{[oid |-> r.oid, val |-> v] : v \in UNION {values(type) : type \in vb.types}} :
              r \in GetMibNode(NumText(vb.oid))}

Sendable(vl) == \A i \in DOMAIN vl : CreateVlist(vl[i]) # {}
Pdu(vl) == [i \in DOMAIN vl |-> CHOOSE v \in CreateVlist(vl[i]) : TRUE]
-----------------------------------------------------------------------------
(* The calls.  `want' is what the program means by one.                    *)

Model == [SNMPv1 |-> 1, SNMPv2 |-> 2, USM |-> 3]
NoRow == [no |-> "row"]

MappingKey(a) == << "sec2Group", Model[a.secmodel], a.secname >>
MappingRow(a) == [groupName |-> a.groupname]
ViewKey(a) == << "view", a.viewname, a.subtree >>

(* The octets a mask spells.                                               *)
MaskMeant(runs) ==
  FlattenSeq([i \in DOMAIN runs |->
    [j \in 1 .. (Len(runs[i]) + 1) \div 2 |->
       16 * runs[i][2 * j - 1] + (IF 2 * j <= Len(runs[i]) THEN runs[i][2 * j] ELSE 0)]])

Meant(numbers, name) == IF name \in DOMAIN numbers THEN numbers[name] ELSE 0
ViewRow(a) == [mask |-> MaskMeant(a.mask), type |-> Meant(ViewTypes, a.flag)]
AccessKey(a) ==
  << "access", a.group, a.context, Model[a.secmodel], Meant(SecLevels, a.seclevel) >>
AccessRow(a) ==
  [match |-> Meant(Matching, a.match), readView |-> a.readview,
   writeView |-> a.writeview, notifyView |-> a.notifyview]

Plain(names) ==
  "plain_names" \in Careful =>
    \A name \in names : ~IsNumber(name) /\ ~(name # << >> /\ ReadsAsOctets(name))

Key == {MappingKey(a) : a \in SecToGroups} \cup {ViewKey(a) : a \in Views}
         \cup {AccessKey(a) : a \in Accesses}
Row == {MappingRow(a) : a \in SecToGroups} \cup {ViewRow(a) : a \in Views}
         \cup {AccessRow(a) : a \in Accesses} \cup {NoRow}

(* What a call needs to be carried out at all: the VACM MIB is loaded, the *)
(* model is USM, the words are known and the objects' OIDs short enough.   *)
IndexLen(key) ==
  CASE key[1] = "sec2Group" -> 2 + Len(key[3])
    [] key[1] = "view" -> 2 + Len(key[2]) + Len(key[3])
    [] key[1] = "access" -> 4 + Len(key[2]) + Len(key[3])

Known(a, field, numbers) == field \in DOMAIN a => a[field] \in DOMAIN numbers
Fit(do, key, a) ==
  /\ "secmodel" \in DOMAIN a => a.secmodel = "USM"
  /\ Known(a, "seclevel", SecLevels)
  /\ do = "create" => Known(a, "flag", ViewTypes) /\ Known(a, "match", Matching)
  /\ \A c \in Columns[key[1]] : /\ VacmOid[c] \in DOMAIN tree
                                /\ Len(VacmOid[c]) + IndexLen(key) <= NMAX_SUBID

Want(do, key, row, a) == [do |-> do, key |-> key, row |-> row, fit |-> Fit(do, key, a)]

Wants == [do : {"create", "delete"}, key : Key, row : Row, fit : BOOLEAN]

(* What programs pass: names of octets, OIDs of ints, masks of hex digits. *)
IsText(name) == name \in Seq(0 .. 255) /\ Len(name) <= IntMax

ASSUME ArgumentsAssumption ==
  /\ \A a \in SecToGroups :
       /\ DOMAIN a = {"secmodel", "secname", "groupname"}
       /\ a.secmodel \in DOMAIN Model
       /\ IsText(a.secname) /\ IsText(a.groupname)
  /\ \A a \in Views :
       /\ DOMAIN a = {"viewname", "subtree", "mask", "flag"}
       /\ IsText(a.viewname)
       /\ a.subtree \in Seq(0 .. IntMax) /\ Len(a.subtree) <= IntMax
       /\ a.mask \in Seq(Seq(0 .. 15) \ {<< >>})
  /\ \A a \in Accesses :
       /\ DOMAIN a = {"group", "secmodel", "seclevel", "match", "readview",
                      "writeview", "notifyview", "context"}
       /\ a.secmodel \in DOMAIN Model
       /\ IsText(a.group) /\ IsText(a.context)
       /\ IsText(a.readview) /\ IsText(a.writeview) /\ IsText(a.notifyview)
  /\ None \notin [do : {"create", "delete"}, key : Key, row : Row,
                  fit : BOOLEAN, single : BOOLEAN]

(* session:set of the variables; nothing is sent when one is not right.    *)
Set(want, retries, vl) ==
  /\ call = None
  /\ call' = [want |-> want, retries |-> retries,
              pdu |-> IF Sendable(vl) THEN Pdu(vl) ELSE << >>]
  /\ left' = retries
  /\ sent' = IF Sendable(vl) THEN 1 ELSE 0
  /\ answers' = {}
  /\ result' = None
  /\ UNCHANGED <<table, late>>

CreateSecToGroup(a, retries) ==
  LET inst == Instance(<< SecModel(a.secmodel), Text(a.secname) >>)
  IN /\ Plain({a.secname, a.groupname})
     /\ Set(Want("create", MappingKey(a), MappingRow(a), a), retries,
            << NewVar("sec2GroupStatus", inst, Number(RowStatus.createAndGo)),
               NewVar("groupName", inst, Text(a.groupname)) >>)

DeleteSecToGroup(a, retries) ==
  LET inst == Instance(<< SecModel(a.secmodel), Text(a.secname) >>)
  IN /\ Plain({a.secname})
     /\ Set(Want("delete", MappingKey(a), NoRow, a), retries,
            << NewVar("sec2GroupStatus", inst, Number(RowStatus.destroy)) >>)

CreateView(a, retries) ==
  LET inst == Instance(<< Text(a.viewname), OidArg(a.subtree) >>)
  IN /\ Plain({a.viewname})
     /\ "mask_in_pairs" \in Careful => \A i \in DOMAIN a.mask : Len(a.mask[i]) <= 2
     /\ Set(Want("create", ViewKey(a), ViewRow(a), a), retries,
            << NewVar("viewTreeFamilyStatus", inst, Number(RowStatus.createAndGo)),
               NewVar("viewTreeFamilyMask", inst, Text(Key2Octet(ViewMask(a.mask)))),
               NewVar("viewTreeFamilyType", inst, Of(ViewTypes, a.flag)) >>)

DeleteView(a, retries) ==
  LET inst == Instance(<< Text(a.viewname), OidArg(a.subtree) >>)
  IN /\ Plain({a.viewname})
     /\ Set(Want("delete", ViewKey(a), NoRow, a), retries,
            << NewVar("viewTreeFamilyStatus", inst, Number(RowStatus.destroy)) >>)

(* The checks of createaccess and deleteaccess let only known levels pass. *)
AccessInstance(a) ==
  Instance(<< Text(a.group), Text(a.context), SecModel(a.secmodel),
              Of(SecLevels, a.seclevel) >>)

CreateAccess(a, retries) ==
  LET inst == AccessInstance(a)
  IN /\ Plain({a.group, a.context})
     /\ a.seclevel \in DOMAIN SecLevels
     /\ Set(Want("create", AccessKey(a), AccessRow(a), a), retries,
            << NewVar("accessStatus", inst, Number(RowStatus.createAndGo)),
               NewVar("accessContextMatch", inst, Of(Matching, a.match)),
               NewVar("accessReadViewName", inst, Text(Key2Octet(a.readview))),
               NewVar("accessWriteViewName", inst, Text(Key2Octet(a.writeview))),
               NewVar("accessNotifyViewName", inst, Text(Key2Octet(a.notifyview))) >>)

DeleteAccess(a, retries) ==
  LET inst == AccessInstance(a)
  IN /\ Plain({a.group, a.context})
     /\ a.seclevel \in DOMAIN SecLevels
     /\ Set(Want("delete", AccessKey(a), NoRow, a), retries,
            << NewVar("accessStatus", inst, Number(RowStatus.destroy)) >>)
-----------------------------------------------------------------------------
(* The agent: VACM tables.                                                 *)

Prefixed(s) == << Len(s) >> \o s
Split(index) ==  \* two strings with their lengths, and what follows
  {<< SubSeq(index, 2, k[1]), SubSeq(index, k[1] + 2, k[2]), SubSeq(index, k[2] + 1, Len(index)) >> :
     k \in (1 .. Len(index) - 1) \X (2 .. Len(index))}

Decode(kind, index) ==
  CASE kind = "sec2Group" ->
         {<< kind, i[1], SubSeq(i, 3, Len(i)) >> :
            i \in {j \in {index} : Len(j) >= 2 /\ j[2] = Len(j) - 2}}
    [] kind = "view" ->
         {<< kind, p[1], p[2] >> :
            p \in {q \in Split(index) : index = Prefixed(q[1]) \o Prefixed(q[2])}}
    [] kind = "access" ->
         {<< kind, p[1], p[2], p[3][1], p[3][2] >> :
            p \in {q \in Split(index) : /\ index = Prefixed(q[1]) \o Prefixed(q[2]) \o q[3]
                                        /\ Len(q[3]) = 2}}

ColumnOf(oid) == {c \in DOMAIN VacmOid : IsPrefix(VacmOid[c], oid)}
KeysOf(oid) ==
  UNION {UNION {Decode(kind, SubSeq(oid, Len(VacmOid[c]) + 1, Len(oid))) :
                  kind \in {k \in DOMAIN Columns : c \in Columns[k]}} : c \in ColumnOf(oid)}

Keys(pdu) == UNION {KeysOf(pdu[i].oid) : i \in DOMAIN pdu}

ValueIn(pdu, c) ==
  LET i == CHOOSE i \in DOMAIN pdu : c \in ColumnOf(pdu[i].oid) IN pdu[i].val

NewRow(pdu, kind) ==
  CASE kind = "sec2Group" -> [groupName |-> ValueIn(pdu, "groupName")]
    [] kind = "view" -> [mask |-> ValueIn(pdu, "viewTreeFamilyMask"),
                         type |-> ValueIn(pdu, "viewTreeFamilyType")]
    [] kind = "access" -> [match |-> ValueIn(pdu, "accessContextMatch"),
                           readView |-> ValueIn(pdu, "accessReadViewName"),
                           writeView |-> ValueIn(pdu, "accessWriteViewName"),
                           notifyView |-> ValueIn(pdu, "accessNotifyViewName")]

(* A SET is carried out as a whole.  The first variable is the row status. *)
Accepted(pdu) ==
  /\ \E key \in Keys(pdu) : Keys(pdu) = {key}
  /\ pdu[1].val = RowStatus.createAndGo => Keys(pdu) \cap DOMAIN table = {}

Process(pdu) ==
  LET key == CHOOSE k \in Keys(pdu) : TRUE
  IN table' = IF ~Accepted(pdu) THEN table
              ELSE IF pdu[1].val = RowStatus.createAndGo
              THEN [k \in DOMAIN table \cup {key} |->
                      IF k = key THEN NewRow(pdu, key[1]) ELSE table[k]]
              ELSE [k \in DOMAIN table \ {key} |-> table[k]]
-----------------------------------------------------------------------------
(* The network, and the library's part in the call.                        *)

(* A request of the current call reaches the agent; its answer may be lost.*)
Arrives(answered) ==
  /\ sent > 0
  /\ Process(call.pdu)
  /\ sent' = sent - 1
  /\ answers' = IF answered
                THEN answers \cup {IF Accepted(call.pdu) THEN "ok" ELSE "refused"}
                ELSE answers
  /\ UNCHANGED <<call, left, late, result>>

RequestLost ==
  /\ sent > 0
  /\ sent' = sent - 1
  /\ UNCHANGED <<table, call, left, answers, late, result>>

(* One of an earlier call does; there may be another behind it.            *)
ArrivesLate(c, last) ==
  /\ Process(c.pdu)
  /\ late' = IF last THEN late \ {c} ELSE late
  /\ UNCHANGED <<call, netVars, result>>

LateLost(c) ==
  /\ late' = late \ {c}
  /\ UNCHANGED <<table, call, netVars, result>>

Repeat ==
  /\ call # None
  /\ call.pdu # << >>
  /\ left > 0
  /\ left' = left - 1
  /\ sent' = sent + 1
  /\ UNCHANGED <<table, call, answers, late, result>>

(* The call returns; requests still under way are then late ones.          *)
Return(r) ==
  /\ call' = None
  /\ result' = r
  /\ late' = IF sent > 0 /\ Cardinality(late) < MaxLate THEN late \cup {call} ELSE late
  /\ sent' = 0
  /\ left' = 0
  /\ answers' = {}
  /\ UNCHANGED table

Answered(r) ==
  /\ call # None
  /\ r \in answers
  /\ Return(r)

TimesOut ==
  /\ call # None
  /\ call.pdu # << >>
  /\ left = 0
  /\ Return("timeout")

(* f_create_vlist's error, before anything was sent.                       *)
NotSent ==
  /\ call # None
  /\ call.pdu = << >>
  /\ Return("refused")
-----------------------------------------------------------------------------
Init ==
  /\ MibInit
  /\ table = << >>
  /\ call = None
  /\ left = 0
  /\ sent = 0
  /\ answers = {}
  /\ late = {}
  /\ result = None

Administer ==
  \/ \E retries \in 0 .. Retries :
       \/ \E a \in SecToGroups : CreateSecToGroup(a, retries) \/ DeleteSecToGroup(a, retries)
       \/ \E a \in Views : CreateView(a, retries) \/ DeleteView(a, retries)
       \/ \E a \in Accesses : CreateAccess(a, retries) \/ DeleteAccess(a, retries)
  \/ \E answered \in BOOLEAN : Arrives(answered)
  \/ RequestLost
  \/ \E c \in late :
       \/ \E last \in BOOLEAN : ArrivesLate(c, last)
       \/ LateLost(c)
  \/ Repeat
  \/ \E r \in {"ok", "refused"} : Answered(r)
  \/ TimesOut
  \/ NotSent

Next ==
  \/ Browse /\ UNCHANGED adminVars
  \/ Administer /\ UNCHANGED mibVars

Spec == Init /\ [][Next]_vars
-----------------------------------------------------------------------------
Asked(c) ==
  [do |-> c.want.do, key |-> c.want.key, row |-> c.want.row, fit |-> c.want.fit,
   single |-> c.retries = 0]

A == INSTANCE Administration WITH
       Key <- Key,
       Row <- Row,
       call <- IF call = None THEN None ELSE Asked(call),
       late <- {Asked(c) : c \in late}

(* The calls and the agent, with the names, indexes, types and masks that  *)
(* pass between them, keep the contract: the agent's tables hold the rows  *)
(* the program meant and no others, under the keys it meant, what returned *)
(* as done was done, and what was refused had a reason it could know.      *)
KeepsAdministration == A!Spec
-----------------------------------------------------------------------------
(* Why it holds.                                                           *)

(* Files are loaded as a whole.                                            *)
TreeWhole == \A o \in DOMAIN tree : \A n \in MibFile[tree[o].module] : n.oid \in DOMAIN tree

(* What is sent for a call: with a fit one its row, with others none.      *)
Carries(c) ==
  /\ c.want \in Wants /\ c.retries \in 0 .. Retries
  /\ c.want.fit => c.pdu # << >>
  /\ c.pdu # << >> => Keys(c.pdu) = IF c.want.fit THEN {c.want.key} ELSE {}
  /\ c.want.fit =>
       IF c.want.do = "create"
       THEN /\ c.pdu[1].val = RowStatus.createAndGo
            /\ NewRow(c.pdu, c.want.key[1]) = c.want.row
       ELSE c.pdu[1].val = RowStatus.destroy

(* A request that is not repeated is over when it is answered.             *)
CallOK ==
  IF call = None THEN sent = 0 /\ answers = {}
  ELSE /\ Carries(call)
       /\ sent \in Nat
       /\ call.pdu = << >> => sent = 0 /\ answers = {}
       /\ call.retries = 0 => left = 0 /\ sent <= 1 /\ (answers # {} => sent = 0)

VacmInv == MibInv /\ TreeWhole /\ CallOK /\ \A c \in late : Carries(c)
=============================================================================
