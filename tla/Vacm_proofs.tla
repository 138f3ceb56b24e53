---------------------------- MODULE Vacm_proofs ----------------------------
(***************************************************************************)
(* The administration of access rights keeps its contract for a careful    *)
(* program: for any MIB files, any arguments of its calls, any limit of    *)
(* the length of an OID and any loss, delay and repetition of requests.    *)
(*                                                                         *)
(* The argument follows an index from the call to the agent: newvar finds  *)
(* the type of the column in the tree, and f_getmibnode the object with as *)
(* much of the index as there is room for; what instance has written can   *)
(* be read in one way only, and not at all when it is cut; the octets of   *)
(* the values are those the program meant.  A call therefore carries       *)
(* (Carries) the row it means or nothing, from the moment it is made until *)
(* the last of its requests is gone.                                       *)
(***************************************************************************)
EXTENDS Mib_proofs

(* FlattenSeq joins one sequence after the other: its recursive function   *)
(* exists, as there is no least length for which it does not.              *)
Entries(s, n, S) == n \in Nat \ {0} /\ Len(s) = n /\ \A i \in 1 .. n : s[i] \in Seq(S)
Joined(g, s, n) == \A i \in 1 .. n : g[i] = IF i = 1 THEN s[i] ELSE g[i-1] \o s[i]

LEMMA FlattenIs ==
  ASSUME NEW n, NEW s, NEW S, Entries(s, n, S)
  PROVE  \E g : FlattenSeq(s) = g[n] /\ Joined(g, s, n)
<1> USE DEF Entries
<1> DEFINE Step(f, i) == IF i = 1 THEN s[i] ELSE f[i-1] \o s[i]
           IsFlat(k, f) == f = [i \in 1 .. k |-> Step(f, i)]
           Bad == {k \in Nat \ {0} : k <= n /\ ~\E f \in [1 .. k -> Seq(S)] : IsFlat(k, f)}
<1>1. ASSUME Bad # {}
      PROVE  FALSE
  <2>1. Bad \in SUBSET Nat
    OBVIOUS
  <2>2. PICK k \in Bad : \A j \in Bad : k <= j
    BY <1>1, <2>1, Least
  <2>3. k \in Nat \ {0} /\ k <= n
    OBVIOUS
  <2>4. CASE k = 1
    <3> DEFINE f == [i \in 1 .. 1 |-> s[i]]
    <3>1. f \in [1 .. k -> Seq(S)]
      BY <2>3, <2>4
    <3>2. IsFlat(k, f)
      BY <2>4
    <3> QED BY <3>1, <3>2
  <2>5. CASE k > 1
    <3>1. k - 1 \in Nat \ {0} /\ k - 1 <= n /\ ~(k <= k - 1)
      BY <2>3, <2>5
    <3>2. k - 1 \notin Bad
      BY <2>2, <3>1
    <3>3. PICK g \in [1 .. k - 1 -> Seq(S)] : IsFlat(k - 1, g)
      BY <3>1, <3>2
    <3> DEFINE f == [i \in 1 .. k |-> Step(g, i)]
    <3>0. \A i \in 1 .. k : f[i] = Step(g, i)
      OBVIOUS
    <3>4. \A i \in 1 .. k - 1 : f[i] = g[i]
      <4> HIDE DEF Step
      <4>1. \A i \in 1 .. k - 1 : g[i] = Step(g, i)
        BY <3>3
      <4> HIDE DEF f
      <4> QED BY <2>3, <3>0, <4>1
    <3>5. f[k] = g[k - 1] \o s[k]
      <4> HIDE DEF f
      <4>1. f[k] = Step(g, k) /\ k # 1
        BY <2>3, <2>5, <3>0
      <4> QED BY <4>1
    <3>6. f[k] \in Seq(S)
      <4>1. g[k - 1] \in Seq(S) /\ s[k] \in Seq(S)
        BY <2>3, <2>5
      <4> QED BY <3>5, <4>1, ConcatProperties
    <3>7. f \in [1 .. k -> Seq(S)]
      <4>1. \A i \in 1 .. k : f[i] \in Seq(S)
        <5> TAKE i \in 1 .. k
        <5>1. i = k \/ i \in 1 .. k - 1
          BY <2>3
        <5> HIDE DEF f
        <5> QED BY <5>1, <3>4, <3>6
      <4> QED BY <4>1
    <3>8. \A i \in 1 .. k : Step(f, i) = Step(g, i)
      <4> TAKE i \in 1 .. k
      <4>1. i = 1 \/ i - 1 \in 1 .. k - 1
        BY <2>3
      <4> HIDE DEF f
      <4> QED BY <4>1, <3>4
    <3>9. IsFlat(k, f)
      BY <3>8
    <3> QED BY <3>7, <3>9, <2>2
  <2> QED BY <2>3, <2>4, <2>5
<1>2. \E f \in [1 .. n -> Seq(S)] : IsFlat(n, f)
  <2>1. n \notin Bad
    BY <1>1
  <2> HIDE DEF IsFlat
  <2> QED BY <2>1
<1> DEFINE g == CHOOSE h : IsFlat(n, h)
<1>3. IsFlat(n, g)
  BY <1>2
<1>4. FlattenSeq(s) = g[n]
  BY DEF FlattenSeq
<1>5. \A i \in 1 .. n : g[i] = Step(g, i)
  <2> HIDE DEF g, Step
  <2> QED BY <1>3
<1>6. Joined(g, s, n)
  <2> HIDE DEF g
  <2> QED BY <1>5 DEF Joined
<1> HIDE DEF g
<1> QED BY <1>4, <1>6

LEMMA Flattened ==
  ASSUME NEW n, NEW s, NEW S, Entries(s, n, S)
  PROVE  FlattenSeq(s) \in Seq(S)
<1> DEFINE Step(f, i) == IF i = 1 THEN s[i] ELSE f[i-1] \o s[i]
<1>4. PICK g : FlattenSeq(s) = g[n] /\ Joined(g, s, n)
  BY FlattenIs
<1>5. \A i \in 1 .. n : g[i] = Step(g, i)
  BY <1>4 DEF Joined
<1> USE DEF Entries
<1> DEFINE Out == {k \in Nat : k \in 1 .. n /\ g[k] \notin Seq(S)}
<1>6. ASSUME Out # {}
      PROVE  FALSE
  <2>1. PICK k \in Out : \A j \in Out : k <= j
    <3>1. Out \in SUBSET Nat
      OBVIOUS
    <3> QED BY <1>6, <3>1, Least
  <2>2. k \in 1 .. n /\ g[k] = Step(g, k) /\ s[k] \in Seq(S)
    BY <1>5
  <2>3. k # 1
    BY <2>1, <2>2
  <2>4. k - 1 \in 1 .. n /\ k - 1 \in Nat /\ ~(k <= k - 1)
    BY <2>2, <2>3
  <2>5. g[k - 1] \in Seq(S)
    BY <2>1, <2>4
  <2>6. g[k] = g[k - 1] \o s[k]
    BY <2>2, <2>3
  <2>7. g[k] \in Seq(S)
    BY <2>2, <2>5, <2>6, ConcatProperties
  <2> QED BY <2>1, <2>7
<1>7. n \in 1 .. n /\ n \in Nat
  OBVIOUS
<1> QED BY <1>4, <1>6, <1>7

LEMMA FlattenTwo ==
  ASSUME NEW s, Len(s) = 2, NEW S, s[1] \in Seq(S), s[2] \in Seq(S)
  PROVE  FlattenSeq(s) = s[1] \o s[2]
<1>1. \A i \in 1 .. 2 : s[i] \in Seq(S)
  <2>1. \A i \in 1 .. 2 : i = 1 \/ i = 2
    OBVIOUS
  <2> QED BY <2>1
<1>0. Entries(s, 2, S)
  BY <1>1 DEF Entries
<1>2. PICK g : FlattenSeq(s) = g[2] /\ Joined(g, s, 2)
  BY <1>0, FlattenIs
<1> USE DEF Joined
<1>3. g[1] = s[1]
  BY <1>2
<1>4. g[2] = g[1] \o s[2]
  <2>1. 2 \in 1 .. 2 /\ 2 # 1 /\ 2 - 1 = 1
    OBVIOUS
  <2> QED BY <1>2, <2>1
<1> QED BY <1>2, <1>3, <1>4

LEMMA FlattenFour ==
  ASSUME NEW s, Len(s) = 4, NEW S,
         s[1] \in Seq(S), s[2] \in Seq(S), s[3] \in Seq(S), s[4] \in Seq(S)
  PROVE  FlattenSeq(s) = ((s[1] \o s[2]) \o s[3]) \o s[4]
<1>1. \A i \in 1 .. 4 : s[i] \in Seq(S)
  <2>1. \A i \in 1 .. 4 : i = 1 \/ i = 2 \/ i = 3 \/ i = 4
    OBVIOUS
  <2> QED BY <2>1
<1>0. Entries(s, 4, S)
  BY <1>1 DEF Entries
<1>2. PICK g : FlattenSeq(s) = g[4] /\ Joined(g, s, 4)
  BY <1>0, FlattenIs
<1> USE DEF Joined
<1>3. g[1] = s[1]
  BY <1>2
<1>4. \A i \in 2 .. 4 : g[i] = g[i - 1] \o s[i]
  <2>1. \A i \in 2 .. 4 : i \in 1 .. 4 /\ i # 1
    OBVIOUS
  <2> QED BY <1>2, <2>1
<1>5. 2 \in 2 .. 4 /\ 3 \in 2 .. 4 /\ 4 \in 2 .. 4 /\ 2 - 1 = 1 /\ 3 - 1 = 2 /\ 4 - 1 = 3
  OBVIOUS
<1>6. g[2] = g[1] \o s[2] /\ g[3] = g[2] \o s[3] /\ g[4] = g[3] \o s[4]
  BY <1>4, <1>5
<1> QED BY <1>2, <1>3, <1>6
-----------------------------------------------------------------------------
(* The objects the calls set.                                              *)

Ints == 0 .. IntMax
Object(c, inst) == VacmOid[c] \o inst

LEMMA IntsAre == Ints \subseteq Nat /\ \A x \in Ints : x <= IntMax
BY WidthAssumption DEF Ints

LEMMA SeqOfInts ==
  ASSUME NEW s \in Seq(Ints)
  PROVE  s \in Seq(Nat) /\ Len(s) \in Nat /\ \A i \in 1 .. Len(s) : s[i] \in Ints
<1>1. \A i \in 1 .. Len(s) : s[i] \in Ints
  OBVIOUS
<1>2. s = [i \in 1 .. Len(s) |-> s[i]] /\ Len(s) \in Nat
  OBVIOUS
<1>3. [i \in 1 .. Len(s) |-> s[i]] \in Seq(Nat)
  BY <1>1, <1>2, IntsAre
<1> QED BY <1>1, <1>2, <1>3

LEMMA ColumnIs ==
  ASSUME NEW t \in DOMAIN Columns, NEW c \in Columns[t]
  PROVE  /\ c \in DOMAIN VacmOid
         /\ VacmOid[c] \in Seq(Ints) /\ VacmOid[c] \in Seq(Nat) /\ Len(VacmOid[c]) \in Nat \ {0}
<1>1. c \in DOMAIN VacmOid
  BY VacmAssumption
<1>2. VacmOid[c] \in Seq(Ints) /\ VacmOid[c] # <<>>
  BY ColumnsAssumption DEF Ints
<1> QED BY <1>1, <1>2, SeqOfInts, EmptySeq

LEMMA ObjectIs ==
  ASSUME NEW t \in DOMAIN Columns, NEW c \in Columns[t], NEW inst \in Seq(Ints)
  PROVE  /\ Object(c, inst) \in Seq(Nat) /\ Object(c, inst) # <<>>
         /\ Len(Object(c, inst)) = Len(VacmOid[c]) + Len(inst) /\ Len(inst) \in Nat
         /\ \A i \in 1 .. Len(Object(c, inst)) : Object(c, inst)[i] <= IntMax
         /\ \A i \in 1 .. Len(VacmOid[c]) : Object(c, inst)[i] = VacmOid[c][i]
         /\ \A i \in 1 .. Len(inst) : Object(c, inst)[Len(VacmOid[c]) + i] = inst[i]
<1> DEFINE col == VacmOid[c]
           o == Object(c, inst)
<1>1. col \in Seq(Ints) /\ Len(col) \in Nat \ {0} /\ Len(inst) \in Nat
  BY ColumnIs
<1>2. /\ o \in Seq(Ints) /\ Len(o) = Len(col) + Len(inst)
      /\ \A i \in 1 .. Len(col) + Len(inst) :
           o[i] = IF i <= Len(col) THEN col[i] ELSE inst[i - Len(col)]
  <2> HIDE DEF col
  <2>1. o = col \o inst
    BY DEF Object, col
  <2> HIDE DEF o
  <2> QED BY <1>1, <2>1, ConcatProperties
<1> HIDE DEF col, o
<1>3. o \in Seq(Nat) /\ o # <<>> /\ \A i \in 1 .. Len(o) : o[i] <= IntMax
  BY <1>1, <1>2, SeqOfInts, IntsAre, EmptySeq, SMTT(40)
<1>4. \A i \in 1 .. Len(inst) : o[Len(col) + i] = inst[i]
  <2> TAKE i \in 1 .. Len(inst)
  <2>1. Len(col) + i \in 1 .. Len(col) + Len(inst) /\ ~(Len(col) + i <= Len(col))
        /\ Len(col) + i - Len(col) = i
    BY <1>1
  <2> QED BY <1>2, <2>1
<1>5. \A i \in 1 .. Len(col) : o[i] = col[i]
  BY <1>1, <1>2
<1> QED BY <1>1, <1>2, <1>3, <1>4, <1>5 DEF col, o

(* An OID leads from the root.                                             *)
LEMMA OidLeads ==
  ASSUME NEW oid \in Seq(Nat) \ {<<>>}
  PROVE  /\ NumText(oid).parts \in Seq({<<"num", n>> : n \in Nat})
         /\ Leads(<<>>, NumText(oid).parts, oid, 0)
         /\ GetMibNode(NumText(oid)) = {r \in Follow(<<>>, NumText(oid).parts) : r.known > 0}
<1> DEFINE parts == NumText(oid).parts
           P == {<<"num", n>> : n \in Nat}
<1>1. Len(oid) \in Nat /\ Len(oid) > 0 /\ Len(<<>>) = 0
  BY OidTypes, EmptySeq
<1>2. parts = [i \in 1 .. Len(oid) |-> <<"num", oid[i]>>]
  BY OidTypes DEF NumText
<1>3. parts \in Seq(P) /\ Len(parts) = Len(oid)
  <2>1. \A i \in 1 .. Len(oid) : <<"num", oid[i]>> \in P
    BY OidTypes
  <2> HIDE DEF P
  <2> QED BY <1>1, <1>2, <2>1
<1>4. \A i \in 1 .. Len(oid) : parts[i] = <<"num", oid[i]>>
  BY <1>2
<1> HIDE DEF parts
<1>5. parts # <<>> /\ IsNum(Head(parts))
  <2>1. parts # <<>>
    BY <1>1, <1>3, EmptySeq
  <2>2. Head(parts) = parts[1]
    BY <1>3, <2>1
  <2>3. parts[1] = <<"num", oid[1]>> /\ oid[1] \in Nat
    BY <1>1, <1>4, OidTypes
  <2> QED BY <2>1, <2>2, <2>3 DEF IsNum
<1>6. Leads(<<>>, parts, oid, 0)
  <2>1. \A k \in 0 + 1 .. Len(oid) : parts[k - Len(<<>>)] = <<"num", oid[k]>>
    BY <1>1, <1>4
  <2> QED BY <1>1, <1>3, <2>1 DEF Leads
<1>7. GetMibNode(NumText(oid)) = {r \in Follow(<<>>, parts) : r.known > 0}
  BY <1>5, GetMibNodeIs DEF parts
<1> QED BY <1>3, <1>6, <1>7 DEF parts

(* Nothing lies below a column, and no object above one.                   *)
LEMMA Leaves ==
  ASSUME TreeOK, NEW t \in DOMAIN Columns, NEW c \in Columns[t], NEW n \in DOMAIN tree
  PROVE  /\ IsPrefix(VacmOid[c], n) => n = VacmOid[c] /\ tree[n].type = ColumnType(c)
         /\ IsPrefix(n, VacmOid[c]) /\ n # VacmOid[c] =>
              tree[n].type \notin {"INTEGER", "OCTETSTR"}
<1>1. PICK f \in DOMAIN MibFile : \E m \in MibFile[f] :
        m.oid = n /\ tree[n] = [label |-> m.label, type |-> m.type, module |-> f]
  BY DEF TreeOK
<1>2. PICK m \in MibFile[f] :
        m.oid = n /\ tree[n] = [label |-> m.label, type |-> m.type, module |-> f]
  BY <1>1
<1>3. tree[n].type = m.type
  BY <1>2
<1>4. /\ IsPrefix(VacmOid[c], m.oid) => m.oid = VacmOid[c] /\ m.type = ColumnType(c)
      /\ IsPrefix(m.oid, VacmOid[c]) /\ m.oid # VacmOid[c] => m.type \notin {"INTEGER", "OCTETSTR"}
  BY ColumnsAssumption
<1> QED BY <1>2, <1>3, <1>4

(* The node an object leads to.                                            *)
LEMMA ObjectNode ==
  ASSUME TreeOK, NEW t \in DOMAIN Columns, NEW c \in Columns[t], NEW inst \in Seq(Ints),
         NEW node, node = Deepest(<<>>, NumText(Object(c, inst)).parts)
  PROVE  IF VacmOid[c] \in DOMAIN tree THEN node = VacmOid[c]
         ELSE \/ node = <<>>
              \/ /\ node \in DOMAIN tree
                 /\ IsPrefix(node, VacmOid[c]) /\ node # VacmOid[c]
<1> DEFINE col == VacmOid[c]
           oid == Object(c, inst)
           parts == NumText(oid).parts
           P == {<<"num", n>> : n \in Nat}
<1>1. /\ oid \in Seq(Nat) \ {<<>>} /\ Len(oid) \in Nat /\ Len(oid) >= Len(col)
      /\ \A i \in 1 .. Len(col) : oid[i] = col[i]
      /\ col \in Seq(Nat) /\ Len(col) \in Nat \ {0}
  BY ObjectIs, ColumnIs, SMTT(40)
<1> HIDE DEF oid, col
<1>2. Start(<<>>) /\ Len(<<>>) = 0 /\ <<>> \in Seq(Nat)
  BY DEF Start
<1>3. parts \in Seq(P) /\ Leads(<<>>, parts, oid, 0)
  BY <1>1, OidLeads
<1>4. /\ Len(parts) = Len(oid)
      /\ \A k \in 1 .. Len(oid) : parts[k] = <<"num", oid[k]>>
  <2> HIDE DEF parts
  <2>1. /\ Len(parts) = Len(oid) - 0
        /\ \A k \in 0 + 1 .. Len(oid) : parts[k - 0] = <<"num", oid[k]>>
    BY <1>2, <1>3 DEF Leads
  <2>2. \A k \in Int : k - 0 = k
    OBVIOUS
  <2> QED BY <1>1, <2>1, <2>2
<1> HIDE DEF parts, P
<1>5. node = Deepest(<<>>, parts)
  BY DEF parts, oid
<1>6. /\ node \in Reached(<<>>, parts)
      /\ \A m \in Reached(<<>>, parts) : Len(m) <= Len(node)
  BY <1>2, <1>3, <1>5, DeepestIs
<1>7. /\ node \in Seq(Nat) /\ Len(node) \in Nat /\ (node # <<>> => node \in DOMAIN tree)
      /\ Len(node) <= Len(oid) /\ \A i \in 1 .. Len(node) : node[i] = oid[i]
  BY <1>1, <1>2, <1>3, <1>6, ReachedTypes, OneWay, SMTT(40)
<1>8. ASSUME Len(node) >= Len(col)
      PROVE  node = col /\ node \in DOMAIN tree
  <2>1. IsPrefix(col, node)
    <3>1. Len(col) <= Len(node) /\ \A i \in 1 .. Len(col) : col[i] = node[i]
      BY <1>1, <1>7, <1>8
    <3> QED BY <1>1, <1>7, <3>1, PrefixIs
  <2>2. node \in DOMAIN tree
    BY <1>1, <1>7, <1>8, EmptySeq
  <2> QED BY <2>1, <2>2, Leaves DEF col
<1>9. ASSUME Len(node) < Len(col), node # <<>>
      PROVE  node \in DOMAIN tree /\ IsPrefix(node, col) /\ node # col
  <2>1. Len(node) <= Len(col) /\ \A i \in 1 .. Len(node) : node[i] = col[i]
    BY <1>1, <1>7, <1>9, SMTT(40)
  <2>2. IsPrefix(node, col)
    BY <1>1, <1>7, <2>1, PrefixIs
  <2> QED BY <1>1, <1>7, <1>9, <2>2
<1>10. ASSUME col \in DOMAIN tree
       PROVE  col \in Reached(<<>>, parts)
  <2>1. IsPrefix(<<>>, col)
    <3>1. Len(<<>>) <= Len(col) /\ \A i \in 1 .. Len(<<>>) : <<>>[i] = col[i]
      BY <1>1, <1>2
    <3> QED BY <1>1, <1>2, <3>1, PrefixIs
  <2>2. ASSUME NEW i \in Len(<<>>) + 1 .. Len(col)
        PROVE  SubSeq(col, 1, i) \in DOMAIN tree
               /\ Matches(SubSeq(col, 1, i), parts[i - Len(<<>>)])
    <3>1. i \in 1 .. Len(col) /\ i - Len(<<>>) = i /\ i \in 1 .. Len(oid) /\ i \in 0 .. Len(col)
      BY <1>1, <1>2
    <3>2. SubSeq(col, 1, i) \in DOMAIN tree
      BY <1>10, <3>1, PrefixInTree
    <3>3. parts[i] = <<"num", col[i]>> /\ col[i] \in Nat
      BY <1>1, <1>4, <3>1, OidTypes
    <3>4. IsNum(parts[i]) /\ parts[i][2] = col[i]
      BY <3>3 DEF IsNum
    <3>5. Last(SubSeq(col, 1, i)) = col[i]
      <4>1. Len(SubSeq(col, 1, i)) = i /\ SubSeq(col, 1, i)[i] = col[i]
        BY <1>1, <3>1, Prefix
      <4> QED BY <4>1 DEF Last
    <3> QED BY <3>1, <3>2, <3>4, <3>5 DEF Matches
  <2>3. Len(col) <= Len(<<>>) + Len(parts)
    BY <1>1, <1>2, <1>4
  <2> QED BY <1>10, <2>1, <2>2, <2>3 DEF Reached
<1>11. CASE col \in DOMAIN tree
  <2>1. Len(col) <= Len(node)
    BY <1>6, <1>10, <1>11
  <2> QED BY <1>1, <1>7, <1>8, <1>11, <2>1 DEF col
<1>12. CASE col \notin DOMAIN tree
  BY <1>1, <1>7, <1>8, <1>9, <1>12 DEF col
<1> QED BY <1>11, <1>12 DEF col

LEMMA CutAt ==
  ASSUME NEW n \in Seq(Nat), NEW oid \in Seq(Nat), IsPrefix(n, oid), Len(n) <= NMAX_SUBID
  PROVE  SubSeq(Cut(oid), 1, Len(n)) = n
<1>1. Len(n) \in Nat /\ Len(n) <= Len(oid) /\ \A i \in 1 .. Len(n) : n[i] = oid[i]
  BY PrefixIs, OidTypes
<1>2. /\ Cut(oid) \in Seq(Nat) /\ Len(Cut(oid)) \in Nat
      /\ Len(Cut(oid)) = Len(oid) \/ Len(Cut(oid)) = NMAX_SUBID
      /\ \A i \in 1 .. Len(Cut(oid)) : Cut(oid)[i] = oid[i]
  BY CutIs, OidTypes
<1>3. Len(n) <= Len(Cut(oid)) /\ \A i \in 1 .. Len(n) : n[i] = Cut(oid)[i]
  BY <1>1, <1>2
<1>4. SubSeq(n, 1, Len(n)) = SubSeq(Cut(oid), 1, Len(n))
  BY <1>1, <1>2, <1>3, SamePrefix
<1>5. SubSeq(n, 1, Len(n)) = n
  <2>1. Len(n) \in 0 .. Len(n)
    BY <1>1
  <2>2. /\ SubSeq(n, 1, Len(n)) \in Seq(Nat) /\ Len(SubSeq(n, 1, Len(n))) = Len(n)
        /\ \A i \in 1 .. Len(n) : SubSeq(n, 1, Len(n))[i] = n[i]
    BY <2>1, Prefix
  <2> QED BY <2>2, SeqEqual
<1> QED BY <1>4, <1>5

LEMMA TypesOf ==
  ASSUME NEW text, NEW r, GetMibNode(text) = {r}
  PROVE  MibType(text) = {tree[SubSeq(r.oid, 1, r.known)].type}
<1>1. MibType(text) = {tree[SubSeq(q.oid, 1, q.known)].type : q \in {r}}
  BY DEF MibType
<1> QED BY <1>1

(* What f_getmibnode makes of an object's OID, and what newvar of its type.*)
LEMMA ObjectFound ==
  ASSUME TreeOK, NEW t \in DOMAIN Columns, NEW c \in Columns[t], NEW inst \in Seq(Ints),
         NEW oid, oid = Object(c, inst)
  PROVE  /\ VacmOid[c] \notin DOMAIN tree =>
              "INTEGER" \notin MibType(NumText(oid)) /\ "OCTETSTR" \notin MibType(NumText(oid))
         /\ VacmOid[c] \in DOMAIN tree /\ ~(inst = <<>> \/ Len(VacmOid[c]) < NMAX_SUBID) =>
              GetMibNode(NumText(oid)) = {}
         /\ VacmOid[c] \in DOMAIN tree /\ (inst = <<>> \/ Len(VacmOid[c]) < NMAX_SUBID) =>
              /\ GetMibNode(NumText(oid)) = {[oid |-> Cut(oid), known |-> Len(VacmOid[c])]}
              /\ MibType(NumText(oid)) = {ColumnType(c)}
<1> DEFINE col == VacmOid[c]
           parts == NumText(oid).parts
           P == {<<"num", n>> : n \in Nat}
           node == Deepest(<<>>, parts)
<1>1. /\ oid \in Seq(Nat) \ {<<>>} /\ Len(oid) \in Nat /\ Len(oid) = Len(col) + Len(inst)
      /\ \A i \in 1 .. Len(oid) : oid[i] <= IntMax
      /\ \A i \in 1 .. Len(col) : oid[i] = col[i]
      /\ col \in Seq(Nat) /\ Len(col) \in Nat \ {0} /\ Len(inst) \in Nat
  <2>1. /\ Object(c, inst) \in Seq(Nat) /\ Object(c, inst) # <<>>
        /\ Len(Object(c, inst)) = Len(col) + Len(inst) /\ Len(inst) \in Nat
        /\ \A i \in 1 .. Len(Object(c, inst)) : Object(c, inst)[i] <= IntMax
        /\ \A i \in 1 .. Len(col) : Object(c, inst)[i] = col[i]
    BY ObjectIs
  <2>2. col \in Seq(Nat) /\ Len(col) \in Nat \ {0}
    BY ColumnIs
  <2> HIDE DEF col
  <2> QED BY <2>1, <2>2
<1>2. inst = <<>> <=> Len(inst) = 0
  BY EmptySeq
<1>3. IF col \in DOMAIN tree THEN node = col
      ELSE node = <<>> \/ (node \in DOMAIN tree /\ IsPrefix(node, col) /\ node # col)
  BY ObjectNode
<1>4. /\ parts \in Seq(P) /\ Leads(<<>>, parts, oid, 0)
      /\ GetMibNode(NumText(oid)) = {r \in Follow(<<>>, parts) : r.known > 0}
  BY <1>1, OidLeads
<1>5. Start(<<>>)
  BY DEF Start
<1> HIDE DEF parts, P
<1>6. Follow(<<>>, parts) =
        IF Len(node) = Len(oid) \/ Len(node) < NMAX_SUBID
        THEN {[oid |-> Cut(oid), known |-> Len(node)]} ELSE {}
  BY <1>1, <1>4, <1>5, WayGoes
<1> DEFINE r == [oid |-> Cut(oid), known |-> Len(node)]
<1>7. r.known = Len(node) /\ r.oid = Cut(oid)
  OBVIOUS
<1>8. GetMibNode(NumText(oid)) =
        IF (Len(node) = Len(oid) \/ Len(node) < NMAX_SUBID) /\ Len(node) > 0
        THEN {r} ELSE {}
  <2>1. GetMibNode(NumText(oid)) =
          {q \in IF Len(node) = Len(oid) \/ Len(node) < NMAX_SUBID THEN {r} ELSE {} : q.known > 0}
    BY <1>4, <1>6
  <2> HIDE DEF r, node
  <2> QED BY <1>7, <2>1
<1> HIDE DEF node, r
<1>9. ASSUME col \notin DOMAIN tree
      PROVE  "INTEGER" \notin MibType(NumText(oid)) /\ "OCTETSTR" \notin MibType(NumText(oid))
  <2>1. CASE GetMibNode(NumText(oid)) = {}
    <3>1. MibType(NumText(oid)) = {}
      BY <2>1 DEF MibType
    <3> QED BY <3>1
  <2>2. CASE GetMibNode(NumText(oid)) # {}
    <3>1. GetMibNode(NumText(oid)) = {r} /\ Len(node) > 0
      BY <1>8, <2>2
    <3>2. node # <<>>
      BY <3>1
    <3>3. node \in DOMAIN tree /\ IsPrefix(node, col) /\ node # col
      BY <1>3, <1>9, <3>2
    <3>4. node \in Seq(Nat) /\ Len(node) \in Nat /\ Len(node) <= NMAX_SUBID
      <4>1. NMAX_SUBID \in Nat
        BY MibAssumption
      <4> QED BY <3>3, <4>1, NodeTypes
    <3>5. IsPrefix(node, oid)
      <4>1. Len(node) <= Len(col) /\ \A i \in 1 .. Len(node) : node[i] = col[i]
        BY <1>1, <3>3, <3>4, PrefixIs
      <4>2. Len(node) <= Len(oid)
        <5> HIDE DEF col
        <5> QED BY <1>1, <3>4, <4>1
      <4>3. \A i \in 1 .. Len(node) : node[i] = oid[i]
        <5> TAKE i \in 1 .. Len(node)
        <5>1. i \in 1 .. Len(col)
          <6> HIDE DEF col
          <6> QED BY <1>1, <3>4, <4>1
        <5> QED BY <1>1, <4>1, <5>1
      <4> QED BY <1>1, <3>4, <4>2, <4>3, PrefixIs
    <3>6. SubSeq(Cut(oid), 1, Len(node)) = node
      BY <1>1, <3>4, <3>5, CutAt
    <3>7. MibType(NumText(oid)) = {tree[node].type}
      <4>1. MibType(NumText(oid)) = {tree[SubSeq(r.oid, 1, r.known)].type}
        BY <3>1, TypesOf
      <4> QED BY <1>7, <3>6, <4>1
    <3>8. tree[node].type \notin {"INTEGER", "OCTETSTR"}
      BY <3>3, Leaves DEF col
    <3> QED BY <3>7, <3>8
  <2> QED BY <2>1, <2>2
<1>10. ASSUME col \in DOMAIN tree, ~(inst = <<>> \/ Len(col) < NMAX_SUBID)
       PROVE  GetMibNode(NumText(oid)) = {}
  <2>1. node = col
    BY <1>3, <1>10
  <2> QED BY <1>1, <1>2, <1>8, <1>10, <2>1
<1>11. ASSUME col \in DOMAIN tree, inst = <<>> \/ Len(col) < NMAX_SUBID
       PROVE  /\ GetMibNode(NumText(oid)) = {[oid |-> Cut(oid), known |-> Len(col)]}
              /\ MibType(NumText(oid)) = {ColumnType(c)}
  <2>1. node = col
    BY <1>3, <1>11
  <2>2. GetMibNode(NumText(oid)) = {r}
    <3>1. (Len(node) = Len(oid) \/ Len(node) < NMAX_SUBID) /\ Len(node) > 0
      <4>1. Len(node) = Len(col)
        BY <2>1
      <4>2. inst = <<>> => Len(oid) = Len(col)
        BY <1>1, <1>2
      <4>3. Len(col) > 0
        BY <1>1
      <4>4. inst = <<>> \/ Len(col) < NMAX_SUBID
        BY <1>11
      <4> HIDE DEF col
      <4> QED BY <4>1, <4>2, <4>3, <4>4
    <3> QED BY <1>8, <3>1
  <2>3. IsPrefix(col, oid) /\ IsPrefix(col, col)
    <3> HIDE DEF col
    <3>1. Len(col) <= Len(oid) /\ Len(col) <= Len(col)
      BY <1>1
    <3> QED BY <1>1, <3>1, PrefixIs
  <2>4. Len(col) <= NMAX_SUBID
    <3>1. NMAX_SUBID \in Nat
      BY MibAssumption
    <3> QED BY <1>11, <3>1, NodeTypes
  <2>5. SubSeq(Cut(oid), 1, Len(col)) = col
    BY <1>1, <2>3, <2>4, CutAt
  <2>6. MibType(NumText(oid)) = {tree[col].type}
    <3>1. MibType(NumText(oid)) = {tree[SubSeq(r.oid, 1, r.known)].type}
      BY <2>2, TypesOf
    <3> QED BY <1>7, <2>1, <2>5, <3>1
  <2>7. tree[col].type = ColumnType(c)
    BY <1>11, <2>3, Leaves DEF col
  <2> QED BY <2>1, <2>2, <2>6, <2>7 DEF r
<1> QED BY <1>9, <1>10, <1>11 DEF col
-----------------------------------------------------------------------------
(* The variables that are sent.                                            *)

(* Whether a value can be sent for a column, and the octets or number then.*)
Suits(c, x) == IF c \in Integer THEN x.t = "number" ELSE x.t = "string"
Content(c, x) == IF c \in Integer THEN x.v ELSE ToOctets(x.v)

(* Whether objects with an instance can be named at all.                   *)
Nameable(c, inst) == VacmOid[c] \in DOMAIN tree /\ (inst = <<>> \/ Len(VacmOid[c]) < NMAX_SUBID)

ValuesFor(type, x) ==
  CASE type = "INTEGER" /\ x.t = "number" -> {x.v}
    [] type = "OCTETSTR" /\ x.t = "string" -> {ToOctets(x.v)}
    [] OTHER -> {}

LEMMA ValuesAre ==
  ASSUME NEW x
  PROVE  /\ \A c : ValuesFor(ColumnType(c), x) = IF Suits(c, x) THEN {Content(c, x)} ELSE {}
         /\ \A type : type # "INTEGER" /\ type # "OCTETSTR" => ValuesFor(type, x) = {}
<1>1. ASSUME NEW c
      PROVE  ValuesFor(ColumnType(c), x) = IF Suits(c, x) THEN {Content(c, x)} ELSE {}
  <2>1. CASE c \in Integer
    BY <2>1 DEF ValuesFor, ColumnType, Suits, Content
  <2>2. CASE c \notin Integer
    BY <2>2 DEF ValuesFor, ColumnType, Suits, Content
  <2> QED BY <2>1, <2>2
<1>2. ASSUME NEW type, type # "INTEGER" /\ type # "OCTETSTR"
      PROVE  ValuesFor(type, x) = {}
  BY <1>2 DEF ValuesFor
<1> QED BY <1>1, <1>2

LEMMA Created ==
  ASSUME TreeOK, NEW t \in DOMAIN Columns, NEW c \in Columns[t], NEW inst \in Seq(Ints), NEW x
  PROVE  CreateVlist(NewVar(c, inst, x)) =
           IF Nameable(c, inst) /\ Suits(c, x)
           THEN {[oid |-> Cut(Object(c, inst)), val |-> Content(c, x)]} ELSE {}
<1> DEFINE oid == Object(c, inst)
           types == MibType(NumText(oid))
           vals == UNION {ValuesFor(type, x) : type \in types}
           vb == NewVar(c, inst, x)
<1>1. vb.oid = oid /\ vb.types = types /\ vb.value = x
  BY DEF NewVar, Object
<1> HIDE DEF vb
<1>2. CreateVlist(vb) =
        UNION {{[oid |-> r.oid, val |-> v] : v \in vals} : r \in GetMibNode(NumText(oid))}
  BY <1>1 DEF CreateVlist, ValuesFor
<1>3. CASE VacmOid[c] \notin DOMAIN tree
  <2>1. \A type \in types : ValuesFor(type, x) = {}
    BY <1>3, ObjectFound, ValuesAre
  <2>2. vals = {}
    BY <2>1
  <2> HIDE DEF vals
  <2>3. CreateVlist(vb) = {}
    BY <1>2, <2>2
  <2> QED BY <1>3, <2>3 DEF Nameable, vb
<1>4. CASE VacmOid[c] \in DOMAIN tree /\ ~(inst = <<>> \/ Len(VacmOid[c]) < NMAX_SUBID)
  <2>1. GetMibNode(NumText(oid)) = {}
    BY <1>4, ObjectFound
  <2> HIDE DEF vals
  <2>2. CreateVlist(vb) = {}
    BY <1>2, <2>1
  <2> QED BY <1>4, <2>2 DEF Nameable, vb
<1>5. CASE VacmOid[c] \in DOMAIN tree /\ (inst = <<>> \/ Len(VacmOid[c]) < NMAX_SUBID)
  <2> DEFINE r == [oid |-> Cut(oid), known |-> Len(VacmOid[c])]
  <2>1. GetMibNode(NumText(oid)) = {r} /\ types = {ColumnType(c)}
    BY <1>5, ObjectFound
  <2>2. r.oid = Cut(oid)
    OBVIOUS
  <2>3. vals = ValuesFor(ColumnType(c), x)
    <3> HIDE DEF types
    <3> QED BY <2>1
  <2>4. vals = IF Suits(c, x) THEN {Content(c, x)} ELSE {}
    BY <2>3, ValuesAre
  <2> HIDE DEF vals, r
  <2>5. CreateVlist(vb) = {[oid |-> Cut(oid), val |-> v] : v \in vals}
    BY <1>2, <2>1, <2>2
  <2>6. CASE Suits(c, x)
    <3>1. CreateVlist(vb) = {[oid |-> Cut(oid), val |-> Content(c, x)]}
      BY <2>4, <2>5, <2>6
    <3> QED BY <1>5, <2>6, <3>1 DEF Nameable, vb
  <2>7. CASE ~Suits(c, x)
    <3>1. CreateVlist(vb) = {}
      BY <2>4, <2>5, <2>7
    <3> QED BY <1>5, <2>7, <3>1 DEF Nameable, vb
  <2> QED BY <2>6, <2>7
<1> QED BY <1>3, <1>4, <1>5
-----------------------------------------------------------------------------
(* What the agent reads in an object's OID.                                *)

(* The part of the index there is room for.                                *)
Room(c, inst) ==
  IF Len(Object(c, inst)) <= NMAX_SUBID THEN Len(inst) ELSE NMAX_SUBID - Len(VacmOid[c])
Index(c, inst) == SubSeq(inst, 1, Room(c, inst))

LEMMA RoomIs ==
  ASSUME TreeOK, NEW t \in DOMAIN Columns, NEW c \in Columns[t], NEW inst \in Seq(Ints),
         Nameable(c, inst)
  PROVE  /\ Room(c, inst) \in 0 .. Len(inst)
         /\ Room(c, inst) = Len(inst) <=> Len(VacmOid[c]) + Len(inst) <= NMAX_SUBID
         /\ Len(Cut(Object(c, inst))) = Len(VacmOid[c]) + Room(c, inst)
         /\ Len(VacmOid[c]) <= NMAX_SUBID
<1> DEFINE n == Len(VacmOid[c])
           k == Len(inst)
           o == Object(c, inst)
<1>1. Len(o) = n + k /\ k \in Nat /\ n \in Nat /\ o \in Seq(Nat)
  BY ObjectIs, ColumnIs
<1>2. NMAX_SUBID \in Nat /\ n <= NMAX_SUBID
  BY MibAssumption, NodeTypes DEF Nameable
<1>3. Len(Cut(o)) <= NMAX_SUBID /\ (Len(Cut(o)) = Len(o) \/ Len(Cut(o)) = NMAX_SUBID)
  BY <1>1, CutIs
<1>4. Len(o) <= NMAX_SUBID => Cut(o) = o
  BY <1>1, CutIs
<1>5. Room(c, inst) = IF Len(o) <= NMAX_SUBID THEN k ELSE NMAX_SUBID - n
  BY DEF Room
<1>6. Len(Cut(o)) \in Nat /\ Len(Cut(o)) <= Len(o)
  BY <1>1, CutIs, OidTypes
<1> HIDE DEF n, k, o
<1>7. /\ Room(c, inst) \in 0 .. k
      /\ Room(c, inst) = k <=> n + k <= NMAX_SUBID
      /\ Len(Cut(o)) = n + Room(c, inst)
  BY <1>1, <1>2, <1>3, <1>4, <1>5, <1>6
<1> QED BY <1>2, <1>7 DEF n, k, o

LEMMA PrefixesOfOne ==
  ASSUME NEW o \in Seq(Nat), NEW p \in Seq(Nat), NEW q \in Seq(Nat),
         IsPrefix(o, q), IsPrefix(p, q), Len(o) <= Len(p)
  PROVE  IsPrefix(o, p)
<1>1. Len(o) <= Len(q) /\ \A i \in 1 .. Len(o) : o[i] = q[i]
  BY PrefixIs
<1>2. Len(p) <= Len(q) /\ \A i \in 1 .. Len(p) : p[i] = q[i]
  BY PrefixIs
<1>3. \A i \in 1 .. Len(o) : i \in 1 .. Len(p)
  BY OidTypes
<1>4. Len(o) <= Len(p) /\ \A i \in 1 .. Len(o) : o[i] = p[i]
  BY <1>1, <1>2, <1>3
<1> QED BY <1>4, PrefixIs

(* The column an object belongs to.                                        *)
LEMMA ColumnOfObject ==
  ASSUME TreeOK, NEW t \in DOMAIN Columns, NEW c \in Columns[t], NEW inst \in Seq(Ints),
         Nameable(c, inst)
  PROVE  ColumnOf(Cut(Object(c, inst))) = {c}
<1> DEFINE o == Object(c, inst)
           col == VacmOid[c]
<1>1. /\ o \in Seq(Nat) /\ Len(o) = Len(col) + Len(inst) /\ Len(inst) \in Nat
      /\ \A i \in 1 .. Len(col) : o[i] = col[i]
      /\ c \in DOMAIN VacmOid /\ col \in Seq(Nat) /\ Len(col) \in Nat
  BY ObjectIs, ColumnIs
<1>2. /\ Cut(o) \in Seq(Nat) /\ \A i \in 1 .. Len(Cut(o)) : Cut(o)[i] = o[i]
  BY <1>1, CutIs
<1>3. Room(c, inst) \in Nat /\ Len(Cut(o)) = Len(col) + Room(c, inst)
  BY RoomIs, <1>1
<1>4. IsPrefix(col, Cut(o))
  <2> HIDE DEF o, col
  <2>1. \A i \in 1 .. Len(col) : i \in 1 .. Len(Cut(o))
    BY <1>1, <1>3
  <2>2. Len(col) <= Len(Cut(o)) /\ \A i \in 1 .. Len(col) : col[i] = Cut(o)[i]
    BY <1>1, <1>2, <1>3, <2>1
  <2> QED BY <1>1, <1>2, <2>2, PrefixIs
<1>5. ASSUME NEW d \in DOMAIN VacmOid, IsPrefix(VacmOid[d], Cut(o))
      PROVE  d = c
  <2>1. PICK u \in DOMAIN Columns : d \in Columns[u]
    BY VacmAssumption
  <2>2. VacmOid[d] \in Seq(Nat) /\ Len(VacmOid[d]) \in Nat
    BY <2>1, ColumnIs
  <2>3. CASE Len(VacmOid[d]) <= Len(col)
    <3>1. IsPrefix(VacmOid[d], col)
      BY <1>1, <1>2, <1>4, <1>5, <2>2, <2>3, PrefixesOfOne
    <3> QED BY <1>1, <2>1, <3>1, ColumnsAssumption
  <2>4. CASE Len(col) <= Len(VacmOid[d])
    <3>1. IsPrefix(col, VacmOid[d])
      BY <1>1, <1>2, <1>4, <1>5, <2>2, <2>4, PrefixesOfOne
    <3> QED BY <1>5, <3>1, ColumnsAssumption
  <2> HIDE DEF col
  <2> QED BY <1>1, <2>2, <2>3, <2>4
<1> HIDE DEF o
<1>6. ColumnOf(Cut(o)) = {d \in DOMAIN VacmOid : IsPrefix(VacmOid[d], Cut(o))}
  BY DEF ColumnOf
<1> QED BY <1>1, <1>4, <1>5, <1>6 DEF o

LEMMA TableOf ==
  ASSUME NEW t \in DOMAIN Columns, NEW c \in Columns[t]
  PROVE  {k \in DOMAIN Columns : c \in Columns[k]} = {t}
BY DEF Columns

(* The keys in its index.                                                  *)
LEMMA KeysOfObject ==
  ASSUME TreeOK, NEW t \in DOMAIN Columns, NEW c \in Columns[t], NEW inst \in Seq(Ints),
         Nameable(c, inst)
  PROVE  KeysOf(Cut(Object(c, inst))) = Decode(t, Index(c, inst))
<1> DEFINE o == Object(c, inst)
           col == VacmOid[c]
           p == Cut(o)
           rest == SubSeq(p, Len(col) + 1, Len(p))
           m == Room(c, inst)
<1>1. KeysOf(p) = Decode(t, rest)
  <2>1. ColumnOf(p) = {c}
    BY ColumnOfObject
  <2>2. {k \in DOMAIN Columns : c \in Columns[k]} = {t}
    BY TableOf
  <2> DEFINE K(d) == UNION {Decode(kind, SubSeq(p, Len(VacmOid[d]) + 1, Len(p))) :
                              kind \in {k \in DOMAIN Columns : d \in Columns[k]}}
  <2>3. KeysOf(p) = UNION {K(d) : d \in ColumnOf(p)}
    BY DEF KeysOf
  <2>4. K(c) = Decode(t, rest)
    <3> HIDE DEF p, rest
    <3>1. K(c) = UNION {Decode(kind, SubSeq(p, Len(VacmOid[c]) + 1, Len(p))) : kind \in {t}}
      BY <2>2
    <3> QED BY <3>1 DEF rest
  <2> HIDE DEF K, p
  <2>5. KeysOf(p) = UNION {K(d) : d \in {c}}
    BY <2>1, <2>3
  <2> QED BY <2>4, <2>5
<1>2. rest = Index(c, inst)
  <2>1. /\ o \in Seq(Nat) /\ Len(inst) \in Nat /\ Len(col) \in Nat
        /\ \A i \in 1 .. Len(inst) : o[Len(col) + i] = inst[i]
    BY ObjectIs, ColumnIs
  <2>2. p \in Seq(Nat) /\ Len(p) \in Nat /\ \A i \in 1 .. Len(p) : p[i] = o[i]
    BY <2>1, CutIs, OidTypes
  <2>3. m \in 0 .. Len(inst) /\ Len(p) = Len(col) + m
    BY RoomIs
  <2>4. inst \in Seq(Nat)
    BY SeqOfInts
  <2> HIDE DEF o, col, p, m
  <2>5. \A i \in Len(col) + 1 .. Len(p) : p[i] \in Nat
    BY <2>1, <2>2, <2>3, OidTypes
  <2>6. /\ rest \in Seq(Nat) /\ Len(rest) = m
        /\ \A i \in 1 .. m : rest[i] = p[Len(col) + i]
    <3>1. rest = [i \in 1 .. m |-> p[Len(col) + i]]
      BY <2>1, <2>2, <2>3, SMTT(40)
    <3>2. \A i \in 1 .. m : p[Len(col) + i] \in Nat
      BY <2>1, <2>2, <2>3, <2>5
    <3> QED BY <2>3, <3>1, <3>2
  <2>7. /\ SubSeq(inst, 1, m) \in Seq(Nat) /\ Len(SubSeq(inst, 1, m)) = m
        /\ \A i \in 1 .. m : SubSeq(inst, 1, m)[i] = inst[i]
    BY <2>3, <2>4, Prefix
  <2>8. \A i \in 1 .. m : rest[i] = SubSeq(inst, 1, m)[i]
    <3> TAKE i \in 1 .. m
    <3>1. i \in 1 .. Len(inst) /\ Len(col) + i \in 1 .. Len(p)
      BY <2>1, <2>3
    <3>2. p[Len(col) + i] = inst[i]
      BY <2>1, <2>2, <3>1
    <3> QED BY <2>6, <2>7, <3>2
  <2> HIDE DEF rest
  <2>9. rest = SubSeq(inst, 1, m)
    BY <2>6, <2>7, <2>8, SeqEqual
  <2> QED BY <2>9 DEF Index, m
<1> QED BY <1>1, <1>2
-----------------------------------------------------------------------------
(* Reading an index.                                                       *)

(* Two strings with their lengths, and what follows, place by place.       *)
Reads(s, a, b, r) ==
  /\ Len(s) = Len(a) + Len(b) + 2 + Len(r)
  /\ s[1] = Len(a) /\ s[Len(a) + 2] = Len(b)
  /\ \A i \in 1 .. Len(a) : s[1 + i] = a[i]
  /\ \A i \in 1 .. Len(b) : s[Len(a) + 2 + i] = b[i]
  /\ \A i \in 1 .. Len(r) : s[Len(a) + Len(b) + 2 + i] = r[i]

Behind(s, a, b) ==
  /\ s \in Seq(Nat) /\ Len(s) = Len(a) + Len(b)
  /\ \A i \in 1 .. Len(a) : s[i] = a[i]
  /\ \A i \in 1 .. Len(b) : s[Len(a) + i] = b[i]

LEMMA Concat ==
  ASSUME NEW a \in Seq(Nat), NEW b \in Seq(Nat)
  PROVE  Behind(a \o b, a, b)
<1> DEFINE s == a \o b
<1>1. Len(a) \in Nat /\ Len(b) \in Nat
  BY OidTypes
<1>2. /\ s \in Seq(Nat) /\ Len(s) = Len(a) + Len(b)
      /\ \A i \in 1 .. Len(a) + Len(b) : s[i] = IF i <= Len(a) THEN a[i] ELSE b[i - Len(a)]
  BY ConcatProperties
<1> HIDE DEF s
<1>3. \A i \in 1 .. Len(a) : s[i] = a[i]
  <2> TAKE i \in 1 .. Len(a)
  <2>1. i \in 1 .. Len(a) + Len(b) /\ i <= Len(a)
    BY <1>1
  <2> QED BY <1>2, <2>1
<1>4. \A i \in 1 .. Len(b) : s[Len(a) + i] = b[i]
  <2> TAKE i \in 1 .. Len(b)
  <2>1. Len(a) + i \in 1 .. Len(a) + Len(b) /\ ~(Len(a) + i <= Len(a)) /\ Len(a) + i - Len(a) = i
    BY <1>1
  <2> QED BY <1>2, <2>1, SMTT(40)
<1> QED BY <1>2, <1>3, <1>4 DEF Behind

LEMMA PrefixedIs ==
  ASSUME NEW s \in Seq(Nat), NEW p, p = Prefixed(s)
  PROVE  /\ p \in Seq(Nat) /\ Len(p) = Len(s) + 1 /\ p[1] = Len(s)
         /\ \A i \in 1 .. Len(s) : p[1 + i] = s[i]
<1> DEFINE one == <<Len(s)>>
<1>1. one \in Seq(Nat) /\ Len(one) = 1 /\ one[1] = Len(s) /\ Len(s) \in Nat
  BY OidTypes
<1>2. p = one \o s
  BY DEF Prefixed
<1> HIDE DEF one
<1>5. Behind(one \o s, one, s)
  BY <1>1, Concat
<1>3. /\ p \in Seq(Nat) /\ Len(p) = Len(one) + Len(s)
      /\ \A i \in 1 .. Len(one) : p[i] = one[i]
      /\ \A i \in 1 .. Len(s) : p[Len(one) + i] = s[i]
  BY <1>2, <1>5 DEF Behind
<1>4. p[1] = one[1] /\ Len(p) = Len(s) + 1
  BY <1>1, <1>3
<1> QED BY <1>1, <1>3, <1>4

LEMMA JoinedReads ==
  ASSUME NEW a \in Seq(Nat), NEW b \in Seq(Nat), NEW r \in Seq(Nat),
         NEW s, s = Prefixed(a) \o Prefixed(b) \o r
  PROVE  s \in Seq(Nat) /\ Reads(s, a, b, r)
<1> DEFINE pa == Prefixed(a)
           pb == Prefixed(b)
           ab == pa \o pb
<1>1. Len(a) \in Nat /\ Len(b) \in Nat /\ Len(r) \in Nat
  BY OidTypes
<1>2. /\ pa \in Seq(Nat) /\ Len(pa) = Len(a) + 1 /\ pa[1] = Len(a)
      /\ \A i \in 1 .. Len(a) : pa[1 + i] = a[i]
  BY PrefixedIs
<1>3. /\ pb \in Seq(Nat) /\ Len(pb) = Len(b) + 1 /\ pb[1] = Len(b)
      /\ \A i \in 1 .. Len(b) : pb[1 + i] = b[i]
  BY PrefixedIs
<1>4. s = ab \o r
  OBVIOUS
<1> HIDE DEF pa, pb
<1>a. Behind(pa \o pb, pa, pb)
  BY <1>2, <1>3, Concat
<1>5. /\ ab \in Seq(Nat) /\ Len(ab) = Len(pa) + Len(pb)
      /\ \A i \in 1 .. Len(pa) : ab[i] = pa[i]
      /\ \A i \in 1 .. Len(pb) : ab[Len(pa) + i] = pb[i]
  BY <1>a DEF Behind
<1> HIDE DEF ab
<1>b. Behind(ab \o r, ab, r)
  BY <1>5, Concat
<1>6. /\ s \in Seq(Nat) /\ Len(s) = Len(ab) + Len(r)
      /\ \A i \in 1 .. Len(ab) : s[i] = ab[i]
      /\ \A i \in 1 .. Len(r) : s[Len(ab) + i] = r[i]
  BY <1>4, <1>b DEF Behind
<1>7. Len(ab) = Len(a) + Len(b) + 2 /\ Len(s) = Len(a) + Len(b) + 2 + Len(r)
  BY <1>1, <1>2, <1>3, <1>5, <1>6
<1>8. \A i \in 1 .. Len(a) + 1 : s[i] = pa[i]
  <2> TAKE i \in 1 .. Len(a) + 1
  <2>1. i \in 1 .. Len(pa) /\ i \in 1 .. Len(ab)
    BY <1>1, <1>2, <1>7
  <2> QED BY <1>5, <1>6, <2>1
<1>9. \A i \in 1 .. Len(b) + 1 : s[Len(a) + 1 + i] = pb[i]
  <2> TAKE i \in 1 .. Len(b) + 1
  <2>1. i \in 1 .. Len(pb) /\ Len(a) + 1 + i \in 1 .. Len(ab) /\ Len(a) + 1 + i = Len(pa) + i
    BY <1>1, <1>2, <1>3, <1>7
  <2>2. ab[Len(pa) + i] = pb[i]
    BY <1>5, <2>1
  <2>3. s[Len(a) + 1 + i] = ab[Len(a) + 1 + i]
    BY <1>6, <2>1
  <2> QED BY <2>1, <2>2, <2>3
<1>10. s[1] = Len(a)
  <2>1. 1 \in 1 .. Len(a) + 1
    BY <1>1
  <2> QED BY <1>2, <1>8, <2>1
<1>11. s[Len(a) + 2] = Len(b)
  <2>1. 1 \in 1 .. Len(b) + 1 /\ Len(a) + 1 + 1 = Len(a) + 2
    BY <1>1
  <2>2. s[Len(a) + 1 + 1] = pb[1]
    BY <1>9, <2>1
  <2> QED BY <1>3, <2>1, <2>2
<1>12. \A i \in 1 .. Len(a) : s[1 + i] = a[i]
  <2> TAKE i \in 1 .. Len(a)
  <2>1. 1 + i \in 1 .. Len(a) + 1
    BY <1>1
  <2>2. s[1 + i] = pa[1 + i]
    BY <1>8, <2>1
  <2> QED BY <1>2, <2>2
<1>13. \A i \in 1 .. Len(b) : s[Len(a) + 2 + i] = b[i]
  <2> TAKE i \in 1 .. Len(b)
  <2>1. 1 + i \in 1 .. Len(b) + 1 /\ Len(a) + 1 + (1 + i) = Len(a) + 2 + i
    BY <1>1
  <2>2. s[Len(a) + 1 + (1 + i)] = pb[1 + i]
    BY <1>9, <2>1
  <2> QED BY <1>3, <2>1, <2>2
<1>14. \A i \in 1 .. Len(r) : s[Len(a) + Len(b) + 2 + i] = r[i]
  BY <1>6, <1>7
<1>15. Reads(s, a, b, r)
  BY <1>7, <1>10, <1>11, <1>12, <1>13, <1>14 DEF Reads
<1> QED BY <1>6, <1>15

(* What is written can be read in one way only, also when it is cut.       *)
Strings == Seq(Nat) \X Seq(Nat) \X Seq(Nat)
ReadsAs(s, x) == x \in Strings /\ Reads(s, x[1], x[2], x[3])

SameParts(x, y, m) ==
  /\ x[1] = y[1] /\ x[2] = y[2] /\ Len(y[3]) <= Len(x[3])
  /\ m = Len(x[1]) + Len(x[2]) + 2 + Len(y[3])
  /\ \A i \in 1 .. Len(y[3]) : y[3][i] = x[3][i]

LEMMA SameReading ==
  ASSUME NEW x, NEW y, NEW s \in Seq(Nat), NEW m \in 0 .. Len(s),
         ReadsAs(s, x), ReadsAs(SubSeq(s, 1, m), y)
  PROVE  SameParts(x, y, m)
<1> DEFINE a == x[1]
           b == x[2]
           r == x[3]
           c == y[1]
           d == y[2]
           q == y[3]
<1>0. /\ a \in Seq(Nat) /\ b \in Seq(Nat) /\ r \in Seq(Nat)
      /\ c \in Seq(Nat) /\ d \in Seq(Nat) /\ q \in Seq(Nat)
      /\ Reads(s, a, b, r) /\ Reads(SubSeq(s, 1, m), c, d, q)
  BY DEF ReadsAs, Strings
<1> HIDE DEF a, b, c, d, q, r
<1> DEFINE p == SubSeq(s, 1, m)
<1>1. Len(p) = m /\ \A i \in 1 .. m : p[i] = s[i]
  BY Prefix
<1>2. /\ Len(a) \in Nat /\ Len(b) \in Nat /\ Len(r) \in Nat
      /\ Len(c) \in Nat /\ Len(d) \in Nat /\ Len(q) \in Nat /\ Len(s) \in Nat
  BY <1>0, OidTypes
<1> HIDE DEF p
<1>3. /\ Len(p) = Len(c) + Len(d) + 2 + Len(q)
      /\ p[1] = Len(c) /\ p[Len(c) + 2] = Len(d)
      /\ \A i \in 1 .. Len(c) : p[1 + i] = c[i]
      /\ \A i \in 1 .. Len(d) : p[Len(c) + 2 + i] = d[i]
      /\ \A i \in 1 .. Len(q) : p[Len(c) + Len(d) + 2 + i] = q[i]
  BY <1>0 DEF Reads, p
<1>4. /\ Len(s) = Len(a) + Len(b) + 2 + Len(r)
      /\ s[1] = Len(a) /\ s[Len(a) + 2] = Len(b)
      /\ \A i \in 1 .. Len(a) : s[1 + i] = a[i]
      /\ \A i \in 1 .. Len(b) : s[Len(a) + 2 + i] = b[i]
      /\ \A i \in 1 .. Len(r) : s[Len(a) + Len(b) + 2 + i] = r[i]
  BY <1>0 DEF Reads
<1>5. m = Len(c) + Len(d) + 2 + Len(q) /\ m <= Len(s) /\ m \in Nat
  BY <1>1, <1>2, <1>3
<1>6. Len(a) = Len(c)
  <2>1. 1 \in 1 .. m
    BY <1>2, <1>5
  <2> QED BY <1>1, <1>3, <1>4, <2>1
<1>7. Len(b) = Len(d)
  <2>1. Len(c) + 2 \in 1 .. m
    BY <1>2, <1>5
  <2> QED BY <1>1, <1>3, <1>4, <1>6, <2>1
<1>8. a = c
  <2>1. \A i \in 1 .. Len(a) : a[i] = c[i]
    <3> TAKE i \in 1 .. Len(a)
    <3>1. 1 + i \in 1 .. m /\ i \in 1 .. Len(c)
      BY <1>2, <1>5, <1>6
    <3>2. p[1 + i] = s[1 + i]
      BY <1>1, <3>1
    <3>3. p[1 + i] = c[i]
      BY <1>3, <3>1
    <3>4. s[1 + i] = a[i]
      BY <1>4
    <3> QED BY <3>2, <3>3, <3>4
  <2> QED BY <1>6, <2>1, <1>0, SeqEqual
<1>9. b = d
  <2>1. \A i \in 1 .. Len(b) : b[i] = d[i]
    <3> TAKE i \in 1 .. Len(b)
    <3> DEFINE k == Len(a) + 2 + i
    <3>1. k \in 1 .. m /\ i \in 1 .. Len(d) /\ k = Len(c) + 2 + i
      BY <1>2, <1>5, <1>6, <1>7
    <3>2. p[k] = s[k]
      BY <1>1, <3>1
    <3>3. p[Len(c) + 2 + i] = d[i]
      BY <1>3, <3>1
    <3>4. s[k] = b[i]
      BY <1>4
    <3> QED BY <3>1, <3>2, <3>3, <3>4
  <2> QED BY <1>7, <2>1, <1>0, SeqEqual
<1>10. Len(q) <= Len(r) /\ m = Len(a) + Len(b) + 2 + Len(q)
  BY <1>2, <1>4, <1>5, <1>6, <1>7
<1>11. \A i \in 1 .. Len(q) : q[i] = r[i]
  <2> TAKE i \in 1 .. Len(q)
  <2> DEFINE k == Len(a) + Len(b) + 2 + i
  <2>1. Len(q) \in Nat /\ Len(r) \in Nat /\ i \in Nat /\ i >= 1 /\ i <= Len(q)
    BY <1>2
  <2>7. i <= Len(r) /\ k <= m /\ k >= 1 /\ k \in Nat
    <3> HIDE DEF k
    <3>1. k = Len(a) + Len(b) + 2 + i
      BY DEF k
    <3>2. Len(q) <= Len(r) /\ m = Len(a) + Len(b) + 2 + Len(q) /\ m \in Nat
      BY <1>5, <1>10
    <3>3. i <= Len(r)
      BY <2>1, <3>2
    <3>4. k \in Nat /\ k >= 1
      BY <1>2, <2>1, <3>1
    <3>5. k <= m
      BY <1>2, <2>1, <3>1, <3>2
    <3> QED BY <3>3, <3>4, <3>5
  <2>5. k \in 1 .. m /\ i \in 1 .. Len(r)
    <3> HIDE DEF k
    <3> QED BY <1>2, <1>5, <2>1, <2>7
  <2>6. k = Len(c) + Len(d) + 2 + i
    BY <1>6, <1>7
  <2>2. p[k] = s[k]
    BY <1>1, <2>5
  <2>3. p[Len(c) + Len(d) + 2 + i] = q[i]
    BY <1>3
  <2>4. s[k] = r[i]
    BY <1>4, <2>5
  <2> QED BY <2>2, <2>3, <2>4, <2>6
<1> QED BY <1>8, <1>9, <1>10, <1>11 DEF SameParts, a, b, c, d, q, r

LEMMA PartOfSeq ==
  ASSUME NEW s \in Seq(Nat), NEW i \in Nat, NEW j \in Nat, i >= 1, j <= Len(s), i <= j + 1
  PROVE  /\ SubSeq(s, i, j) \in Seq(Nat) /\ Len(SubSeq(s, i, j)) = j - i + 1
         /\ \A k \in 1 .. j - i + 1 : SubSeq(s, i, j)[k] = s[i + k - 1]
<1> DEFINE n == j - i + 1
<1>1. Len(s) \in Nat /\ n \in Nat
  BY OidTypes
<1>2. SubSeq(s, i, j) = [k \in 1 .. n |-> s[i + k - 1]]
  BY <1>1
<1>3. \A k \in 1 .. n : i + k - 1 \in 1 .. Len(s)
  BY <1>1
<1>4. \A k \in 1 .. n : s[i + k - 1] \in Nat
  BY <1>3, OidTypes
<1>5. [k \in 1 .. n |-> s[i + k - 1]] \in Seq(Nat)
  BY <1>1, <1>4
<1> DEFINE f == [k \in 1 .. n |-> s[i + k - 1]]
<1>6. Len(f) = n /\ \A k \in 1 .. n : f[k] = s[i + k - 1]
  BY <1>1
<1> QED BY <1>2, <1>5, <1>6

LEMMA SubTypes ==
  ASSUME NEW s \in Seq(Nat), NEW i \in Nat, NEW j \in Nat, i >= 1, j <= Len(s)
  PROVE  SubSeq(s, i, j) \in Seq(Nat)
<1>1. CASE i <= j + 1
  BY <1>1, PartOfSeq
<1>2. CASE ~(i <= j + 1)
  BY <1>2, SubSeqProperties
<1> QED BY <1>1, <1>2

LEMMA SplitTypes ==
  ASSUME NEW s \in Seq(Nat), NEW q \in Split(s)
  PROVE  /\ q = <<q[1], q[2], q[3]>>
         /\ q[1] \in Seq(Nat) /\ q[2] \in Seq(Nat) /\ q[3] \in Seq(Nat)
<1>1. PICK k \in (1 .. Len(s) - 1) \X (2 .. Len(s)) :
        q = << SubSeq(s, 2, k[1]), SubSeq(s, k[1] + 2, k[2]), SubSeq(s, k[2] + 1, Len(s)) >>
  BY DEF Split
<1> DEFINE m == k[1]
           n == k[2]
<1>2. q = << SubSeq(s, 2, m), SubSeq(s, m + 2, n), SubSeq(s, n + 1, Len(s)) >>
  BY <1>1
<1>0. m \in 1 .. Len(s) - 1 /\ n \in 2 .. Len(s)
  OBVIOUS
<1> HIDE DEF m, n
<1>3. /\ m \in Nat /\ n \in Nat /\ Len(s) \in Nat /\ 2 \in Nat /\ m + 2 \in Nat /\ n + 1 \in Nat
      /\ m <= Len(s) /\ n <= Len(s) /\ m + 2 >= 1 /\ n + 1 >= 1 /\ 2 >= 1 /\ Len(s) <= Len(s)
  BY <1>0, OidTypes
<1>4. SubSeq(s, 2, m) \in Seq(Nat)
  BY <1>3, SubTypes
<1>5. SubSeq(s, m + 2, n) \in Seq(Nat)
  BY <1>3, SubTypes
<1>6. SubSeq(s, n + 1, Len(s)) \in Seq(Nat)
  BY <1>3, SubTypes
<1> QED BY <1>2, <1>4, <1>5, <1>6

LEMMA SplitOf ==
  ASSUME NEW s \in Seq(Nat), NEW a \in Seq(Nat), NEW b \in Seq(Nat), NEW r \in Seq(Nat),
         Reads(s, a, b, r)
  PROVE  <<a, b, r>> \in Split(s)
<1> DEFINE m == Len(a) + 1
           n == Len(a) + Len(b) + 2
<1>1. Len(a) \in Nat /\ Len(b) \in Nat /\ Len(r) \in Nat
  BY OidTypes
<1>2. /\ Len(s) = n + Len(r)
      /\ \A i \in 1 .. Len(a) : s[1 + i] = a[i]
      /\ \A i \in 1 .. Len(b) : s[Len(a) + 2 + i] = b[i]
      /\ \A i \in 1 .. Len(r) : s[n + i] = r[i]
  BY DEF Reads
<1>3. m \in Nat /\ n \in Nat /\ m \in 1 .. Len(s) - 1 /\ n \in 2 .. Len(s) /\ m <= n
  BY <1>1, <1>2
<1>4. SubSeq(s, 2, m) = a
  <2>1. 2 \in Nat /\ m \in Nat /\ 2 >= 1 /\ m <= Len(s) /\ 2 <= m + 1 /\ m - 2 + 1 = Len(a)
    BY <1>1, <1>2
  <2>2. /\ SubSeq(s, 2, m) \in Seq(Nat) /\ Len(SubSeq(s, 2, m)) = m - 2 + 1
        /\ \A k \in 1 .. m - 2 + 1 : SubSeq(s, 2, m)[k] = s[2 + k - 1]
    <3> HIDE DEF m
    <3> QED BY <2>1, PartOfSeq
  <2>3. \A k \in 1 .. Len(a) : SubSeq(s, 2, m)[k] = a[k]
    <3> TAKE k \in 1 .. Len(a)
    <3>1. 2 + k - 1 = 1 + k /\ k \in 1 .. m - 2 + 1
      BY <1>1
    <3>2. SubSeq(s, 2, m)[k] = s[2 + k - 1]
      BY <2>2, <3>1
    <3> QED BY <1>2, <3>1, <3>2
  <2>4. Len(SubSeq(s, 2, m)) = Len(a)
    BY <2>1, <2>2
  <2> QED BY <2>2, <2>3, <2>4, SeqEqual
<1>5. SubSeq(s, m + 2, n) = b
  <2>1. m + 2 \in Nat /\ n \in Nat /\ m + 2 >= 1 /\ n <= Len(s) /\ m + 2 <= n + 1 /\ n - (m + 2) + 1 = Len(b)
    BY <1>1, <1>2
  <2>2. /\ SubSeq(s, m + 2, n) \in Seq(Nat) /\ Len(SubSeq(s, m + 2, n)) = n - (m + 2) + 1
        /\ \A k \in 1 .. n - (m + 2) + 1 : SubSeq(s, m + 2, n)[k] = s[(m + 2) + k - 1]
    <3> HIDE DEF m, n
    <3> DEFINE m2 == m + 2
    <3>1. m2 \in Nat /\ n \in Nat /\ m2 >= 1 /\ n <= Len(s) /\ m2 <= n + 1
      BY <2>1
    <3> HIDE DEF m2
    <3>2. /\ SubSeq(s, m2, n) \in Seq(Nat) /\ Len(SubSeq(s, m2, n)) = n - m2 + 1
          /\ \A k \in 1 .. n - m2 + 1 : SubSeq(s, m2, n)[k] = s[m2 + k - 1]
      BY <3>1, PartOfSeq
    <3> QED BY <3>2 DEF m2
  <2>3. \A k \in 1 .. Len(b) : SubSeq(s, m + 2, n)[k] = b[k]
    <3> TAKE k \in 1 .. Len(b)
    <3>1. (m + 2) + k - 1 = Len(a) + 2 + k /\ k \in 1 .. n - (m + 2) + 1
      BY <1>1
    <3>2. SubSeq(s, m + 2, n)[k] = s[(m + 2) + k - 1]
      BY <2>2, <3>1
    <3> QED BY <1>2, <3>1, <3>2
  <2>4. Len(SubSeq(s, m + 2, n)) = Len(b)
    BY <2>1, <2>2
  <2> QED BY <2>2, <2>3, <2>4, SeqEqual
<1>6. SubSeq(s, n + 1, Len(s)) = r
  <2> DEFINE i == n + 1
             j == Len(s)
  <2>1. i \in Nat /\ j \in Nat /\ i >= 1 /\ j <= Len(s) /\ i <= j + 1 /\ j - i + 1 = Len(r)
    BY <1>1, <1>2
  <2>5. \A k \in 1 .. Len(r) : i + k - 1 = n + k
    BY <1>1
  <2> HIDE DEF i, j, n
  <2>2. /\ SubSeq(s, i, j) \in Seq(Nat) /\ Len(SubSeq(s, i, j)) = j - i + 1
        /\ \A k \in 1 .. j - i + 1 : SubSeq(s, i, j)[k] = s[i + k - 1]
    BY <2>1, PartOfSeq
  <2>3. \A k \in 1 .. Len(r) : SubSeq(s, i, j)[k] = r[k]
    BY <1>2, <2>1, <2>2, <2>5
  <2>4. Len(SubSeq(s, i, j)) = Len(r)
    BY <2>1, <2>2
  <2>6. SubSeq(s, i, j) = r
    BY <2>2, <2>3, <2>4, SeqEqual
  <2> QED BY <2>6 DEF i, j, n
<1> HIDE DEF m, n
<1>7. <<a, b, r>> = << SubSeq(s, 2, m), SubSeq(s, m + 2, n), SubSeq(s, n + 1, Len(s)) >>
  BY <1>4, <1>5, <1>6
<1> DEFINE k == <<m, n>>
<1>8. k \in (1 .. Len(s) - 1) \X (2 .. Len(s)) /\ k[1] = m /\ k[2] = n
  BY <1>3
<1> HIDE DEF k
<1>9. <<a, b, r>> =
        << SubSeq(s, 2, k[1]), SubSeq(s, k[1] + 2, k[2]), SubSeq(s, k[2] + 1, Len(s)) >>
  BY <1>7, <1>8
<1> QED BY <1>8, <1>9 DEF Split

(* The keys of the view table.                                             *)
LEMMA DecodeView ==
  ASSUME NEW a \in Seq(Nat), NEW b \in Seq(Nat), NEW s, s = Prefixed(a) \o Prefixed(b),
         NEW m \in 0 .. Len(s)
  PROVE  Decode("view", SubSeq(s, 1, m)) = IF m = Len(s) THEN {<<"view", a, b>>} ELSE {}
<1> DEFINE p == SubSeq(s, 1, m)
           Right(q) == p = Prefixed(q[1]) \o Prefixed(q[2])
<1>0. <<>> \in Seq(Nat) /\ Len(<<>>) = 0
  OBVIOUS
<1>1. s \in Seq(Nat) /\ Reads(s, a, b, <<>>)
  <2>1. Prefixed(a) \in Seq(Nat) /\ Prefixed(b) \in Seq(Nat)
    BY PrefixedIs
  <2>2. s \in Seq(Nat)
    BY <2>1, ConcatProperties
  <2>3. s = Prefixed(a) \o Prefixed(b) \o <<>>
    BY <2>2, ConcatEmptySeq
  <2> QED BY <1>0, <2>3, JoinedReads
<1>2. p \in Seq(Nat) /\ Len(s) \in Nat
  BY <1>1, Prefix, OidTypes
<1>3. Decode("view", p) = {<<"view", q[1], q[2]>> : q \in {q \in Split(p) : Right(q)}}
  BY DEF Decode
<1>4. ASSUME NEW q \in Split(p), Right(q)
      PROVE  q[1] = a /\ q[2] = b /\ m = Len(s)
  <2>1. q[1] \in Seq(Nat) /\ q[2] \in Seq(Nat)
    BY <1>2, SplitTypes
  <2>2. Prefixed(q[1]) \in Seq(Nat) /\ Prefixed(q[2]) \in Seq(Nat)
    BY <2>1, PrefixedIs
  <2>3. p = Prefixed(q[1]) \o Prefixed(q[2]) \o <<>>
    <3> HIDE DEF p
    <3> QED BY <1>2, <1>4, ConcatEmptySeq
  <2>4. Reads(p, q[1], q[2], <<>>)
    BY <1>0, <2>1, <2>3, JoinedReads
  <2>5. a = q[1] /\ b = q[2] /\ m = Len(a) + Len(b) + 2 + Len(<<>>)
    <3> DEFINE x == <<a, b, <<>> >>
               y == <<q[1], q[2], <<>> >>
    <3>1. /\ ReadsAs(s, x) /\ x[1] = a /\ x[2] = b /\ x[3] = <<>>
          /\ ReadsAs(p, y) /\ y[1] = q[1] /\ y[2] = q[2] /\ y[3] = <<>>
      <4> HIDE DEF p
      <4>1. x[1] = a /\ x[2] = b /\ x[3] = <<>> /\ x \in Strings
        BY <1>0 DEF Strings
      <4>2. y[1] = q[1] /\ y[2] = q[2] /\ y[3] = <<>> /\ y \in Strings
        BY <1>0, <2>1 DEF Strings
      <4> HIDE DEF x, y
      <4> QED BY <1>1, <2>4, <4>1, <4>2 DEF ReadsAs
    <3> HIDE DEF x, y
    <3>2. x[1] = y[1] /\ x[2] = y[2] /\ m = Len(x[1]) + Len(x[2]) + 2 + Len(y[3])
      <4>1. SameParts(x, y, m)
        BY <1>1, <3>1, SameReading
      <4> QED BY <4>1 DEF SameParts
    <3> QED BY <3>1, <3>2
  <2>6. Len(s) = Len(a) + Len(b) + 2 + Len(<<>>)
    BY <1>1 DEF Reads
  <2> QED BY <2>5, <2>6
<1>5. ASSUME m = Len(s)
      PROVE  <<a, b, <<>> >> \in Split(p) /\ Right(<<a, b, <<>> >>)
  <2>1. p = s
    <3>1. Len(s) \in 0 .. Len(s)
      BY <1>2
    <3>2. /\ SubSeq(s, 1, Len(s)) \in Seq(Nat) /\ Len(SubSeq(s, 1, Len(s))) = Len(s)
          /\ \A i \in 1 .. Len(s) : SubSeq(s, 1, Len(s))[i] = s[i]
      BY <1>1, <3>1, Prefix
    <3> QED BY <1>1, <1>5, <3>2, SeqEqual
  <2>2. <<a, b, <<>> >> \in Split(s)
    BY <1>0, <1>1, SplitOf
  <2> HIDE DEF p
  <2> QED BY <2>1, <2>2
<1> HIDE DEF p
<1>6. CASE m = Len(s)
  <2> DEFINE q == <<a, b, <<>> >>
  <2>1. q \in Split(p) /\ Right(q) /\ q[1] = a /\ q[2] = b
    BY <1>5, <1>6
  <2> HIDE DEF q, Right
  <2>2. Decode("view", p) = {<<"view", a, b>>}
    BY <1>3, <1>4, <2>1
  <2> QED BY <1>6, <2>2 DEF p
<1>7. CASE m # Len(s)
  <2> HIDE DEF Right
  <2>1. Decode("view", p) = {}
    BY <1>3, <1>4, <1>7
  <2> QED BY <1>7, <2>1 DEF p
<1> QED BY <1>6, <1>7

LEMMA Whole ==
  ASSUME NEW s \in Seq(Nat)
  PROVE  SubSeq(s, 1, Len(s)) = s /\ Len(s) \in 0 .. Len(s)
<1>1. Len(s) \in 0 .. Len(s)
  BY OidTypes
<1>2. /\ SubSeq(s, 1, Len(s)) \in Seq(Nat) /\ Len(SubSeq(s, 1, Len(s))) = Len(s)
      /\ \A i \in 1 .. Len(s) : SubSeq(s, 1, Len(s))[i] = s[i]
  BY <1>1, Prefix
<1> QED BY <1>1, <1>2, SeqEqual

LEMMA PackReads ==
  ASSUME NEW s, NEW a \in Seq(Nat), NEW b \in Seq(Nat), NEW r \in Seq(Nat), Reads(s, a, b, r),
         NEW x, x = <<a, b, r>>
  PROVE  ReadsAs(s, x) /\ x[1] = a /\ x[2] = b /\ x[3] = r
<1>1. x[1] = a /\ x[2] = b /\ x[3] = r /\ x \in Strings
  BY DEF Strings
<1> QED BY <1>1 DEF ReadsAs

(* The keys of the access table.  Without a model there is none.           *)
LEMMA DecodeAccess ==
  ASSUME NEW a \in Seq(Nat), NEW b \in Seq(Nat), NEW r \in Seq(Nat), Len(r) \in {0, 2},
         NEW s, s = Prefixed(a) \o Prefixed(b) \o r, NEW m \in 0 .. Len(s)
  PROVE  /\ s \in Seq(Nat) /\ Len(s) = Len(a) + Len(b) + 2 + Len(r)
         /\ Decode("access", SubSeq(s, 1, m)) =
              IF m = Len(s) /\ Len(r) = 2 THEN {<<"access", a, b, r[1], r[2]>>} ELSE {}
<1> DEFINE p == SubSeq(s, 1, m)
           Right(q) == p = Prefixed(q[1]) \o Prefixed(q[2]) \o q[3] /\ Len(q[3]) = 2
           x == <<a, b, r>>
<1>1. s \in Seq(Nat) /\ Reads(s, a, b, r)
  BY JoinedReads
<1>2. ReadsAs(s, x) /\ x[1] = a /\ x[2] = b /\ x[3] = r
  BY <1>1, PackReads
<1>3. p \in Seq(Nat) /\ Len(s) \in Nat
  BY <1>1, Prefix, OidTypes
<1>4. Decode("access", p) =
        {<<"access", q[1], q[2], q[3][1], q[3][2]>> : q \in {q \in Split(p) : Right(q)}}
  BY DEF Decode
<1>5. Len(s) = Len(a) + Len(b) + 2 + Len(r) /\ Len(a) \in Nat /\ Len(b) \in Nat
  BY <1>1, OidTypes DEF Reads
<1> HIDE DEF x
<1>6. ASSUME NEW q \in Split(p), Right(q)
      PROVE  /\ q[1] = a /\ q[2] = b /\ Len(r) = 2 /\ m = Len(s)
             /\ q[3][1] = r[1] /\ q[3][2] = r[2]
  <2> DEFINE y == <<q[1], q[2], q[3]>>
  <2>1. q[1] \in Seq(Nat) /\ q[2] \in Seq(Nat) /\ q[3] \in Seq(Nat)
    BY <1>3, SplitTypes
  <2>2. Reads(p, q[1], q[2], q[3])
    <3> HIDE DEF p
    <3> QED BY <1>6, <2>1, JoinedReads
  <2>3. ReadsAs(p, y) /\ y[1] = q[1] /\ y[2] = q[2] /\ y[3] = q[3]
    <3> HIDE DEF p
    <3> QED BY <2>1, <2>2, PackReads
  <2> HIDE DEF y
  <2>4. SameParts(x, y, m)
    BY <1>1, <1>2, <2>3, SameReading
  <2>5. /\ a = q[1] /\ b = q[2] /\ Len(q[3]) <= Len(r)
        /\ m = Len(a) + Len(b) + 2 + Len(q[3])
        /\ \A i \in 1 .. Len(q[3]) : q[3][i] = r[i]
    BY <1>2, <2>3, <2>4 DEF SameParts
  <2>6. Len(q[3]) = 2
    BY <1>6
  <2>7. Len(r) = 2
    BY <2>5, <2>6
  <2>8. m = Len(s)
    BY <1>5, <2>5, <2>6, <2>7
  <2>9. q[3][1] = r[1] /\ q[3][2] = r[2]
    <3>1. 1 \in 1 .. 2 /\ 2 \in 1 .. 2
      OBVIOUS
    <3> QED BY <2>5, <2>6, <3>1
  <2> QED BY <2>5, <2>7, <2>8, <2>9
<1>7. CASE m = Len(s) /\ Len(r) = 2
  <2> DEFINE q == <<a, b, r>>
  <2>1. p = s
    BY <1>1, <1>7, Whole
  <2>2. q \in Split(s) /\ q[1] = a /\ q[2] = b /\ q[3] = r
    BY <1>1, SplitOf
  <2> HIDE DEF p, q
  <2>3. q \in Split(p) /\ Right(q)
    BY <1>7, <2>1, <2>2
  <2> HIDE DEF Right
  <2>4. Decode("access", p) = {<<"access", a, b, r[1], r[2]>>}
    BY <1>4, <1>6, <2>2, <2>3
  <2> QED BY <1>1, <1>5, <1>7, <2>4 DEF p
<1>8. CASE ~(m = Len(s) /\ Len(r) = 2)
  <2> HIDE DEF Right, p
  <2>1. Decode("access", p) = {}
    BY <1>4, <1>6, <1>8
  <2> QED BY <1>1, <1>5, <1>8, <2>1 DEF p
<1> QED BY <1>7, <1>8

(* The keys of the table of groups.                                        *)
LEMMA DecodeGroup ==
  ASSUME NEW x \in Nat, NEW n \in Seq(Nat), NEW s, s = <<x>> \o Prefixed(n), NEW m \in 0 .. Len(s)
  PROVE  /\ s \in Seq(Nat) /\ Len(s) = Len(n) + 2
         /\ Decode("sec2Group", SubSeq(s, 1, m)) =
              IF m = Len(s) THEN {<<"sec2Group", x, n>>} ELSE {}
<1> DEFINE p == SubSeq(s, 1, m)
           one == <<x>>
           pn == Prefixed(n)
           Right(j) == Len(j) >= 2 /\ j[2] = Len(j) - 2
<1>1. one \in Seq(Nat) /\ Len(one) = 1 /\ one[1] = x /\ Len(n) \in Nat
  BY OidTypes
<1>2. /\ pn \in Seq(Nat) /\ Len(pn) = Len(n) + 1 /\ pn[1] = Len(n)
      /\ \A i \in 1 .. Len(n) : pn[1 + i] = n[i]
  BY PrefixedIs
<1>3. s = one \o pn
  OBVIOUS
<1> HIDE DEF one, pn
<1>4. Behind(one \o pn, one, pn)
  BY <1>1, <1>2, Concat
<1>5. /\ s \in Seq(Nat) /\ Len(s) = Len(one) + Len(pn)
      /\ \A i \in 1 .. Len(one) : s[i] = one[i]
      /\ \A i \in 1 .. Len(pn) : s[Len(one) + i] = pn[i]
  BY <1>3, <1>4 DEF Behind
<1>6. Len(s) = Len(n) + 2 /\ s[1] = x /\ s[2] = Len(n)
  <2>1. 1 \in 1 .. Len(one) /\ 1 \in 1 .. Len(pn) /\ Len(one) + 1 = 2
    BY <1>1, <1>2
  <2>2. s[1] = one[1] /\ s[Len(one) + 1] = pn[1]
    BY <1>5, <2>1
  <2>3. Len(s) = Len(n) + 2
    BY <1>1, <1>2, <1>5
  <2> QED BY <1>1, <1>2, <2>1, <2>2, <2>3
<1>7. \A i \in 1 .. Len(n) : s[2 + i] = n[i]
  <2> TAKE i \in 1 .. Len(n)
  <2>1. 1 + i \in 1 .. Len(pn) /\ Len(one) + (1 + i) = 2 + i
    BY <1>1, <1>2
  <2>2. s[Len(one) + (1 + i)] = pn[1 + i]
    BY <1>5, <2>1
  <2> QED BY <1>2, <2>1, <2>2
<1>8. p \in Seq(Nat) /\ Len(p) = m /\ \A i \in 1 .. m : p[i] = s[i]
  BY <1>5, Prefix
<1>9. Decode("sec2Group", p) =
        {<<"sec2Group", i[1], SubSeq(i, 3, Len(i))>> : i \in {j \in {p} : Right(j)}}
  BY DEF Decode
<1> HIDE DEF p
<1>10. Right(p) <=> m = Len(s)
  <2>1. ASSUME m >= 2
        PROVE  p[2] = Len(n)
    <3>1. 2 \in 1 .. m
      BY <1>5, <1>6, <1>1, <2>1
    <3> QED BY <1>6, <1>8, <3>1
  <2>2. m \in Nat
    BY <1>1, <1>6
  <2>3. CASE m >= 2
    BY <1>1, <1>6, <1>8, <2>1, <2>2, <2>3
  <2>4. CASE ~(m >= 2)
    BY <1>1, <1>6, <1>8, <2>2, <2>4
  <2> QED BY <2>3, <2>4
<1>11. CASE m = Len(s)
  <2>1. p = s
    BY <1>5, <1>11, Whole DEF p
  <2>2. SubSeq(s, 3, Len(s)) = n
    <3> DEFINE i == 3
               j == Len(s)
    <3>1. i \in Nat /\ j \in Nat /\ i >= 1 /\ j <= Len(s) /\ i <= j + 1 /\ j - i + 1 = Len(n)
      BY <1>1, <1>6
    <3>2. \A k \in 1 .. Len(n) : i + k - 1 = 2 + k
      BY <1>1
    <3> HIDE DEF i, j
    <3>3. /\ SubSeq(s, i, j) \in Seq(Nat) /\ Len(SubSeq(s, i, j)) = j - i + 1
          /\ \A k \in 1 .. j - i + 1 : SubSeq(s, i, j)[k] = s[i + k - 1]
      BY <1>5, <3>1, PartOfSeq
    <3>4. \A k \in 1 .. Len(n) : SubSeq(s, i, j)[k] = n[k]
      BY <1>7, <3>1, <3>2, <3>3
    <3>5. Len(SubSeq(s, i, j)) = Len(n)
      BY <3>1, <3>3
    <3>6. SubSeq(s, i, j) = n
      BY <3>3, <3>4, <3>5, SeqEqual
    <3> QED BY <3>6 DEF i, j
  <2> HIDE DEF Right
  <2>3. Decode("sec2Group", p) = {<<"sec2Group", s[1], SubSeq(s, 3, Len(s))>>}
    BY <1>9, <1>10, <1>11, <2>1
  <2>4. Decode("sec2Group", p) = {<<"sec2Group", x, n>>}
    BY <1>6, <2>2, <2>3
  <2> QED BY <1>5, <1>6, <1>11, <2>4 DEF p
<1>12. CASE m # Len(s)
  <2> HIDE DEF Right
  <2>1. Decode("sec2Group", p) = {}
    BY <1>9, <1>10, <1>12
  <2> QED BY <1>5, <1>6, <1>12, <2>1 DEF p
<1> QED BY <1>11, <1>12

LEMMA DecodeNothing == \A t \in {"sec2Group", "access"} : Decode(t, <<>>) = {}
<1>1. Len(<<>>) = 0
  OBVIOUS
<1>2. Decode("sec2Group", <<>>) = {}
  BY <1>1 DEF Decode
<1>3. Decode("access", <<>>) = {}
  BY <1>1 DEF Decode, Split
<1> QED BY <1>2, <1>3
-----------------------------------------------------------------------------
(* Writing an index.                                                       *)

LEMMA PrefixedInts ==
  ASSUME NEW s \in Seq(Ints), Len(s) <= IntMax
  PROVE  Prefixed(s) \in Seq(Ints)
<1>1. Len(s) \in Ints
  BY SeqOfInts, WidthAssumption DEF Ints
<1>2. <<Len(s)>> \in Seq(Ints)
  BY <1>1
<1> QED BY <1>2, ConcatProperties DEF Prefixed

LEMMA TextInts ==
  ASSUME NEW name, IsText(name)
  PROVE  name \in Seq(Nat) /\ name \in Seq(Ints) /\ Prefixed(name) \in Seq(Ints)
<1>1. \A n \in 0 .. 255 : n \in Ints
  BY VacmAssumption, WidthAssumption DEF Ints
<1>2. name \in Seq(0 .. 255) /\ Len(name) <= IntMax
  BY DEF IsText
<1>3. name \in Seq(Ints)
  <2>0. \A i \in 1 .. Len(name) : name[i] \in 0 .. 255
    <3> DEFINE B == 0 .. 255
    <3>1. name \in Seq(B)
      BY <1>2
    <3> HIDE DEF B
    <3>2. \A i \in 1 .. Len(name) : name[i] \in B
      BY <3>1
    <3> QED BY <3>2 DEF B
  <2>1. \A i \in 1 .. Len(name) : name[i] \in Ints
    BY <1>1, <2>0
  <2>2. name = [i \in 1 .. Len(name) |-> name[i]] /\ Len(name) \in Nat
    BY <1>2
  <2>3. [i \in 1 .. Len(name) |-> name[i]] \in Seq(Ints)
    BY <2>1, <2>2
  <2> QED BY <2>2, <2>3
<1> QED BY <1>2, <1>3, SeqOfInts, PrefixedInts

LEMMA EncodeText ==
  ASSUME NEW name, ~IsNumber(name)
  PROVE  Encode(Text(name)) = Prefixed(name) /\ Text(name).t = "string" /\ Text(name).v = name
<1>1. Text(name).t = "string" /\ Text(name).v = name
  BY DEF Text, Lua
<1> QED BY <1>1 DEF Encode, Prefixed

LEMMA EncodeOid ==
  ASSUME NEW oid
  PROVE  Encode(OidArg(oid)) = Prefixed(oid) /\ OidArg(oid).t = "oid"
<1>1. OidArg(oid).t = "oid" /\ OidArg(oid).v = oid
  BY DEF OidArg, Lua
<1> QED BY <1>1 DEF Encode, Prefixed

LEMMA EncodeNumber ==
  ASSUME NEW n
  PROVE  Encode(Number(n)) = <<n>> /\ Number(n).t = "number" /\ Number(n).v = n
<1>1. Number(n).t = "number" /\ Number(n).v = n
  BY DEF Number, Lua
<1> QED BY <1>1 DEF Encode

LEMMA InstanceOfTwo ==
  ASSUME NEW x, NEW y, x.t # "nil", y.t # "nil",
         Encode(x) \in Seq(Ints), Encode(y) \in Seq(Ints)
  PROVE  Instance(<<x, y>>) = Encode(x) \o Encode(y)
<1> DEFINE args == <<x, y>>
           s == [i \in DOMAIN args |->
                   IF \E j \in 1 .. i : args[j].t = "nil" THEN << >> ELSE Encode(args[i])]
<1>1. DOMAIN args = 1 .. 2 /\ args[1] = x /\ args[2] = y
  OBVIOUS
<1>2. Instance(args) = FlattenSeq(s)
  BY DEF Instance
<1> HIDE DEF args
<1>3. \A i \in 1 .. 2 : i = 1 \/ i = 2
  OBVIOUS
<1>4. \A i \in 1 .. 2 : ~\E j \in 1 .. i : args[j].t = "nil"
  BY <1>1, <1>3
<1>5. \A i \in 1 .. 2 : s[i] = Encode(args[i])
  BY <1>1, <1>4
<1>6. Len(s) = 2
  BY <1>1
<1>7. s[1] = Encode(x) /\ s[2] = Encode(y)
  BY <1>1, <1>5
<1> HIDE DEF s
<1>8. FlattenSeq(s) = Encode(x) \o Encode(y)
  BY <1>6, <1>7, FlattenTwo
<1> QED BY <1>2, <1>8 DEF args

LEMMA NothingAndNothing ==
  /\ \A S : << >> \in Seq(S)
  /\ << >> \o << >> = << >>
<1>1. \A S : << >> \in Seq(S)
  OBVIOUS
<1>2. << >> \in Seq(Nat)
  OBVIOUS
<1> QED BY <1>1, <1>2, ConcatEmptySeq

LEMMA InstanceOfNil ==
  ASSUME NEW x, NEW y, x.t = "nil"
  PROVE  Instance(<<x, y>>) = << >>
<1> DEFINE args == <<x, y>>
           s == [i \in DOMAIN args |->
                   IF \E j \in 1 .. i : args[j].t = "nil" THEN << >> ELSE Encode(args[i])]
<1>1. DOMAIN args = 1 .. 2 /\ args[1] = x
  OBVIOUS
<1>2. Instance(args) = FlattenSeq(s)
  BY DEF Instance
<1> HIDE DEF args
<1>3. \A i \in 1 .. 2 : 1 \in 1 .. i
  OBVIOUS
<1>4. \A i \in 1 .. 2 : s[i] = << >>
  BY <1>1, <1>3
<1>5. Len(s) = 2
  BY <1>1
<1>6. s[1] = << >> /\ s[2] = << >>
  BY <1>4
<1> HIDE DEF s
<1> DEFINE e == << >>
<1>7. e \in Seq(Nat) /\ s[1] = e /\ s[2] = e
  BY <1>6
<1> HIDE DEF e
<1>8. FlattenSeq(s) = e \o e
  BY <1>5, <1>7, FlattenTwo
<1> QED BY <1>2, <1>8, NothingAndNothing DEF args, e

Encodable(x) == x.t # "nil" /\ Encode(x) \in Seq(Ints)

Four(args) ==
  /\ DOMAIN args = 1 .. 4
  /\ Encodable(args[1]) /\ Encodable(args[2]) /\ Encodable(args[4])
  /\ args[3].t = "nil" \/ Encodable(args[3])

LEMMA InstanceOfFour ==
  ASSUME NEW args, Four(args)
  PROVE  Instance(args) =
           IF args[3].t = "nil" THEN Encode(args[1]) \o Encode(args[2])
           ELSE ((Encode(args[1]) \o Encode(args[2])) \o Encode(args[3])) \o Encode(args[4])
<1> DEFINE s == [i \in DOMAIN args |->
                   IF \E j \in 1 .. i : args[j].t = "nil" THEN << >> ELSE Encode(args[i])]
           Stops(i) == \E j \in 1 .. i : args[j].t = "nil"
           w == args[1]
           x == args[2]
           y == args[3]
           z == args[4]
<1>0. /\ w.t # "nil" /\ x.t # "nil" /\ z.t # "nil"
      /\ Encode(w) \in Seq(Ints) /\ Encode(x) \in Seq(Ints) /\ Encode(z) \in Seq(Ints)
      /\ y.t # "nil" => Encode(y) \in Seq(Ints)
  BY DEF Encodable, Four
<1>1. DOMAIN args = 1 .. 4 /\ args[1] = w /\ args[2] = x /\ args[3] = y /\ args[4] = z
  BY DEF Four
<1>2. Instance(args) = FlattenSeq(s)
  BY DEF Instance
<1> HIDE DEF w, x, y, z
<1>3. /\ ~Stops(1) /\ ~Stops(2)
      /\ Stops(3) <=> y.t = "nil"
      /\ Stops(4) <=> y.t = "nil"
  <2>1. 1 .. 1 = {1} /\ 1 .. 2 = {1, 2} /\ 1 .. 3 = {1, 2, 3} /\ 1 .. 4 = {1, 2, 3, 4}
    OBVIOUS
  <2> QED BY <1>0, <1>1, <2>1
<1>4. \A i \in 1 .. 4 : s[i] = IF Stops(i) THEN << >> ELSE Encode(args[i])
  BY <1>1
<1>5. Len(s) = 4
  BY <1>1
<1> HIDE DEF s, Stops
<1>6. /\ s[1] = Encode(w) /\ s[2] = Encode(x)
      /\ s[3] = (IF y.t = "nil" THEN << >> ELSE Encode(y))
      /\ s[4] = (IF y.t = "nil" THEN << >> ELSE Encode(z))
  <2>1. 1 \in 1 .. 4 /\ 2 \in 1 .. 4 /\ 3 \in 1 .. 4 /\ 4 \in 1 .. 4
    OBVIOUS
  <2> QED BY <1>1, <1>3, <1>4, <2>1
<1> DEFINE a == Encode(w)
           b == Encode(x)
           c == Encode(y)
           d == Encode(z)
<1>9. /\ a \in Seq(Ints) /\ b \in Seq(Ints) /\ d \in Seq(Ints)
      /\ y.t # "nil" => c \in Seq(Ints)
  BY <1>0
<1>10. s[1] = a /\ s[2] = b
  BY <1>6
<1> HIDE DEF a, b, c, d
<1>7. CASE y.t = "nil"
  <2> DEFINE e == << >>
             ab == a \o b
  <2>1. e \in Seq(Ints) /\ s[3] = e /\ s[4] = e
    BY <1>6, <1>7
  <2> HIDE DEF e
  <2>5. /\ s[1] \in Seq(Ints) /\ s[2] \in Seq(Ints)
        /\ s[3] \in Seq(Ints) /\ s[4] \in Seq(Ints)
    BY <1>9, <1>10, <2>1
  <2>2. FlattenSeq(s) = (ab \o e) \o e
    <3>1. FlattenSeq(s) = ((s[1] \o s[2]) \o s[3]) \o s[4]
      BY <1>5, <2>5, FlattenFour
    <3> QED BY <1>10, <2>1, <3>1
  <2>3. ab \in Seq(Ints)
    BY <1>9, ConcatProperties
  <2> HIDE DEF ab
  <2>4. ab \o e = ab
    BY <2>3, ConcatEmptySeq DEF e
  <2> QED BY <1>2, <1>7, <2>2, <2>4 DEF ab, a, b, w, x, y, z
<1>8. CASE y.t # "nil"
  <2>1. s[3] = c /\ s[4] = d
    BY <1>6, <1>8 DEF c, d
  <2>2. FlattenSeq(s) = ((a \o b) \o c) \o d
    <3>1. /\ s[1] \in Seq(Ints) /\ s[2] \in Seq(Ints)
          /\ s[3] \in Seq(Ints) /\ s[4] \in Seq(Ints)
      BY <1>8, <1>9, <1>10, <2>1
    <3>2. FlattenSeq(s) = ((s[1] \o s[2]) \o s[3]) \o s[4]
      BY <1>5, <3>1, FlattenFour
    <3> QED BY <1>10, <2>1, <3>2
  <2> QED BY <1>2, <1>8, <2>2 DEF a, b, c, d, w, x, y, z
<1> QED BY <1>7, <1>8

(* The agent finds a key in an index, unless the index is cut.             *)
Finds(t, inst, key, known) ==
  /\ inst \in Seq(Ints)
  /\ known => Len(inst) = IndexLen(key)
  /\ \A m \in 0 .. Len(inst) :
       Decode(t, SubSeq(inst, 1, m)) = IF known /\ m = Len(inst) THEN {key} ELSE {}

DecodesTo(t, s, n, key, known) ==
  /\ s \in Seq(Nat) /\ Len(s) = n
  /\ \A m \in 0 .. Len(s) :
       Decode(t, SubSeq(s, 1, m)) = IF known /\ m = Len(s) THEN {key} ELSE {}

LEMMA GroupFound ==
  ASSUME NEW x \in Nat, NEW n \in Seq(Nat)
  PROVE  DecodesTo("sec2Group", <<x>> \o Prefixed(n), Len(n) + 2, <<"sec2Group", x, n>>, TRUE)
<1> DEFINE s == <<x>> \o Prefixed(n)
           key == <<"sec2Group", x, n>>
<1>1. ASSUME NEW m \in 0 .. Len(s)
      PROVE  /\ s \in Seq(Nat) /\ Len(s) = Len(n) + 2
             /\ Decode("sec2Group", SubSeq(s, 1, m)) = IF m = Len(s) THEN {key} ELSE {}
  BY DecodeGroup
<1>2. Len(s) \in 0 .. Len(s)
  <2>1. <<x>> \in Seq(Nat) /\ Prefixed(n) \in Seq(Nat)
    BY PrefixedIs
  <2>2. s \in Seq(Nat)
    BY <2>1, ConcatProperties
  <2> HIDE DEF s
  <2> QED BY <2>2, OidTypes
<1> HIDE DEF s, key
<1>3. s \in Seq(Nat) /\ Len(s) = Len(n) + 2
  BY <1>1, <1>2
<1>4. DecodesTo("sec2Group", s, Len(n) + 2, key, TRUE)
  BY <1>1, <1>3 DEF DecodesTo
<1> QED BY <1>4 DEF s, key

LEMMA ViewFound ==
  ASSUME NEW a \in Seq(Nat), NEW b \in Seq(Nat)
  PROVE  DecodesTo("view", Prefixed(a) \o Prefixed(b), Len(a) + Len(b) + 2, <<"view", a, b>>, TRUE)
<1> DEFINE s == Prefixed(a) \o Prefixed(b)
           key == <<"view", a, b>>
<1>1. ASSUME NEW m \in 0 .. Len(s)
      PROVE  Decode("view", SubSeq(s, 1, m)) = IF m = Len(s) THEN {key} ELSE {}
  BY DecodeView
<1>2. s \in Seq(Nat) /\ Len(s) = Len(a) + Len(b) + 2
  <2>1. /\ Prefixed(a) \in Seq(Nat) /\ Prefixed(b) \in Seq(Nat)
        /\ Len(Prefixed(a)) = Len(a) + 1 /\ Len(Prefixed(b)) = Len(b) + 1
    BY PrefixedIs
  <2>2. s \in Seq(Nat) /\ Len(s) = Len(Prefixed(a)) + Len(Prefixed(b))
    BY <2>1, ConcatProperties
  <2>3. Len(a) \in Nat /\ Len(b) \in Nat
    BY OidTypes
  <2> HIDE DEF s
  <2> QED BY <2>1, <2>2, <2>3
<1> HIDE DEF s, key
<1>4. DecodesTo("view", s, Len(a) + Len(b) + 2, key, TRUE)
  BY <1>1, <1>2 DEF DecodesTo
<1> QED BY <1>4 DEF s, key

LEMMA AccessFound ==
  ASSUME NEW a \in Seq(Nat), NEW b \in Seq(Nat), NEW r \in Seq(Nat), Len(r) \in {0, 2}
  PROVE  DecodesTo("access", Prefixed(a) \o Prefixed(b) \o r, Len(a) + Len(b) + 2 + Len(r),
                   <<"access", a, b, r[1], r[2]>>, Len(r) = 2)
<1> DEFINE s == Prefixed(a) \o Prefixed(b) \o r
           key == <<"access", a, b, r[1], r[2]>>
<1>1. ASSUME NEW m \in 0 .. Len(s)
      PROVE  Decode("access", SubSeq(s, 1, m)) = IF m = Len(s) /\ Len(r) = 2 THEN {key} ELSE {}
  BY DecodeAccess
<1>2. s \in Seq(Nat) /\ Len(s) = Len(a) + Len(b) + 2 + Len(r)
  <2>1. s \in Seq(Nat) /\ Reads(s, a, b, r)
    BY JoinedReads
  <2> QED BY <2>1 DEF Reads
<1> HIDE DEF s, key
<1>4. DecodesTo("access", s, Len(a) + Len(b) + 2 + Len(r), key, Len(r) = 2)
  BY <1>1, <1>2 DEF DecodesTo
<1> QED BY <1>4 DEF s, key

LEMMA TwoNumbers ==
  ASSUME NEW x \in Ints, NEW y \in Ints
  PROVE  /\ <<x>> \o <<y>> = <<x, y>> /\ <<x, y>> \in Seq(Nat) /\ <<x, y>> \in Seq(Ints)
         /\ <<x>> \in Seq(Ints) /\ Len(<<x, y>>) = 2 /\ <<x, y>>[1] = x /\ <<x, y>>[2] = y
<1> DEFINE a == <<x>>
           b == <<y>>
           r == <<x, y>>
<1>1. x \in Nat /\ y \in Nat
  BY IntsAre
<1>2. /\ a \in Seq(Nat) /\ Len(a) = 1 /\ a[1] = x
      /\ b \in Seq(Nat) /\ Len(b) = 1 /\ b[1] = y
      /\ r \in Seq(Nat) /\ Len(r) = 2 /\ r[1] = x /\ r[2] = y
  BY <1>1
<1>3. r \in Seq(Ints) /\ a \in Seq(Ints)
  OBVIOUS
<1> HIDE DEF a, b, r
<1>4. Behind(a \o b, a, b)
  BY <1>2, Concat
<1> DEFINE s == a \o b
<1>5. /\ s \in Seq(Nat) /\ Len(s) = Len(a) + Len(b)
      /\ \A i \in 1 .. Len(a) : s[i] = a[i]
      /\ \A i \in 1 .. Len(b) : s[Len(a) + i] = b[i]
  BY <1>4 DEF Behind
<1> HIDE DEF s
<1>6. Len(s) = 2 /\ s[1] = x /\ s[2] = y
  <2>1. 1 \in 1 .. Len(a) /\ 1 \in 1 .. Len(b) /\ Len(a) + 1 = 2
    BY <1>2
  <2> QED BY <1>2, <1>5, <2>1
<1>7. \A i \in 1 .. Len(s) : s[i] = r[i]
  <2>1. \A i \in 1 .. 2 : i = 1 \/ i = 2
    OBVIOUS
  <2> QED BY <1>2, <1>6, <2>1
<1>8. s = r
  BY <1>2, <1>5, <1>6, <1>7, SeqEqual
<1> QED BY <1>2, <1>3, <1>8 DEF s, a, b, r

LEMMA NothingIn ==
  /\ << >> \in Seq(Ints)
  /\ \A m \in 0 .. Len(<< >>) : SubSeq(<< >>, 1, m) = << >>
<1>1. Len(<< >>) = 0
  OBVIOUS
<1>2. \A m \in 0 .. Len(<< >>) : m = 0
  BY <1>1
<1>3. SubSeq(<< >>, 1, 0) = << >>
  BY SubSeqEmpty
<1> QED BY <1>2, <1>3

LEMMA ModelIs ==
  ASSUME NEW m \in DOMAIN Model
  PROVE  IF m = "USM" THEN SecModel(m) = Number(3) /\ Model[m] = 3 ELSE SecModel(m) = Nil
<1>1. m \in {"SNMPv1", "SNMPv2", "USM"}
  BY DEF Model
<1>2. CASE m = "USM"
  <2>1. Upper[m] = "USM" /\ "USM" \in DOMAIN SecModels /\ SecModels["USM"] = 3 /\ Model[m] = 3
    BY <1>2 DEF Upper, SecModels, Model
  <2> QED BY <1>2, <2>1 DEF SecModel
<1>3. CASE m # "USM"
  <2>1. Upper[m] \notin DOMAIN SecModels
    BY <1>1, <1>3 DEF Upper, SecModels
  <2> QED BY <1>3, <2>1 DEF SecModel
<1> QED BY <1>2, <1>3

LEMMA NilIs == Nil.t = "nil"
BY DEF Nil, Lua

LEMMA GroupIndex ==
  ASSUME NEW a \in SecToGroups, ~IsNumber(a.secname),
         NEW inst, inst = Instance(<< SecModel(a.secmodel), Text(a.secname) >>)
  PROVE  Finds("sec2Group", inst, MappingKey(a), a.secmodel = "USM")
<1> DEFINE n == a.secname
           x == SecModel(a.secmodel)
           y == Text(n)
           key == MappingKey(a)
<1>1. a.secmodel \in DOMAIN Model /\ IsText(n)
  BY ArgumentsAssumption
<1>2. n \in Seq(Nat) /\ Encode(y) = Prefixed(n) /\ Prefixed(n) \in Seq(Ints) /\ y.t = "string"
  BY <1>1, TextInts, EncodeText
<1>3. CASE a.secmodel = "USM"
  <2>1. x = Number(3) /\ Model[a.secmodel] = 3
    BY <1>1, <1>3, ModelIs
  <2>2. Encode(x) = <<3>> /\ x.t = "number"
    BY <2>1, EncodeNumber
  <2>3. <<3>> \in Seq(Ints)
    <3>1. 3 \in Ints
      BY VacmAssumption, WidthAssumption DEF Ints
    <3> QED BY <3>1
  <2> HIDE DEF x, y
  <2>4. Instance(<<x, y>>) = Encode(x) \o Encode(y)
    BY <1>2, <2>2, <2>3, InstanceOfTwo
  <2>5. inst = <<3>> \o Prefixed(n)
    BY <1>2, <2>2, <2>4 DEF x, y
  <2>6. inst \in Seq(Ints)
    BY <1>2, <2>3, <2>5, ConcatProperties
  <2>7. key = <<"sec2Group", 3, n>>
    BY <2>1 DEF MappingKey
  <2>12. DecodesTo("sec2Group", inst, Len(n) + 2, key, TRUE)
    BY <1>2, <2>5, <2>7, GroupFound
  <2>8. Len(inst) = Len(n) + 2
    BY <2>12 DEF DecodesTo
  <2>9. \A m \in 0 .. Len(inst) :
          Decode("sec2Group", SubSeq(inst, 1, m)) = IF m = Len(inst) THEN {key} ELSE {}
    BY <2>12 DEF DecodesTo
  <2>10. IndexLen(key) = 2 + Len(n)
    BY <2>7 DEF IndexLen
  <2>11. Len(inst) = IndexLen(key)
    BY <1>2, <2>8, <2>10, OidTypes
  <2> HIDE DEF key
  <2> QED BY <1>3, <2>6, <2>9, <2>11 DEF Finds, key
<1>4. CASE a.secmodel # "USM"
  <2>1. x = Nil
    BY <1>1, <1>4, ModelIs
  <2> HIDE DEF y
  <2>2. inst = << >>
    BY <2>1, NilIs, InstanceOfNil DEF y
  <2>3. "sec2Group" \in {"sec2Group", "access"}
    OBVIOUS
  <2> QED BY <1>4, <2>2, <2>3, NothingIn, DecodeNothing DEF Finds
<1> QED BY <1>3, <1>4

LEMMA ViewIndex ==
  ASSUME NEW a \in Views, ~IsNumber(a.viewname),
         NEW inst, inst = Instance(<< Text(a.viewname), OidArg(a.subtree) >>)
  PROVE  Finds("view", inst, ViewKey(a), TRUE)
<1> DEFINE n == a.viewname
           o == a.subtree
           x == Text(n)
           y == OidArg(o)
           key == ViewKey(a)
<1>1. IsText(n) /\ o \in Seq(Ints) /\ Len(o) <= IntMax
  BY ArgumentsAssumption DEF Ints
<1>2. n \in Seq(Nat) /\ Encode(x) = Prefixed(n) /\ Prefixed(n) \in Seq(Ints) /\ x.t = "string"
  BY <1>1, TextInts, EncodeText
<1>3. o \in Seq(Nat) /\ Encode(y) = Prefixed(o) /\ Prefixed(o) \in Seq(Ints) /\ y.t = "oid"
  BY <1>1, SeqOfInts, PrefixedInts, EncodeOid
<1> HIDE DEF x, y
<1>4. Instance(<<x, y>>) = Encode(x) \o Encode(y)
  BY <1>2, <1>3, InstanceOfTwo
<1>5. inst = Prefixed(n) \o Prefixed(o)
  BY <1>2, <1>3, <1>4 DEF x, y
<1>6. inst \in Seq(Ints)
  BY <1>2, <1>3, <1>5, ConcatProperties
<1>7. key = <<"view", n, o>>
  BY DEF ViewKey
<1>10. DecodesTo("view", inst, Len(n) + Len(o) + 2, key, TRUE)
  BY <1>2, <1>3, <1>5, <1>7, ViewFound
<1>8. Len(inst) = IndexLen(key)
  <2>1. Len(inst) = Len(n) + Len(o) + 2
    BY <1>10 DEF DecodesTo
  <2>3. IndexLen(key) = 2 + Len(n) + Len(o)
    BY <1>7 DEF IndexLen
  <2>4. Len(n) \in Nat /\ Len(o) \in Nat
    BY <1>2, <1>3, OidTypes
  <2> DEFINE i == Len(n)
             j == Len(o)
  <2>5. i \in Nat /\ j \in Nat /\ Len(inst) = i + j + 2 /\ IndexLen(key) = 2 + i + j
    BY <2>1, <2>3, <2>4
  <2> HIDE DEF key, i, j
  <2> QED BY <2>5
<1>9. \A m \in 0 .. Len(inst) :
        Decode("view", SubSeq(inst, 1, m)) = IF m = Len(inst) THEN {key} ELSE {}
  BY <1>10 DEF DecodesTo
<1> HIDE DEF key
<1> QED BY <1>6, <1>8, <1>9 DEF Finds, key

LEMMA AccessIndex ==
  ASSUME NEW a \in Accesses, ~IsNumber(a.group), ~IsNumber(a.context),
         a.seclevel \in DOMAIN SecLevels, NEW inst, inst = AccessInstance(a)
  PROVE  Finds("access", inst, AccessKey(a), a.secmodel = "USM")
<1> DEFINE g == a.group
           n == a.context
           w == Text(g)
           x == Text(n)
           y == SecModel(a.secmodel)
           z == Of(SecLevels, a.seclevel)
           l == SecLevels[a.seclevel]
           key == AccessKey(a)
<1>1. a.secmodel \in DOMAIN Model /\ IsText(g) /\ IsText(n)
  BY ArgumentsAssumption
<1>2. g \in Seq(Nat) /\ Encode(w) = Prefixed(g) /\ Prefixed(g) \in Seq(Ints) /\ w.t = "string"
  BY <1>1, TextInts, EncodeText
<1>3. n \in Seq(Nat) /\ Encode(x) = Prefixed(n) /\ Prefixed(n) \in Seq(Ints) /\ x.t = "string"
  BY <1>1, TextInts, EncodeText
<1>4. z = Number(l) /\ Meant(SecLevels, a.seclevel) = l /\ l \in Ints
  <2>1. l \in {1, 2, 3}
    BY DEF SecLevels
  <2> QED BY <2>1, VacmAssumption, WidthAssumption DEF Of, Meant, Ints
<1> HIDE DEF l
<1>5. Encode(z) = <<l>> /\ z.t = "number" /\ <<l>> \in Seq(Ints)
  BY <1>4, EncodeNumber
<1>6. inst = Instance(<<w, x, y, z>>)
  BY DEF AccessInstance
<1> HIDE DEF w, x, z
<1>7. CASE a.secmodel = "USM"
  <2>1. y = Number(3) /\ Model[a.secmodel] = 3
    BY <1>1, <1>7, ModelIs
  <2>2. Encode(y) = <<3>> /\ y.t = "number" /\ <<3>> \in Seq(Ints)
    <3>1. 3 \in Ints
      BY VacmAssumption, WidthAssumption DEF Ints
    <3> QED BY <2>1, <3>1, EncodeNumber
  <2> HIDE DEF y
  <2> DEFINE pg == Prefixed(g)
             pn == Prefixed(n)
             r == <<3, l>>
             three == <<3>>
             level == <<l>>
  <2>3. Instance(<<w, x, y, z>>) = ((Encode(w) \o Encode(x)) \o Encode(y)) \o Encode(z)
    <3> DEFINE args == <<w, x, y, z>>
    <3>1. DOMAIN args = 1 .. 4 /\ args[1] = w /\ args[2] = x /\ args[3] = y /\ args[4] = z
      OBVIOUS
    <3> HIDE DEF args
    <3>2. Encodable(w) /\ Encodable(x) /\ Encodable(y) /\ Encodable(z) /\ y.t # "nil"
      BY <1>2, <1>3, <1>5, <2>2 DEF Encodable
    <3>3. Four(args)
      BY <3>1, <3>2 DEF Four
    <3>4. Instance(args) = ((Encode(w) \o Encode(x)) \o Encode(y)) \o Encode(z)
      BY <3>1, <3>2, <3>3, InstanceOfFour
    <3> QED BY <3>4 DEF args
  <2>4. three \o level = r /\ r \in Seq(Nat) /\ Len(r) = 2 /\ r[1] = 3 /\ r[2] = l
        /\ r \in Seq(Ints)
    <3>1. 3 \in Ints
      BY VacmAssumption, WidthAssumption DEF Ints
    <3> QED BY <1>4, <3>1, TwoNumbers
  <2>5. inst = ((pg \o pn) \o three) \o level
    BY <1>2, <1>3, <1>5, <1>6, <2>2, <2>3
  <2>6. pg \in Seq(Ints) /\ pn \in Seq(Ints) /\ three \in Seq(Ints) /\ level \in Seq(Ints)
    BY <1>2, <1>3, <1>5, <2>2
  <2>7. inst = pg \o pn \o r /\ inst \in Seq(Ints)
    <3> HIDE DEF pg, pn, r, three, level
    <3> DEFINE ab == pg \o pn
    <3>1. ab \in Seq(Ints)
      BY <2>6, ConcatProperties
    <3> HIDE DEF ab
    <3>2. (ab \o three) \o level = ab \o (three \o level)
      BY <2>6, <3>1, ConcatAssociative, SMTT(40)
    <3>3. inst = ab \o r
      BY <2>4, <2>5, <3>2 DEF ab
    <3>4. ab \o r \in Seq(Ints)
      BY <2>4, <3>1, ConcatProperties
    <3> QED BY <3>3, <3>4 DEF ab
  <2>8. key = <<"access", g, n, 3, l>>
    BY <1>4, <2>1 DEF AccessKey
  <2> HIDE DEF r
  <2>9. inst = Prefixed(g) \o Prefixed(n) \o r /\ Len(r) \in {0, 2}
    BY <2>4, <2>7
  <2>13. DecodesTo("access", inst, Len(g) + Len(n) + 2 + Len(r), key, Len(r) = 2)
    BY <1>2, <1>3, <2>4, <2>8, <2>9, AccessFound
  <2>10. Len(inst) = Len(g) + Len(n) + 2 + 2
    BY <2>4, <2>13 DEF DecodesTo
  <2>11. \A m \in 0 .. Len(inst) :
          Decode("access", SubSeq(inst, 1, m)) = IF m = Len(inst) THEN {key} ELSE {}
    BY <2>4, <2>13 DEF DecodesTo
  <2>12. Len(inst) = IndexLen(key)
    <3>1. IndexLen(key) = 4 + Len(g) + Len(n)
      BY <2>8 DEF IndexLen
    <3>2. Len(g) \in Nat /\ Len(n) \in Nat
      BY <1>2, <1>3, OidTypes
    <3> DEFINE i == Len(g)
               j == Len(n)
    <3>3. /\ i \in Nat /\ j \in Nat
          /\ Len(inst) = i + j + 2 + 2 /\ IndexLen(key) = 4 + i + j
      BY <2>10, <3>1, <3>2
    <3> HIDE DEF key, i, j
    <3> QED BY <3>3
  <2> HIDE DEF key
  <2> QED BY <1>7, <2>7, <2>11, <2>12 DEF Finds, key
<1>8. CASE a.secmodel # "USM"
  <2>1. y.t = "nil"
    BY <1>1, <1>8, ModelIs, NilIs
  <2> HIDE DEF y
  <2>2. Instance(<<w, x, y, z>>) = Encode(w) \o Encode(x)
    <3> DEFINE args == <<w, x, y, z>>
    <3>1. DOMAIN args = 1 .. 4 /\ args[1] = w /\ args[2] = x /\ args[3] = y /\ args[4] = z
      OBVIOUS
    <3> HIDE DEF args
    <3>2. Encodable(w) /\ Encodable(x) /\ Encodable(z)
      BY <1>2, <1>3, <1>5 DEF Encodable
    <3>3. Four(args)
      BY <2>1, <3>1, <3>2 DEF Four
    <3>4. Instance(args) = Encode(w) \o Encode(x)
      BY <2>1, <3>1, <3>3, InstanceOfFour
    <3> QED BY <3>4 DEF args
  <2> DEFINE s == Prefixed(g) \o Prefixed(n)
             e == << >>
             key0 == <<"access", g, n, e[1], e[2]>>
  <2>3. s \in Seq(Ints) /\ inst = s
    BY <1>2, <1>3, <1>6, <2>2, ConcatProperties
  <2>4. s \in Seq(Nat) /\ e \in Seq(Nat) /\ Len(e) = 0 /\ s \o e = s
    <3> HIDE DEF s
    <3> QED BY <2>3, SeqOfInts, ConcatEmptySeq
  <2>5. inst = Prefixed(g) \o Prefixed(n) \o e
    BY <2>3, <2>4
  <2> HIDE DEF s, e
  <2>8. Len(e) \in {0, 2}
    BY <2>4
  <2>9. DecodesTo("access", Prefixed(g) \o Prefixed(n) \o e, Len(g) + Len(n) + 2 + Len(e),
                  key0, Len(e) = 2)
    BY <1>2, <1>3, <2>4, <2>8, AccessFound
  <2> HIDE DEF key0
  <2>6. DecodesTo("access", inst, Len(g) + Len(n) + 2 + Len(e), key0, Len(e) = 2)
    <3> DEFINE whole == Prefixed(g) \o Prefixed(n) \o e
               len == Len(g) + Len(n) + 2 + Len(e)
               two == Len(e) = 2
    <3>1. inst = whole
      BY <2>5
    <3>2. DecodesTo("access", whole, len, key0, two)
      BY <2>9
    <3> HIDE DEF whole, len, two
    <3>3. DecodesTo("access", inst, len, key0, two)
      BY <3>1, <3>2
    <3> QED BY <3>3 DEF len, two
  <2>7. \A m \in 0 .. Len(inst) : Decode("access", SubSeq(inst, 1, m)) = {}
    <3>1. \A m \in 0 .. Len(inst) : Decode("access", SubSeq(inst, 1, m)) =
            IF Len(e) = 2 /\ m = Len(inst) THEN {key0} ELSE {}
      BY <2>6, Zenon DEF DecodesTo
    <3>2. Len(e) # 2
      BY <2>4
    <3> QED BY <3>1, <3>2, Zenon
  <2> QED BY <1>8, <2>3, <2>7 DEF Finds
<1> QED BY <1>7, <1>8
-----------------------------------------------------------------------------
(* Octets and masks.                                                       *)

LEMMA HexDigits ==
  ASSUME NEW d \in 0 .. 15
  PROVE  /\ HexChar(d) \in DOMAIN Nibble /\ Nibble[HexChar(d)] = d
<1>1. DOMAIN Nibble = Digits \cup (97 .. 102)
  BY DEF Nibble
<1>2. CASE d < 10
  <2>1. HexChar(d) = d + 48 /\ d + 48 \in Digits /\ (d + 48) - 48 = d
    BY <1>2 DEF HexChar, Digits
  <2>2. Nibble[d + 48] = (d + 48) - 48
    BY <2>1 DEF Nibble
  <2> QED BY <1>1, <2>1, <2>2
<1>3. CASE ~(d < 10)
  <2>1. HexChar(d) = d + 87 /\ d + 87 \in 97 .. 102 /\ d + 87 \notin Digits /\ (d + 87) - 87 = d
    BY <1>3 DEF HexChar, Digits
  <2>2. Nibble[d + 87] = (d + 87) - 87
    BY <2>1 DEF Nibble
  <2> QED BY <1>1, <2>1, <2>2
<1> QED BY <1>2, <1>3

LEMMA Thirds ==
  ASSUME NEW k \in Nat, k >= 1
  PROVE  /\ (3 * k - 2) % 3 = 1 /\ ((3 * k - 2) + 2) \div 3 = k
         /\ (3 * k - 1) % 3 = 2 /\ ((3 * k - 1) + 2) \div 3 = k
OBVIOUS

LEMMA Sixteenths ==
  ASSUME NEW n \in Nat
  PROVE  n = 16 * (n \div 16) + (n % 16)
OBVIOUS

LEMMA OctetOf ==
  ASSUME NEW n \in 0 .. 255, NEW q, NEW r, q = n \div 16, r = n % 16
  PROVE  q \in 0 .. 15 /\ r \in 0 .. 15 /\ n = 16 * q + r
<1>1. n \in Nat /\ n <= 255
  OBVIOUS
<1>2. n \div 16 \in 0 .. 15
  BY <1>1
<1>3. n % 16 \in 0 .. 15
  BY <1>1
<1>4. n = 16 * (n \div 16) + (n % 16)
  BY <1>1, Sixteenths
<1> QED BY <1>2, <1>3, <1>4

LEMMA NotEmpty ==
  ASSUME NEW B, NEW x \in Seq(B), x # << >>
  PROVE  Len(x) \in Nat /\ Len(x) # 0
BY EmptySeq

LEMMA OctetsIn ==
  ASSUME NEW B, NEW x \in Seq(B)
  PROVE  Len(x) \in Nat /\ \A i \in 1 .. Len(x) : x[i] \in B
OBVIOUS

LEMMA DigitsFit ==
  ASSUME NEW a \in 0 .. 15, NEW b \in 0 .. 15
  PROVE  /\ 16 * a \in 0 .. 255 /\ 16 * a + b \in 0 .. 255 /\ 16 * a + 0 = 16 * a
OBVIOUS

(* What key2octet writes, f_create_vl reads.                               *)
LEMMA OctetsBack ==
  ASSUME NEW x \in Seq(0 .. 255)
  PROVE  ToOctets(Key2Octet(x)) = x
<1> DEFINE n == Len(x)
           text == Key2Octet(x)
           k3 == 3 * n - 1
<1>1. n \in Nat /\ \A i \in 1 .. n : x[i] \in 0 .. 255
  BY OctetsIn
<1>2. text = [i \in 1 .. k3 |->
                LET octet == x[(i + 2) \div 3]
                IN CASE i % 3 = 1 -> HexChar(octet \div 16)
                     [] i % 3 = 2 -> HexChar(octet % 16)
                     [] i % 3 = 0 -> Colon]
  BY DEF Key2Octet
<1>3. DOMAIN text = 1 .. k3
  BY <1>2
<1>4. ASSUME NEW i \in 1 .. k3
      PROVE  /\ i % 3 = 0 => text[i] = Colon
             /\ i % 3 = 1 => text[i] = HexChar(x[(i + 2) \div 3] \div 16)
             /\ i % 3 = 2 => text[i] = HexChar(x[(i + 2) \div 3] % 16)
             /\ i \in Nat /\ i % 3 \in {0, 1, 2} /\ (i + 2) \div 3 \in 1 .. n
  <2>1. i \in Nat /\ i >= 1 /\ i <= 3 * n - 1
    BY <1>1
  <2>2. i % 3 \in {0, 1, 2} /\ (i + 2) \div 3 \in 1 .. n
    <3> HIDE DEF n
    <3> QED BY <1>1, <2>1
  <2> HIDE DEF n, text, k3
  <2> QED BY <1>2, <2>1, <2>2
<1>5. CASE n = 0
  <2>1. x = << >>
    BY <1>5, EmptySeq
  <2>2. text = << >>
    <3>1. DOMAIN text = {}
      BY <1>3, <1>5
    <3> HIDE DEF text, n, k3
    <3>2. text = [i \in 1 .. 0 |-> i]
      BY <1>2, <3>1
    <3> QED BY <3>2
  <2> HIDE DEF text
  <2>3. ToOctets(<< >>) = << >>
    <3>1. Len(<< >>) = 0 /\ DOMAIN << >> = {}
      OBVIOUS
    <3>2. ReadsAsOctets(<< >>)
      BY <3>1 DEF ReadsAsOctets
    <3>3. (0 + 1) \div 3 = 0
      OBVIOUS
    <3>4. [k \in 1 .. 0 |-> 16 * Nibble[<< >>[3 * k - 2]] + Nibble[<< >>[3 * k - 1]]] = << >>
      OBVIOUS
    <3> QED BY <3>1, <3>2, <3>3, <3>4 DEF ToOctets
  <2> QED BY <2>1, <2>2, <2>3 DEF text
<1>6. CASE n > 0
  <2>1. k3 \in Nat /\ k3 % 3 = 2 /\ (k3 + 1) \div 3 = n
    <3> HIDE DEF n
    <3> QED BY <1>1, <1>6
  <2>2. Len(text) = k3
    <3> HIDE DEF text, k3, n
    <3> QED BY <1>2, <2>1
  <2>3. ReadsAsOctets(text)
    <3>1. ASSUME NEW i \in DOMAIN text
          PROVE  IF i % 3 = 0 THEN text[i] = Colon ELSE text[i] \in DOMAIN Nibble
      <4> DEFINE o == x[(i + 2) \div 3]
      <4>1. i \in 1 .. k3
        BY <1>3
      <4>2. o \in 0 .. 255
        <5>1. (i + 2) \div 3 \in 1 .. n
          BY <1>4, <4>1
        <5> QED BY <1>1, <5>1
      <4>3. HexChar(o \div 16) \in DOMAIN Nibble /\ HexChar(o % 16) \in DOMAIN Nibble
        <5> HIDE DEF o
        <5>1. o \div 16 \in 0 .. 15 /\ o % 16 \in 0 .. 15
          BY <4>2, OctetOf, Zenon
        <5> QED BY <5>1, HexDigits
      <4>4. /\ i % 3 = 0 => text[i] = Colon
            /\ i % 3 = 1 => text[i] = HexChar(o \div 16)
            /\ i % 3 = 2 => text[i] = HexChar(o % 16)
            /\ i % 3 \in {0, 1, 2}
        BY <1>4, <4>1
      <4> HIDE DEF text, o
      <4> QED BY <4>3, <4>4
    <3>2. Len(text) % 3 # 1
      BY <2>1, <2>2
    <3> QED BY <3>1, <3>2 DEF ReadsAsOctets
  <2>4. ToOctets(text) =
          [k \in 1 .. n |-> 16 * Nibble[text[3 * k - 2]] + Nibble[text[3 * k - 1]]]
    <3> HIDE DEF text, n, k3
    <3>1. ToOctets(text) = [k \in 1 .. (Len(text) + 1) \div 3 |->
                              16 * Nibble[text[3 * k - 2]] + Nibble[text[3 * k - 1]]]
      BY <2>3 DEF ToOctets
    <3>2. (Len(text) + 1) \div 3 = n
      BY <2>1, <2>2
    <3> QED BY <3>1, <3>2
  <2>5. ASSUME NEW k \in 1 .. n
        PROVE  16 * Nibble[text[3 * k - 2]] + Nibble[text[3 * k - 1]] = x[k]
    <3>1. k \in Nat /\ k >= 1 /\ 3 * k - 2 \in 1 .. k3 /\ 3 * k - 1 \in 1 .. k3
      <4> HIDE DEF n
      <4> QED BY <1>1
    <3>2. text[3 * k - 2] = HexChar(x[k] \div 16)
      BY <1>4, <3>1, Thirds
    <3>3. text[3 * k - 1] = HexChar(x[k] % 16)
      BY <1>4, <3>1, Thirds
    <3>4. x[k] \in 0 .. 255
      BY <1>1
    <3> DEFINE a == x[k] \div 16
               b == x[k] % 16
    <3>5. a \in 0 .. 15 /\ b \in 0 .. 15 /\ x[k] = 16 * a + b
      BY <3>4, OctetOf
    <3>10. text[3 * k - 2] = HexChar(a) /\ text[3 * k - 1] = HexChar(b)
      BY <3>2, <3>3
    <3> HIDE DEF a, b
    <3>6. Nibble[HexChar(a)] = a /\ Nibble[HexChar(b)] = b
      BY <3>5, HexDigits
    <3> HIDE DEF text
    <3>7. Nibble[text[3 * k - 2]] = a
      BY <3>6, <3>10
    <3>8. Nibble[text[3 * k - 1]] = b
      BY <3>6, <3>10
    <3>9. x[k] = 16 * a + b
      BY <3>5
    <3> QED BY <3>7, <3>8, <3>9
  <2>6. x = [k \in 1 .. n |-> x[k]]
    OBVIOUS
  <2> HIDE DEF text, n
  <2>7. ToOctets(text) = [k \in 1 .. n |-> x[k]]
    BY <2>4, <2>5
  <2> QED BY <2>6, <2>7 DEF text
<1> QED BY <1>1, <1>5, <1>6

LEMMA PlainText ==
  ASSUME NEW name, ~(name # << >> /\ ReadsAsOctets(name))
  PROVE  ToOctets(name) = name
<1>1. CASE name = << >>
  <2>1. Len(<< >>) = 0 /\ DOMAIN << >> = {}
    OBVIOUS
  <2>2. (0 + 1) \div 3 = 0
    OBVIOUS
  <2>3. [k \in 1 .. 0 |-> 16 * Nibble[<< >>[3 * k - 2]] + Nibble[<< >>[3 * k - 1]]] = << >>
    OBVIOUS
  <2> QED BY <1>1, <2>1, <2>2, <2>3 DEF ToOctets
<1>2. CASE ~ReadsAsOctets(name)
  BY <1>2 DEF ToOctets
<1> QED BY <1>1, <1>2

(* Runs of up to two digits are read as the octets they spell.             *)
LEMMA MaskIs ==
  ASSUME NEW runs \in Seq(Seq(0 .. 15) \ {<< >>}), \A i \in DOMAIN runs : Len(runs[i]) <= 2
  PROVE  ViewMask(runs) = MaskMeant(runs) /\ MaskMeant(runs) \in Seq(0 .. 255)
<1> DEFINE read(i) ==
             CASE Len(runs[i]) = 1 -> << 16 * runs[i][1] >>
               [] Len(runs[i]) = 2 -> << 16 * runs[i][1] + runs[i][2] >>
               [] OTHER -> << >>
           meant(i) ==
             [j \in 1 .. (Len(runs[i]) + 1) \div 2 |->
                16 * runs[i][2 * j - 1] + (IF 2 * j <= Len(runs[i]) THEN runs[i][2 * j] ELSE 0)]
           f == [i \in DOMAIN runs |-> read(i)]
           g == [i \in DOMAIN runs |-> meant(i)]
           Octets == 0 .. 255
<1>1. Len(runs) \in Nat /\ DOMAIN runs = 1 .. Len(runs)
  OBVIOUS
<1>2. ASSUME NEW i \in DOMAIN runs
      PROVE  read(i) = meant(i) /\ meant(i) \in Seq(Octets)
  <2> DEFINE r == runs[i]
  <2>1. r \in Seq(0 .. 15) /\ r # << >>
    OBVIOUS
  <2>2. Len(r) <= 2
    OBVIOUS
  <2>3. \A j \in 1 .. Len(r) : r[j] \in 0 .. 15
    BY <2>1, OctetsIn
  <2>4. Len(r) \in {1, 2}
    <3> HIDE DEF r
    <3>1. Len(r) \in Nat /\ Len(r) # 0
      <4> DEFINE B == 0 .. 15
      <4>1. r \in Seq(B) /\ r # << >>
        BY <2>1
      <4> HIDE DEF B
      <4> QED BY <4>1, NotEmpty
    <3> DEFINE l == Len(r)
    <3>2. l \in Nat /\ l # 0 /\ l <= 2
      BY <2>2, <3>1
    <3> HIDE DEF l
    <3>3. l = 1 \/ l = 2
      BY <3>2
    <3> QED BY <3>3 DEF l
  <2> HIDE DEF r
  <2>5. CASE Len(r) = 1
    <3>1. read(i) = << 16 * r[1] >>
      BY <2>5 DEF r
    <3>2. meant(i) = [j \in 1 .. (1 + 1) \div 2 |->
                        16 * r[2 * j - 1] + (IF 2 * j <= 1 THEN r[2 * j] ELSE 0)]
      BY <2>5 DEF r
    <3>3. r[1] \in 0 .. 15 /\ 16 * r[1] \in 0 .. 255
      <4>1. r[1] \in 0 .. 15
        BY <2>3, <2>5
      <4> QED BY <4>1, DigitsFit
    <3>6. 16 * r[1] + 0 = 16 * r[1]
      BY <3>3, DigitsFit
    <3>4. meant(i) = [j \in 1 .. 1 |-> 16 * r[1]]
      <4>1. (1 + 1) \div 2 = 1
        OBVIOUS
      <4>2. \A j \in 1 .. 1 : 16 * r[2 * j - 1] + (IF 2 * j <= 1 THEN r[2 * j] ELSE 0) = 16 * r[1]
        <5>1. \A j \in 1 .. 1 : j = 1 /\ 2 * j - 1 = 1 /\ ~(2 * j <= 1)
          OBVIOUS
        <5> QED BY <3>6, <5>1
      <4> HIDE DEF meant
      <4> QED BY <3>2, <4>1, <4>2
    <3> HIDE DEF read, meant
    <3>5. [j \in 1 .. 1 |-> 16 * r[1]] = << 16 * r[1] >>
      OBVIOUS
    <3> QED BY <3>1, <3>3, <3>4, <3>5
  <2>6. CASE Len(r) = 2
    <3>1. read(i) = << 16 * r[1] + r[2] >>
      BY <2>6 DEF r
    <3>2. meant(i) = [j \in 1 .. (2 + 1) \div 2 |->
                        16 * r[2 * j - 1] + (IF 2 * j <= 2 THEN r[2 * j] ELSE 0)]
      BY <2>6 DEF r
    <3>3. 16 * r[1] + r[2] \in 0 .. 255
      <4>1. r[1] \in 0 .. 15 /\ r[2] \in 0 .. 15
        BY <2>3, <2>6
      <4> QED BY <4>1, DigitsFit
    <3>4. meant(i) = [j \in 1 .. 1 |-> 16 * r[1] + r[2]]
      <4>1. (2 + 1) \div 2 = 1
        OBVIOUS
      <4>2. \A j \in 1 .. 1 : 16 * r[2 * j - 1] + (IF 2 * j <= 2 THEN r[2 * j] ELSE 0)
                                = 16 * r[1] + r[2]
        <5>1. \A j \in 1 .. 1 : j = 1 /\ 2 * j - 1 = 1 /\ 2 * j <= 2 /\ 2 * j = 2
          OBVIOUS
        <5> QED BY <5>1
      <4> HIDE DEF meant
      <4> QED BY <3>2, <4>1, <4>2
    <3> HIDE DEF read, meant
    <3>5. [j \in 1 .. 1 |-> 16 * r[1] + r[2]] = << 16 * r[1] + r[2] >>
      OBVIOUS
    <3> QED BY <3>1, <3>3, <3>4, <3>5
  <2> QED BY <2>4, <2>5, <2>6
<1>3. ViewMask(runs) = FlattenSeq(f) /\ MaskMeant(runs) = FlattenSeq(g)
  BY DEF ViewMask, MaskMeant
<1> HIDE DEF read, meant, Octets
<1>4. f = g
  BY <1>2
<1>5. g \in [1 .. Len(runs) -> Seq(Octets)] /\ Len(g) = Len(runs)
  BY <1>1, <1>2
<1> HIDE DEF g
<1>6. FlattenSeq(g) \in Seq(Octets)
  <2>1. CASE Len(runs) = 0
    <3>1. Len(g) = 0
      BY <1>5, <2>1
    <3>2. FlattenSeq(g) = g
      BY <3>1 DEF FlattenSeq
    <3> QED BY <1>5, <2>1, <3>2
  <2>2. CASE Len(runs) # 0
    <3>1. Entries(g, Len(runs), Octets)
      BY <1>1, <1>5, <2>2 DEF Entries
    <3> QED BY <3>1, Flattened
  <2> QED BY <2>1, <2>2
<1> QED BY <1>3, <1>4, <1>6 DEF Octets
-----------------------------------------------------------------------------
(* What is sent for a call: the columns cs with the values xs.             *)

Sets(vl, t, k, inst, cs, xs) ==
  /\ t \in DOMAIN Columns /\ k \in Nat /\ k >= 1 /\ DOMAIN vl = 1 .. k
  /\ \A i \in 1 .. k : cs[i] \in Columns[t] /\ vl[i] = NewVar(cs[i], inst, xs[i])
  /\ \A i, j \in 1 .. k : cs[i] = cs[j] => i = j

CanSend(t, k, inst, cs, xs) == \A i \in 1 .. k : Nameable(cs[i], inst) /\ Suits(cs[i], xs[i])

(* What the agent makes of it.                                             *)
Says(p, k, key, cs, xs, full) ==
  /\ p # << >> /\ DOMAIN p = 1 .. k
  /\ \A i \in 1 .. k : p[i].val = Content(cs[i], xs[i]) /\ ValueIn(p, cs[i]) = Content(cs[i], xs[i])
  /\ Keys(p) = IF full THEN {key} ELSE {}

LEMMA SameRoom ==
  ASSUME TreeOK, NEW t \in DOMAIN Columns, NEW c \in Columns[t], NEW d \in Columns[t],
         NEW inst \in Seq(Ints)
  PROVE  Room(c, inst) = Room(d, inst) /\ Len(VacmOid[c]) = Len(VacmOid[d])
<1>1. Len(VacmOid[c]) = Len(VacmOid[d])
  BY ColumnsAssumption
<1>2. Len(Object(c, inst)) = Len(VacmOid[c]) + Len(inst)
  BY ObjectIs
<1>3. Len(Object(d, inst)) = Len(VacmOid[d]) + Len(inst)
  BY ObjectIs
<1> QED BY <1>1, <1>2, <1>3 DEF Room

LEMMA SendableIs ==
  ASSUME TreeOK, NEW vl, NEW t, NEW k, NEW inst \in Seq(Ints), NEW cs, NEW xs,
         Sets(vl, t, k, inst, cs, xs)
  PROVE  Sendable(vl) <=> CanSend(t, k, inst, cs, xs)
<1>1. \A i \in 1 .. k : CreateVlist(vl[i]) # {} <=> Nameable(cs[i], inst) /\ Suits(cs[i], xs[i])
  <2> TAKE i \in 1 .. k
  <2>1. t \in DOMAIN Columns /\ cs[i] \in Columns[t] /\ vl[i] = NewVar(cs[i], inst, xs[i])
    BY DEF Sets
  <2>2. CreateVlist(NewVar(cs[i], inst, xs[i])) =
          IF Nameable(cs[i], inst) /\ Suits(cs[i], xs[i])
          THEN {[oid |-> Cut(Object(cs[i], inst)), val |-> Content(cs[i], xs[i])]} ELSE {}
    BY <2>1, Created
  <2>3. CASE Nameable(cs[i], inst) /\ Suits(cs[i], xs[i])
    BY <2>1, <2>2, <2>3
  <2>4. CASE ~(Nameable(cs[i], inst) /\ Suits(cs[i], xs[i]))
    BY <2>1, <2>2, <2>4
  <2> QED BY <2>3, <2>4
<1>2. DOMAIN vl = 1 .. k
  BY DEF Sets
<1> QED BY <1>1, <1>2 DEF Sendable, CanSend

Carrying(p, k, inst, cs, xs) ==
  /\ DOMAIN p = 1 .. k
  /\ \A i \in 1 .. k : /\ p[i].oid = Cut(Object(cs[i], inst))
                       /\ p[i].val = Content(cs[i], xs[i])

LEMMA PduIs ==
  ASSUME TreeOK, NEW vl, NEW t, NEW k, NEW inst \in Seq(Ints), NEW cs, NEW xs,
         Sets(vl, t, k, inst, cs, xs), CanSend(t, k, inst, cs, xs)
  PROVE  Carrying(Pdu(vl), k, inst, cs, xs)
<1>1. DOMAIN vl = 1 .. k
  BY DEF Sets
<1>2. Pdu(vl) = [i \in 1 .. k |-> CHOOSE v \in CreateVlist(vl[i]) : TRUE]
  BY <1>1 DEF Pdu
<1>3. ASSUME NEW i \in 1 .. k
      PROVE  /\ Pdu(vl)[i].oid = Cut(Object(cs[i], inst))
             /\ Pdu(vl)[i].val = Content(cs[i], xs[i])
  <2> DEFINE r == [oid |-> Cut(Object(cs[i], inst)), val |-> Content(cs[i], xs[i])]
  <2>1. t \in DOMAIN Columns /\ cs[i] \in Columns[t] /\ vl[i] = NewVar(cs[i], inst, xs[i])
    BY DEF Sets
  <2>2. Nameable(cs[i], inst) /\ Suits(cs[i], xs[i])
    BY DEF CanSend
  <2>3. CreateVlist(NewVar(cs[i], inst, xs[i])) =
          IF Nameable(cs[i], inst) /\ Suits(cs[i], xs[i]) THEN {r} ELSE {}
    BY <2>1, Created
  <2>4. r.oid = Cut(Object(cs[i], inst)) /\ r.val = Content(cs[i], xs[i])
    OBVIOUS
  <2> HIDE DEF r
  <2>5. CreateVlist(vl[i]) = {r}
    BY <2>1, <2>2, <2>3
  <2>6. (CHOOSE v \in {r} : TRUE) = r
    OBVIOUS
  <2>7. Pdu(vl)[i] = r
    BY <1>2, <2>5, <2>6
  <2> QED BY <2>4, <2>7
<1>4. DOMAIN Pdu(vl) = 1 .. k
  BY <1>2
<1> QED BY <1>3, <1>4 DEF Carrying

LEMMA Said ==
  ASSUME TreeOK, NEW vl, NEW t, NEW k, NEW inst, NEW cs, NEW xs, NEW key, NEW known,
         Finds(t, inst, key, known),
         Sets(vl, t, k, inst, cs, xs), CanSend(t, k, inst, cs, xs)
  PROVE  /\ known => Len(VacmOid[cs[1]]) + IndexLen(key) \in Nat
         /\ Says(Pdu(vl), k, key, cs, xs,
                 known /\ Len(VacmOid[cs[1]]) + IndexLen(key) <= NMAX_SUBID)
<1> DEFINE p == Pdu(vl)
           full == known /\ Len(VacmOid[cs[1]]) + IndexLen(key) <= NMAX_SUBID
           Ks == IF full THEN {key} ELSE {}
<1>1. /\ inst \in Seq(Ints) /\ (known => Len(inst) = IndexLen(key))
      /\ \A m \in 0 .. Len(inst) :
           Decode(t, SubSeq(inst, 1, m)) = IF known /\ m = Len(inst) THEN {key} ELSE {}
  BY DEF Finds
<1>2. /\ DOMAIN p = 1 .. k
      /\ \A i \in 1 .. k : /\ p[i].oid = Cut(Object(cs[i], inst))
                           /\ p[i].val = Content(cs[i], xs[i])
  <2>1. Carrying(Pdu(vl), k, inst, cs, xs)
    BY <1>1, PduIs
  <2> QED BY <2>1 DEF Carrying
<1>3. /\ t \in DOMAIN Columns /\ k \in Nat /\ k >= 1
      /\ \A i \in 1 .. k : cs[i] \in Columns[t]
      /\ \A i, j \in 1 .. k : cs[i] = cs[j] => i = j
  BY DEF Sets
<1>4. \A i \in 1 .. k : Nameable(cs[i], inst)
  BY DEF CanSend
<1>5. 1 \in 1 .. k
  BY <1>3
<1> HIDE DEF p
<1>6. ASSUME NEW i \in 1 .. k
      PROVE  /\ KeysOf(p[i].oid) = Ks
             /\ ColumnOf(p[i].oid) = {cs[i]}
  <2> DEFINE c == cs[i]
             m == Room(c, inst)
  <2>1. c \in Columns[t] /\ Nameable(c, inst) /\ p[i].oid = Cut(Object(c, inst))
    BY <1>2, <1>3, <1>4
  <2>2. KeysOf(p[i].oid) = Decode(t, SubSeq(inst, 1, m)) /\ ColumnOf(p[i].oid) = {c}
    BY <1>1, <1>3, <2>1, KeysOfObject, ColumnOfObject DEF Index
  <2>3. m \in 0 .. Len(inst) /\ (m = Len(inst) <=> Len(VacmOid[c]) + Len(inst) <= NMAX_SUBID)
    BY <1>1, <1>3, <2>1, RoomIs
  <2>4. Len(VacmOid[c]) = Len(VacmOid[cs[1]])
    <3>1. cs[1] \in Columns[t]
      BY <1>3, <1>5
    <3> QED BY <1>1, <1>3, <2>1, <3>1, SameRoom
  <2>5. Decode(t, SubSeq(inst, 1, m)) = IF known /\ m = Len(inst) THEN {key} ELSE {}
    BY <1>1, <2>3
  <2> HIDE DEF m, c
  <2>6. CASE known
    <3>1. m = Len(inst) <=> Len(VacmOid[cs[1]]) + IndexLen(key) <= NMAX_SUBID
      BY <1>1, <2>3, <2>4, <2>6
    <3>2. CASE m = Len(inst)
      BY <2>2, <2>5, <2>6, <3>1, <3>2 DEF c
    <3>3. CASE m # Len(inst)
      BY <2>2, <2>5, <2>6, <3>1, <3>3 DEF c
    <3> QED BY <3>2, <3>3
  <2>7. CASE ~known
    BY <2>2, <2>5, <2>7 DEF c
  <2> QED BY <2>6, <2>7
<1>7. known => Len(VacmOid[cs[1]]) + IndexLen(key) \in Nat
  <2>1. Len(inst) \in Nat
    BY <1>1, SeqOfInts
  <2>2. Len(VacmOid[cs[1]]) \in Nat
    BY <1>3, <1>5, ColumnIs
  <2> QED BY <1>1, <2>1, <2>2
<1> HIDE DEF Ks, full
<1>8. Keys(p) = Ks
  <2>1. Keys(p) = UNION {KeysOf(p[i].oid) : i \in 1 .. k}
    BY <1>2 DEF Keys
  <2> QED BY <1>5, <1>6, <2>1
<1>9. ASSUME NEW i \in 1 .. k
      PROVE  ValueIn(p, cs[i]) = Content(cs[i], xs[i])
  <2>1. \A j \in DOMAIN p : cs[i] \in ColumnOf(p[j].oid) <=> j = i
    BY <1>2, <1>3, <1>6, SMTT(40)
  <2>2. (CHOOSE j \in DOMAIN p : cs[i] \in ColumnOf(p[j].oid)) = i
    BY <1>2, <2>1
  <2> QED BY <1>2, <2>2 DEF ValueIn
<1>10. p # << >>
  <2>1. DOMAIN << >> = {}
    OBVIOUS
  <2> QED BY <1>2, <1>5, <2>1
<1>11. Says(p, k, key, cs, xs, full)
  BY <1>2, <1>8, <1>9, <1>10 DEF Says, Ks
<1> QED BY <1>7, <1>11 DEF p, full
-----------------------------------------------------------------------------
(* What a call carries.                                                    *)

LEMMA ColumnsTogether ==
  ASSUME TreeOK, TreeWhole, NEW t \in DOMAIN Columns, NEW c \in Columns[t], NEW d \in Columns[t],
         VacmOid[c] \in DOMAIN tree
  PROVE  VacmOid[d] \in DOMAIN tree
<1> DEFINE o == VacmOid[c]
<1>1. PICK f \in DOMAIN MibFile : \E n \in MibFile[f] :
        n.oid = o /\ tree[o] = [label |-> n.label, type |-> n.type, module |-> f]
  BY DEF TreeOK
<1>2. PICK n \in MibFile[f] :
        n.oid = o /\ tree[o] = [label |-> n.label, type |-> n.type, module |-> f]
  BY <1>1
<1>3. tree[o].module = f
  BY <1>2
<1>4. IsPrefix(o, n.oid)
  <2>1. o \in Seq(Nat) /\ Len(o) \in Nat
    BY ColumnIs
  <2> HIDE DEF o
  <2>2. Len(o) <= Len(o) /\ \A i \in 1 .. Len(o) : o[i] = o[i]
    BY <2>1
  <2> QED BY <1>2, <2>1, <2>2, PrefixIs
<1>5. \E m \in MibFile[f] : m.oid = VacmOid[d]
  BY <1>4, ColumnsAssumption
<1>6. PICK m \in MibFile[f] : m.oid = VacmOid[d]
  BY <1>5
<1>7. \A m0 \in MibFile[f] : m0.oid \in DOMAIN tree
  BY <1>3 DEF TreeWhole
<1> QED BY <1>6, <1>7

ModelKnown(a) == "secmodel" \in DOMAIN a => a.secmodel = "USM"
Words(do, a) ==
  /\ Known(a, "seclevel", SecLevels)
  /\ do = "create" => Known(a, "flag", ViewTypes) /\ Known(a, "match", Matching)
Suited(k, cs, xs) == \A i \in 1 .. k : Suits(cs[i], xs[i])

Room1(key, cs) == Len(VacmOid[cs[1]]) + IndexLen(key) <= NMAX_SUBID

LEMMA FitIs ==
  ASSUME TreeOK, TreeWhole, NEW vl, NEW t, NEW k, NEW inst, NEW cs, NEW xs, NEW key, NEW a, NEW do,
         Finds(t, inst, key, ModelKnown(a)), Sets(vl, t, k, inst, cs, xs),
         key[1] = t, Words(do, a) <=> Suited(k, cs, xs)
  PROVE  /\ Fit(do, key, a) => CanSend(t, k, inst, cs, xs)
         /\ CanSend(t, k, inst, cs, xs) =>
              (Fit(do, key, a) <=> ModelKnown(a) /\ Room1(key, cs))
<1>1. inst \in Seq(Ints) /\ (ModelKnown(a) => Len(inst) = IndexLen(key))
  BY DEF Finds
<1>2. /\ t \in DOMAIN Columns /\ k \in Nat /\ k >= 1
      /\ \A i \in 1 .. k : cs[i] \in Columns[t]
  BY DEF Sets
<1>3. 1 \in 1 .. k /\ cs[1] \in Columns[t]
  BY <1>2
<1>4. Fit(do, key, a) <=>
        /\ ModelKnown(a) /\ Words(do, a)
        /\ \A c \in Columns[t] : VacmOid[c] \in DOMAIN tree
                                 /\ Len(VacmOid[c]) + IndexLen(key) <= NMAX_SUBID
  BY DEF Fit, ModelKnown, Words
<1>5. Len(inst) \in Nat /\ (inst = << >> \/ Len(inst) > 0)
  <2>1. Len(inst) \in Nat
    BY <1>1, SeqOfInts
  <2>2. inst # << >> => Len(inst) # 0
    BY <1>1, NotEmpty
  <2> QED BY <2>1, <2>2
<1>6. NMAX_SUBID \in Nat
  BY MibAssumption
<1>7. ASSUME Fit(do, key, a)
      PROVE  CanSend(t, k, inst, cs, xs)
  <2>1. Suited(k, cs, xs) /\ ModelKnown(a)
    BY <1>4, <1>7
  <2>2. ASSUME NEW i \in 1 .. k
        PROVE  Nameable(cs[i], inst)
    <3> DEFINE n == Len(VacmOid[cs[i]])
               l == Len(inst)
    <3>1. cs[i] \in Columns[t]
      BY <1>2
    <3>2. VacmOid[cs[i]] \in DOMAIN tree /\ n + l <= NMAX_SUBID
      BY <1>1, <1>4, <1>7, <2>1, <3>1
    <3>3. n \in Nat
      BY <1>2, <3>1, ColumnIs
    <3>4. l \in Nat /\ (inst = << >> \/ l > 0)
      BY <1>5
    <3>5. inst = << >> \/ n < NMAX_SUBID
      <4> HIDE DEF n, l
      <4> QED BY <1>6, <3>2, <3>3, <3>4
    <3> QED BY <3>2, <3>5 DEF Nameable
  <2> QED BY <2>1, <2>2 DEF CanSend, Suited
<1>8. ASSUME CanSend(t, k, inst, cs, xs)
      PROVE  Fit(do, key, a) <=> ModelKnown(a) /\ Room1(key, cs)
  <2>1. Words(do, a)
    BY <1>8 DEF CanSend, Suited
  <2>2. VacmOid[cs[1]] \in DOMAIN tree
    BY <1>3, <1>8 DEF CanSend, Nameable
  <2>3. \A c \in Columns[t] : VacmOid[c] \in DOMAIN tree
    BY <1>2, <1>3, <2>2, ColumnsTogether
  <2>4. \A c \in Columns[t] : Len(VacmOid[c]) = Len(VacmOid[cs[1]])
    BY <1>1, <1>2, <1>3, SameRoom
  <2>5. (\A c \in Columns[t] : Len(VacmOid[c]) + IndexLen(key) <= NMAX_SUBID) <=> Room1(key, cs)
    BY <1>3, <2>4 DEF Room1
  <2> QED BY <1>4, <2>1, <2>3, <2>5
<1> QED BY <1>7, <1>8

(* The facts of one call.                                                  *)
Written(do, key, row, a, t, k, inst, cs, xs) ==
  /\ do \in {"create", "delete"} /\ key \in Key /\ row \in Row /\ key[1] = t
  /\ Finds(t, inst, key, ModelKnown(a))
  /\ Words(do, a) <=> Suited(k, cs, xs)
  /\ Content(cs[1], xs[1]) = IF do = "create" THEN RowStatus.createAndGo ELSE RowStatus.destroy
  /\ do = "create" /\ Words(do, a) =>
       \A p : Says(p, k, key, cs, xs, TRUE) => NewRow(p, t) = row

Sending(do, key, row, a, retries, vl) ==
  [want |-> Want(do, key, row, a), retries |-> retries,
   pdu |-> IF Sendable(vl) THEN Pdu(vl) ELSE << >>]

LEMMA CallCarries ==
  ASSUME TreeOK, TreeWhole, NEW vl, NEW t, NEW k, NEW inst, NEW cs, NEW xs,
         NEW do, NEW key, NEW row, NEW a, NEW retries \in 0 .. Retries,
         Sets(vl, t, k, inst, cs, xs), Written(do, key, row, a, t, k, inst, cs, xs)
  PROVE  Carries(Sending(do, key, row, a, retries, vl))
<1> DEFINE c == Sending(do, key, row, a, retries, vl)
           fit == Fit(do, key, a)
           can == CanSend(t, k, inst, cs, xs)
<1>1. /\ do \in {"create", "delete"} /\ key \in Key /\ row \in Row /\ key[1] = t
      /\ Finds(t, inst, key, ModelKnown(a))
      /\ Words(do, a) <=> Suited(k, cs, xs)
      /\ Content(cs[1], xs[1]) = IF do = "create" THEN RowStatus.createAndGo ELSE RowStatus.destroy
      /\ do = "create" /\ Words(do, a) =>
           \A p : Says(p, k, key, cs, xs, TRUE) => NewRow(p, t) = row
  BY DEF Written
<1>2. inst \in Seq(Ints)
  BY <1>1 DEF Finds
<1>3. Sendable(vl) <=> can
  BY <1>2, SendableIs
<1>4. /\ fit => can
      /\ can => (fit <=> ModelKnown(a) /\ Room1(key, cs))
  BY <1>1, FitIs
<1>5. fit \in BOOLEAN
  BY DEF Fit
<1>6. /\ c.want = Want(do, key, row, a) /\ c.retries = retries
      /\ c.pdu = (IF Sendable(vl) THEN Pdu(vl) ELSE << >>)
  BY DEF Sending
<1>7. /\ c.want.do = do /\ c.want.key = key /\ c.want.row = row /\ (c.want.fit <=> fit)
      /\ c.want \in Wants
  <2> HIDE DEF c, fit
  <2>1. c.want = [do |-> do, key |-> key, row |-> row, fit |-> fit]
    BY <1>6 DEF Want, fit
  <2> QED BY <1>1, <1>5, <2>1 DEF Wants
<1> HIDE DEF c, can
<1>8. ASSUME can
      PROVE  /\ c.pdu # << >>
             /\ Keys(c.pdu) = IF fit THEN {key} ELSE {}
             /\ c.pdu[1].val = IF do = "create" THEN RowStatus.createAndGo ELSE RowStatus.destroy
             /\ fit /\ do = "create" => NewRow(c.pdu, t) = row
  <2>1. c.pdu = Pdu(vl)
    BY <1>3, <1>6, <1>8
  <2> DEFINE full == ModelKnown(a) /\ Len(VacmOid[cs[1]]) + IndexLen(key) <= NMAX_SUBID
  <2>2. Says(Pdu(vl), k, key, cs, xs, full)
    BY <1>1, <1>8, Said DEF can
  <2>3. fit <=> full
    BY <1>4, <1>8 DEF Room1
  <2> HIDE DEF full, fit
  <2>4. /\ Pdu(vl) # << >> /\ DOMAIN Pdu(vl) = 1 .. k
        /\ \A i \in 1 .. k : Pdu(vl)[i].val = Content(cs[i], xs[i])
        /\ Keys(Pdu(vl)) = IF full THEN {key} ELSE {}
    BY <2>2 DEF Says
  <2>5. 1 \in 1 .. k
    BY DEF Sets
  <2>6. Pdu(vl)[1].val = IF do = "create" THEN RowStatus.createAndGo ELSE RowStatus.destroy
    BY <1>1, <2>4, <2>5
  <2>7. ASSUME fit, do = "create"
        PROVE  NewRow(Pdu(vl), t) = row
    <3>1. Says(Pdu(vl), k, key, cs, xs, TRUE)
      BY <2>2, <2>3, <2>7 DEF Says
    <3>2. Words(do, a)
      BY <2>7 DEF fit, Fit, Words
    <3> QED BY <1>1, <2>7, <3>1, <3>2
  <2>8. Keys(Pdu(vl)) = IF fit THEN {key} ELSE {}
    BY <2>3, <2>4
  <2> QED BY <2>1, <2>4, <2>6, <2>7, <2>8
<1>9. ASSUME ~can
      PROVE  c.pdu = << >> /\ ~fit
  BY <1>3, <1>4, <1>6, <1>9
<1> HIDE DEF fit
<1>10. /\ c.want \in Wants /\ c.retries \in 0 .. Retries
       /\ c.want.fit => c.pdu # << >>
       /\ c.pdu # << >> => Keys(c.pdu) = IF c.want.fit THEN {c.want.key} ELSE {}
       /\ c.want.fit =>
            IF c.want.do = "create"
            THEN /\ c.pdu[1].val = RowStatus.createAndGo
                 /\ NewRow(c.pdu, c.want.key[1]) = c.want.row
            ELSE c.pdu[1].val = RowStatus.destroy
  <2>1. CASE can
    <3>1. c.want.fit => IF c.want.do = "create"
            THEN /\ c.pdu[1].val = RowStatus.createAndGo
                 /\ NewRow(c.pdu, c.want.key[1]) = c.want.row
            ELSE c.pdu[1].val = RowStatus.destroy
      BY <1>1, <1>7, <1>8, <2>1
    <3> QED BY <1>6, <1>7, <1>8, <2>1, <3>1
  <2>2. CASE ~can
    BY <1>6, <1>7, <1>9, <2>2
  <2> QED BY <2>1, <2>2
<1> QED BY <1>10 DEF Carries, c
-----------------------------------------------------------------------------
(* The six calls.                                                          *)

LEMMA FindsKnown ==
  ASSUME NEW t, NEW inst, NEW key, NEW a, NEW known, known <=> ModelKnown(a),
         Finds(t, inst, key, known)
  PROVE  Finds(t, inst, key, ModelKnown(a))
<1>1. known = ModelKnown(a)
  BY Zenon DEF ModelKnown, Finds
<1> QED BY <1>1, Zenon

LEMMA SecModelMeans ==
  /\ \A a \in SecToGroups : (a.secmodel = "USM") <=> ModelKnown(a)
  /\ \A a \in Views : ModelKnown(a)
  /\ \A a \in Accesses : (a.secmodel = "USM") <=> ModelKnown(a)
BY ArgumentsAssumption DEF ModelKnown

LEMMA GroupCalls ==
  ASSUME NEW a \in SecToGroups,
         ~IsNumber(a.secname), NEW inst,
         inst = Instance(<< SecModel(a.secmodel), Text(a.secname) >>)
  PROVE  /\ MappingKey(a) \in Key /\ MappingRow(a) \in Row /\ NoRow \in Row
         /\ MappingKey(a)[1] = "sec2Group"
         /\ Finds("sec2Group", inst, MappingKey(a), ModelKnown(a))
         /\ \A do : Words(do, a)
<1>1. MappingKey(a)[1] = "sec2Group"
  BY DEF MappingKey
<1>2. Finds("sec2Group", inst, MappingKey(a), a.secmodel = "USM")
  BY GroupIndex
<1>3. Finds("sec2Group", inst, MappingKey(a), ModelKnown(a))
  BY <1>2, SecModelMeans, FindsKnown
<1>4. \A do : Words(do, a)
  BY ArgumentsAssumption, SMTT(40) DEF Words, Known
<1> QED BY <1>1, <1>3, <1>4 DEF Key, Row

LEMMA StatusSet ==
  ASSUME NEW c \in {"sec2GroupStatus", "viewTreeFamilyStatus", "accessStatus"}, NEW s
  PROVE  /\ Suits(c, Number(RowStatus[s]))
         /\ Content(c, Number(RowStatus[s])) = RowStatus[s]
<1>1. c \in Integer
  BY DEF Integer
<1>2. Number(RowStatus[s]).t = "number" /\ Number(RowStatus[s]).v = RowStatus[s]
  BY DEF Number, Lua
<1> QED BY <1>1, <1>2 DEF Suits, Content

LEMMA TextSet ==
  ASSUME NEW c, c \notin Integer, NEW s
  PROVE  Suits(c, Text(s)) /\ Content(c, Text(s)) = ToOctets(s)
<1>1. Text(s).t = "string" /\ Text(s).v = s
  BY DEF Text, Lua
<1> QED BY <1>1 DEF Suits, Content

LEMMA WordSet ==
  ASSUME NEW c \in Integer, NEW numbers, NEW name
  PROVE  /\ Suits(c, Of(numbers, name)) <=> name \in DOMAIN numbers
         /\ name \in DOMAIN numbers => Content(c, Of(numbers, name)) = Meant(numbers, name)
<1>1. CASE name \in DOMAIN numbers
  <2>1. Of(numbers, name).t = "number" /\ Of(numbers, name).v = numbers[name]
    BY <1>1 DEF Of, Number, Lua
  <2> QED BY <1>1, <2>1 DEF Suits, Content, Meant
<1>2. CASE name \notin DOMAIN numbers
  <2>1. Of(numbers, name).t # "number"
    BY <1>2, NilIs DEF Of
  <2> QED BY <1>2, <2>1 DEF Suits
<1> QED BY <1>1, <1>2

LEMMA CreateGroupCarries ==
  ASSUME TreeOK, TreeWhole, Careful = Rules,
         NEW a \in SecToGroups, NEW retries \in 0 .. Retries, CreateSecToGroup(a, retries)
  PROVE  Carries(call')
<1> DEFINE inst == Instance(<< SecModel(a.secmodel), Text(a.secname) >>)
           four == Number(RowStatus.createAndGo)
           group == Text(a.groupname)
           vl == << NewVar("sec2GroupStatus", inst, four), NewVar("groupName", inst, group) >>
           cs == << "sec2GroupStatus", "groupName" >>
           xs == << four, group >>
           key == MappingKey(a)
           row == MappingRow(a)
<1>1. /\ call' = Sending("create", key, row, a, retries, vl)
      /\ ~IsNumber(a.secname) /\ ~(a.groupname # << >> /\ ReadsAsOctets(a.groupname))
  BY Zenon DEF CreateSecToGroup, Set, Sending, Plain, Rules
<1> HIDE DEF inst, four, group
<1>2. cs[1] = "sec2GroupStatus" /\ cs[2] = "groupName" /\ xs[1] = four /\ xs[2] = group
  OBVIOUS
<1>3. /\ Suits("sec2GroupStatus", four) /\ Content("sec2GroupStatus", four) = RowStatus.createAndGo
      /\ Suits("groupName", group) /\ Content("groupName", group) = a.groupname
  BY <1>1, StatusSet, TextSet, PlainText DEF four, group, Integer
<1>4. Sets(vl, "sec2Group", 2, inst, cs, xs)
  BY DEF Sets, Columns
<1>5. Suited(2, cs, xs)
  BY <1>2, <1>3 DEF Suited
<1>6. /\ key \in Key /\ row \in Row /\ key[1] = "sec2Group"
      /\ Finds("sec2Group", inst, key, ModelKnown(a)) /\ \A do : Words(do, a)
  BY <1>1, GroupCalls DEF inst
<1>7. ASSUME NEW p, Says(p, 2, key, cs, xs, TRUE)
      PROVE  NewRow(p, "sec2Group") = row
  <2>1. \A i \in 1 .. 2 : ValueIn(p, cs[i]) = Content(cs[i], xs[i])
    BY <1>7 DEF Says
  <2>2. ValueIn(p, "groupName") = a.groupname
    BY <1>2, <1>3, <2>1
  <2> QED BY <2>2 DEF NewRow, MappingRow
<1> HIDE DEF vl, cs, xs, key, row
<1>8. Written("create", key, row, a, "sec2Group", 2, inst, cs, xs)
  BY <1>2, <1>3, <1>5, <1>6, <1>7 DEF Written
<1> QED BY <1>1, <1>4, <1>8, CallCarries

LEMMA DeleteGroupCarries ==
  ASSUME TreeOK, TreeWhole, Careful = Rules,
         NEW a \in SecToGroups, NEW retries \in 0 .. Retries, DeleteSecToGroup(a, retries)
  PROVE  Carries(call')
<1> DEFINE inst == Instance(<< SecModel(a.secmodel), Text(a.secname) >>)
           six == Number(RowStatus.destroy)
           vl == << NewVar("sec2GroupStatus", inst, six) >>
           cs == << "sec2GroupStatus" >>
           xs == << six >>
           key == MappingKey(a)
<1>1. /\ call' = Sending("delete", key, NoRow, a, retries, vl)
      /\ ~IsNumber(a.secname)
  BY Zenon DEF DeleteSecToGroup, Set, Sending, Plain, Rules
<1> HIDE DEF inst, six
<1>2. cs[1] = "sec2GroupStatus" /\ xs[1] = six
  OBVIOUS
<1>3. Suits("sec2GroupStatus", six) /\ Content("sec2GroupStatus", six) = RowStatus.destroy
  BY StatusSet DEF six
<1>4. Sets(vl, "sec2Group", 1, inst, cs, xs)
  BY DEF Sets, Columns
<1>5. Suited(1, cs, xs)
  BY <1>2, <1>3 DEF Suited
<1>6. /\ key \in Key /\ NoRow \in Row /\ key[1] = "sec2Group"
      /\ Finds("sec2Group", inst, key, ModelKnown(a)) /\ \A do : Words(do, a)
  BY <1>1, GroupCalls DEF inst
<1> HIDE DEF vl, cs, xs, key
<1>7. Written("delete", key, NoRow, a, "sec2Group", 1, inst, cs, xs)
  BY <1>2, <1>3, <1>5, <1>6 DEF Written
<1> QED BY <1>1, <1>4, <1>7, CallCarries

LEMMA ViewCalls ==
  ASSUME NEW a \in Views, ~IsNumber(a.viewname), NEW inst,
         inst = Instance(<< Text(a.viewname), OidArg(a.subtree) >>)
  PROVE  /\ ViewKey(a) \in Key /\ ViewRow(a) \in Row /\ NoRow \in Row
         /\ ViewKey(a)[1] = "view"
         /\ Finds("view", inst, ViewKey(a), ModelKnown(a))
         /\ Words("delete", a)
         /\ Words("create", a) <=> a.flag \in DOMAIN ViewTypes
<1>1. ViewKey(a)[1] = "view"
  BY DEF ViewKey
<1>2. Finds("view", inst, ViewKey(a), TRUE)
  BY ViewIndex
<1>3. Finds("view", inst, ViewKey(a), ModelKnown(a))
  BY <1>2, SecModelMeans, FindsKnown
<1>4. Words("delete", a) /\ (Words("create", a) <=> a.flag \in DOMAIN ViewTypes)
  BY ArgumentsAssumption DEF Words, Known
<1> QED BY <1>1, <1>3, <1>4 DEF Key, Row

LEMMA CreateViewCarries ==
  ASSUME TreeOK, TreeWhole, Careful = Rules,
         NEW a \in Views, NEW retries \in 0 .. Retries, CreateView(a, retries)
  PROVE  Carries(call')
<1> DEFINE inst == Instance(<< Text(a.viewname), OidArg(a.subtree) >>)
           four == Number(RowStatus.createAndGo)
           mask == Text(Key2Octet(ViewMask(a.mask)))
           type == Of(ViewTypes, a.flag)
           vl == << NewVar("viewTreeFamilyStatus", inst, four),
                    NewVar("viewTreeFamilyMask", inst, mask),
                    NewVar("viewTreeFamilyType", inst, type) >>
           cs == << "viewTreeFamilyStatus", "viewTreeFamilyMask", "viewTreeFamilyType" >>
           xs == << four, mask, type >>
           key == ViewKey(a)
           row == ViewRow(a)
<1>1. /\ call' = Sending("create", key, row, a, retries, vl)
      /\ ~IsNumber(a.viewname)
      /\ \A i \in DOMAIN a.mask : Len(a.mask[i]) <= 2
  BY Zenon DEF CreateView, Set, Sending, Plain, Rules
<1>2. ToOctets(Key2Octet(ViewMask(a.mask))) = MaskMeant(a.mask)
  <2>1. a.mask \in Seq(Seq(0 .. 15) \ {<< >>})
    BY ArgumentsAssumption
  <2>2. ViewMask(a.mask) = MaskMeant(a.mask) /\ MaskMeant(a.mask) \in Seq(0 .. 255)
    BY <1>1, <2>1, MaskIs
  <2> QED BY <2>2, OctetsBack
<1> HIDE DEF inst, four, mask, type
<1>3. /\ cs[1] = "viewTreeFamilyStatus" /\ cs[2] = "viewTreeFamilyMask"
      /\ cs[3] = "viewTreeFamilyType" /\ xs[1] = four /\ xs[2] = mask /\ xs[3] = type
  OBVIOUS
<1>4. /\ Suits("viewTreeFamilyStatus", four)
      /\ Content("viewTreeFamilyStatus", four) = RowStatus.createAndGo
  BY StatusSet DEF four
<1>5. /\ Suits("viewTreeFamilyMask", mask)
      /\ Content("viewTreeFamilyMask", mask) = MaskMeant(a.mask)
  BY <1>2, TextSet DEF mask, Integer
<1>6. /\ Suits("viewTreeFamilyType", type) <=> a.flag \in DOMAIN ViewTypes
      /\ a.flag \in DOMAIN ViewTypes =>
           Content("viewTreeFamilyType", type) = Meant(ViewTypes, a.flag)
  BY WordSet DEF type, Integer
<1>7. Sets(vl, "view", 3, inst, cs, xs)
  BY DEF Sets, Columns
<1>8. Suited(3, cs, xs) <=> a.flag \in DOMAIN ViewTypes
  BY <1>3, <1>4, <1>5, <1>6 DEF Suited
<1>9. /\ key \in Key /\ row \in Row /\ key[1] = "view"
      /\ Finds("view", inst, key, ModelKnown(a))
      /\ Words("create", a) <=> a.flag \in DOMAIN ViewTypes
  BY <1>1, ViewCalls DEF inst
<1>10. ASSUME NEW p, Says(p, 3, key, cs, xs, TRUE), Words("create", a)
       PROVE  NewRow(p, "view") = row
  <2>1. \A i \in 1 .. 3 : ValueIn(p, cs[i]) = Content(cs[i], xs[i])
    BY <1>10 DEF Says
  <2>2. /\ ValueIn(p, "viewTreeFamilyMask") = MaskMeant(a.mask)
        /\ ValueIn(p, "viewTreeFamilyType") = Meant(ViewTypes, a.flag)
    BY <1>3, <1>5, <1>6, <1>9, <1>10, <2>1
  <2> QED BY <2>2 DEF NewRow, ViewRow
<1> HIDE DEF vl, cs, xs, key, row
<1>11. Written("create", key, row, a, "view", 3, inst, cs, xs)
  BY <1>3, <1>4, <1>8, <1>9, <1>10 DEF Written
<1> QED BY <1>1, <1>7, <1>11, CallCarries

LEMMA DeleteViewCarries ==
  ASSUME TreeOK, TreeWhole, Careful = Rules,
         NEW a \in Views, NEW retries \in 0 .. Retries, DeleteView(a, retries)
  PROVE  Carries(call')
<1> DEFINE inst == Instance(<< Text(a.viewname), OidArg(a.subtree) >>)
           six == Number(RowStatus.destroy)
           vl == << NewVar("viewTreeFamilyStatus", inst, six) >>
           cs == << "viewTreeFamilyStatus" >>
           xs == << six >>
           key == ViewKey(a)
<1>1. /\ call' = Sending("delete", key, NoRow, a, retries, vl)
      /\ ~IsNumber(a.viewname)
  BY Zenon DEF DeleteView, Set, Sending, Plain, Rules
<1> HIDE DEF inst, six
<1>2. cs[1] = "viewTreeFamilyStatus" /\ xs[1] = six
  OBVIOUS
<1>3. /\ Suits("viewTreeFamilyStatus", six)
      /\ Content("viewTreeFamilyStatus", six) = RowStatus.destroy
  BY StatusSet DEF six
<1>4. Sets(vl, "view", 1, inst, cs, xs)
  BY DEF Sets, Columns
<1>5. Suited(1, cs, xs)
  BY <1>2, <1>3 DEF Suited
<1>6. /\ key \in Key /\ NoRow \in Row /\ key[1] = "view"
      /\ Finds("view", inst, key, ModelKnown(a)) /\ Words("delete", a)
  BY <1>1, ViewCalls DEF inst
<1> HIDE DEF vl, cs, xs, key
<1>7. Written("delete", key, NoRow, a, "view", 1, inst, cs, xs)
  BY <1>2, <1>3, <1>5, <1>6 DEF Written
<1> QED BY <1>1, <1>4, <1>7, CallCarries

LEMMA AccessCalls ==
  ASSUME NEW a \in Accesses, ~IsNumber(a.group), ~IsNumber(a.context),
         a.seclevel \in DOMAIN SecLevels, NEW inst, inst = AccessInstance(a)
  PROVE  /\ AccessKey(a) \in Key /\ AccessRow(a) \in Row /\ NoRow \in Row
         /\ AccessKey(a)[1] = "access"
         /\ Finds("access", inst, AccessKey(a), ModelKnown(a))
         /\ Words("delete", a)
         /\ Words("create", a) <=> a.match \in DOMAIN Matching
<1>1. AccessKey(a)[1] = "access"
  BY DEF AccessKey
<1>2. Finds("access", inst, AccessKey(a), a.secmodel = "USM")
  BY AccessIndex
<1>3. Finds("access", inst, AccessKey(a), ModelKnown(a))
  BY <1>2, SecModelMeans, FindsKnown
<1>4. Words("delete", a) /\ (Words("create", a) <=> a.match \in DOMAIN Matching)
  BY ArgumentsAssumption DEF Words, Known
<1> QED BY <1>1, <1>3, <1>4 DEF Key, Row

LEMMA CreateAccessCarries ==
  ASSUME TreeOK, TreeWhole, Careful = Rules,
         NEW a \in Accesses, NEW retries \in 0 .. Retries, CreateAccess(a, retries)
  PROVE  Carries(call')
<1> DEFINE inst == AccessInstance(a)
           four == Number(RowStatus.createAndGo)
           match == Of(Matching, a.match)
           read == Text(Key2Octet(a.readview))
           write == Text(Key2Octet(a.writeview))
           notify == Text(Key2Octet(a.notifyview))
           vl == << NewVar("accessStatus", inst, four),
                    NewVar("accessContextMatch", inst, match),
                    NewVar("accessReadViewName", inst, read),
                    NewVar("accessWriteViewName", inst, write),
                    NewVar("accessNotifyViewName", inst, notify) >>
           cs == << "accessStatus", "accessContextMatch", "accessReadViewName",
                    "accessWriteViewName", "accessNotifyViewName" >>
           xs == << four, match, read, write, notify >>
           key == AccessKey(a)
           row == AccessRow(a)
<1>1. /\ call' = Sending("create", key, row, a, retries, vl)
      /\ ~IsNumber(a.group) /\ ~IsNumber(a.context) /\ a.seclevel \in DOMAIN SecLevels
  BY Zenon DEF CreateAccess, Set, Sending, Plain, Rules
<1>2. /\ ToOctets(Key2Octet(a.readview)) = a.readview
      /\ ToOctets(Key2Octet(a.writeview)) = a.writeview
      /\ ToOctets(Key2Octet(a.notifyview)) = a.notifyview
  <2>1. /\ a.readview \in Seq(0 .. 255) /\ a.writeview \in Seq(0 .. 255)
        /\ a.notifyview \in Seq(0 .. 255)
    BY ArgumentsAssumption DEF IsText
  <2> QED BY <2>1, OctetsBack
<1> HIDE DEF inst, four, match, read, write, notify
<1>3. /\ cs[1] = "accessStatus" /\ cs[2] = "accessContextMatch" /\ cs[3] = "accessReadViewName"
      /\ cs[4] = "accessWriteViewName" /\ cs[5] = "accessNotifyViewName"
      /\ xs[1] = four /\ xs[2] = match /\ xs[3] = read /\ xs[4] = write /\ xs[5] = notify
  OBVIOUS
<1>4. /\ Suits("accessStatus", four)
      /\ Content("accessStatus", four) = RowStatus.createAndGo
  BY StatusSet DEF four
<1>5. /\ Suits("accessReadViewName", read) /\ Content("accessReadViewName", read) = a.readview
      /\ Suits("accessWriteViewName", write) /\ Content("accessWriteViewName", write) = a.writeview
      /\ Suits("accessNotifyViewName", notify)
      /\ Content("accessNotifyViewName", notify) = a.notifyview
  BY <1>2, TextSet DEF read, write, notify, Integer
<1>6. /\ Suits("accessContextMatch", match) <=> a.match \in DOMAIN Matching
      /\ a.match \in DOMAIN Matching =>
           Content("accessContextMatch", match) = Meant(Matching, a.match)
  BY WordSet DEF match, Integer
<1>7. Sets(vl, "access", 5, inst, cs, xs)
  BY DEF Sets, Columns
<1>8. Suited(5, cs, xs) <=> a.match \in DOMAIN Matching
  BY <1>3, <1>4, <1>5, <1>6 DEF Suited
<1>9. /\ key \in Key /\ row \in Row /\ key[1] = "access"
      /\ Finds("access", inst, key, ModelKnown(a))
      /\ Words("create", a) <=> a.match \in DOMAIN Matching
  BY <1>1, AccessCalls DEF inst
<1>10. ASSUME NEW p, Says(p, 5, key, cs, xs, TRUE), Words("create", a)
       PROVE  NewRow(p, "access") = row
  <2>1. \A i \in 1 .. 5 : ValueIn(p, cs[i]) = Content(cs[i], xs[i])
    BY <1>10 DEF Says
  <2>2. /\ ValueIn(p, "accessContextMatch") = Meant(Matching, a.match)
        /\ ValueIn(p, "accessReadViewName") = a.readview
        /\ ValueIn(p, "accessWriteViewName") = a.writeview
        /\ ValueIn(p, "accessNotifyViewName") = a.notifyview
    BY <1>3, <1>5, <1>6, <1>9, <1>10, <2>1
  <2> QED BY <2>2 DEF NewRow, AccessRow
<1> HIDE DEF vl, cs, xs, key, row
<1>11. Written("create", key, row, a, "access", 5, inst, cs, xs)
  BY <1>3, <1>4, <1>8, <1>9, <1>10 DEF Written
<1> QED BY <1>1, <1>7, <1>11, CallCarries

LEMMA DeleteAccessCarries ==
  ASSUME TreeOK, TreeWhole, Careful = Rules,
         NEW a \in Accesses, NEW retries \in 0 .. Retries, DeleteAccess(a, retries)
  PROVE  Carries(call')
<1> DEFINE inst == AccessInstance(a)
           six == Number(RowStatus.destroy)
           vl == << NewVar("accessStatus", inst, six) >>
           cs == << "accessStatus" >>
           xs == << six >>
           key == AccessKey(a)
<1>1. /\ call' = Sending("delete", key, NoRow, a, retries, vl)
      /\ ~IsNumber(a.group) /\ ~IsNumber(a.context) /\ a.seclevel \in DOMAIN SecLevels
  BY Zenon DEF DeleteAccess, Set, Sending, Plain, Rules
<1> HIDE DEF inst, six
<1>2. cs[1] = "accessStatus" /\ xs[1] = six
  OBVIOUS
<1>3. Suits("accessStatus", six) /\ Content("accessStatus", six) = RowStatus.destroy
  BY StatusSet DEF six
<1>4. Sets(vl, "access", 1, inst, cs, xs)
  BY DEF Sets, Columns
<1>5. Suited(1, cs, xs)
  BY <1>2, <1>3 DEF Suited
<1>6. /\ key \in Key /\ NoRow \in Row /\ key[1] = "access"
      /\ Finds("access", inst, key, ModelKnown(a)) /\ Words("delete", a)
  BY <1>1, AccessCalls DEF inst
<1> HIDE DEF vl, cs, xs, key
<1>7. Written("delete", key, NoRow, a, "access", 1, inst, cs, xs)
  BY <1>2, <1>3, <1>5, <1>6 DEF Written
<1> QED BY <1>1, <1>4, <1>7, CallCarries
-----------------------------------------------------------------------------
(* The tree.                                                               *)

LEMMA WholeInit ==
  ASSUME MibInit
  PROVE  TreeWhole
<1> DEFINE file(o) == CHOOSE f \in Initial : o \in DOMAIN NodesOf(f)
<1>1. tree = [o \in UNION {DOMAIN NodesOf(f) : f \in Initial} |-> NodesOf(file(o))[o]]
  BY DEF MibInit
<1>2. \A f : DOMAIN NodesOf(f) = {n.oid : n \in MibFile[f]}
             /\ \A o \in DOMAIN NodesOf(f) : NodesOf(f)[o].module = f
  BY DEF NodesOf
<1>3. ASSUME NEW o \in DOMAIN tree, NEW n \in MibFile[tree[o].module]
      PROVE  n.oid \in DOMAIN tree
  <2>1. file(o) \in Initial /\ o \in DOMAIN NodesOf(file(o)) /\ tree[o] = NodesOf(file(o))[o]
    BY <1>1, <1>3
  <2> HIDE DEF file
  <2>2. tree[o].module = file(o)
    BY <1>2, <2>1
  <2>3. n.oid \in DOMAIN NodesOf(file(o))
    <3>1. DOMAIN NodesOf(file(o)) = {m.oid : m \in MibFile[file(o)]}
      BY <1>2
    <3> QED BY <1>3, <2>2, <3>1
  <2> QED BY <1>1, <2>1, <2>3
<1> QED BY <1>3 DEF TreeWhole

LEMMA WholeLoad ==
  ASSUME TreeWhole, NEW f \in DOMAIN MibFile, Load(f)
  PROVE  TreeWhole'
<1> DEFINE new == NodesOf(f)
<1>1. /\ DOMAIN tree' = DOMAIN tree \cup DOMAIN new
      /\ \A o \in DOMAIN tree : tree'[o] = tree[o]
      /\ \A o \in DOMAIN new \ DOMAIN tree : tree'[o] = new[o]
  BY DEF Load
<1>2. DOMAIN new = {n.oid : n \in MibFile[f]} /\ \A o \in DOMAIN new : new[o].module = f
  BY DEF NodesOf
<1> HIDE DEF new
<1>3. ASSUME NEW o \in DOMAIN tree', NEW n \in MibFile[tree'[o].module]
      PROVE  n.oid \in DOMAIN tree'
  <2>1. CASE o \in DOMAIN tree
    BY <1>1, <1>3, <2>1 DEF TreeWhole
  <2>2. CASE o \in DOMAIN new \ DOMAIN tree
    <3>1. tree'[o].module = f
      BY <1>1, <1>2, <2>2
    <3> QED BY <1>1, <1>2, <1>3, <3>1
  <2> QED BY <1>1, <2>1, <2>2
<1> QED BY <1>3 DEF TreeWhole

LEMMA WholeNext ==
  ASSUME TreeWhole, Browse \/ UNCHANGED mibVars
  PROVE  TreeWhole'
<1>1. CASE tree' = tree
  BY <1>1 DEF TreeWhole
<1>2. (\E f \in DOMAIN MibFile : Load(f)) \/ tree' = tree
  BY DEF Browse, Begin, Name, QualifiedName, OidOf, Parent, Successor, Hold, mibVars
<1> QED BY <1>1, <1>2, WholeLoad
-----------------------------------------------------------------------------
(* The calls.                                                              *)

NoneIsNoCall == \A w, n, p : None # [want |-> w, retries |-> n, pdu |-> p]

AsksOf(retries) ==
  \/ \E a \in SecToGroups : CreateSecToGroup(a, retries) \/ DeleteSecToGroup(a, retries)
  \/ \E a \in Views : CreateView(a, retries) \/ DeleteView(a, retries)
  \/ \E a \in Accesses : CreateAccess(a, retries) \/ DeleteAccess(a, retries)

LEMMA AsksCarry ==
  ASSUME TreeOK, TreeWhole, Careful = Rules, NEW retries \in 0 .. Retries, AsksOf(retries)
  PROVE  Carries(call')
BY CreateGroupCarries, DeleteGroupCarries, CreateViewCarries, DeleteViewCarries,
   CreateAccessCarries, DeleteAccessCarries DEF AsksOf

LEMMA SetSends ==
  ASSUME NoneIsNoCall, NEW want, NEW retries, NEW vl, 1 \in DOMAIN vl, Set(want, retries, vl)
  PROVE  /\ call = None /\ call' # None /\ call'.retries = retries
         /\ sent' \in {0, 1} /\ (call'.pdu = << >> => sent' = 0)
         /\ left' = retries /\ answers' = {} /\ result' = None /\ table' = table /\ late' = late
<1>1. Sendable(vl) => Pdu(vl) # << >>
  <2>1. DOMAIN Pdu(vl) = DOMAIN vl
    BY DEF Pdu
  <2>2. DOMAIN << >> = {}
    OBVIOUS
  <2> QED BY <2>1, <2>2
<1>2. call' # None
  BY DEF NoneIsNoCall, Set
<1> QED BY <1>1, <1>2 DEF Set

AskedNow(retries) ==
  /\ call = None /\ call' # None /\ call'.retries = retries
  /\ sent' \in {0, 1} /\ (call'.pdu = << >> => sent' = 0)
  /\ left' = retries /\ answers' = {} /\ result' = None /\ table' = table /\ late' = late

LEMMA AsksSend ==
  ASSUME NoneIsNoCall, NEW retries, AsksOf(retries)
  PROVE  AskedNow(retries)
<1>1. ASSUME NEW want, NEW vl, 1 \in DOMAIN vl, Set(want, retries, vl)
      PROVE  AskedNow(retries)
  BY <1>1, SetSends DEF AskedNow
<1>2. ASSUME NEW a \in SecToGroups, CreateSecToGroup(a, retries)
      PROVE  AskedNow(retries)
  BY <1>1, <1>2 DEF CreateSecToGroup
<1>3. ASSUME NEW a \in SecToGroups, DeleteSecToGroup(a, retries)
      PROVE  AskedNow(retries)
  BY <1>1, <1>3 DEF DeleteSecToGroup
<1>4. ASSUME NEW a \in Views, CreateView(a, retries)
      PROVE  AskedNow(retries)
  BY <1>1, <1>4 DEF CreateView
<1>5. ASSUME NEW a \in Views, DeleteView(a, retries)
      PROVE  AskedNow(retries)
  BY <1>1, <1>5 DEF DeleteView
<1>6. ASSUME NEW a \in Accesses, CreateAccess(a, retries)
      PROVE  AskedNow(retries)
  BY <1>1, <1>6 DEF CreateAccess
<1>7. ASSUME NEW a \in Accesses, DeleteAccess(a, retries)
      PROVE  AskedNow(retries)
  BY <1>1, <1>7 DEF DeleteAccess
<1> QED BY <1>2, <1>3, <1>4, <1>5, <1>6, <1>7 DEF AsksOf
-----------------------------------------------------------------------------
(* The invariant.                                                          *)

CallsOK == CallOK /\ \A c \in late : Carries(c)

LEMMA AdministerKeeps ==
  ASSUME Careful = Rules, NoneIsNoCall, TreeOK, TreeWhole, CallsOK, Administer
  PROVE  CallsOK'
<1> USE DEF CallsOK, CallOK
<1>1. call # None => sent \in Nat /\ Carries(call)
  OBVIOUS
<1>2. ASSUME NEW retries \in 0 .. Retries, AsksOf(retries)
      PROVE  CallsOK'
  <2>1. AskedNow(retries) /\ Carries(call')
    BY <1>2, AsksSend, AsksCarry
  <2>2. retries = 0 => left' = 0 /\ sent' <= 1
    BY <2>1 DEF AskedNow
  <2>3. CallOK'
    BY <2>1, <2>2 DEF AskedNow
  <2> QED BY <2>1, <2>3 DEF AskedNow
<1>3. ASSUME NEW answered \in BOOLEAN, Arrives(answered)
      PROVE  CallsOK'
  <2>1. call # None /\ call' = call /\ left' = left /\ late' = late
        /\ sent > 0 /\ sent' = sent - 1
    BY <1>3 DEF Arrives
  <2>2. sent' \in Nat /\ call.pdu # << >>
        /\ (call.retries = 0 => sent' = 0)
    BY <2>1
  <2>3. CallOK'
    BY <1>1, <2>1, <2>2
  <2> QED BY <2>1, <2>3
<1>4. CASE RequestLost
  <2>1. call # None /\ call' = call /\ left' = left /\ late' = late
        /\ sent > 0 /\ sent' = sent - 1 /\ answers' = answers
    BY <1>4 DEF RequestLost
  <2>2. sent' \in Nat /\ call.pdu # << >>
        /\ (call.retries = 0 => sent' = 0)
    BY <2>1
  <2>3. CallOK'
    BY <1>1, <2>1, <2>2
  <2> QED BY <2>1, <2>3
<1>5. ASSUME NEW c \in late, \/ \E last \in BOOLEAN : ArrivesLate(c, last)
                             \/ LateLost(c)
      PROVE  CallsOK'
  <2>1. /\ call' = call /\ left' = left /\ sent' = sent /\ answers' = answers
        /\ late' \subseteq late
    BY <1>5 DEF ArrivesLate, LateLost, netVars
  <2>2. CallOK'
    BY <2>1
  <2> QED BY <2>1, <2>2
<1>6. CASE Repeat
  <2>1. /\ call # None /\ call' = call /\ call.pdu # << >> /\ late' = late
        /\ left > 0 /\ sent' = sent + 1 /\ answers' = answers
    BY <1>6 DEF Repeat
  <2>2. call.retries # 0 /\ sent' \in Nat
    BY <2>1
  <2>3. CallOK'
    BY <1>1, <2>1, <2>2
  <2> QED BY <2>1, <2>3
<1>7. ASSUME NEW r, call # None, Return(r)
      PROVE  CallsOK'
  <2>1. call' = None /\ sent' = 0 /\ answers' = {} /\ late' \subseteq late \cup {call}
    BY <1>7 DEF Return
  <2>2. CallOK'
    BY <2>1
  <2> QED BY <1>1, <1>7, <2>1, <2>2
<1>8. CASE (\E r \in {"ok", "refused"} : Answered(r)) \/ TimesOut \/ NotSent
  BY <1>7, <1>8 DEF Answered, TimesOut, NotSent
<1>9. (\E retries \in 0 .. Retries : AsksOf(retries)) <=>
      \E retries \in 0 .. Retries :
       \/ \E a \in SecToGroups : CreateSecToGroup(a, retries) \/ DeleteSecToGroup(a, retries)
       \/ \E a \in Views : CreateView(a, retries) \/ DeleteView(a, retries)
       \/ \E a \in Accesses : CreateAccess(a, retries) \/ DeleteAccess(a, retries)
  BY Zenon DEF AsksOf
<1> HIDE DEF CallsOK, CallOK
<1> QED BY <1>2, <1>3, <1>4, <1>5, <1>6, <1>8, <1>9 DEF Administer

(* The program passes names that are taken for nothing else and masks of   *)
(* pairs of digits; and None is none of its calls.                         *)
CarefulCaller == Careful = Rules /\ NoneIsNoCall

LEMMA VacmInvInit ==
  ASSUME Init
  PROVE  VacmInv
<1>1. MibInv /\ TreeWhole
  BY MibInitInv, WholeInit DEF Init
<1> QED BY <1>1 DEF Init, VacmInv, CallOK

LEMMA VacmInvStep ==
  ASSUME CarefulCaller, VacmInv, [Next]_vars
  PROVE  VacmInv'
<1>1. MibInv'
  BY MibStep DEF VacmInv
<1>2. TreeWhole'
  BY WholeNext DEF VacmInv, Next, vars
<1>3. CASE Administer
  <2>1. CallsOK'
    BY <1>3, AdministerKeeps DEF CarefulCaller, VacmInv, MibInv, CallsOK
  <2> QED BY <1>1, <1>2, <2>1 DEF VacmInv, CallsOK
<1>4. CASE UNCHANGED adminVars
  <2>1. call' = call /\ sent' = sent /\ left' = left /\ answers' = answers /\ late' = late
    BY <1>4 DEF adminVars
  <2>2. CallOK'
    BY <2>1 DEF VacmInv, CallOK
  <2> QED BY <1>1, <1>2, <2>1, <2>2 DEF VacmInv
<1> QED BY <1>3, <1>4 DEF Next, vars

(* In a careful program's calls the requests under way carry the row that  *)
(* was meant, or nothing; a call that is sent once has none left when it   *)
(* is answered.                                                            *)
THEOREM VacmInductive == CarefulCaller /\ Spec => []VacmInv
<1>1. CarefulCaller /\ Init => VacmInv
  BY VacmInvInit
<1>2. CarefulCaller /\ VacmInv /\ [Next]_vars => VacmInv'
  BY VacmInvStep
<1>3. CarefulCaller => []CarefulCaller
  <2>1. CarefulCaller => CarefulCaller'
    BY DEF CarefulCaller, NoneIsNoCall, Rules
  <2> QED BY <2>1, PTL
<1> QED BY <1>1, <1>2, <1>3, PTL DEF Spec
-----------------------------------------------------------------------------
(* The contract.                                                           *)

LEMMA AskedIs ==
  ASSUME NEW c, Carries(c)
  PROVE  /\ Asked(c) \in A!Call /\ Asked(c) # None
         /\ Asked(c).do = c.want.do /\ Asked(c).key = c.want.key /\ Asked(c).row = c.want.row
         /\ Asked(c).fit = c.want.fit /\ (Asked(c).single <=> c.retries = 0)
<1>1. c.want \in Wants
  BY DEF Carries
<1>2. /\ c.want.do \in {"create", "delete"} /\ c.want.key \in Key /\ c.want.row \in Row
      /\ c.want.fit \in BOOLEAN
  BY <1>1 DEF Wants
<1> DEFINE s == c.retries = 0
<1>3. s \in BOOLEAN
  OBVIOUS
<1>4. Asked(c) = [do |-> c.want.do, key |-> c.want.key, row |-> c.want.row,
                  fit |-> c.want.fit, single |-> s]
  BY DEF Asked
<1> HIDE DEF s
<1>5. Asked(c) \in [do : {"create", "delete"}, key : Key, row : Row,
                    fit : BOOLEAN, single : BOOLEAN]
  BY <1>2, <1>3, <1>4
<1>6. Asked(c) # None
  BY <1>5, ArgumentsAssumption
<1>7. Asked(c) \in A!Call
  BY <1>5 DEF A!Call
<1>8. Asked(c).single = s
  BY <1>4
<1>9. Asked(c).single <=> c.retries = 0
  BY <1>8 DEF s
<1> QED BY <1>4, <1>6, <1>7, <1>9

(* What the agent does is what was meant.                                  *)
LEMMA DoesAsAsked ==
  ASSUME NEW c, Carries(c)
  PROVE  /\ Accepted(c.pdu) <=> A!Answer(Asked(c)) = "ok"
         /\ A!Answer(Asked(c)) \in {"ok", "refused"}
         /\ Process(c.pdu) => table' = A!Effect(Asked(c))
<1> DEFINE p == c.pdu
           key == c.want.key
           fit == c.want.fit
           create == c.want.do = "create"
<1>1. /\ Asked(c).do = c.want.do /\ Asked(c).key = key /\ Asked(c).row = c.want.row
      /\ Asked(c).fit = fit
  BY AskedIs
<1>2. Keys(p) = IF fit THEN {key} ELSE {}
  <2>1. DOMAIN << >> = {}
    OBVIOUS
  <2>2. CASE p = << >>
    <3>1. Keys(p) = {}
      BY <2>1, <2>2 DEF Keys
    <3>2. ~fit
      BY <2>2 DEF Carries
    <3> QED BY <3>1, <3>2
  <2>3. CASE p # << >>
    BY <2>3 DEF Carries
  <2> QED BY <2>2, <2>3
<1>3. /\ fit /\ create => p[1].val = RowStatus.createAndGo /\ NewRow(p, key[1]) = c.want.row
      /\ fit /\ ~create => p[1].val = RowStatus.destroy
  BY DEF Carries
<1>4. RowStatus.destroy # RowStatus.createAndGo
  BY DEF RowStatus
<1>5. Accepted(p) <=> fit /\ (create => key \notin DOMAIN table)
  <2> HIDE DEF p, key, fit, create
  <2>1. CASE fit
    <3>1. Keys(p) = {key}
      BY <1>2, <2>1
    <3>2. p[1].val = RowStatus.createAndGo <=> create
      BY <1>3, <1>4, <2>1
    <3> QED BY <2>1, <3>1, <3>2 DEF Accepted
  <2>2. CASE ~fit
    <3>1. Keys(p) = {}
      BY <1>2, <2>2
    <3> QED BY <2>2, <3>1 DEF Accepted
  <2> QED BY <2>1, <2>2
<1>6. A!Answer(Asked(c)) = IF fit /\ (create => key \notin DOMAIN table) THEN "ok" ELSE "refused"
  BY <1>1 DEF A!Answer
<1>7. ASSUME Process(p)
      PROVE  table' = A!Effect(Asked(c))
  <2>1. CASE ~Accepted(p)
    BY <1>5, <1>6, <1>7, <2>1 DEF Process, A!Effect
  <2>2. CASE Accepted(p)
    <3>1. fit /\ Keys(p) = {key} /\ (p[1].val = RowStatus.createAndGo <=> create)
      BY <1>2, <1>3, <1>4, <1>5, <2>2
    <3>2. (CHOOSE k \in Keys(p) : TRUE) = key
      BY <3>1
    <3>3. A!Answer(Asked(c)) # "refused"
      BY <1>5, <1>6, <2>2
    <3>4. CASE create
      <4>1. table' = [k \in DOMAIN table \cup {key} |->
                        IF k = key THEN NewRow(p, key[1]) ELSE table[k]]
        BY <1>7, <2>2, <3>1, <3>2, <3>4 DEF Process
      <4> QED BY <1>1, <1>3, <3>1, <3>3, <3>4, <4>1 DEF A!Effect
    <3>5. CASE ~create
      <4>1. table' = [k \in DOMAIN table \ {key} |-> table[k]]
        BY <1>7, <2>2, <3>1, <3>2, <3>5 DEF Process
      <4> QED BY <1>1, <3>3, <3>5, <4>1 DEF A!Effect
    <3> QED BY <3>4, <3>5
  <2> QED BY <2>1, <2>2
<1> QED BY <1>5, <1>6, <1>7
LEMMA AsksStep ==
  ASSUME NoneIsNoCall, NEW retries \in 0 .. Retries, AsksOf(retries), Carries(call')
  PROVE  A!Ask
<1>1. AskedNow(retries)
  BY AsksSend
<1>2. /\ call = None /\ call' # None /\ answers' = {} /\ result' = None
      /\ table' = table /\ late' = late
  BY <1>1 DEF AskedNow
<1>3. Asked(call') \in A!Call
  BY AskedIs
<1>4. Asked(call)' = Asked(call')
  BY DEF Asked
<1>5. {Asked(c) : c \in late}' = {Asked(c) : c \in late}
  BY <1>2 DEF Asked
<1> QED BY <1>2, <1>3, <1>4, <1>5 DEF A!Ask

LEMMA ReturnStep ==
  ASSUME CallOK, call # None, NEW r \in {"ok", "refused", "timeout"}, Return(r),
         \/ r \in answers
         \/ r = "timeout"
         \/ r = "refused" /\ call.pdu = << >>
  PROVE  A!Returns(r)
<1>1. Carries(call) /\ call' = None /\ answers' = {} /\ result' = r /\ table' = table
  BY DEF CallOK, Return
<1>2. /\ Asked(call) # None /\ Asked(call).fit = call.want.fit
      /\ (Asked(call).single <=> call.retries = 0)
  BY <1>1, AskedIs
<1>3. r \in answers \/ r = "timeout" \/ (r = "refused" /\ ~Asked(call).fit)
  BY <1>1, <1>2 DEF Carries
<1>4. /\ late' \subseteq late \cup {call}
      /\ Asked(call).single /\ r # "timeout" => late' = late
  <2>1. Asked(call).single /\ r # "timeout" => sent = 0
    BY <1>2 DEF CallOK
  <2>2. sent = 0 => late' = late
    BY DEF Return
  <2> QED BY <2>1, <2>2 DEF Return
<1>5. {Asked(c) : c \in late}' = {Asked(c) : c \in late'}
  BY DEF Asked
<1>6. {Asked(c) : c \in late'} \subseteq
        {Asked(c) : c \in late}
          \cup (IF Asked(call).single /\ r # "timeout" THEN {} ELSE {Asked(call)})
  BY <1>4
<1> QED BY <1>1, <1>2, <1>3, <1>5, <1>6 DEF A!Returns

LEMMA StaysStep ==
  ASSUME table' = table, call' = call, answers' = answers, late' = late, result' = result
  PROVE  UNCHANGED A!vars
BY DEF A!vars, Asked

LEMMA AdministrationStep ==
  ASSUME CarefulCaller, VacmInv, VacmInv', [Next]_vars
  PROVE  [A!Next]_A!vars
<1>1. CallOK /\ CallOK' /\ \A c \in late : Carries(c)
  BY DEF VacmInv
<1>2. call # None => Carries(call) /\ Asked(call) # None
  BY <1>1, AskedIs DEF CallOK
<1>3. ASSUME NEW retries \in 0 .. Retries, AsksOf(retries)
      PROVE  A!Next
  <2>1. NoneIsNoCall
    BY DEF CarefulCaller
  <2>2. AskedNow(retries)
    BY <1>3, <2>1, AsksSend
  <2>3. Carries(call')
    BY <1>1, <2>2 DEF CallOK, AskedNow, Carries
  <2> QED BY <1>3, <2>1, <2>3, AsksStep DEF A!Next
<1>4. ASSUME NEW answered \in BOOLEAN, Arrives(answered)
      PROVE  A!Next
  <2>1. /\ call # None /\ call' = call /\ late' = late /\ result' = result
        /\ Process(call.pdu)
        /\ answers' = IF answered
                      THEN answers \cup {IF Accepted(call.pdu) THEN "ok" ELSE "refused"}
                      ELSE answers
    BY <1>1, <1>4 DEF Arrives, CallOK
  <2>2. /\ Accepted(call.pdu) <=> A!Answer(Asked(call)) = "ok"
        /\ A!Answer(Asked(call)) \in {"ok", "refused"}
        /\ table' = A!Effect(Asked(call))
    BY <1>2, <2>1, DoesAsAsked
  <2>3. answers' \in {answers, answers \cup {A!Answer(Asked(call))}}
    BY <2>1, <2>2
  <2>4. Asked(call)' = Asked(call) /\ {Asked(c) : c \in late}' = {Asked(c) : c \in late}
    BY <2>1 DEF Asked
  <2> QED BY <1>2, <2>1, <2>2, <2>3, <2>4 DEF A!Next, A!TakesEffect
<1>5. CASE RequestLost \/ Repeat
  BY <1>5, StaysStep DEF RequestLost, Repeat
<1>6. ASSUME NEW c \in late, NEW last \in BOOLEAN, ArrivesLate(c, last)
      PROVE  A!Next
  <2>1. table' = A!Effect(Asked(c))
    BY <1>1, <1>6, DoesAsAsked DEF ArrivesLate
  <2>2. /\ late' \subseteq late /\ call' = call /\ answers' = answers /\ result' = result
    BY <1>6 DEF ArrivesLate, netVars
  <2>3. Asked(call)' = Asked(call) /\ {Asked(d) : d \in late}' = {Asked(d) : d \in late'}
    BY <2>2 DEF Asked
  <2> QED BY <2>1, <2>2, <2>3 DEF A!Next, A!TakesEffectLate
<1>7. ASSUME NEW c \in late, LateLost(c)
      PROVE  A!Next
  <2>1. /\ late' \subseteq late /\ call' = call /\ answers' = answers /\ result' = result
        /\ table' = table
    BY <1>7 DEF LateLost, netVars
  <2>2. Asked(call)' = Asked(call) /\ {Asked(d) : d \in late}' = {Asked(d) : d \in late'}
    BY <2>1 DEF Asked
  <2> QED BY <2>1, <2>2 DEF A!Next, A!Lost
<1>8. CASE (\E r \in {"ok", "refused"} : Answered(r)) \/ TimesOut \/ NotSent
  <2>1. \E r \in {"ok", "refused", "timeout"} :
          /\ call # None /\ Return(r)
          /\ r \in answers \/ r = "timeout" \/ (r = "refused" /\ call.pdu = << >>)
    BY <1>8 DEF Answered, TimesOut, NotSent
  <2>2. \E r \in {"ok", "refused", "timeout"} : A!Returns(r)
    BY <1>1, <2>1, ReturnStep
  <2> QED BY <2>2 DEF A!Next
<1>9. CASE UNCHANGED adminVars
  BY <1>9, StaysStep DEF adminVars
<1>10. Administer =>
         \/ \E retries \in 0 .. Retries : AsksOf(retries)
         \/ \E answered \in BOOLEAN : Arrives(answered)
         \/ RequestLost \/ Repeat
         \/ \E c \in late : (\E last \in BOOLEAN : ArrivesLate(c, last)) \/ LateLost(c)
         \/ (\E r \in {"ok", "refused"} : Answered(r)) \/ TimesOut \/ NotSent
  BY Zenon DEF Administer, AsksOf
<1> QED BY <1>3, <1>4, <1>5, <1>6, <1>7, <1>8, <1>9, <1>10 DEF Next, vars

LEMMA AdministrationStart ==
  ASSUME Init
  PROVE  A!Init
BY DEF Init, A!Init

(* createsectogroup, createview, createaccess and their deletions, and the *)
(* SET that carries them out, implement the contract for a careful         *)
(* program: the agent's tables hold the rows it meant and no others, what  *)
(* returned as done was done, and what was refused had a reason, whatever  *)
(* the network loses, delays and repeats.                                  *)
THEOREM ImplementsAdministration == CarefulCaller /\ Spec => KeepsAdministration
<1>1. CarefulCaller /\ VacmInv /\ VacmInv' /\ [Next]_vars => [A!Next]_A!vars
  BY AdministrationStep
<1>2. CarefulCaller => []CarefulCaller
  <2>1. CarefulCaller => CarefulCaller'
    BY DEF CarefulCaller, NoneIsNoCall, Rules
  <2> QED BY <2>1, PTL
<1>3. Init => A!Init
  BY AdministrationStart
<1> QED BY <1>1, <1>2, <1>3, VacmInductive, PTL DEF Spec, KeepsAdministration, A!Spec
=============================================================================
