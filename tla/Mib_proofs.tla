----------------------------- MODULE Mib_proofs -----------------------------
(***************************************************************************)
(* The names of the MIB tree denote what they were given for, for any MIB  *)
(* files, any objects and any order of asking and loading.                 *)
(*                                                                         *)
(* A name says less than an OID: labels without their place in the tree.   *)
(* The proof follows it through the tree as f_getmibnode does; where the   *)
(* tree goes on by label only one child can bear it, where it goes on by   *)
(* number only one can have it, and behind the tree numbers are copied.    *)
(***************************************************************************)
EXTENDS Vacm, SequenceTheorems, WellFoundedInduction, TLAPS

LEMMA Least ==
  ASSUME NEW S \in SUBSET Nat, S # {}
  PROVE  \E i \in S : \A j \in S : i <= j
<1>1. PICK i \in S : \A j \in S : ~(<<j, i>> \in OpToRel(<, Nat))
  BY NatLessThanWellFounded, WFMin
<1>2. \A j \in S : ~(j < i)
  BY <1>1 DEF OpToRel
<1> QED BY <1>2

(* A set of numbers with a bound has a greatest one.                       *)
LEMMA Greatest ==
  ASSUME NEW S \in SUBSET Nat, S # {}, NEW b \in Nat, \A i \in S : i <= b
  PROVE  \E i \in S : \A j \in S : j <= i
<1> DEFINE D == {d \in Nat : b - d \in S}
<1>1. D # {}
  <2>1. PICK i \in S : TRUE
    OBVIOUS
  <2>2. b - i \in Nat /\ b - (b - i) = i
    BY <2>1
  <2> QED BY <2>2
<1>2. PICK d \in D : \A e \in D : d <= e
  BY <1>1, Least
<1>3. ASSUME NEW j \in S
      PROVE  j <= b - d
  <2>1. b - j \in Nat /\ b - (b - j) = j
    OBVIOUS
  <2>2. b - j \in D
    BY <2>1
  <2> QED BY <1>2, <2>2
<1> QED BY <1>2, <1>3
-----------------------------------------------------------------------------
(* OIDs.                                                                   *)

LEMMA OidTypes ==
  ASSUME NEW o \in Seq(Nat)
  PROVE  Len(o) \in Nat /\ DOMAIN o = 1 .. Len(o) /\ \A i \in 1 .. Len(o) : o[i] \in Nat
OBVIOUS

LEMMA Prefix ==
  ASSUME NEW o \in Seq(Nat), NEW k \in 0 .. Len(o)
  PROVE  /\ SubSeq(o, 1, k) \in Seq(Nat) /\ Len(SubSeq(o, 1, k)) = k
         /\ \A i \in 1 .. k : SubSeq(o, 1, k)[i] = o[i]
<1>1. \A i \in 1 .. k : o[i] \in Nat
  BY OidTypes
<1> QED BY <1>1, SubSeqProperties, OidTypes

LEMMA PrefixOfPrefix ==
  ASSUME NEW o \in Seq(Nat), NEW k \in 0 .. Len(o), NEW j \in 0 .. k
  PROVE  SubSeq(SubSeq(o, 1, k), 1, j) = SubSeq(o, 1, j)
<1> DEFINE p == SubSeq(o, 1, k)
<1>1. p \in Seq(Nat) /\ Len(p) = k /\ \A i \in 1 .. k : p[i] = o[i]
  BY Prefix
<1>2. j \in 0 .. Len(p) /\ j \in 0 .. Len(o)
  BY <1>1, OidTypes
<1> HIDE DEF p
<1>3. /\ SubSeq(p, 1, j) \in Seq(Nat) /\ Len(SubSeq(p, 1, j)) = j
      /\ \A i \in 1 .. j : SubSeq(p, 1, j)[i] = p[i]
  BY <1>1, <1>2, Prefix
<1>4. /\ SubSeq(o, 1, j) \in Seq(Nat) /\ Len(SubSeq(o, 1, j)) = j
      /\ \A i \in 1 .. j : SubSeq(o, 1, j)[i] = o[i]
  BY <1>2, Prefix
<1>5. SubSeq(p, 1, j) = SubSeq(o, 1, j)
  BY <1>1, <1>3, <1>4, SeqEqual
<1> QED BY <1>5 DEF p

(* Two OIDs that agree up to a place have the same prefix there.           *)
LEMMA SamePrefix ==
  ASSUME NEW o \in Seq(Nat), NEW p \in Seq(Nat),
         NEW k \in Nat, k <= Len(o), k <= Len(p), \A i \in 1 .. k : o[i] = p[i]
  PROVE  SubSeq(o, 1, k) = SubSeq(p, 1, k)
<1>1. k \in 0 .. Len(o) /\ k \in 0 .. Len(p)
  BY OidTypes
<1>2. /\ SubSeq(o, 1, k) \in Seq(Nat) /\ Len(SubSeq(o, 1, k)) = k
      /\ \A i \in 1 .. k : SubSeq(o, 1, k)[i] = o[i]
  BY <1>1, Prefix
<1>3. /\ SubSeq(p, 1, k) \in Seq(Nat) /\ Len(SubSeq(p, 1, k)) = k
      /\ \A i \in 1 .. k : SubSeq(p, 1, k)[i] = p[i]
  BY <1>1, Prefix
<1> QED BY <1>2, <1>3, SeqEqual

(* IsPrefix as the library defines it.                                     *)
LEMMA PrefixIs ==
  ASSUME NEW o \in Seq(Nat), NEW p \in Seq(Nat)
  PROVE  IsPrefix(o, p) <=> Len(o) <= Len(p) /\ \A i \in 1 .. Len(o) : o[i] = p[i]
<1>1. ASSUME Len(o) <= Len(p)
      PROVE  SubSeq(o, 1, Len(o)) = SubSeq(p, 1, Len(o))
               <=> \A i \in 1 .. Len(o) : o[i] = p[i]
  <2>1. Len(o) \in 0 .. Len(o) /\ Len(o) \in 0 .. Len(p)
    BY <1>1, OidTypes
  <2>2. /\ \A i \in 1 .. Len(o) : SubSeq(o, 1, Len(o))[i] = o[i]
        /\ \A i \in 1 .. Len(o) : SubSeq(p, 1, Len(o))[i] = p[i]
    BY <2>1, Prefix
  <2>3. (\A i \in 1 .. Len(o) : o[i] = p[i]) => SubSeq(o, 1, Len(o)) = SubSeq(p, 1, Len(o))
    BY <1>1, SamePrefix, OidTypes
  <2>4. SubSeq(o, 1, Len(o)) = SubSeq(p, 1, Len(o)) => \A i \in 1 .. Len(o) : o[i] = p[i]
    BY <2>2
  <2> QED BY <2>3, <2>4
<1> QED BY <1>1 DEF IsPrefix
-----------------------------------------------------------------------------
(* The tree.                                                               *)

LEMMA NodeTypes ==
  ASSUME TreeOK, NEW o \in DOMAIN tree
  PROVE  o \in Seq(Nat) /\ Len(o) \in 1 .. NMAX_SUBID
BY MibAssumption DEF TreeOK

(* Of the children of a node only one bears a label.                       *)
LEMMA Siblings ==
  ASSUME TreeOK, NEW o \in DOMAIN tree, NEW p \in DOMAIN tree,
         Front(o) = Front(p), tree[o].label = tree[p].label
  PROVE  o = p
<1>1. PICK f \in DOMAIN MibFile : \E n \in MibFile[f] :
        n.oid = o /\ tree[o] = [label |-> n.label, type |-> n.type, module |-> f]
  BY DEF TreeOK
<1>2. PICK n \in MibFile[f] :
        n.oid = o /\ tree[o] = [label |-> n.label, type |-> n.type, module |-> f]
  BY <1>1
<1>3. PICK g \in DOMAIN MibFile : \E m \in MibFile[g] :
        m.oid = p /\ tree[p] = [label |-> m.label, type |-> m.type, module |-> g]
  BY DEF TreeOK
<1>4. PICK m \in MibFile[g] :
        m.oid = p /\ tree[p] = [label |-> m.label, type |-> m.type, module |-> g]
  BY <1>3
<1>5. n.label = m.label /\ Front(n.oid) = Front(m.oid)
  BY <1>2, <1>4
<1>6. n = m
  BY <1>5, MibAssumption
<1> QED BY <1>2, <1>4, <1>6

(* What leads to a node is in the tree.                                    *)
LEMMA PrefixInTree ==
  ASSUME TreeOK, NEW o \in DOMAIN tree, NEW k \in 1 .. Len(o)
  PROVE  SubSeq(o, 1, k) \in DOMAIN tree
<1> DEFINE Bad == {j \in Nat : j < Len(o) /\ SubSeq(o, 1, Len(o) - j) \notin DOMAIN tree}
<1>1. o \in Seq(Nat) /\ Len(o) \in Nat
  BY NodeTypes, OidTypes
<1>2. Bad = {}
  <2> SUFFICES ASSUME Bad # {} PROVE FALSE
    OBVIOUS
  <2>1. PICK j \in Bad : \A i \in Bad : j <= i
    BY Least
  <2>2. j \in Nat /\ j < Len(o) /\ SubSeq(o, 1, Len(o) - j) \notin DOMAIN tree
    OBVIOUS
  <2>3. j # 0
    <3>1. SubSeq(o, 1, Len(o)) = o /\ Len(o) - 0 = Len(o)
      BY <1>1, SubSeqFull
    <3> QED BY <2>2, <3>1
  <2>4. PICK i \in Nat : i = j - 1
    BY <2>2, <2>3
  <2>5. i \notin Bad
    BY <2>1, <2>2, <2>4
  <2> DEFINE p == SubSeq(o, 1, Len(o) - i)
             n == Len(o) - j
  <2>6. p \in DOMAIN tree
    BY <2>2, <2>4, <2>5
  <2>7. n \in Nat /\ n \in 0 .. Len(o) - i /\ Len(o) - i \in 0 .. Len(o) /\ Len(o) - i = n + 1
        /\ n # 0
    BY <1>1, <2>2, <2>4
  <2>8. Len(p) = n + 1
    BY <1>1, <2>7, Prefix
  <2>9. SubSeq(p, 1, n) = SubSeq(o, 1, n)
    BY <1>1, <2>7, PrefixOfPrefix
  <2> HIDE DEF p, Bad, n
  <2>10. Front(p) \in DOMAIN tree
    <3>1. \A x \in DOMAIN tree : Len(x) = 1 \/ Front(x) \in DOMAIN tree
      BY DEF TreeOK
    <3>2. Len(p) # 1
      BY <2>7, <2>8
    <3> QED BY <2>6, <3>1, <3>2
  <2>11. Front(p) = SubSeq(o, 1, n)
    BY <2>7, <2>8, <2>9 DEF Front
  <2> QED BY <2>2, <2>10, <2>11 DEF n
<1>3. PICK j \in Nat : j < Len(o) /\ k = Len(o) - j
  <2>1. Len(o) - k \in Nat /\ Len(o) - k < Len(o) /\ k = Len(o) - (Len(o) - k)
    BY <1>1
  <2> QED BY <2>1
<1>4. j \notin Bad
  BY <1>2
<1> QED BY <1>3, <1>4
-----------------------------------------------------------------------------
(* f_getmibnode.                                                           *)

Start(o) == o \in DOMAIN tree \cup {<<>>}

LEMMA StartTypes ==
  ASSUME TreeOK, NEW o, Start(o)
  PROVE  o \in Seq(Nat) /\ Len(o) \in 0 .. NMAX_SUBID
<1>1. CASE o = <<>>
  BY <1>1, MibAssumption, EmptySeq
<1>2. CASE o \in DOMAIN tree
  BY <1>2, NodeTypes, MibAssumption
<1> QED BY <1>1, <1>2 DEF Start

LEMMA ReachedTypes ==
  ASSUME TreeOK, NEW o, Start(o), NEW P, NEW parts \in Seq(P), NEW n \in Reached(o, parts)
  PROVE  /\ n \in Seq(Nat) /\ Len(n) \in Nat /\ Len(n) <= NMAX_SUBID
         /\ Len(o) <= Len(n) /\ Len(n) <= Len(o) + Len(parts)
         /\ \A i \in 1 .. Len(o) : o[i] = n[i]
         /\ n # <<>> => n \in DOMAIN tree
<1>1. Start(n)
  BY DEF Reached, Start
<1>2. n \in Seq(Nat) /\ Len(n) \in 0 .. NMAX_SUBID /\ o \in Seq(Nat)
  BY <1>1, StartTypes
<1>3. IsPrefix(o, n) /\ Len(n) <= Len(o) + Len(parts)
  BY DEF Reached
<1>4. Len(o) <= Len(n) /\ \A i \in 1 .. Len(o) : o[i] = n[i]
  BY <1>2, <1>3, PrefixIs
<1>5. NMAX_SUBID \in Nat
  BY MibAssumption
<1>6. Len(n) \in Nat /\ Len(n) <= NMAX_SUBID
  BY <1>2, <1>5
<1>7. n # <<>> => n \in DOMAIN tree
  BY <1>1 DEF Start
<1> QED BY <1>2, <1>3, <1>4, <1>6, <1>7

LEMMA StartReached ==
  ASSUME TreeOK, NEW o, Start(o), NEW P, NEW parts \in Seq(P)
  PROVE  o \in Reached(o, parts)
<1>1. o \in Seq(Nat) /\ Len(o) \in Nat /\ Len(parts) \in Nat
  BY StartTypes, OidTypes, LenProperties
<1>2. IsPrefix(o, o)
  BY <1>1 DEF IsPrefix
<1> QED BY <1>1, <1>2 DEF Reached

LEMMA DeepestIs ==
  ASSUME TreeOK, NEW o, Start(o), NEW P, NEW parts \in Seq(P)
  PROVE  /\ Deepest(o, parts) \in Reached(o, parts)
         /\ \A m \in Reached(o, parts) : Len(m) <= Len(Deepest(o, parts))
<1> DEFINE Lens == {Len(n) : n \in Reached(o, parts)}
<1>1. Len(o) + Len(parts) \in Nat
  BY StartTypes, OidTypes, LenProperties
<1>2. Lens \in SUBSET Nat /\ \A l \in Lens : l <= Len(o) + Len(parts)
  BY ReachedTypes
<1>3. Lens # {}
  BY StartReached
<1>4. PICK l \in Lens : \A k \in Lens : k <= l
  <2> HIDE DEF Lens
  <2> QED BY <1>1, <1>2, <1>3, Greatest
<1>5. \E n \in Reached(o, parts) : \A m \in Reached(o, parts) : Len(m) <= Len(n)
  BY <1>4
<1> QED BY <1>5 DEF Deepest

LEMMA CutIs ==
  ASSUME NEW o \in Seq(Nat)
  PROVE  /\ Cut(o) \in Seq(Nat) /\ Len(Cut(o)) <= NMAX_SUBID /\ Len(Cut(o)) <= Len(o)
         /\ Len(Cut(o)) = Len(o) \/ Len(Cut(o)) = NMAX_SUBID
         /\ \A i \in 1 .. Len(Cut(o)) : Cut(o)[i] = o[i]
         /\ Len(o) <= NMAX_SUBID => Cut(o) = o
<1> DEFINE n == IF Len(o) < NMAX_SUBID THEN Len(o) ELSE NMAX_SUBID
<1>1. /\ n \in 0 .. Len(o) /\ n <= NMAX_SUBID /\ (n = Len(o) \/ n = NMAX_SUBID)
      /\ Len(o) <= NMAX_SUBID => n = Len(o)
  BY OidTypes, MibAssumption
<1>2. Cut(o) = SubSeq(o, 1, n)
  BY DEF Cut
<1> HIDE DEF n
<1>3. /\ SubSeq(o, 1, n) \in Seq(Nat) /\ Len(SubSeq(o, 1, n)) = n
      /\ \A i \in 1 .. n : SubSeq(o, 1, n)[i] = o[i]
  BY <1>1, Prefix
<1>4. n = Len(o) => SubSeq(o, 1, n) = o
  BY SubSeqFull
<1> QED BY <1>1, <1>2, <1>3, <1>4

LEMMA Sizes == /\ Half \in Nat /\ Word \in Nat /\ IntMax \in Nat
               /\ Half > IntMax /\ Half > 0 /\ Word >= Half
<1>1. IntMax \in Nat
  BY WidthAssumption
<1>2. Half \in Nat /\ Half > IntMax /\ Half > 0
  BY <1>1 DEF Half
<1>3. \A n \in Nat : n > 0 => n * n \in Nat /\ n * n >= n
  OBVIOUS
<1>4. Word \in Nat /\ Word >= Half
  BY <1>2, <1>3 DEF Word
<1> QED BY <1>1, <1>2, <1>4

LEMMA SignedIs ==
  ASSUME NEW n \in Nat
  PROVE  /\ Signed(n) \in Int
         /\ n <= IntMax => Signed(n) = n /\ Signed(n) % Word = n /\ n % Half = n
         /\ n % Half \in Nat
<1>1. /\ Half \in Nat /\ Word \in Nat /\ IntMax \in Nat
      /\ Half > IntMax /\ Half > 0 /\ Word >= Half
  BY Sizes
<1>2. n % Half \in Nat
  BY <1>1
<1>3. n <= IntMax => n % Half = n /\ n % Word = n
  BY <1>1
<1> QED BY <1>1, <1>2, <1>3 DEF Signed

LEMMA BelowTypes ==
  ASSUME NEW P, NEW rest \in Seq(P), \A i \in 1 .. Len(rest) : rest[i][2] \in Nat
  PROVE  Below(rest) \in Seq(Nat) /\ Len(Below(rest)) = Len(rest)
<1>1. Word \in Nat /\ Word > 0
  BY Sizes
<1>2. \A k \in Int : k % Word \in Nat
  BY <1>1
<1>3. \A i \in 1 .. Len(rest) :
        (IF i = 1 THEN rest[i][2] ELSE Signed(rest[i][2]) % Word) \in Nat
  BY <1>2, SignedIs
<1>4. Len(rest) \in Nat
  BY LenProperties
<1> QED BY <1>3, <1>4 DEF Below

LEMMA KnownIs ==
  ASSUME NEW o \in Seq(Nat), NEW k \in 0 .. Len(o),
         \A j \in 1 .. k : SubSeq(o, 1, j) \in DOMAIN tree,
         k < Len(o) => SubSeq(o, 1, k + 1) \notin DOMAIN tree
  PROVE  KnownLen(o) = k
<1> DEFINE known == {n \in 0 .. Len(o) : \A j \in 1 .. n : SubSeq(o, 1, j) \in DOMAIN tree}
<1>1. k \in known
  OBVIOUS
<1>2. ASSUME NEW n \in known
      PROVE  n <= k
  <2>1. CASE k < n
    <3>1. k < Len(o) /\ k + 1 \in 1 .. n
      BY <2>1, OidTypes
    <3> QED BY <3>1
  <2> QED BY <2>1
<1>3. KnownLen(o) = CHOOSE n \in known : \A j \in known : j <= n
  BY DEF KnownLen
<1> HIDE DEF known
<1>4. known \subseteq Nat
  BY DEF known
<1>5. \A n \in known : (\A j \in known : j <= n) => n = k
  BY <1>1, <1>2, <1>4
<1> QED BY <1>1, <1>2, <1>3, <1>5

(* Parts of a text, of which the numbers are numbers.                      *)
PartsOK(P) == \A p \in P : IsNum(p) => p[2] \in Nat

(* The parts behind the tree.                                              *)
Rest(o, parts) == SubSeq(parts, Len(Deepest(o, parts)) - Len(o) + 1, Len(parts))

LEMMA RestIs ==
  ASSUME TreeOK, NEW o, Start(o), NEW P, NEW parts \in Seq(P)
  PROVE  /\ Deepest(o, parts) \in Reached(o, parts)
         /\ Rest(o, parts) \in Seq(P)
         /\ Len(Rest(o, parts)) = Len(o) + Len(parts) - Len(Deepest(o, parts))
         /\ \A i \in 1 .. Len(Rest(o, parts)) :
              Rest(o, parts)[i] = parts[Len(Deepest(o, parts)) - Len(o) + i]
<1> DEFINE node == Deepest(o, parts)
           rest == Rest(o, parts)
<1>1. node \in Reached(o, parts)
  BY DeepestIs
<1>2. /\ Len(node) \in Nat /\ Len(o) \in Nat /\ Len(parts) \in Nat
      /\ Len(o) <= Len(node) /\ Len(node) <= Len(o) + Len(parts)
  BY <1>1, ReachedTypes, StartTypes, OidTypes, LenProperties
<1>3. /\ rest \in Seq(P) /\ Len(rest) = Len(o) + Len(parts) - Len(node)
      /\ \A i \in 1 .. Len(rest) : rest[i] = parts[Len(node) - Len(o) + i]
  <2> DEFINE m == Len(node) - Len(o) + 1
  <2>1. m \in Int /\ m >= 1 /\ Len(parts) - m + 1 = Len(o) + Len(parts) - Len(node)
    BY <1>2
  <2>2. \A i \in m .. Len(parts) : parts[i] \in P
    BY <1>2, <2>1, ElementOfSeq
  <2> HIDE DEF m
  <2>3. /\ SubSeq(parts, m, Len(parts)) \in Seq(P)
        /\ Len(SubSeq(parts, m, Len(parts)))
             = IF m <= Len(parts) THEN Len(parts) - m + 1 ELSE 0
        /\ \A i \in 1 .. Len(parts) - m + 1 : SubSeq(parts, m, Len(parts))[i] = parts[m + i - 1]
    BY <1>2, <2>1, <2>2, SubSeqProperties
  <2>4. rest = SubSeq(parts, m, Len(parts))
    BY DEF Rest, m
  <2> HIDE DEF node, rest
  <2> QED BY <1>2, <2>1, <2>3, <2>4 DEF m
<1> QED BY <1>1, <1>3

LEMMA FollowIs ==
  ASSUME TreeOK, NEW o, Start(o), NEW P, PartsOK(P), NEW parts \in Seq(P),
         NEW r \in Follow(o, parts)
  PROVE  /\ Deepest(o, parts) \in Reached(o, parts)
         /\ Rest(o, parts) \in Seq(P)
         /\ Len(Rest(o, parts)) = Len(o) + Len(parts) - Len(Deepest(o, parts))
         /\ \A i \in 1 .. Len(Rest(o, parts)) :
              /\ Rest(o, parts)[i] = parts[Len(Deepest(o, parts)) - Len(o) + i]
              /\ IsNum(Rest(o, parts)[i]) /\ Rest(o, parts)[i][2] \in Nat
         /\ Below(Rest(o, parts)) \in Seq(Nat)
         /\ Len(Below(Rest(o, parts))) = Len(Rest(o, parts))
         /\ r.known = Len(Deepest(o, parts))
         /\ r.oid = Cut(Deepest(o, parts) \o Below(Rest(o, parts)))
<1> DEFINE node == Deepest(o, parts)
           rest == Rest(o, parts)
<1>1. node \in Reached(o, parts)
  BY RestIs
<1>3. /\ rest \in Seq(P) /\ Len(rest) = Len(o) + Len(parts) - Len(node)
      /\ \A i \in 1 .. Len(rest) : rest[i] = parts[Len(node) - Len(o) + i]
  BY RestIs
<1>4. /\ rest = <<>> \/ (\A i \in 1 .. Len(rest) : IsNum(rest[i]))
      /\ r = [oid |-> Cut(node \o Below(rest)), known |-> Len(node)]
  BY DEF Follow, Rest
<1> HIDE DEF node, rest
<1>5. \A i \in 1 .. Len(rest) : IsNum(rest[i]) /\ rest[i][2] \in Nat
  <2>1. Len(rest) \in Nat /\ (rest = <<>> => Len(rest) = 0)
    BY <1>3, LenProperties, EmptySeq
  <2>2. \A i \in 1 .. Len(rest) : IsNum(rest[i])
    BY <1>4, <2>1
  <2> QED BY <1>3, <2>2, ElementOfSeq DEF PartsOK
<1>6. Below(rest) \in Seq(Nat) /\ Len(Below(rest)) = Len(rest)
  BY <1>3, <1>5, BelowTypes
<1>7. r.known = Len(node) /\ r.oid = Cut(node \o Below(rest))
  BY <1>4
<1> QED BY <1>1, <1>3, <1>5, <1>6, <1>7 DEF node, rest

(* What f_getmibnode returns: an OID, the node where its part in the tree  *)
(* ends, and this is the node nm_mib_getname will come to.                 *)
LEMMA FollowTypes ==
  ASSUME TreeOK, NEW o, Start(o), NEW P, PartsOK(P), NEW parts \in Seq(P),
         NEW r \in Follow(o, parts), r.known > 0
  PROVE  /\ r.oid \in Seq(Nat) /\ Len(r.oid) <= NMAX_SUBID
         /\ r.known \in 1 .. Len(r.oid)
         /\ \A k \in 1 .. r.known : SubSeq(r.oid, 1, k) \in DOMAIN tree
         /\ KnownLen(r.oid) = r.known
<1> DEFINE node == Deepest(o, parts)
           rest == Rest(o, parts)
<1>1. /\ node \in Reached(o, parts) /\ rest \in Seq(P)
      /\ Len(rest) = Len(o) + Len(parts) - Len(node)
      /\ \A i \in 1 .. Len(rest) : rest[i] = parts[Len(node) - Len(o) + i]
      /\ \A i \in 1 .. Len(rest) : IsNum(rest[i]) /\ rest[i][2] \in Nat
      /\ Below(rest) \in Seq(Nat) /\ Len(Below(rest)) = Len(rest)
      /\ r.known = Len(node) /\ r.oid = Cut(node \o Below(rest))
  BY FollowIs
<1>2. \A m \in Reached(o, parts) : Len(m) <= Len(node)
  BY DeepestIs
<1> HIDE DEF node, rest
<1>3. /\ node \in Seq(Nat) /\ Len(node) \in Nat /\ Len(node) <= NMAX_SUBID
      /\ Len(o) <= Len(node) /\ Len(node) <= Len(o) + Len(parts)
      /\ \A i \in 1 .. Len(o) : o[i] = node[i]
      /\ node # <<>> => node \in DOMAIN tree
  BY <1>1, ReachedTypes
<1>4. node \in DOMAIN tree /\ Len(node) > 0
  BY <1>1, <1>3, EmptySeq
<1>5. Len(rest) \in Nat /\ Len(o) \in Nat /\ Len(parts) \in Nat
  BY <1>1, LenProperties, StartTypes, OidTypes
<1> DEFINE b == Below(rest)
           full == node \o b
<1>6. /\ full \in Seq(Nat) /\ Len(full) = Len(node) + Len(rest)
      /\ \A i \in 1 .. Len(node) + Len(rest) :
           full[i] = IF i <= Len(node) THEN node[i] ELSE b[i - Len(node)]
  <2> HIDE DEF b
  <2> QED BY <1>1, <1>3, ConcatProperties DEF b
<1> HIDE DEF full
<1>7. /\ r.oid \in Seq(Nat) /\ Len(r.oid) <= NMAX_SUBID /\ Len(r.oid) <= Len(full)
      /\ Len(r.oid) = Len(full) \/ Len(r.oid) = NMAX_SUBID
      /\ \A i \in 1 .. Len(r.oid) : r.oid[i] = full[i]
  <2>1. r.oid = Cut(full)
    BY <1>1 DEF full
  <2> QED BY <1>6, <2>1, CutIs
<1>8. Len(r.oid) \in Nat /\ Len(node) <= Len(r.oid)
  BY <1>3, <1>5, <1>6, <1>7, OidTypes
<1>9. \A i \in 1 .. Len(node) : r.oid[i] = node[i]
  <2> TAKE i \in 1 .. Len(node)
  <2>1. i \in 1 .. Len(r.oid) /\ i \in 1 .. Len(node) + Len(rest) /\ i <= Len(node)
    BY <1>3, <1>5, <1>8
  <2> HIDE DEF b
  <2> QED BY <1>6, <1>7, <2>1
<1>10. \A k \in 1 .. Len(node) : SubSeq(r.oid, 1, k) = SubSeq(node, 1, k)
  <2> TAKE k \in 1 .. Len(node)
  <2>1. k \in Nat /\ k <= Len(r.oid) /\ k <= Len(node) /\ \A i \in 1 .. k : r.oid[i] = node[i]
    BY <1>3, <1>8, <1>9
  <2> QED BY <1>3, <1>7, <2>1, SamePrefix
<1>11. \A k \in 1 .. Len(node) : SubSeq(r.oid, 1, k) \in DOMAIN tree
  BY <1>4, <1>10, PrefixInTree
<1> DEFINE k == Len(node) + 1
           m == SubSeq(r.oid, 1, k)
<1>12. ASSUME Len(node) < Len(r.oid), m \in DOMAIN tree
       PROVE  FALSE
  <2>1. k \in 1 .. Len(r.oid) /\ Len(rest) > 0 /\ k <= Len(o) + Len(parts)
    <3>1. Len(r.oid) <= Len(node) + Len(rest)
      BY <1>6, <1>7
    <3>2. Len(rest) = Len(o) + Len(parts) - Len(node)
      BY <1>1
    <3> QED BY <1>3, <1>5, <1>8, <1>12, <3>1, <3>2
  <2>2. /\ m \in Seq(Nat) /\ Len(m) = k /\ \A i \in 1 .. k : m[i] = r.oid[i]
    BY <1>7, <2>1, Prefix
  <2>3. \A i \in 1 .. k : SubSeq(m, 1, i) = SubSeq(r.oid, 1, i)
    BY <1>7, <2>1, PrefixOfPrefix
  <2> HIDE DEF m
  <2>4. m[k] = rest[1][2] /\ IsNum(rest[1]) /\ rest[1] = parts[k - Len(o)]
    <3>1. m[k] = full[k] /\ full[k] = b[1]
      <4>1. k \in 1 .. k /\ k \in 1 .. Len(node) + Len(rest) /\ ~(k <= Len(node))
            /\ k - Len(node) = 1
        BY <1>3, <1>5, <2>1
      <4> HIDE DEF k, b
      <4> QED BY <1>6, <1>7, <2>1, <2>2, <4>1
    <3>2. b[1] = rest[1][2]
      BY <1>5, <2>1 DEF Below
    <3>3. 1 \in 1 .. Len(rest) /\ Len(node) - Len(o) + 1 = k - Len(o)
      BY <1>3, <1>5, <2>1
    <3> QED BY <1>1, <3>1, <3>2, <3>3
  <2>5. Matches(m, parts[k - Len(o)])
    BY <2>2, <2>4 DEF Matches, Last
  <2>6. IsPrefix(o, m)
    <3>1. o \in Seq(Nat)
      BY StartTypes
    <3>2. Len(o) <= Len(m)
      BY <1>3, <1>5, <2>2
    <3>3. ASSUME NEW i \in 1 .. Len(o)
          PROVE  o[i] = m[i]
      <4>1. i \in 1 .. Len(node) /\ i \in 1 .. k
        BY <1>3, <1>5
      <4>2. o[i] = node[i] /\ node[i] = r.oid[i] /\ r.oid[i] = m[i]
        BY <1>3, <1>9, <2>2, <4>1
      <4> QED BY <4>2
    <3> QED BY <2>2, <3>1, <3>2, <3>3, PrefixIs
  <2>7. ASSUME NEW i \in Len(o) + 1 .. Len(m)
        PROVE  SubSeq(m, 1, i) \in DOMAIN tree /\ Matches(SubSeq(m, 1, i), parts[i - Len(o)])
    <3>1. CASE i = k
      <4>1. SubSeq(m, 1, i) = m
        BY <2>2, <3>1, SubSeqFull
      <4> QED BY <1>12, <2>5, <3>1, <4>1
    <3>2. CASE i # k
      <4>1. i \in 1 .. Len(node) /\ i \in Len(o) + 1 .. Len(node) /\ i \in 1 .. k
        BY <1>3, <1>5, <2>2, <3>2
      <4>2. SubSeq(m, 1, i) = SubSeq(node, 1, i)
        BY <1>10, <2>3, <4>1
      <4>3. /\ SubSeq(node, 1, i) \in DOMAIN tree
            /\ Matches(SubSeq(node, 1, i), parts[i - Len(o)])
        BY <1>1, <4>1 DEF Reached
      <4> QED BY <4>2, <4>3
    <3> QED BY <3>1, <3>2
  <2>8. m \in Reached(o, parts)
    BY <1>12, <2>1, <2>2, <2>6, <2>7 DEF Reached
  <2>9. Len(m) <= Len(node)
    BY <1>2, <2>8
  <2>10. k <= Len(node)
    BY <2>2, <2>9
  <2> QED BY <1>3, <2>10
<1>13. KnownLen(r.oid) = Len(node)
  <2>1. Len(node) \in 0 .. Len(r.oid)
    BY <1>3, <1>8
  <2> QED BY <1>7, <1>11, <1>12, <2>1, KnownIs
<1> QED BY <1>1, <1>3, <1>4, <1>7, <1>8, <1>11, <1>13
-----------------------------------------------------------------------------
(* What the program holds.                                                 *)

Part == {<<"num", n>> : n \in Int} \cup {<<"label", tree[o].label>> : o \in DOMAIN tree}

LEMMA PartOK == PartsOK(Part)
BY DEF PartsOK, Part, IsNum

LEMMA NumTextIs ==
  ASSUME NEW o \in Seq(Nat)
  PROVE  /\ NumText(Oid2Str(o)).module = ""
         /\ NumText(Oid2Str(o)).parts = [i \in 1 .. Len(o) |-> <<"num", Signed(o[i])>>]
<1>1. DOMAIN o = 1 .. Len(o)
  BY OidTypes
<1>2. Oid2Str(o) = [i \in 1 .. Len(o) |-> Signed(o[i])]
  BY <1>1 DEF Oid2Str
<1>3. DOMAIN Oid2Str(o) = 1 .. Len(o) /\ \A i \in 1 .. Len(o) : Oid2Str(o)[i] = Signed(o[i])
  BY <1>2
<1> QED BY <1>3 DEF NumText

LEMMA NumParts ==
  ASSUME NEW o \in Seq(Nat)
  PROVE  /\ NumText(Oid2Str(o)).parts \in Seq(Part)
         /\ Len(NumText(Oid2Str(o)).parts) = Len(o)
<1>1. \A i \in 1 .. Len(o) : <<"num", Signed(o[i])>> \in Part
  BY SignedIs, OidTypes DEF Part
<1>2. Len(o) \in Nat
  BY OidTypes
<1> DEFINE p == [i \in 1 .. Len(o) |-> <<"num", Signed(o[i])>>]
<1>3. p \in Seq(Part) /\ Len(p) = Len(o)
  BY <1>1, <1>2
<1> HIDE DEF p
<1>4. NumText(Oid2Str(o)).parts = p
  BY NumTextIs DEF p
<1> QED BY <1>3, <1>4

LEMMA NameParts ==
  ASSUME NEW o \in Seq(Nat), o # <<>>, NEW text, IsName(text, o)
  PROVE  text.parts \in Seq(Part) /\ Len(text.parts) > 0
<1>1. PICK from \in 1 .. Len(o) : \E known \in from .. Len(o) :
       /\ \A k \in from .. known : SubSeq(o, 1, k) \in DOMAIN tree
       /\ text.parts =
            [i \in 1 .. Len(o) - from + 1 |->
               LET k == from + i - 1
               IN IF k <= known THEN <<"label", tree[SubSeq(o, 1, k)].label>>
                  ELSE <<"num", o[k] % Half>>]
  BY DEF IsName
<1>2. PICK known \in from .. Len(o) :
       /\ \A k \in from .. known : SubSeq(o, 1, k) \in DOMAIN tree
       /\ text.parts =
            [i \in 1 .. Len(o) - from + 1 |->
               LET k == from + i - 1
               IN IF k <= known THEN <<"label", tree[SubSeq(o, 1, k)].label>>
                  ELSE <<"num", o[k] % Half>>]
  BY <1>1
<1>3. Len(o) \in Nat /\ Len(o) - from + 1 \in Nat /\ Len(o) - from + 1 > 0
  BY OidTypes
<1>4. ASSUME NEW k \in from .. Len(o)
      PROVE  (IF k <= known THEN <<"label", tree[SubSeq(o, 1, k)].label>>
              ELSE <<"num", o[k] % Half>>) \in Part
  <2>1. k <= known => <<"label", tree[SubSeq(o, 1, k)].label>> \in Part
    <3>1. k <= known => SubSeq(o, 1, k) \in DOMAIN tree
      BY <1>2
    <3> QED BY <3>1 DEF Part
  <2>2. <<"num", o[k] % Half>> \in Part
    <3>1. o[k] \in Nat
      BY OidTypes
    <3>2. \A n \in Nat : n % Half \in Int
      BY SignedIs
    <3> QED BY <3>1, <3>2, Zenon DEF Part
  <2> QED BY <2>1, <2>2
<1>5. \A i \in 1 .. Len(o) - from + 1 : from + i - 1 \in from .. Len(o)
  BY <1>3
<1> DEFINE e(k) == IF k <= known THEN <<"label", tree[SubSeq(o, 1, k)].label>>
                   ELSE <<"num", o[k] % Half>>
           p == [i \in 1 .. Len(o) - from + 1 |-> e(from + i - 1)]
<1>6. p = text.parts
  BY <1>2
<1>7. \A k \in from .. Len(o) : e(k) \in Part
  BY <1>4
<1> HIDE DEF e
<1>8. \A i \in 1 .. Len(o) - from + 1 : e(from + i - 1) \in Part
  BY <1>5, <1>7
<1>9. p \in Seq(Part) /\ Len(p) = Len(o) - from + 1
  BY <1>3, <1>8
<1> QED BY <1>3, <1>6, <1>9

LEMMA HeldParts ==
  ASSUME HeldOK, at # None
  PROVE  at.text.parts \in Seq(Part) /\ Len(at.text.parts) > 0
<1>1. at.means \in Seq(Nat) /\ at.means # <<>>
  BY DEF HeldOK
<1>2. Len(at.means) > 0
  BY <1>1, EmptySeq
<1>3. CASE at.text = NumText(Oid2Str(at.means))
  BY <1>1, <1>2, <1>3, NumParts
<1>4. CASE IsName(at.text, at.means)
  BY <1>1, <1>4, NameParts
<1> QED BY <1>3, <1>4 DEF HeldOK

(* GetMibNode follows from the root, or from a node with the first label.  *)
LEMMA GetMibNodeIs ==
  ASSUME NEW text, text.parts # <<>>
  PROVE  GetMibNode(text) =
           IF IsNum(Head(text.parts))
           THEN {r \in Follow(<<>>, text.parts) : r.known > 0}
           ELSE {r \in UNION {Follow(o, Tail(text.parts)) :
                                o \in FindNode(Head(text.parts), text.module)} : r.known > 0}
BY DEF GetMibNode

LEMMA ResultTypes ==
  ASSUME TreeOK, HeldOK, at # None, NEW r \in GetMibNode(at.text)
  PROVE  /\ r.oid \in Seq(Nat) /\ Len(r.oid) <= NMAX_SUBID
         /\ r.known \in 1 .. Len(r.oid)
         /\ \A k \in 1 .. r.known : SubSeq(r.oid, 1, k) \in DOMAIN tree
         /\ KnownLen(r.oid) = r.known
<1> DEFINE parts == at.text.parts
<1>1. parts \in Seq(Part) /\ parts # <<>> /\ Tail(parts) \in Seq(Part)
  BY HeldParts, EmptySeq, HeadTailProperties
<1>2. \E o : \E ps \in Seq(Part) : Start(o) /\ r \in Follow(o, ps) /\ r.known > 0
  <2>1. CASE IsNum(Head(parts))
    <3>1. r \in Follow(<<>>, parts) /\ r.known > 0
      BY <1>1, <2>1, GetMibNodeIs
    <3> QED BY <1>1, <3>1 DEF Start
  <2>2. CASE ~IsNum(Head(parts))
    <3>1. /\ r \in UNION {Follow(o, Tail(parts)) :
                             o \in FindNode(Head(parts), at.text.module)}
          /\ r.known > 0
      BY <1>1, <2>2, GetMibNodeIs
    <3>2. PICK o \in FindNode(Head(parts), at.text.module) : r \in Follow(o, Tail(parts))
      BY <3>1
    <3>3. Start(o)
      BY DEF Start, FindNode
    <3> QED BY <1>1, <3>1, <3>2, <3>3
  <2> QED BY <2>1, <2>2
<1> QED BY <1>2, PartOK, FollowTypes
-----------------------------------------------------------------------------
(* The invariant.                                                          *)

LEMMA Between ==
  ASSUME NEW n \in Nat, NEW k \in 1 .. n, NEW f, f = 1 \/ f = k
  PROVE  f \in 1 .. n /\ k \in f .. n /\ \A j \in f .. k : j \in 1 .. k
OBVIOUS

(* nm_mib_getname gives names.                                             *)
LEMMA GetNameIs ==
  ASSUME NEW o \in Seq(Nat), Len(o) <= NMAX_SUBID, KnownLen(o) \in 1 .. Len(o),
         \A k \in 1 .. KnownLen(o) : SubSeq(o, 1, k) \in DOMAIN tree,
         NEW full \in BOOLEAN, NEW text, text.parts = GetName(o, full).parts,
         text.module = "" \/ (~full /\ text.module = tree[SubSeq(o, 1, KnownLen(o))].module)
  PROVE  IsName(text, o)
<1> DEFINE known == KnownLen(o)
           from == IF full THEN 1 ELSE known
<1>1. text.parts =
            [i \in 1 .. Len(o) - from + 1 |->
               LET k == from + i - 1
               IN IF k <= known THEN <<"label", tree[SubSeq(o, 1, k)].label>>
                  ELSE <<"num", o[k] % Half>>]
  BY DEF GetName
<1>2. Len(o) \in Nat /\ known \in 1 .. Len(o)
  BY OidTypes
<1>3. from = 1 \/ from = known
  BY Zenon
<1>4. text.module \in {"", tree[SubSeq(o, 1, from)].module}
  BY Zenon
<1> HIDE DEF known, from
<1>5. from \in 1 .. Len(o) /\ known \in from .. Len(o) /\ \A k \in from .. known : k \in 1 .. known
  BY <1>2, <1>3, Between, Zenon
<1>6. \A k \in from .. known : SubSeq(o, 1, k) \in DOMAIN tree
  BY <1>5, Zenon DEF known
<1> QED BY <1>1, <1>4, <1>5, <1>6, Zenon DEF IsName

(* A name stays one when the tree grows.                                   *)
LEMMA NamesStay ==
  ASSUME NEW text, NEW o, IsName(text, o),
         \A n \in DOMAIN tree : n \in DOMAIN tree' /\ tree'[n] = tree[n]
  PROVE  IsName(text, o)'
<1>1. Len(o) <= NMAX_SUBID
  BY DEF IsName
<1>2. PICK from \in 1 .. Len(o) : \E known \in from .. Len(o) :
       /\ \A k \in from .. known : SubSeq(o, 1, k) \in DOMAIN tree
       /\ text.module \in {"", tree[SubSeq(o, 1, from)].module}
       /\ text.parts =
            [i \in 1 .. Len(o) - from + 1 |->
               LET k == from + i - 1
               IN IF k <= known THEN <<"label", tree[SubSeq(o, 1, k)].label>>
                  ELSE <<"num", o[k] % Half>>]
  BY DEF IsName
<1>3. PICK known \in from .. Len(o) :
       /\ \A k \in from .. known : SubSeq(o, 1, k) \in DOMAIN tree
       /\ text.module \in {"", tree[SubSeq(o, 1, from)].module}
       /\ text.parts =
            [i \in 1 .. Len(o) - from + 1 |->
               LET k == from + i - 1
               IN IF k <= known THEN <<"label", tree[SubSeq(o, 1, k)].label>>
                  ELSE <<"num", o[k] % Half>>]
  BY <1>2
<1>4. \A k \in from .. known : /\ SubSeq(o, 1, k) \in DOMAIN tree'
                               /\ tree'[SubSeq(o, 1, k)] = tree[SubSeq(o, 1, k)]
  BY <1>3
<1>5. from \in from .. known
  OBVIOUS
<1>6. text.module \in {"", tree'[SubSeq(o, 1, from)].module}
  BY <1>3, <1>4, <1>5
<1>7. \A i \in 1 .. Len(o) - from + 1 :
        from + i - 1 <= known => from + i - 1 \in from .. known
  OBVIOUS
<1>8. text.parts =
        [i \in 1 .. Len(o) - from + 1 |->
           LET k == from + i - 1
           IN IF k <= known THEN <<"label", tree'[SubSeq(o, 1, k)].label>>
              ELSE <<"num", o[k] % Half>>]
  BY <1>3, <1>4, <1>7
<1> QED BY <1>1, <1>4, <1>6, <1>8 DEF IsName

(* What is given for an OID is held for it.                                *)
LEMMA HoldInv ==
  ASSUME TreeOK, NEW text, NEW o \in Seq(Nat) \ {<<>>}, Hold(text, o),
         text = NumText(Oid2Str(o)) \/ IsName(text, o)
  PROVE  MibInv'
<1>1. tree' = tree /\ at' = [text |-> text, means |-> o]
  BY DEF Hold
<1>2. TreeOK'
  BY <1>1 DEF TreeOK
<1>3. at.text' = text /\ at.means' = o
  BY <1>1
<1>4. CASE text = NumText(Oid2Str(o))
  BY <1>2, <1>3, <1>4 DEF MibInv, HeldOK
<1>5. CASE IsName(text, o)
  <2>1. IsName(text, o)'
    BY <1>1, <1>5, NamesStay
  <2> QED BY <1>2, <1>3, <2>1 DEF MibInv, HeldOK
<1> QED BY <1>4, <1>5

LEMMA MibInitInv ==
  ASSUME MibInit
  PROVE  MibInv
<1>1. \A f \in Initial : \A o \in DOMAIN NodesOf(f) : \E n \in MibFile[f] :
        n.oid = o /\ NodesOf(f)[o] = [label |-> n.label, type |-> n.type, module |-> f]
  BY DEF NodesOf
<1>2. DOMAIN tree = UNION {DOMAIN NodesOf(f) : f \in Initial}
  BY DEF MibInit
<1>3. ASSUME NEW o \in DOMAIN tree
      PROVE  \E f \in DOMAIN MibFile : \E n \in MibFile[f] :
               n.oid = o /\ tree[o] = [label |-> n.label, type |-> n.type, module |-> f]
  <2> DEFINE f == CHOOSE f \in Initial : o \in DOMAIN NodesOf(f)
  <2>1. f \in Initial /\ o \in DOMAIN NodesOf(f)
    BY <1>2
  <2>2. tree[o] = NodesOf(f)[o]
    BY <1>2 DEF MibInit
  <2> HIDE DEF f
  <2>3. f \in DOMAIN MibFile
    BY <2>1, MibAssumption
  <2> QED BY <1>1, <2>1, <2>2, <2>3
<1>4. ASSUME NEW o \in DOMAIN tree
      PROVE  Len(o) = 1 \/ Front(o) \in DOMAIN tree
  <2>1. PICK f \in Initial : o \in DOMAIN NodesOf(f)
    BY <1>2
  <2>2. PICK n \in MibFile[f] : n.oid = o
    BY <1>1, <2>1
  <2>3. Len(o) = 1 \/ \E g \in Initial : \E m \in MibFile[g] : m.oid = Front(o)
    BY <2>2, MibAssumption
  <2>4. \A g \in Initial : \A m \in MibFile[g] : m.oid \in DOMAIN tree
    BY <1>2 DEF NodesOf
  <2> QED BY <2>3, <2>4
<1>5. HeldOK
  BY DEF MibInit, HeldOK
<1> QED BY <1>3, <1>4, <1>5 DEF MibInv, TreeOK

LEMMA LoadInv ==
  ASSUME MibInv, NEW f \in DOMAIN MibFile, Load(f)
  PROVE  MibInv'
<1> DEFINE new == NodesOf(f)
<1>1. /\ \A o \in DOMAIN new : Len(o) = 1 \/ Front(o) \in DOMAIN tree \cup DOMAIN new
      /\ DOMAIN tree' = DOMAIN tree \cup DOMAIN new
      /\ \A o \in DOMAIN tree : tree'[o] = tree[o]
      /\ \A o \in DOMAIN new \ DOMAIN tree : tree'[o] = new[o]
      /\ at' = at
  BY DEF Load
<1>2. \A o \in DOMAIN new : \E n \in MibFile[f] :
        n.oid = o /\ new[o] = [label |-> n.label, type |-> n.type, module |-> f]
  BY DEF NodesOf
<1> HIDE DEF new
<1>3. \A o \in DOMAIN tree' : \E g \in DOMAIN MibFile : \E n \in MibFile[g] :
        n.oid = o /\ tree'[o] = [label |-> n.label, type |-> n.type, module |-> g]
  <2> TAKE o \in DOMAIN tree'
  <2>1. CASE o \in DOMAIN tree
    <3>1. tree'[o] = tree[o]
      BY <1>1, <2>1
    <3>2. \E g \in DOMAIN MibFile : \E n \in MibFile[g] :
            n.oid = o /\ tree[o] = [label |-> n.label, type |-> n.type, module |-> g]
      BY <2>1 DEF MibInv, TreeOK
    <3> QED BY <3>1, <3>2
  <2>2. CASE o \in DOMAIN new \ DOMAIN tree
    <3>1. tree'[o] = new[o]
      BY <1>1, <2>2
    <3> QED BY <1>2, <2>2, <3>1
  <2> QED BY <1>1, <2>1, <2>2
<1>4. \A o \in DOMAIN tree' : Len(o) = 1 \/ Front(o) \in DOMAIN tree'
  BY <1>1 DEF MibInv, TreeOK
<1>5. \A text, o : IsName(text, o) => IsName(text, o)'
  BY <1>1, NamesStay
<1>6. HeldOK'
  BY <1>1, <1>5 DEF MibInv, HeldOK
<1> QED BY <1>3, <1>4, <1>6 DEF MibInv, TreeOK
-----------------------------------------------------------------------------
(* The way of a name through the tree.                                     *)

(* What follows the node o in a name of an OID: labels, then numbers.      *)
Leads(o, parts, oid, known) ==
  /\ Len(o) <= Len(oid) /\ \A i \in 1 .. Len(o) : o[i] = oid[i]
  /\ Len(parts) = Len(oid) - Len(o)
  /\ known \in Len(o) .. Len(oid)
  /\ \A k \in Len(o) + 1 .. known :
       /\ SubSeq(oid, 1, k) \in DOMAIN tree
       /\ parts[k - Len(o)] = <<"label", tree[SubSeq(oid, 1, k)].label>>
  /\ \A k \in known + 1 .. Len(oid) : parts[k - Len(o)] = <<"num", oid[k]>>

(* It leads nowhere else: only one child has the label, or the number.     *)
LEMMA OneWay ==
  ASSUME TreeOK, NEW o, Start(o), NEW P, NEW parts \in Seq(P), NEW oid \in Seq(Nat),
         NEW known, Leads(o, parts, oid, known), NEW n \in Reached(o, parts)
  PROVE  Len(n) <= Len(oid) /\ \A i \in 1 .. Len(n) : n[i] = oid[i]
<1>1. /\ n \in Seq(Nat) /\ Len(n) \in Nat
      /\ Len(o) <= Len(n) /\ Len(n) <= Len(o) + Len(parts)
      /\ \A i \in 1 .. Len(o) : o[i] = n[i]
  BY ReachedTypes
<1>2. Len(o) \in Nat /\ Len(oid) \in Nat /\ Len(parts) \in Nat
  BY StartTypes, OidTypes, LenProperties
<1>3. Len(n) <= Len(oid)
  BY <1>1, <1>2 DEF Leads
<1> DEFINE Differ == {i \in 1 .. Len(n) : n[i] # oid[i]}
<1>4. ASSUME Differ # {}
      PROVE  FALSE
  <2>1. Differ \in SUBSET Nat
    BY <1>1
  <2>2. PICK i \in Differ : \A j \in Differ : i <= j
    BY <1>4, <2>1, Least
  <2>3. i \in 1 .. Len(n) /\ n[i] # oid[i]
    OBVIOUS
  <2>4. \A j \in 1 .. i - 1 : n[j] = oid[j]
    <3> TAKE j \in 1 .. i - 1
    <3>1. j \in 1 .. Len(n) /\ ~(i <= j)
      BY <1>1, <2>3
    <3>2. j \notin Differ
      BY <2>2, <3>1
    <3> QED BY <3>1, <3>2
  <2> HIDE DEF Differ
  <2>5. i > Len(o)
    <3>1. i \in 1 .. Len(o) => n[i] = oid[i]
      BY <1>1 DEF Leads
    <3> QED BY <1>1, <1>2, <2>3, <3>1
  <2>6. i \in Nat /\ i \in Len(o) + 1 .. Len(n) /\ i \in 1 .. Len(oid) /\ i - 1 \in Nat
        /\ i - 1 <= Len(n) /\ i - 1 <= Len(oid) /\ i \in 0 .. Len(n) /\ i \in 0 .. Len(oid)
        /\ i - 1 \in 0 .. i
    <3>1. /\ Len(n) \in Nat /\ Len(o) \in Nat /\ Len(oid) \in Nat /\ i \in 1 .. Len(n)
          /\ Len(n) <= Len(oid) /\ i > Len(o)
      BY <1>1, <1>2, <1>3, <2>3, <2>5
    <3> HIDE <1>1, <1>2, <1>3
    <3> QED BY <3>1
  <2> DEFINE m == SubSeq(n, 1, i)
             p == SubSeq(oid, 1, i)
  <2>7. m \in DOMAIN tree /\ Matches(m, parts[i - Len(o)])
    BY <2>6 DEF Reached
  <2>8. /\ Len(m) = i /\ m[i] = n[i] /\ SubSeq(m, 1, i - 1) = SubSeq(n, 1, i - 1)
        /\ Len(p) = i /\ p[i] = oid[i] /\ SubSeq(p, 1, i - 1) = SubSeq(oid, 1, i - 1)
    <3>1. i \in 1 .. i
      BY <2>3
    <3> QED BY <1>1, <2>6, <3>1, Prefix, PrefixOfPrefix
  <2>9. SubSeq(n, 1, i - 1) = SubSeq(oid, 1, i - 1)
    BY <1>1, <2>4, <2>6, SamePrefix
  <2> HIDE DEF m, p
  <2>10. CASE i <= known
    <3>1. i \in Len(o) + 1 .. known
      BY <1>2, <2>6, <2>10 DEF Leads
    <3>2. p \in DOMAIN tree /\ parts[i - Len(o)] = <<"label", tree[p].label>>
      BY <3>1 DEF Leads, p
    <3>3. tree[m].label = tree[p].label
      BY <2>7, <3>2 DEF Matches, IsNum, Labelled
    <3>4. Front(m) = Front(p)
      BY <2>8, <2>9 DEF Front
    <3>5. m = p
      BY <2>7, <3>2, <3>3, <3>4, Siblings
    <3> QED BY <2>3, <2>8, <3>5
  <2>11. CASE i > known
    <3>1. i \in known + 1 .. Len(oid)
      BY <1>2, <2>6, <2>11 DEF Leads
    <3>2. parts[i - Len(o)] = <<"num", oid[i]>>
      BY <3>1 DEF Leads
    <3>3. oid[i] \in Nat
      BY <2>6, OidTypes
    <3>4. m[i] = oid[i]
      BY <2>7, <2>8, <3>2, <3>3 DEF Matches, IsNum, Last
    <3> QED BY <2>3, <2>8, <3>4
  <2>12. known \in Int
    BY <1>2 DEF Leads
  <2> QED BY <2>6, <2>10, <2>11, <2>12
<1> QED BY <1>3, <1>4

(* And it leads as far as the name has labels.                             *)
LEMMA LabelsReached ==
  ASSUME TreeOK, NEW o, Start(o), NEW P, NEW parts \in Seq(P), NEW oid \in Seq(Nat),
         NEW known, Leads(o, parts, oid, known)
  PROVE  Len(Deepest(o, parts)) >= known
<1> DEFINE p == SubSeq(oid, 1, known)
<1>1. /\ Len(o) \in Nat /\ Len(oid) \in Nat /\ Len(parts) \in Nat /\ o \in Seq(Nat)
      /\ known \in Nat /\ known \in 0 .. Len(oid) /\ Len(o) <= known
  BY StartTypes, OidTypes, LenProperties DEF Leads
<1>2. p \in Seq(Nat) /\ Len(p) = known /\ \A i \in 1 .. known : p[i] = oid[i]
  BY <1>1, Prefix
<1>3. p \in DOMAIN tree \cup {o}
  <2>1. CASE known = Len(o)
    <3>1. \A i \in 1 .. Len(o) : p[i] = o[i]
      BY <1>2, <2>1 DEF Leads
    <3>2. p = o
      BY <1>1, <1>2, <2>1, <3>1, SeqEqual
    <3> QED BY <3>2
  <2>2. CASE known # Len(o)
    <3>1. known \in Len(o) + 1 .. known
      BY <1>1, <2>2
    <3> QED BY <3>1 DEF Leads
  <2> QED BY <2>1, <2>2
<1>4. \A i \in 0 .. known : SubSeq(p, 1, i) = SubSeq(oid, 1, i)
  BY <1>1, PrefixOfPrefix
<1> HIDE DEF p
<1>5. IsPrefix(o, p)
  <2>1. Len(o) <= Len(p)
    BY <1>1, <1>2
  <2>2. ASSUME NEW i \in 1 .. Len(o)
        PROVE  o[i] = p[i]
    <3>1. i \in 1 .. known
      BY <1>1
    <3>2. o[i] = oid[i] /\ p[i] = oid[i]
      BY <1>2, <3>1 DEF Leads
    <3> QED BY <3>2
  <2> QED BY <1>1, <1>2, <2>1, <2>2, PrefixIs
<1>6. Len(p) <= Len(o) + Len(parts)
  BY <1>1, <1>2 DEF Leads
<1>7. ASSUME NEW i \in Len(o) + 1 .. Len(p)
      PROVE  SubSeq(p, 1, i) \in DOMAIN tree /\ Matches(SubSeq(p, 1, i), parts[i - Len(o)])
  <2>1. i \in Len(o) + 1 .. known /\ i \in 0 .. known
    BY <1>1, <1>2
  <2>2. SubSeq(p, 1, i) = SubSeq(oid, 1, i)
    BY <1>4, <2>1
  <2>3. SubSeq(oid, 1, i) \in DOMAIN tree
        /\ parts[i - Len(o)] = <<"label", tree[SubSeq(oid, 1, i)].label>>
    BY <2>1 DEF Leads
  <2> DEFINE part == parts[i - Len(o)]
             m == SubSeq(oid, 1, i)
  <2>4. m \in DOMAIN tree /\ part = <<"label", tree[m].label>>
    BY <2>3
  <2> HIDE DEF part, m
  <2>5. Matches(m, part)
    BY <2>4 DEF Matches, IsNum, Labelled
  <2> QED BY <2>2, <2>4, <2>5 DEF part, m
<1>8. p \in Reached(o, parts)
  BY <1>3, <1>5, <1>6, <1>7 DEF Reached
<1>9. Len(p) <= Len(Deepest(o, parts))
  BY <1>8, DeepestIs
<1>10. Len(Deepest(o, parts)) \in Nat
  BY DeepestIs, ReachedTypes
<1> QED BY <1>1, <1>2, <1>9, <1>10

(* The numbers behind the tree are copied, as many as there is room for.   *)
LEMMA WayGoes ==
  ASSUME TreeOK, NEW o, Start(o), NEW P, NEW parts \in Seq(P), NEW oid \in Seq(Nat),
         NEW known, Leads(o, parts, oid, known), \A i \in 1 .. Len(oid) : oid[i] <= IntMax
  PROVE  Follow(o, parts) =
           IF Len(Deepest(o, parts)) = Len(oid) \/ Len(Deepest(o, parts)) < NMAX_SUBID
           THEN {[oid |-> Cut(oid), known |-> Len(Deepest(o, parts))]} ELSE {}
<1> DEFINE node == Deepest(o, parts)
           rest == Rest(o, parts)
<1>1. /\ node \in Reached(o, parts) /\ rest \in Seq(P)
      /\ Len(rest) = Len(o) + Len(parts) - Len(node)
      /\ \A i \in 1 .. Len(rest) : rest[i] = parts[Len(node) - Len(o) + i]
  BY RestIs
<1>2. Len(node) >= known
  BY LabelsReached
<1>3. Follow(o, parts) =
        IF rest = <<>> \/ (Len(node) < NMAX_SUBID /\ \A i \in 1 .. Len(rest) : IsNum(rest[i]))
        THEN {[oid |-> Cut(node \o Below(rest)), known |-> Len(node)]}
        ELSE {}
  BY DEF Follow, Rest
<1> HIDE DEF node, rest
<1>4. /\ node \in Seq(Nat) /\ Len(node) \in Nat /\ Len(o) <= Len(node)
      /\ Len(node) <= Len(oid) /\ \A i \in 1 .. Len(node) : node[i] = oid[i]
  BY <1>1, ReachedTypes, OneWay
<1>5. /\ Len(o) \in Nat /\ Len(oid) \in Nat /\ known \in Nat /\ Len(o) <= known
      /\ Len(parts) = Len(oid) - Len(o)
  BY StartTypes, OidTypes DEF Leads
<1>6. Len(rest) = Len(oid) - Len(node) /\ Len(rest) \in Nat
  BY <1>1, <1>4, <1>5
<1>7. ASSUME NEW i \in 1 .. Len(rest)
      PROVE  rest[i] = <<"num", oid[Len(node) + i]>> /\ oid[Len(node) + i] \in Nat
             /\ oid[Len(node) + i] <= IntMax
  <2>1. PICK k \in known + 1 .. Len(oid) : k = Len(node) + i
    BY <1>2, <1>4, <1>5, <1>6
  <2>2. rest[i] = parts[k - Len(o)]
    <3>1. Len(node) - Len(o) + i = k - Len(o)
      BY <1>4, <1>5, <2>1
    <3> QED BY <1>1, <3>1
  <2>3. parts[k - Len(o)] = <<"num", oid[k]>>
    BY DEF Leads
  <2>4. k \in 1 .. Len(oid)
    BY <1>5
  <2>5. oid[k] \in Nat /\ oid[k] <= IntMax
    BY <2>4, OidTypes
  <2> QED BY <2>1, <2>2, <2>3, <2>5
<1>8. \A i \in 1 .. Len(rest) : IsNum(rest[i]) /\ rest[i][2] = oid[Len(node) + i]
  BY <1>7 DEF IsNum
<1>9. /\ Below(rest) \in Seq(Nat) /\ Len(Below(rest)) = Len(rest)
      /\ \A i \in 1 .. Len(rest) : Below(rest)[i] = oid[Len(node) + i]
  <2>1. \A i \in 1 .. Len(rest) : rest[i][2] \in Nat
    BY <1>7, <1>8
  <2>2. \A i \in 1 .. Len(rest) : Signed(rest[i][2]) % Word = rest[i][2]
    BY <1>7, <1>8, SignedIs
  <2>3. \A i \in 1 .. Len(rest) : Below(rest)[i] = rest[i][2]
    BY <2>2 DEF Below
  <2> QED BY <1>1, <1>8, <2>1, <2>3, BelowTypes
<1> DEFINE b == Below(rest)
<1>10. b \in Seq(Nat) /\ Len(b) = Len(rest) /\ \A i \in 1 .. Len(rest) : b[i] = oid[Len(node) + i]
  BY <1>9
<1> HIDE DEF b
<1>11. node \o b = oid
  <2>1. /\ node \o b \in Seq(Nat) /\ Len(node \o b) = Len(node) + Len(b)
        /\ \A i \in 1 .. Len(node) + Len(b) :
             (node \o b)[i] = IF i <= Len(node) THEN node[i] ELSE b[i - Len(node)]
    <3>1. node \in Seq(Nat) /\ b \in Seq(Nat)
      BY <1>4, <1>10
    <3> QED BY <3>1, ConcatProperties
  <2> DEFINE s == node \o b
  <2>2. s \in Seq(Nat) /\ Len(s) = Len(oid)
    BY <1>4, <1>5, <1>6, <1>10, <2>1
  <2>3. ASSUME NEW i \in 1 .. Len(oid)
        PROVE  s[i] = oid[i]
    <3>1. i \in 1 .. Len(node) + Len(b)
      BY <1>4, <1>5, <1>6, <1>10
    <3>2. CASE i <= Len(node)
      <4>1. i \in 1 .. Len(node)
        BY <1>4, <3>2
      <4>2. s[i] = node[i]
        BY <2>1, <3>1, <3>2
      <4> QED BY <1>4, <4>1, <4>2
    <3>3. CASE ~(i <= Len(node))
      <4>1. PICK j \in 1 .. Len(rest) : j = i - Len(node) /\ i = Len(node) + j
        <5>1. i - Len(node) \in 1 .. Len(rest) /\ i = Len(node) + (i - Len(node))
          BY <1>4, <1>5, <1>6, <3>3
        <5> QED BY <5>1
      <4>2. s[i] = b[j]
        BY <2>1, <3>1, <3>3, <4>1
      <4> QED BY <1>10, <4>1, <4>2
    <3> QED BY <3>2, <3>3
  <2> HIDE DEF s
  <2>4. s = oid
    BY <2>2, <2>3, SeqEqual
  <2> QED BY <2>4 DEF s
<1>12. Cut(node \o Below(rest)) = Cut(oid)
  BY <1>11 DEF b
<1>13. rest = <<>> <=> Len(node) = Len(oid)
  <2>1. Len(rest) = 0 <=> rest = <<>>
    BY <1>1, EmptySeq
  <2> QED BY <1>4, <1>5, <1>6, <2>1
<1> QED BY <1>3, <1>8, <1>12, <1>13 DEF node

(* It ends at the OID.                                                     *)
LEMMA WayEnds ==
  ASSUME TreeOK, NEW o, Start(o), NEW P, NEW parts \in Seq(P), NEW oid \in Seq(Nat),
         NEW known, Leads(o, parts, oid, known), Fits(oid)
  PROVE  Follow(o, parts) = {[oid |-> oid, known |-> Len(Deepest(o, parts))]}
<1>1. /\ Len(Deepest(o, parts)) \in Nat /\ Len(Deepest(o, parts)) <= Len(oid)
      /\ Len(oid) \in Nat /\ NMAX_SUBID \in Nat /\ Len(oid) <= NMAX_SUBID
  BY RestIs, ReachedTypes, OneWay, OidTypes, MibAssumption DEF Fits
<1>2. Cut(oid) = oid
  BY CutIs DEF Fits
<1>3. \A i \in 1 .. Len(oid) : oid[i] <= IntMax
  BY DEF Fits
<1> QED BY <1>1, <1>2, <1>3, WayGoes

LEMMA NumbersDenote ==
  ASSUME TreeOK, NEW oid \in Seq(Nat) \ {<<>>}, Fits(oid), NEW text,
         text = NumText(Oid2Str(oid))
  PROVE  \/ {r.oid : r \in GetMibNode(text)} = {oid}
         \/ GetMibNode(text) = {} /\ text = NumText(oid)
<1> DEFINE parts == text.parts
<1>1. Len(oid) \in Nat /\ Len(oid) > 0 /\ Len(<<>>) = 0 /\ Start(<<>>)
  BY OidTypes, EmptySeq DEF Start
<1>2. parts \in Seq(Part) /\ Len(parts) = Len(oid)
  BY NumParts
<1>3. \A i \in 1 .. Len(oid) : Signed(oid[i]) = oid[i]
  BY SignedIs, OidTypes DEF Fits
<1>4. parts = [i \in 1 .. Len(oid) |-> <<"num", oid[i]>>]
  BY <1>3, NumTextIs
<1>5. text = NumText(oid)
  <2>1. DOMAIN oid = 1 .. Len(oid) /\ Oid2Str(oid) = [i \in 1 .. Len(oid) |-> Signed(oid[i])]
    BY OidTypes DEF Oid2Str
  <2>2. Oid2Str(oid) = oid
    <3>1. oid = [i \in 1 .. Len(oid) |-> oid[i]]
      BY LenProperties
    <3> QED BY <1>3, <2>1, <3>1
  <2> QED BY <2>2
<1>6. parts # <<>> /\ IsNum(Head(parts))
  <2>1. parts # <<>>
    BY <1>1, <1>2, EmptySeq
  <2>2. Head(parts) = parts[1]
    BY <1>2, <2>1
  <2>3. parts[1] = <<"num", oid[1]>> /\ oid[1] \in Nat
    BY <1>1, <1>4, OidTypes
  <2> QED BY <2>1, <2>2, <2>3 DEF IsNum
<1>7. Leads(<<>>, parts, oid, 0)
  <2>1. \A k \in 1 .. Len(oid) : parts[k] = <<"num", oid[k]>>
    BY <1>4
  <2> HIDE DEF parts
  <2>2. \A k \in 0 + 1 .. Len(oid) : parts[k - Len(<<>>)] = <<"num", oid[k]>>
    BY <1>1, <2>1
  <2> QED BY <1>1, <1>2, <2>2 DEF Leads
<1>8. Follow(<<>>, parts) = {[oid |-> oid, known |-> Len(Deepest(<<>>, parts))]}
  <2> HIDE DEF parts
  <2> QED BY <1>1, <1>2, <1>7, WayEnds
<1>9. GetMibNode(text) = {r \in Follow(<<>>, parts) : r.known > 0}
  BY <1>6, GetMibNodeIs
<1>10. GetMibNode(text) = {} \/ GetMibNode(text) = Follow(<<>>, parts)
  BY <1>8, <1>9
<1>11. {r.oid : r \in Follow(<<>>, parts)} = {oid}
  <2> DEFINE q == [oid |-> oid, known |-> Len(Deepest(<<>>, parts))]
  <2>1. q.oid = oid
    OBVIOUS
  <2> HIDE DEF q
  <2>2. {r.oid : r \in {q}} = {oid}
    BY <2>1
  <2> QED BY <1>8, <2>2 DEF q
<1> QED BY <1>5, <1>10, <1>11

LEMMA LabelsDenote ==
  ASSUME TreeOK, NEW oid \in Seq(Nat) \ {<<>>}, Fits(oid), NEW text,
         IsName(text, oid), Unambiguous(text)
  PROVE  {r.oid : r \in GetMibNode(text)} = {oid}
<1> DEFINE parts == text.parts
           name(k, known) == IF k <= known THEN <<"label", tree[SubSeq(oid, 1, k)].label>>
                             ELSE <<"num", oid[k] % Half>>
<1>1. PICK from \in 1 .. Len(oid) : \E known \in from .. Len(oid) :
       /\ \A k \in from .. known : SubSeq(oid, 1, k) \in DOMAIN tree
       /\ text.module \in {"", tree[SubSeq(oid, 1, from)].module}
       /\ parts = [i \in 1 .. Len(oid) - from + 1 |-> name(from + i - 1, known)]
  BY DEF IsName
<1>2. PICK known \in from .. Len(oid) :
       /\ \A k \in from .. known : SubSeq(oid, 1, k) \in DOMAIN tree
       /\ text.module \in {"", tree[SubSeq(oid, 1, from)].module}
       /\ parts = [i \in 1 .. Len(oid) - from + 1 |-> name(from + i - 1, known)]
  BY <1>1
<1>3. Len(oid) \in Nat /\ Len(oid) > 0 /\ from \in Nat /\ known \in Nat /\ from <= known
      /\ from \in 0 .. Len(oid)
  BY OidTypes, EmptySeq
<1>4. parts \in Seq(Part) /\ Len(parts) > 0
  BY NameParts
<1>5. \A k \in from .. Len(oid) : parts[k - from + 1] = name(k, known)
  <2> HIDE DEF name
  <2>1. \A k \in from .. Len(oid) :
          k - from + 1 \in 1 .. Len(oid) - from + 1 /\ from + (k - from + 1) - 1 = k
    BY <1>3
  <2> QED BY <1>2, <2>1
<1>6. Len(parts) = Len(oid) - from + 1
  <2> HIDE DEF name
  <2>1. DOMAIN parts = 1 .. Len(oid) - from + 1
    BY <1>2, Zenon
  <2> DEFINE n == Len(oid) - from + 1
  <2>2. n \in Nat /\ n > 0
    BY <1>3
  <2>3. DOMAIN parts = 1 .. Len(parts) /\ Len(parts) \in Nat
    BY <1>4, LenProperties
  <2>4. 1 .. n = 1 .. Len(parts)
    BY <2>1, <2>3
  <2> HIDE DEF n
  <2>5. n \in 1 .. Len(parts) /\ Len(parts) \in 1 .. n
    <3>1. n \in 1 .. n /\ Len(parts) \in 1 .. Len(parts)
      BY <1>4, <2>2, <2>3
    <3> QED BY <2>4, <3>1, Zenon
  <2>6. n = Len(parts)
    BY <2>2, <2>3, <2>5
  <2> QED BY <2>6 DEF n
<1> HIDE DEF parts
<1> DEFINE o == SubSeq(oid, 1, from)
           rest == Tail(parts)
<1>7. o \in DOMAIN tree /\ text.module \in {"", tree[o].module}
  <2>1. from \in from .. known
    BY <1>3
  <2> QED BY <1>2, <2>1, Zenon
<1>8. o \in Seq(Nat) /\ Len(o) = from /\ \A i \in 1 .. from : o[i] = oid[i]
  BY <1>3, Prefix
<1>9. rest \in Seq(Part) /\ Len(rest) = Len(oid) - from
      /\ \A i \in 1 .. Len(rest) : rest[i] = parts[i + 1]
  <2>1. parts # <<>>
    BY <1>4, EmptySeq
  <2> QED BY <1>3, <1>4, <1>6, <2>1, HeadTailProperties
<1>10. Head(parts) = <<"label", tree[o].label>>
  <2>1. Head(parts) = parts[1]
    BY <1>4, EmptySeq
  <2>2. parts[1] = name(from, known)
    <3>1. from \in from .. Len(oid) /\ from - from + 1 = 1
      BY <1>3
    <3> HIDE DEF name
    <3> QED BY <1>5, <3>1
  <2>3. name(from, known) = <<"label", tree[o].label>>
    BY <1>3
  <2> QED BY <2>1, <2>2, <2>3
<1>11. \A k \in from + 1 .. Len(oid) : rest[k - from] = name(k, known)
  <2> HIDE DEF name, rest
  <2>1. \A k \in from + 1 .. Len(oid) :
          k \in from .. Len(oid) /\ k - from \in 1 .. Len(oid) - from
    BY <1>3
  <2> QED BY <1>5, <1>9, <2>1
<1> HIDE DEF o, rest
<1>12. Leads(o, rest, oid, known)
  <2>1. Len(o) <= Len(oid) /\ \A i \in 1 .. Len(o) : o[i] = oid[i]
    BY <1>3, <1>8
  <2>2. Len(rest) = Len(oid) - Len(o) /\ known \in Len(o) .. Len(oid)
    BY <1>3, <1>8, <1>9
  <2>3. ASSUME NEW k \in Len(o) + 1 .. known
        PROVE  /\ SubSeq(oid, 1, k) \in DOMAIN tree
               /\ rest[k - Len(o)] = <<"label", tree[SubSeq(oid, 1, k)].label>>
    <3>1. k \in from .. known /\ k \in from + 1 .. Len(oid) /\ k <= known
      BY <1>3, <1>8
    <3>2. rest[k - Len(o)] = name(k, known)
      BY <1>8, <1>11, <3>1
    <3> QED BY <1>2, <3>1, <3>2
  <2>4. ASSUME NEW k \in known + 1 .. Len(oid)
        PROVE  rest[k - Len(o)] = <<"num", oid[k]>>
    <3>1. k \in from + 1 .. Len(oid) /\ ~(k <= known) /\ k \in 1 .. Len(oid)
      BY <1>3
    <3>2. rest[k - Len(o)] = name(k, known)
      BY <1>8, <1>11, <3>1
    <3>3. oid[k] \in Nat /\ oid[k] <= IntMax
      BY <3>1, OidTypes DEF Fits
    <3>4. oid[k] % Half = oid[k]
      BY <3>3, SignedIs
    <3> QED BY <3>1, <3>2, <3>4
  <2> HIDE DEF name
  <2> QED BY <2>1, <2>2, <2>3, <2>4 DEF Leads
<1>13. Start(o)
  BY <1>7 DEF Start
<1> DEFINE q == [oid |-> oid, known |-> Len(Deepest(o, rest))]
<1>14. Follow(o, rest) = {q}
  BY <1>9, <1>12, <1>13, WayEnds
<1>15. q.oid = oid /\ q.known > 0
  <2>1. Len(Deepest(o, rest)) >= known
    BY <1>9, <1>12, <1>13, LabelsReached
  <2>2. Len(Deepest(o, rest)) \in Nat
    BY <1>9, <1>13, DeepestIs, ReachedTypes
  <2> QED BY <1>3, <2>1, <2>2
<1> HIDE DEF q
<1>16. FindNode(Head(parts), text.module) = {o}
  <2>1. o \in FindNode(Head(parts), text.module)
    BY <1>7, <1>10 DEF FindNode, Labelled
  <2>2. ~IsNum(Head(parts))
    BY <1>10 DEF IsNum
  <2> QED BY <2>1, <2>2 DEF Unambiguous, parts
<1>17. GetMibNode(text)
         = {r \in UNION {Follow(n, rest) : n \in {o}} : r.known > 0}
  <2>1. parts # <<>> /\ ~IsNum(Head(parts))
    BY <1>4, <1>10, EmptySeq DEF IsNum
  <2>2. GetMibNode(text)
          = {r \in UNION {Follow(n, Tail(parts)) :
                            n \in FindNode(Head(parts), text.module)} : r.known > 0}
    BY <2>1, GetMibNodeIs DEF parts
  <2> QED BY <1>16, <2>2 DEF rest
<1>18. GetMibNode(text) = {q}
  <2>1. UNION {Follow(n, rest) : n \in {o}} = {q}
    BY <1>14
  <2> QED BY <1>15, <1>17, <2>1
<1> QED BY <1>15, <1>18

(* A name that has one meaning means what it was given for.                *)
LEMMA InvDenotes ==
  ASSUME MibInv
  PROVE  NamesDenote
<1> SUFFICES ASSUME at # None, Unambiguous(at.text), Fits(at.means)
             PROVE  \/ {r.oid : r \in GetMibNode(at.text)} = {at.means}
                    \/ GetMibNode(at.text) = {} /\ at.text = NumText(at.means)
  BY DEF NamesDenote
<1>1. at.means \in Seq(Nat) \ {<<>>}
  BY DEF MibInv, HeldOK
<1>2. CASE at.text = NumText(Oid2Str(at.means))
  BY <1>1, <1>2, NumbersDenote DEF MibInv
<1>3. CASE IsName(at.text, at.means)
  BY <1>1, <1>3, LabelsDenote DEF MibInv
<1> QED BY <1>2, <1>3 DEF MibInv, HeldOK
-----------------------------------------------------------------------------
(* The steps.                                                              *)

LEMMA BrowseInv ==
  ASSUME MibInv, Browse
  PROVE  MibInv'
<1> USE DEF MibInv
<1>1. ASSUME at # None, NEW r \in GetMibNode(at.text)
      PROVE  /\ r.oid \in Seq(Nat) \ {<<>>} /\ Len(r.oid) <= NMAX_SUBID
             /\ r.known \in 1 .. Len(r.oid) /\ Len(r.oid) \in Nat
             /\ \A k \in 1 .. KnownLen(r.oid) : SubSeq(r.oid, 1, k) \in DOMAIN tree
             /\ KnownLen(r.oid) = r.known
  BY <1>1, ResultTypes, OidTypes, EmptySeq
<1>2. ASSUME NEW oid \in Oids, Begin(oid)
      PROVE  MibInv'
  <2>1. oid \in Seq(Nat) \ {<<>>}
    BY MibAssumption
  <2> QED BY <1>2, <2>1, HoldInv DEF Begin
<1>3. ASSUME NEW full \in BOOLEAN, Name(full)
      PROVE  MibInv'
  <2>1. PICK r \in GetMibNode(at.text) : at # None /\ Hold(GetName(r.oid, full), r.oid)
    BY <1>3 DEF Name
  <2>2. GetName(r.oid, full).module = ""
    BY DEF GetName
  <2>3. IsName(GetName(r.oid, full), r.oid)
    BY <1>1, <2>1, <2>2, GetNameIs
  <2> QED BY <1>1, <2>1, <2>3, HoldInv
<1>4. CASE QualifiedName
  <2>1. PICK r \in GetMibNode(at.text) :
          /\ at # None
          /\ Hold([GetName(r.oid, FALSE)
                     EXCEPT !.module = tree[SubSeq(r.oid, 1, r.known)].module], r.oid)
    BY <1>4 DEF QualifiedName
  <2> DEFINE text == [GetName(r.oid, FALSE)
                        EXCEPT !.module = tree[SubSeq(r.oid, 1, r.known)].module]
  <2>2. /\ text.parts = GetName(r.oid, FALSE).parts
        /\ text.module = tree[SubSeq(r.oid, 1, r.known)].module
    BY DEF GetName
  <2> HIDE DEF text
  <2>3. IsName(text, r.oid)
    BY <1>1, <2>1, <2>2, GetNameIs
  <2>4. Hold(text, r.oid)
    BY <2>1 DEF text
  <2> QED BY <1>1, <2>1, <2>3, <2>4, HoldInv
<1>5. CASE OidOf
  <2>1. PICK r \in GetMibNode(at.text) : at # None /\ Hold(NumText(Oid2Str(r.oid)), r.oid)
    BY <1>5 DEF OidOf
  <2> QED BY <1>1, <2>1, HoldInv
<1>6. CASE Parent
  <2>1. PICK r \in GetMibNode(at.text) :
          at # None /\ LET parent == SubSeq(r.oid, 1, r.known - 1)
                       IN parent # <<>> /\ Hold(NumText(Oid2Str(parent)), parent)
    BY <1>6 DEF Parent
  <2>2. SubSeq(r.oid, 1, r.known - 1) \in Seq(Nat)
    <3>1. r.oid \in Seq(Nat) /\ r.known - 1 \in 0 .. Len(r.oid)
      BY <1>1, <2>1
    <3> QED BY <3>1, Prefix
  <2> QED BY <2>1, <2>2, HoldInv
<1>7. CASE Successor
  <2>1. PICK r \in GetMibNode(at.text) : \E o \in Children(SubSeq(r.oid, 1, r.known)) :
          Hold(NumText(Oid2Str(o)), o)
    BY <1>7 DEF Successor
  <2>2. PICK o \in Children(SubSeq(r.oid, 1, r.known)) : Hold(NumText(Oid2Str(o)), o)
    BY <2>1
  <2>3. o \in DOMAIN tree
    BY DEF Children
  <2>4. o \in Seq(Nat) \ {<<>>}
    BY <2>3, NodeTypes, EmptySeq
  <2> QED BY <2>2, <2>4, HoldInv
<1>8. ASSUME NEW f \in DOMAIN MibFile, Load(f)
      PROVE  MibInv'
  BY <1>8, LoadInv
<1> QED BY <1>2, <1>3, <1>4, <1>5, <1>6, <1>7, <1>8 DEF Browse

LEMMA MibStep ==
  ASSUME MibInv, [Next]_vars
  PROVE  MibInv'
<1>1. CASE Browse
  BY <1>1, BrowseInv
<1>2. CASE UNCHANGED mibVars
  <2>1. tree' = tree /\ at' = at
    BY <1>2 DEF mibVars
  <2>2. TreeOK'
    BY <2>1 DEF MibInv, TreeOK
  <2>3. HeldOK'
    BY <2>1, NamesStay DEF MibInv, HeldOK
  <2> QED BY <2>2, <2>3 DEF MibInv
<1> QED BY <1>1, <1>2 DEF Next, vars

(* The tree holds nodes of the files with all that leads to them, and what *)
(* the program holds is an OID or a name of the OID it was given for.      *)
THEOREM MibInductive == Spec => []MibInv
<1>1. Init => MibInv
  BY MibInitInv DEF Init
<1>2. MibInv /\ [Next]_vars => MibInv'
  BY MibStep
<1> QED BY <1>1, <1>2, PTL DEF Spec

(* The text a program was given for an OID leads back to it, whatever      *)
(* files it has loaded since: with nm_mib_getname's names, with those      *)
(* mib.module completes and with the numbers f_oid2str prints.             *)
THEOREM NamesAlwaysDenote == Spec => []NamesDenote
<1>1. MibInv => NamesDenote
  BY InvDenotes
<1> QED BY <1>1, MibInductive, PTL
=============================================================================
