-------------------------------- MODULE Mib ---------------------------------
(***************************************************************************)
(* The MIB tree and the names of its objects: src/src/nm_mib.c, the        *)
(* resolution of names in src/src/nm_util.c and mib.load of luasnmp.lua.   *)
(*                                                                         *)
(* A text that names an object is [module, parts]: the module before "::", *)
(* or "", and the parts between dots, <<"label", l>> or <<"num", n>>.  A   *)
(* part "-1" does not begin with a digit: it is taken for a label, one     *)
(* that no object has.  A label stands for all its spellings: case is not  *)
(* looked at below the first one (mib_label_cmp).                          *)
(*                                                                         *)
(* A program browses: it takes an OID from an answer, asks for names,      *)
(* OIDs, parents and successors, keeps what it is given, and loads MIB     *)
(* files meanwhile.  The accessors that only read one more field of the    *)
(* node (access, enums, units, ...) are left out.                          *)
(***************************************************************************)
EXTENDS Values, SequencesExt

CONSTANTS
  MibFile,     \* the MIB files: a set of [oid, label, type] for each module
  Initial,     \* the modules mib.init loads
  Oids,        \* the OIDs a program may begin with
  NMAX_SUBID,  \* the subidentifiers an OID of nm_util.h may have
  None

(* An OID has one node, siblings have different labels, and what mib.init  *)
(* loads hangs together: the library links a node to its parent.           *)
ASSUME MibAssumption ==
  /\ Initial \subseteq DOMAIN MibFile
  /\ NMAX_SUBID \in Nat \ {0}
  /\ Oids \subseteq Seq(Nat) \ {<<>>}
  /\ \A f, g \in DOMAIN MibFile : \A n \in MibFile[f], m \in MibFile[g] :
       /\ n.oid = m.oid => f = g /\ n = m
       /\ n.label = m.label /\ Front(n.oid) = Front(m.oid) => n = m
       /\ n.oid \in Seq(Nat)
       /\ Len(n.oid) \in 1 .. NMAX_SUBID
  /\ \A f \in Initial : \A n \in MibFile[f] :
       Len(n.oid) = 1 \/ \E g \in Initial : \E m \in MibFile[g] : m.oid = Front(n.oid)

VARIABLES
  tree,  \* the global tree: the nodes known so far, by their OIDs
  at     \* the text the program holds and the OID it was given for, or None

mibVars == <<tree, at>>
-----------------------------------------------------------------------------
(* The tree.                                                               *)

NodesOf(f) ==
  [o \in {n.oid : n \in MibFile[f]} |->
     LET n == CHOOSE n \in MibFile[f] : n.oid = o
     IN [label |-> n.label, type |-> n.type, module |-> f]]

IsChild(o, parent) == Len(o) = Len(parent) + 1 /\ IsPrefix(parent, o)
Children(parent) == {o \in DOMAIN tree : IsChild(o, parent)}

Labelled(o, part) == part = <<"label", tree[o].label>>

(* find_node, and find_node2 with a module.  Which of several nodes of     *)
(* that label they find is the library's choice.                           *)
FindNode(part, module) ==
  {o \in DOMAIN tree : Labelled(o, part) /\ module \in {"", tree[o].module}}
-----------------------------------------------------------------------------
(* Resolution.                                                             *)

IsNum(part) == part[1] = "num" /\ part[2] >= 0
NumText(oid) == [module |-> "", parts |-> [i \in DOMAIN oid |-> <<"num", oid[i]>>]]
IsOidText(text) == text.module = "" /\ \A i \in DOMAIN text.parts : IsNum(text.parts[i])

Matches(o, part) ==
  IF IsNum(part) THEN Last(o) = part[2] ELSE Labelled(o, part)

(* The nodes the parts of a name lead to below a node, or from the root    *)
(* <<>>.                                                                   *)
Reached(o, parts) ==
  {n \in DOMAIN tree \cup {o} :
     /\ IsPrefix(o, n)
     /\ Len(n) <= Len(o) + Len(parts)
     /\ \A i \in Len(o) + 1 .. Len(n) :
          /\ SubSeq(n, 1, i) \in DOMAIN tree
          /\ Matches(SubSeq(n, 1, i), parts[i - Len(o)])}

(* An OID has no room for more.                                            *)
Cut(oid) == SubSeq(oid, 1, IF Len(oid) < NMAX_SUBID THEN Len(oid) ELSE NMAX_SUBID)

(* The way goes from node to node as far as there are any.                 *)
Deepest(o, parts) ==
  LET reached == Reached(o, parts)
  IN CHOOSE n \in reached : \A m \in reached : Len(m) <= Len(n)

(* What is left are numbers, the first as it stands, the others through    *)
(* atoi.                                                                   *)
Below(rest) ==
  [i \in 1 .. Len(rest) |-> IF i = 1 THEN rest[i][2] ELSE Signed(rest[i][2]) % Word]

(* The OID the parts mean, and how much of it is in the tree.              *)
Follow(o, parts) ==
  LET node == Deepest(o, parts)
      rest == SubSeq(parts, Len(node) - Len(o) + 1, Len(parts))
  IN IF rest = <<>> \/ (Len(node) < NMAX_SUBID /\ \A i \in 1 .. Len(rest) : IsNum(rest[i]))
     THEN {[oid |-> Cut(node \o Below(rest)), known |-> Len(node)]}
     ELSE {}

(* f_getmibnode: an OID, or all a label can mean.                          *)
GetMibNode(text) ==
  LET byNumber == text.parts # <<>> /\ IsNum(Head(text.parts))
      starts == IF byNumber THEN {<<>>}
                ELSE IF text.parts = <<>> THEN {}
                ELSE FindNode(Head(text.parts), text.module)
      rest == IF byNumber THEN text.parts ELSE Tail(text.parts)
  IN {r \in UNION {Follow(o, rest) : o \in starts} : r.known > 0}

(* The length of an OID's part in the tree (the loop of nm_mib_getname).   *)
KnownLen(oid) ==
  LET known == {n \in 0 .. Len(oid) : \A k \in 1 .. n : SubSeq(oid, 1, k) \in DOMAIN tree}
  IN CHOOSE n \in known : \A k \in known : k <= n

(* Mutant: the name of the node alone, without the instance.               *)
GetNameWithoutInstance(oid, full) ==
  LET known == KnownLen(oid)
      from == IF full THEN 1 ELSE known
  IN [module |-> "",
      parts |-> [i \in 1 .. known - from + 1 |->
                   <<"label", tree[SubSeq(oid, 1, from + i - 1)].label>>]]

(* nm_mib_getname: labels as far as there are nodes, then numbers.         *)
GetName(oid, full) ==
  LET known == KnownLen(oid)
      from == IF full THEN 1 ELSE known
  IN [module |-> "",
      parts |-> [i \in 1 .. Len(oid) - from + 1 |->
                   LET k == from + i - 1
                   IN IF k <= known THEN <<"label", tree[SubSeq(oid, 1, k)].label>>
                      ELSE <<"num", oid[k] % Half>>]]

(* mib.type: the type of the node, none if there is none.                  *)
MibType(text) == {tree[SubSeq(r.oid, 1, r.known)].type : r \in GetMibNode(text)}
-----------------------------------------------------------------------------
(* Browsing.                                                               *)

MibInit ==
  /\ tree = [o \in UNION {DOMAIN NodesOf(f) : f \in Initial} |->
               NodesOf(CHOOSE f \in Initial : o \in DOMAIN NodesOf(f))[o]]
  /\ at = None

Hold(text, oid) ==
  /\ at' = [text |-> text, means |-> oid]
  /\ UNCHANGED tree

(* The program takes an OID it was given.                                  *)
Begin(oid) ==
  /\ at = None
  /\ Hold(NumText(Oid2Str(oid)), oid)

(* mib.name, mib.fullname.                                                 *)
Name(full) ==
  /\ at # None
  /\ \E r \in GetMibNode(at.text) : Hold(GetName(r.oid, full), r.oid)

(* mib.module with mib.name: a name that stays right whatever is loaded.   *)
QualifiedName ==
  /\ at # None
  /\ \E r \in GetMibNode(at.text) :
       Hold([GetName(r.oid, FALSE) EXCEPT !.module = tree[SubSeq(r.oid, 1, r.known)].module],
            r.oid)

(* mib.oid; an OID is handed back as it is.                                *)
OidOf ==
  /\ at # None
  /\ ~IsOidText(at.text)
  /\ \E r \in GetMibNode(at.text) : Hold(NumText(Oid2Str(r.oid)), r.oid)

(* mib.parent: of the node, whatever instance the text names.              *)
Parent ==
  /\ at # None
  /\ \E r \in GetMibNode(at.text) :
       LET parent == SubSeq(r.oid, 1, r.known - 1)
       IN parent # <<>> /\ Hold(NumText(Oid2Str(parent)), parent)

(* mib.successor, and the program takes one of the list.                   *)
Successor ==
  /\ at # None
  /\ \E r \in GetMibNode(at.text) :
       \E o \in Children(SubSeq(r.oid, 1, r.known)) : Hold(NumText(Oid2Str(o)), o)

(* mib.load.  A node is linked below its parent, which a file the library  *)
(* has read before brings.                                                 *)
Load(f) ==
  LET new == NodesOf(f)
      HasParent(o) == Len(o) = 1 \/ Front(o) \in DOMAIN tree \cup DOMAIN new
  IN /\ \A o \in DOMAIN new : HasParent(o)
     /\ tree' = [o \in DOMAIN tree \cup DOMAIN new |->
                  IF o \in DOMAIN tree THEN tree[o] ELSE new[o]]
     /\ UNCHANGED at

Browse ==
  \/ \E oid \in Oids : Begin(oid)
  \/ \E full \in BOOLEAN : Name(full)
  \/ QualifiedName
  \/ OidOf
  \/ Parent
  \/ Successor
  \/ \E f \in DOMAIN MibFile : Load(f)
-----------------------------------------------------------------------------
(* A text has one meaning as long as no other node has its first label,    *)
(* in its module if it names one.                                          *)
Unambiguous(text) ==
  \/ IsNum(Head(text.parts))
  \/ \A o, p \in FindNode(Head(text.parts), text.module) : o = p

(* An OID of nm_util.h, and each subidentifier an int.                     *)
Fits(oid) == Len(oid) <= NMAX_SUBID /\ \A i \in 1 .. Len(oid) : oid[i] <= IntMax

(* Whatever names an object was given and whatever was loaded since, the   *)
(* text the program holds leads back to the OID it was given for           *)
(* (nm_mib_getname and f_oid2str against f_getmibnode).                    *)
NamesDenote ==
  at # None /\ Unambiguous(at.text) /\ Fits(at.means)
    => \/ {r.oid : r \in GetMibNode(at.text)} = {at.means}
       \/ GetMibNode(at.text) = {} /\ at.text = NumText(at.means)
-----------------------------------------------------------------------------
(* Why it holds.                                                           *)

(* The tree holds nodes of the files, and each node's parent.              *)
TreeOK ==
  /\ \A o \in DOMAIN tree : \E f \in DOMAIN MibFile : \E n \in MibFile[f] :
       n.oid = o /\ tree[o] = [label |-> n.label, type |-> n.type, module |-> f]
  /\ \A o \in DOMAIN tree : Len(o) = 1 \/ Front(o) \in DOMAIN tree

(* A name of an OID: labels of nodes from one on its way to another, and   *)
(* numbers behind these.  The tree may go on there by now.                 *)
IsName(text, oid) ==
  /\ Len(oid) <= NMAX_SUBID
  /\ \E from \in 1 .. Len(oid) : \E known \in from .. Len(oid) :
       /\ \A k \in from .. known : SubSeq(oid, 1, k) \in DOMAIN tree
       /\ text.module \in {"", tree[SubSeq(oid, 1, from)].module}
       /\ text.parts =
            [i \in 1 .. Len(oid) - from + 1 |->
               LET k == from + i - 1
               IN IF k <= known THEN <<"label", tree[SubSeq(oid, 1, k)].label>>
                  ELSE <<"num", oid[k] % Half>>]

HeldOK ==
  at # None =>
    /\ at.means \in Seq(Nat) \ {<<>>}
    /\ at.text = NumText(Oid2Str(at.means)) \/ IsName(at.text, at.means)

MibInv == TreeOK /\ HeldOK
=============================================================================
