------------------------------- MODULE MCVacm -------------------------------
(***************************************************************************)
(* A tree with two files to load, one of which repeats a label, and one    *)
(* call of each kind that fits, one OID's length of it at the limit, with  *)
(* others that do not: an unknown model, an unknown flag, an OID one       *)
(* subidentifier too long.  OIDs are shortened, and the limit with them.   *)
(***************************************************************************)
EXTENDS Vacm

Node(oid, label, type) == [oid |-> oid, label |-> label, type |-> type]

Columns3 ==
  [sec2GroupStatus |-> <<1, 3, 1>>, groupName |-> <<1, 3, 2>>,
   viewTreeFamilyStatus |-> <<1, 3, 3>>, viewTreeFamilyMask |-> <<1, 3, 4>>,
   viewTreeFamilyType |-> <<1, 3, 5>>, accessStatus |-> <<1, 3, 6>>,
   accessContextMatch |-> <<1, 3, 7>>, accessReadViewName |-> <<1, 3, 8>>,
   accessWriteViewName |-> <<1, 3, 9>>, accessNotifyViewName |-> <<1, 3, 10>>]

Files ==
  [SMI |-> {Node(<<1>>, "iso", "OTHER"), Node(<<1, 2>>, "system", "OTHER"),
            Node(<<1, 2, 1>>, "descr", "DISPLAY")},
   VACM |-> {Node(<<1, 3>>, "vacm", "OTHER")} \cup
            {Node(Columns3[c], c, IF c \in Integer THEN "INTEGER" ELSE "OCTETSTR") :
               c \in DOMAIN Columns3},
   PRIV |-> {Node(<<1, 4>>, "private", "OTHER"), Node(<<1, 4, 1>>, "descr", "OCTETSTR")}]

Begins == {<<1, 2, 1, 0>>, <<1, 2, 9, 2>>, <<1, 2, 1, 300>>, <<5, 0>>, <<1, 4, 1, 1>>,
           <<1, 2, 1, 1, 1, 1, 1, 1, 1, 1, 1, 1>>}

abc == <<97, 98, 99>>
g1 == <<103, 49>>
v == <<118>>

Mapping(model, user) == [secmodel |-> model, secname |-> user, groupname |-> abc]
View(subtree, mask, flag) ==
  [viewname |-> v, subtree |-> subtree, mask |-> mask, flag |-> flag]
Access(model, match, read) ==
  [group |-> abc, secmodel |-> model, seclevel |-> "AUTHNOPRIV", match |-> match,
   readview |-> read, writeview |-> v, notifyview |-> << >>, context |-> << >>]

SomeMappings == {Mapping("USM", g1), Mapping("SNMPv1", v)}
SomeViews ==
  {View(<<1, 2>>, << <<8, 0>>, <<4>> >>, "include"), View(<<1, 2>>, << >>, "exclude"),
   View(<<1, 2, 1, 1, 1, 1, 1>>, << >>, "include"), View(<<1, 3>>, << >>, "some")}
SomeAccesses == {Access("USM", "exact", v), Access("USM", "near", g1)}

(* Browsing and administering need not be mixed, and no file is loaded any *)
(* more once there is something under way to the agent.                    *)
OneAfterTheOther ==
  /\ at # None => table = << >> /\ call = None /\ late = {} /\ result = None
  /\ "PRIV" \in {tree[o].module : o \in DOMAIN tree} =>
       table = << >> /\ call = None /\ late = {} /\ result = None
=============================================================================
