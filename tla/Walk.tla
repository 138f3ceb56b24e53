-------------------------------- MODULE Walk --------------------------------
(***************************************************************************)
(* walk of luasnmp.lua on a session that was opened: GETNEXT after GETNEXT *)
(* from a root until an object outside its subtree is returned, against an *)
(* agent whose tree changes meanwhile, whose answers can get lost and      *)
(* which may not even return objects in order.  Its version and whether    *)
(* the root is included come from the session.                             *)
(*                                                                         *)
(* An OID is the sequence of its subidentifiers.  Whether it lies in the   *)
(* subtree is decided on its text with string.find, where the root is a    *)
(* Lua pattern; the text is modelled for that.                             *)
(***************************************************************************)
EXTENDS SessionOpen, Integers, FiniteSets

CONSTANTS
  Oid,        \* objects the agent may have
  Root,       \* roots of walks
  MaxChanges, \* bound: changes of the agent's tree during a walk
  Walked      \* bound: configurations and tables, unedited, whose sessions walk

ASSUME WalkAssumption ==
  /\ IsFiniteSet(Oid)
  /\ Oid \cup Root \subseteq Seq(0 .. 99) \ {<<>>}
  /\ MaxChanges \in Nat
  /\ Walked \subseteq Config \X Filled

VARIABLES
  tree,    \* the objects the agent has
  walk,    \* the walk: what it does next (pc), its root, the last OID, the
           \* list t of what it has got, and its error
  changes, \* changes of the tree since the walk began
  always,  \* history: objects the agent has had all through the walk
  ever,    \* history: objects it has had at some time of the walk
  sane     \* history: the agent has answered with the next object so far

vars == <<openVars, tree, walk, changes, always, ever, sane>>

-----------------------------------------------------------------------------
(* OIDs.                                                                   *)

(* Mutant: of two OIDs one of which begins the other, none is less.        *)
OidCompareCommon(a, b) ==
  LET n == IF Len(a) < Len(b) THEN Len(a) ELSE Len(b)
      differ == {i \in 1 .. n : a[i] # b[i]}
      i == CHOOSE i \in differ : \A j \in differ : i <= j
  IN IF differ = {} THEN 0 ELSE IF a[i] > b[i] THEN 1 ELSE -1

OidCompare(a, b) ==
  LET n == IF Len(a) < Len(b) THEN Len(a) ELSE Len(b)
      differ == {i \in 1 .. n : a[i] # b[i]}
      i == CHOOSE i \in differ : \A j \in differ : i <= j
  IN CASE differ # {} /\ a[i] > b[i] -> 1
       [] differ # {} /\ a[i] < b[i] -> -1
       [] differ = {} -> IF Len(a) < Len(b) THEN -1
                         ELSE IF Len(b) < Len(a) THEN 1 ELSE 0

Dot == 10

Digits(n) == IF n < 10 THEN <<n>> ELSE <<n \div 10, n % 10>>

(* The characters of an OID: digits and dots.                              *)
Text(oid) ==
  LET text[i \in 1 .. Len(oid)] ==
        IF i = 1 THEN Digits(oid[1]) ELSE text[i - 1] \o <<Dot>> \o Digits(oid[i])
  IN text[Len(oid)]

(* string.find(text, pattern): somewhere in the text, and a dot in the     *)
(* pattern stands for any character.                                       *)
Found(text, pattern) ==
  \E at \in 0 .. Len(text) - Len(pattern) :
    \A j \in 1 .. Len(pattern) : pattern[j] \in {Dot, text[at + j]}

(* Mutant: the text is not looked at.                                      *)
OutsideByLength(oid, root) == Len(oid) < Len(root)

(* Mutant: the arguments of string.find are swapped.                       *)
OutsideSwapped(oid, root) ==
  Len(oid) < Len(root) \/ ~Found(Text(root), Text(oid))

Outside(oid, root) == Len(oid) < Len(root) \/ ~Found(Text(oid), Text(root))
-----------------------------------------------------------------------------
(* The agent.                                                              *)

Below(oid, root) == Len(oid) > Len(root) /\ SubSeq(oid, 1, Len(root)) = root

(* The order of the management tree.                                       *)
Precedes(a, b) ==
  \/ Below(b, a)
  \/ \E i \in DOMAIN a \cap DOMAIN b :
       SubSeq(a, 1, i - 1) = SubSeq(b, 1, i - 1) /\ a[i] < b[i]

After(oid) == {o \in tree : Precedes(oid, o)}

IsNext(o, oid) == o \in After(oid) /\ \A x \in After(oid) : ~Precedes(x, o)

Running == walk.pc \notin {"idle", "done"}

TreeChanges(o) ==
  /\ Running
  /\ changes < MaxChanges
  /\ changes' = changes + 1
  /\ tree' = IF o \in tree THEN tree \ {o} ELSE tree \cup {o}
  /\ always' = always \cap tree'
  /\ ever' = ever \cup tree'
  /\ UNCHANGED <<openVars, walk, sane>>
-----------------------------------------------------------------------------
(* The walk.                                                               *)

Idle == [pc |-> "idle", root |-> <<>>, last |-> <<>>, t |-> <<>>, err |-> "none"]

(* There is no tree before a walk starts.                                  *)
Init ==
  /\ OpenInit
  /\ walk = Idle
  /\ tree = {}
  /\ changes = 0
  /\ always = {}
  /\ ever = {}
  /\ sane = TRUE

(* Opening and closing, outside walks.                                     *)
Sessions ==
  /\ ~Running
  /\ OpenNext
  /\ walk' = Idle
  /\ tree' = {}
  /\ changes' = 0
  /\ always' = {}
  /\ ever' = {}
  /\ sane' = TRUE

Start(root) ==
  /\ session # None
  /\ edits = 0 /\ <<config, given>> \in Walked
  /\ ~Running
  /\ tree' \in SUBSET Oid
  /\ walk' = [Idle EXCEPT !.pc = IF session.includeroot THEN "root" ELSE "next",
                          !.root = root, !.last = root]
  /\ changes' = 0
  /\ always' = tree'
  /\ ever' = tree'
  /\ sane' = TRUE
  /\ UNCHANGED openVars

Agent == <<openVars, tree, changes, always, ever>>

Goto(pc, t, err) == walk' = [walk EXCEPT !.pc = pc, !.t = t, !.err = err]

Return(t, err) == Goto("done", t, err)

RootBinding == [oid |-> walk.root, found |-> walk.root \in tree]

GetRoot ==
  /\ walk.pc = "root"
  /\ Goto("next", <<RootBinding>>, "none")
  /\ UNCHANGED <<Agent, sane>>

(* Mutant: a list with the root in it counts as empty.                     *)
LeaveLoopLate ==
  IF Len(walk.t) <= 1 THEN Goto("single", walk.t, "none") ELSE Return(walk.t, "none")

(* With nothing found the root itself is asked for.                        *)
LeaveLoop ==
  IF walk.t = <<>> THEN Goto("single", walk.t, "none") ELSE Return(walk.t, "none")

(* GETNEXT finds nothing more: noSuchName or endOfMibView.                 *)
NextEnds ==
  /\ walk.pc = "next"
  /\ sane' = (sane /\ After(walk.last) = {})
  /\ IF session.version = "SNMPv1" THEN Return(walk.t, "none") ELSE LeaveLoop
  /\ UNCHANGED Agent

(* Mutant: the walk relies on the agent's order.                           *)
AcceptsAny(o) == TRUE

Accepts(o) == OidCompare(walk.last, o) < 0

NextReturns(o) ==
  /\ walk.pc = "next"
  /\ sane' = (sane /\ IsNext(o, walk.last))
  /\ CASE Outside(o, walk.root) -> LeaveLoop
       [] ~Outside(o, walk.root) /\ Accepts(o) ->
            walk' = [walk EXCEPT !.last = o,
                                 !.t = Append(@, [oid |-> o, found |-> TRUE])]
       [] OTHER -> Return(<<>>, "BADOID")
  /\ UNCHANGED Agent

(* Mutant: a root that is not there sends the walk back into its loop.     *)
GetSingleAgain ==
  /\ walk.pc = "single"
  /\ IF walk.root \in tree THEN Return(Append(walk.t, RootBinding), "none")
     ELSE Goto("next", <<>>, "none")
  /\ UNCHANGED <<Agent, sane>>

GetSingle ==
  /\ walk.pc = "single"
  /\ IF session.version = "SNMPv1" /\ walk.root \notin tree
     THEN Return(<<>>, "noSuchName")
     ELSE Return(Append(walk.t, RootBinding), "none")
  /\ UNCHANGED <<Agent, sane>>

(* The request times out, or the agent reports another error and what has  *)
(* been found is returned with it.                                         *)
RequestFails ==
  /\ Running
  /\ \E t \in {<<>>, walk.t} : Return(t, "failed")
  /\ UNCHANGED <<Agent, sane>>

Walking ==
  \/ GetRoot
  \/ NextEnds
  \/ \E o \in Oid : NextReturns(o)
  \/ GetSingle
  \/ RequestFails

Next ==
  \/ Sessions
  \/ \E root \in Root : Start(root)
  \/ Walking
  \/ \E o \in Oid : TreeChanges(o)

Spec == Init /\ [][Next]_vars

(* Every request is answered or times out, and the walk goes on.           *)
FairSpec == Spec /\ WF_vars(Walking)
-----------------------------------------------------------------------------
Listed == {walk.t[i].oid : i \in DOMAIN walk.t}

Succeeded == walk.pc = "done" /\ walk.err = "none" /\ sane

(* The list is in the order of the tree without repetitions, whatever the  *)
(* agent answers (the oidcompare check in walk).                           *)
ListSorted ==
  \A i, j \in DOMAIN walk.t : i < j => Precedes(walk.t[i].oid, walk.t[j].oid)

(* snmp.html on walk: the list has objects of the subtree rooted at the    *)
(* OID given, and no others, when the agent returns what comes next.       *)
InSubtree == sane => \A o \in Listed : o = walk.root \/ Below(o, walk.root)

(* What the agent had below the root all through a walk that succeeded is  *)
(* listed, and what is listed it had at some time.                         *)
ListComplete ==
  Succeeded =>
    /\ {o \in always : Below(o, walk.root)} \subseteq Listed
    /\ \A i \in DOMAIN walk.t : walk.t[i].found => walk.t[i].oid \in ever

(* The walk of a single object lists that object, once (the get after the  *)
(* loop), except with SNMPv1 at the end of the tree, where walk returns    *)
(* from inside the loop.                                                   *)
SingleListed ==
  Succeeded /\ session.version # "SNMPv1"
    /\ walk.root \in always /\ (\A o \in ever : ~Below(o, walk.root)) =>
      walk.t = <<[oid |-> walk.root, found |-> TRUE]>>

(* An agent that returns objects in order is not accused of the contrary.  *)
BadOidJustified == walk.err = "BADOID" => ~sane

(* However the agent answers and changes, the walk ends.                   *)
WalkEnds == Running ~> ~Running
-----------------------------------------------------------------------------
(* Why these hold.                                                         *)

Oids == Seq(0 .. 99)
Binding == [oid : Oids, found : BOOLEAN]
Walks == [pc : {"idle", "root", "next", "single", "done"}, root : Oids, last : Oids,
          t : Seq(Binding), err : {"none", "failed", "noSuchName", "BADOID"}]

(* The variables of the walk and of the agent have their types.            *)
WalkTypeOK ==
  /\ tree \subseteq Oid /\ always \subseteq tree /\ tree \subseteq ever
  /\ walk \in Walks
  /\ Running => walk.root \in Root /\ walk.err = "none"
  /\ changes \in Nat
  /\ sane \in BOOLEAN

AtOrAfter(a, b) == a = b \/ Precedes(b, a)

(* The last OID a walk has got is its largest, and the list is empty       *)
(* before the first request and before the last one.                       *)
SortedInv ==
  /\ ListSorted
  /\ Running =>
       /\ AtOrAfter(walk.last, walk.root)
       /\ \A i \in DOMAIN walk.t : AtOrAfter(walk.last, walk.t[i].oid)
       /\ walk.pc \in {"root", "single"} => walk.t = <<>>

(* The entries of which the list says that the agent had them.             *)
Claimed == {walk.t[i].oid : i \in {j \in DOMAIN walk.t : walk.t[j].found}}

(* What the walk has not got of the subtree lies ahead of it.              *)
CompleteInv ==
  sane /\ walk.err = "none" =>
    /\ \A o \in always :
         Below(o, walk.root) => \/ o \in Listed
                                \/ walk.pc \in {"root", "next"} /\ Precedes(walk.last, o)
    /\ Claimed \subseteq ever

(* The text of an object after the root tells whether it lies below it.    *)
TextTells(roots, objects) ==
  \A root \in roots, o \in objects :
    Precedes(root, o) /\ Len(root) <= Len(o) /\ Found(Text(o), Text(root))
      => Below(o, root)

TextDecides == TextTells(Root, Oid)

(* A walk of a single object has got that object or nothing.               *)
SingleInv ==
  sane /\ walk.err = "none" /\ walk.root \in always
    /\ (\A o \in ever : ~Below(o, walk.root)) =>
      /\ walk.t \in {<<>>, <<[oid |-> walk.root, found |-> TRUE]>>}
      /\ walk.pc = "done" /\ session.version # "SNMPv1" => walk.t # <<>>
=============================================================================
