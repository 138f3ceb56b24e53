--------------------------- MODULE Administration ---------------------------
(***************************************************************************)
(* What a program may rely on when it administers the access rules of an   *)
(* agent: tables of rows under keys, one call at a time to create or to    *)
(* delete a row.  A call means a key and a row; how they are written in    *)
(* the index of an object, in a name or in a mask is not seen here.        *)
(*                                                                         *)
(* A call takes effect as it was meant, or not at all.  It is only refused *)
(* when it is not fit (the code says beforehand what that needs) or when   *)
(* the row is there.  Requests are repeated and get lost: a call may       *)
(* therefore take effect more than once, and, if it was given up or could  *)
(* be repeated, also after it returned.  A call that is sent once and is   *)
(* answered is over.                                                       *)
(***************************************************************************)
CONSTANTS Key, Row, None

VARIABLES
  table,    \* the agent's rows, by their keys
  call,     \* the call being made, or None
  answers,  \* the answers to it that may still reach the program
  late,     \* earlier calls that may still take effect
  result    \* what the last call returned, or None

vars == <<table, call, answers, late, result>>

Call == [do : {"create", "delete"}, key : Key, row : Row, fit : BOOLEAN, single : BOOLEAN]

Answer(c) ==
  IF c.fit /\ (c.do = "create" => c.key \notin DOMAIN table) THEN "ok" ELSE "refused"

Effect(c) ==
  IF Answer(c) = "refused" THEN table
  ELSE IF c.do = "create"
  THEN [k \in DOMAIN table \cup {c.key} |-> IF k = c.key THEN c.row ELSE table[k]]
  ELSE [k \in DOMAIN table \ {c.key} |-> table[k]]

Init ==
  /\ table = << >>
  /\ call = None
  /\ answers = {}
  /\ late = {}
  /\ result = None

Ask ==
  /\ call = None
  /\ call' \in Call
  /\ answers' = {}
  /\ late' = late
  /\ result' = None
  /\ UNCHANGED table

TakesEffect ==
  /\ call # None
  /\ table' = Effect(call)
  /\ answers' \in {answers, answers \cup {Answer(call)}}
  /\ UNCHANGED <<call, late, result>>

TakesEffectLate ==
  /\ \E c \in late : table' = Effect(c)
  /\ late' \subseteq late
  /\ UNCHANGED <<call, answers, result>>

Lost ==
  /\ late' \subseteq late
  /\ UNCHANGED <<table, call, answers, result>>

Returns(r) ==
  /\ call # None
  /\ \/ r \in answers
     \/ r = "timeout"
     \/ r = "refused" /\ ~call.fit
  /\ call' = None
  /\ answers' = {}
  /\ late' \subseteq late \cup (IF call.single /\ r # "timeout" THEN {} ELSE {call})
  /\ result' = r
  /\ UNCHANGED table

Next ==
  \/ Ask
  \/ TakesEffect
  \/ TakesEffectLate
  \/ Lost
  \/ \E r \in {"ok", "refused", "timeout"} : Returns(r)

Spec == Init /\ [][Next]_vars
=============================================================================
