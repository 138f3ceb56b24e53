------------------------- MODULE UsmSessions_proofs -------------------------
(***************************************************************************)
(* Theorems about the version 3 sessions of a program, for any number of   *)
(* sessions, users, passwords and repetitions of a request.                *)
(*                                                                         *)
(* NoForgottenUser holds for every program.  The others need the care the  *)
(* program takes: with one session to a user at a time the library's list  *)
(* has the keys of the sessions, and from that follows that a change which *)
(* may reach the agent twice is applied once.                              *)
(***************************************************************************)
EXTENDS UsmSessions, TLAPS

(* A row as the agent leaves it.                                           *)
LEMMA RowTypes ==
  ASSUME TypeOK, req # None, Possible(req.set)
  PROVE  NewRow(req.set) \in Rows
<1> DEFINE set == req.set
<1>1. /\ set \in Sets
      /\ set.user \in User
      /\ set.kind \in Kinds
      /\ agent[set.user] \in Rows
      /\ set.kind \in {"createFrom", "cloneFrom"} => agent[set.from] \in Rows
      /\ set.old \in Password \cup {None} /\ set.new \in Password \cup {None}
  BY DEF TypeOK, Requests, Sets
<1> HIDE DEF set
<1>2. CASE set.kind = "change"
  <2>1. ChangedKey(set) \in Password \cup {None, Junk}
    BY <1>1 DEF ChangedKey
  <2>2. ChangedRow(set) \in Rows
    BY <1>1, <2>1 DEF ChangedRow, Rows
  <2>3. NewRow(set) = ChangedRow(set)
    BY <1>2 DEF NewRow
  <2> QED BY <2>2, <2>3 DEF set
<1>3. CASE set.kind = "create"
  <2>1. NewRow(set) = [row |-> "notReady", auth |-> None, priv |-> None]
    BY <1>3 DEF NewRow
  <2> QED BY <2>1 DEF set, Rows
<1>4. CASE set.kind = "createFrom"
  <2>1. NewRow(set) = agent[set.from]
    BY <1>4 DEF NewRow
  <2> QED BY <1>1, <1>4, <2>1 DEF set
<1>5. CASE set.kind = "cloneFrom"
  <2>1. NewRow(set) \in {agent[set.from], agent[set.user]}
    BY <1>5 DEF NewRow
  <2> QED BY <1>1, <1>5, <2>1 DEF set
<1>6. CASE set.kind = "delete"
  <2>1. NewRow(set) = Absent
    BY <1>6 DEF NewRow
  <2> QED BY <2>1 DEF set, Rows, Absent
<1> QED BY <1>1, <1>2, <1>3, <1>4, <1>5, <1>6 DEF Kinds

(* What the agent and the program make of a SET is well typed.             *)
LEMMA EffectTypes ==
  ASSUME TypeOK, req # None
  PROVE  /\ Apply(req.set) => agent' \in [User -> Rows]
         /\ \A success \in BOOLEAN : Learn(req.set, success) =>
              /\ told' \in [User -> SUBSET Password]
              /\ done' \in Sets \cup {None}
<1>1. req.set \in Sets /\ req.set.user \in User
  BY DEF TypeOK, Requests, Sets
<1>2. Apply(req.set) => agent' \in [User -> Rows]
  BY RowTypes DEF Apply, TypeOK
<1>3. ASSUME NEW success \in BOOLEAN, Learn(req.set, success)
      PROVE  told' \in [User -> SUBSET Password] /\ done' \in Sets \cup {None}
  <2> DEFINE set == req.set
             news == CASE set.kind = "change" -> {set.new}
                       [] set.kind \in {"createFrom", "cloneFrom"} -> told[set.from]
                       [] OTHER -> {}
             replaced == set.kind \in {"change", "createFrom"}
  <2>1. news \subseteq Password
    BY DEF TypeOK
  <2>2. told' = [told EXCEPT ![set.user] =
                   CASE success /\ set.kind = "delete" -> {}
                     [] success /\ replaced -> news
                     [] OTHER -> @ \cup news]
    BY <1>3, Zenon DEF Learn
  <2>3. done' \in Sets \cup {None}
    BY <1>1, <1>3 DEF Learn
  <2> HIDE DEF news, replaced, set
  <2>4. told' \in [User -> SUBSET Password]
    BY <2>1, <2>2 DEF TypeOK
  <2> QED BY <2>3, <2>4
<1> QED BY <1>2, <1>3

(* A SET of the right form is a request of the right type.                 *)
LEMMA AskTypes ==
  ASSUME TypeOK, NEW s \in Session, NEW set \in Sets, NEW left \in 0 .. Retries,
         Ask(s, set, left),
         set.kind = "change" => set.old \in Password /\ set.new \in Password,
         set.kind \in {"createFrom", "cloneFrom"} => set.from \in User
  PROVE  TypeOK'
<1>1. req' = [s |-> s, set |-> set, left |-> left] /\ IsOpen(s)
  BY DEF Ask
<1>2. req' \in Requests /\ req'.s = s /\ req'.set = set
  BY <1>1 DEF Requests
<1> QED BY <1>1, <1>2 DEF Ask, TypeOK, IsOpen

(* The types hold at the start.                                            *)
LEMMA TypesInit == Init => TypeOK
<1> SUFFICES ASSUME Init PROVE TypeOK
  OBVIOUS
<1>1. agent \in [User -> Rows]
  <2>1. [row |-> "active", auth |-> Secret, priv |-> Secret] \in Rows /\ Absent \in Rows
    BY UsmAssumption DEF Rows, Absent
  <2> QED BY <2>1 DEF Init
<1>2. told \in [User -> SUBSET Password]
  BY UsmAssumption DEF Init
<1> QED BY <1>1, <1>2 DEF Init, TypeOK

(* The steps by which a program asks the agent for something.              *)
Asks ==
  \E s \in Session, u \in User, left \in 0 .. Retries :
    \/ \E own \in BOOLEAN, old, new \in Password, flag \in {"a", "p", "ap"} :
         NewPassword(s, u, own, old, new, flag, left)
    \/ \E from \in User \cup {None} : CreateUser(s, u, from, left)
    \/ \E from \in User : CloneFromUser(s, u, from, left)
    \/ DeleteUser(s, u, left)

(* Each of them sends one SET of its kind.                                 *)
LEMMA AsksOne ==
  ASSUME Asks
  PROVE  \E s \in Session, set \in Sets, left \in 0 .. Retries :
           /\ Ask(s, set, left)
           /\ set.kind = "change" =>
                /\ set.old \in Password /\ set.new \in Password
                /\ told[set.user] = {set.old}
                /\ "no_repeated_change" \in Careful =>
                     set.user = sess[s].user \/ left = 0
                /\ "auth_only" \in Careful => set.flag = "a"
           /\ set.kind \in {"createFrom", "cloneFrom"} => set.from \in User
<1> PICK s \in Session, u \in User, left \in 0 .. Retries :
      \/ \E own \in BOOLEAN, old, new \in Password, flag \in {"a", "p", "ap"} :
           NewPassword(s, u, own, old, new, flag, left)
      \/ \E from \in User \cup {None} : CreateUser(s, u, from, left)
      \/ \E from \in User : CloneFromUser(s, u, from, left)
      \/ DeleteUser(s, u, left)
  BY DEF Asks
<1>1. ASSUME NEW own \in BOOLEAN, NEW old \in Password, NEW new \in Password,
             NEW flag \in {"a", "p", "ap"}, NewPassword(s, u, own, old, new, flag, left)
      PROVE  \E set \in Sets :
               /\ Ask(s, set, left)
               /\ set.kind = "change"
               /\ set.old \in Password /\ set.new \in Password
               /\ told[set.user] = {set.old}
               /\ "no_repeated_change" \in Careful =>
                    set.user = sess[s].user \/ left = 0
               /\ "auth_only" \in Careful => set.flag = "a"
  <2> DEFINE set == [kind |-> "change", user |-> u, from |-> None, own |-> own,
                     old |-> old, new |-> new, flag |-> flag]
  <2>1. set \in Sets
    BY DEF Sets, Kinds
  <2>2. /\ set.kind = "change" /\ set.old = old /\ set.new = new
        /\ set.user = u /\ set.flag = flag
    OBVIOUS
  <2>3. Ask(s, set, left)
    BY <1>1 DEF NewPassword
  <2>4. /\ told[u] = {old}
        /\ "no_repeated_change" \in Careful => u = sess[s].user \/ left = 0
        /\ "auth_only" \in Careful => flag = "a"
    <3>1. /\ told[u] = {old}
          /\ "auth_only" \in Careful => flag = "a"
      BY <1>1 DEF NewPassword
    <3>2. /\ own => u = sess[s].user
          /\ "no_repeated_change" \in Careful => own \/ left = 0
      BY <1>1 DEF NewPassword
    <3>3. "no_repeated_change" \in Careful => u = sess[s].user \/ left = 0
      BY <3>2, Zenon
    <3> QED BY <3>1, <3>3
  <2> HIDE DEF set
  <2> QED BY <2>1, <2>2, <2>3, <2>4
<1>2. ASSUME NEW kind \in Kinds \ {"change"}, NEW from \in User \cup {None},
             kind \in {"createFrom", "cloneFrom"} => from \in User,
             Ask(s, UserSet(kind, u, from), left)
      PROVE  \E set \in Sets :
               /\ Ask(s, set, left)
               /\ set.kind # "change"
               /\ set.kind \in {"createFrom", "cloneFrom"} => set.from \in User
  <2> DEFINE set == UserSet(kind, u, from)
  <2>1. set \in Sets
    BY DEF Sets, UserSet
  <2>2. set.kind = kind /\ set.from = from
    BY DEF UserSet
  <2> HIDE DEF set
  <2> QED BY <1>2, <2>1, <2>2 DEF set
<1>3. ASSUME NEW from \in User \cup {None}, CreateUser(s, u, from, left)
      PROVE  \E set \in Sets :
               /\ Ask(s, set, left)
               /\ set.kind # "change"
               /\ set.kind \in {"createFrom", "cloneFrom"} => set.from \in User
  <2>1. CASE from = None
    BY <1>2, <1>3, <2>1 DEF CreateUser, Kinds
  <2>2. CASE from # None
    BY <1>2, <1>3, <2>2 DEF CreateUser, Kinds
  <2> QED BY <2>1, <2>2
<1>4. ASSUME NEW from \in User, CloneFromUser(s, u, from, left)
      PROVE  \E set \in Sets :
               /\ Ask(s, set, left)
               /\ set.kind # "change"
               /\ set.kind \in {"createFrom", "cloneFrom"} => set.from \in User
  BY <1>2, <1>4 DEF CloneFromUser, Kinds
<1>5. ASSUME DeleteUser(s, u, left)
      PROVE  \E set \in Sets :
               /\ Ask(s, set, left)
               /\ set.kind # "change"
               /\ set.kind \in {"createFrom", "cloneFrom"} => set.from \in User
  BY <1>2, <1>5 DEF DeleteUser, Kinds
<1> QED BY <1>1, <1>3, <1>4, <1>5

(* The answer to a SET and its loss, in one form: the agent has applied it *)
(* or not, and the program learns how it ended or waits on.                *)
LEMMA EndsOrWaits ==
  ASSUME TypeOK, Answered \/ RequestLost \/ AnswerLost
  PROVE  /\ req # None
         /\ UNCHANGED <<sess, userList>>
         /\ \/ /\ Apply(req.set) /\ req' = None
               /\ Learn(req.set, Served(req.s) /\ Possible(req.set))
            \/ /\ Apply(req.set) \/ UNCHANGED agent
               /\ \/ req' = None /\ Learn(req.set, FALSE)
                  \/ /\ req.left > 0
                     /\ req' = [req EXCEPT !.left = @ - 1]
                     /\ UNCHANGED <<told, done>>
BY DEF Answered, RequestLost, AnswerLost, TimesOut

(* And every step keeps them.                                              *)
LEMMA TypesStep ==
  ASSUME TypeOK, [Next]_vars
  PROVE  TypeOK'
<1>1. ASSUME NEW s \in Session, NEW u \in User, NEW keys \in Keys, Open(s, u, keys)
      PROVE  TypeOK'
  <2>1. [user |-> u, auth |-> keys.auth, priv |-> keys.priv] \in Opened
    BY DEF Keys, Opened
  <2>2. sess' \in [Session -> Opened \cup {None}]
    BY <1>1, <2>1 DEF Open, TypeOK
  <2>3. userList' \in [User -> Keys \cup {None}]
    BY <1>1 DEF Open, Enter, TypeOK
  <2>4. req # None => IsOpen(req.s)'
    <3>1. req # None => sess[req.s] # None /\ sess[s] = None
      BY <1>1 DEF Open, TypeOK, IsOpen
    <3>2. \A t \in Session \ {s} : sess'[t] = sess[t]
      BY <1>1 DEF Open, TypeOK
    <3> QED BY <1>1, <3>1, <3>2 DEF Open, TypeOK, Requests, IsOpen
  <2> QED BY <1>1, <2>2, <2>3, <2>4 DEF Open, TypeOK
<1>2. ASSUME NEW s \in Session, Close(s)
      PROVE  TypeOK'
  <2>1. sess' \in [Session -> Opened \cup {None}]
    BY <1>2 DEF Close, TypeOK
  <2>2. userList' \in [User -> Keys \cup {None}]
    BY <1>2 DEF Close, WithoutUser, TypeOK
  <2>3. req # None => IsOpen(req.s)'
    BY <1>2 DEF Close, TypeOK, Requests, IsOpen
  <2> QED BY <1>2, <2>1, <2>2, <2>3 DEF Close, TypeOK
<1>3. CASE Asks
  BY <1>3, AsksOne, AskTypes
<1>4. CASE Answered \/ RequestLost \/ AnswerLost
  <2>1. req # None /\ UNCHANGED <<sess, userList>>
    BY <1>4, EndsOrWaits
  <2>2. agent' \in [User -> Rows]
    BY <1>4, <2>1, EndsOrWaits, EffectTypes DEF TypeOK
  <2>3. told' \in [User -> SUBSET Password] /\ done' \in Sets \cup {None}
    <3>1. Learn(req.set, FALSE) \/ Learn(req.set, TRUE) \/ UNCHANGED <<told, done>>
      <4>1. (Served(req.s) /\ Possible(req.set)) \in BOOLEAN
        BY DEF Served, Possible
      <4> QED BY <1>4, <4>1, EndsOrWaits
    <3> QED BY <2>1, <3>1, EffectTypes DEF TypeOK
  <2>4. CASE req' = None
    BY <2>1, <2>2, <2>3, <2>4 DEF TypeOK
  <2>5. CASE req.left > 0 /\ req' = [req EXCEPT !.left = @ - 1]
    <3>1. req' \in Requests /\ req'.s = req.s /\ req'.set = req.set
      BY <2>1, <2>5, UsmAssumption DEF TypeOK, Requests
    <3> QED BY <2>1, <2>2, <2>3, <3>1 DEF TypeOK, IsOpen
  <2> QED BY <1>4, <2>4, <2>5, EndsOrWaits
<1>5. CASE UNCHANGED vars
  BY <1>5 DEF vars, TypeOK, IsOpen
<1> QED BY <1>1, <1>2, <1>3, <1>4, <1>5 DEF Next, Asks

(* Every variable keeps its type, and a SET that is waited for has the     *)
(* session it was sent through open.                                       *)
THEOREM TypeCorrect == Spec => []TypeOK
BY TypesInit, TypesStep, PTL DEF Spec
-----------------------------------------------------------------------------
(* The library's list.                                                     *)

(* Opening a session enters its user, closing one takes its user out, and  *)
(* nothing else changes the list.                                          *)
LEMMA ListStep ==
  ASSUME TypeOK, [Next]_vars
  PROVE  \/ \E s \in Session, u \in User, keys \in Keys : Open(s, u, keys)
         \/ \E s \in Session : Close(s)
         \/ UNCHANGED <<sess, userList>>
<1>1. CASE Asks
  BY <1>1, AsksOne DEF Ask
<1>2. CASE Answered \/ RequestLost \/ AnswerLost
  BY <1>2, EndsOrWaits
<1> QED BY <1>1, <1>2 DEF Next, Asks, vars

(* The two tables after a session was opened.                              *)
LEMMA AfterOpen ==
  ASSUME TypeOK, NEW s \in Session, NEW u \in User, NEW keys \in Keys, Open(s, u, keys)
  PROVE  /\ sess[s] = None
         /\ "one_session_per_user" \in Careful => SessionsOf(u) = {}
         /\ sess'[s] # None /\ sess'[s].user = u
         /\ sess'[s].auth = keys.auth /\ sess'[s].priv = keys.priv
         /\ \A t \in Session \ {s} : sess'[t] = sess[t]
         /\ userList'[u] = IF userList[u] = None THEN keys ELSE userList[u]
         /\ \A v \in User \ {u} : userList'[v] = userList[v]
<1>1. [user |-> u, auth |-> keys.auth, priv |-> keys.priv] \in Opened
  BY DEF Keys, Opened
<1> QED BY <1>1, UsmAssumption DEF Open, Enter, TypeOK, IsOpen

(* And after one was closed.                                               *)
LEMMA AfterClose ==
  ASSUME TypeOK, NEW s \in Session, Close(s)
  PROVE  /\ sess[s] # None /\ sess[s].user \in User
         /\ sess'[s] = None
         /\ \A t \in Session \ {s} : sess'[t] = sess[t]
         /\ userList'[sess[s].user] = None
         /\ \A v \in User \ {sess[s].user} : userList'[v] = userList[v]
<1>1. sess[s] # None /\ sess[s] \in Opened
  BY DEF Close, IsOpen, TypeOK
<1>2. sess[s].user \in User
  BY <1>1 DEF Opened
<1> QED BY <1>1, <1>2 DEF Close, WithoutUser, TypeOK

(* A user in the list is that of an open session, before the step and      *)
(* after it.                                                               *)
LEMMA NoForgottenStep ==
  ASSUME TypeOK, NoForgottenUser, [Next]_vars
  PROVE  NoForgottenUser'
<1> SUFFICES ASSUME NEW v \in User, userList'[v] # None
             PROVE  \E t \in Session : sess'[t] # None /\ sess'[t].user = v
  BY DEF NoForgottenUser, SessionsOf, IsOpen
<1>0. userList[v] # None => \E t \in Session : sess[t] # None /\ sess[t].user = v
  BY DEF NoForgottenUser, SessionsOf, IsOpen
<1>1. ASSUME NEW s \in Session, NEW u \in User, NEW keys \in Keys, Open(s, u, keys)
      PROVE  \E t \in Session : sess'[t] # None /\ sess'[t].user = v
  <2>1. CASE u = v
    BY <1>1, <2>1, AfterOpen
  <2>2. CASE u # v
    <3>1. userList[v] # None
      BY <1>1, <2>2, AfterOpen
    <3> QED BY <1>0, <1>1, <3>1, AfterOpen
  <2> QED BY <2>1, <2>2
<1>2. ASSUME NEW s \in Session, Close(s)
      PROVE  \E t \in Session : sess'[t] # None /\ sess'[t].user = v
  <2>1. v # sess[s].user /\ userList[v] # None
    BY <1>2, AfterClose
  <2> QED BY <1>0, <1>2, <2>1, AfterClose
<1>3. CASE UNCHANGED <<sess, userList>>
  BY <1>0, <1>3
<1> QED BY <1>1, <1>2, <1>3, ListStep

(* Whatever the program does, the library forgets a user no later than the *)
(* program has closed its last session for it.                             *)
THEOREM ForgetsUsers == Spec => []NoForgottenUser
<1>1. Init => NoForgottenUser
  BY DEF Init, NoForgottenUser
<1>2. TypeOK /\ NoForgottenUser /\ [Next]_vars => NoForgottenUser'
  BY NoForgottenStep
<1> QED BY <1>1, <1>2, TypeCorrect, PTL DEF Spec

(* With one session to a user at a time, a new session finds no old keys   *)
(* in the list, and none is closed under another.                          *)
LEMMA SessionsStep ==
  ASSUME TypeOK, NoForgottenUser, OneSessionEach, SessionsKeepTheirUser,
         "one_session_per_user" \in Careful, [Next]_vars
  PROVE  OneSessionEach' /\ SessionsKeepTheirUser'
<1> DEFINE Keeps(t) == userList[sess[t].user] = [auth |-> sess[t].auth, priv |-> sess[t].priv]
<1>0. /\ \A t \in Session : sess[t] # None => Keeps(t)
      /\ \A t \in Session : sess[t] # None => sess[t].user \in User
      /\ \A t, r \in Session : sess[t] # None /\ sess[r] # None /\ sess[t].user = sess[r].user
                               => t = r
  BY DEF SessionsKeepTheirUser, OneSessionEach, IsOpen, TypeOK, Opened
<1>1. ASSUME NEW s \in Session, NEW u \in User, NEW keys \in Keys, Open(s, u, keys)
      PROVE  OneSessionEach' /\ SessionsKeepTheirUser'
  <2>1. \A t \in Session : sess[t] # None => sess[t].user # u
    BY <1>1, AfterOpen DEF SessionsOf, IsOpen
  <2>2. userList[u] = None
    BY <1>1, AfterOpen DEF NoForgottenUser
  <2>3. keys = [auth |-> keys.auth, priv |-> keys.priv]
    BY DEF Keys
  <2>4. userList'[u] = [auth |-> keys.auth, priv |-> keys.priv]
    BY <1>1, <2>2, <2>3, AfterOpen
  <2>5. OneSessionEach'
    BY <1>0, <1>1, <2>1, AfterOpen DEF OneSessionEach, IsOpen
  <2>6. ASSUME NEW t \in Session, sess'[t] # None
        PROVE  Keeps(t)'
    <3>1. CASE t = s
      BY <1>1, <2>4, <3>1, AfterOpen
    <3>2. CASE t # s
      <4>1. sess'[t] = sess[t] /\ sess[t].user \in User \ {u}
        BY <1>0, <1>1, <2>1, <2>6, <3>2, AfterOpen
      <4>2. userList'[sess[t].user] = userList[sess[t].user]
        BY <1>1, <4>1, AfterOpen
      <4> QED BY <1>0, <2>6, <4>1, <4>2
    <3> QED BY <3>1, <3>2
  <2> QED BY <2>5, <2>6 DEF SessionsKeepTheirUser, IsOpen
<1>2. ASSUME NEW s \in Session, Close(s)
      PROVE  OneSessionEach' /\ SessionsKeepTheirUser'
  <2>1. OneSessionEach'
    BY <1>0, <1>2, AfterClose DEF OneSessionEach, IsOpen
  <2>2. ASSUME NEW t \in Session, sess'[t] # None
        PROVE  Keeps(t)'
    <3>1. t # s /\ sess'[t] = sess[t] /\ sess[t] # None
      BY <1>2, <2>2, AfterClose
    <3>2. sess[t].user \in User \ {sess[s].user}
      BY <1>0, <1>2, <3>1, AfterClose
    <3>3. userList'[sess[t].user] = userList[sess[t].user]
      BY <1>2, <3>2, AfterClose
    <3> QED BY <1>0, <3>1, <3>3
  <2> QED BY <2>1, <2>2 DEF SessionsKeepTheirUser, IsOpen
<1>3. CASE UNCHANGED <<sess, userList>>
  BY <1>3 DEF SessionsKeepTheirUser, OneSessionEach, IsOpen
<1> QED BY <1>1, <1>2, <1>3, ListStep

(* A program with one session to a user at a time does not take the user   *)
(* of one session out of the list by closing another, and never talks      *)
(* with the keys of an earlier session.                                    *)
THEOREM KeepsUsers ==
  ASSUME "one_session_per_user" \in Careful
  PROVE  Spec => [](OneSessionEach /\ SessionsKeepTheirUser)
<1>1. Init => OneSessionEach /\ SessionsKeepTheirUser
  BY DEF Init, OneSessionEach, SessionsKeepTheirUser, IsOpen
<1>2. TypeOK /\ NoForgottenUser /\ OneSessionEach /\ SessionsKeepTheirUser /\ [Next]_vars
      => OneSessionEach' /\ SessionsKeepTheirUser'
  BY SessionsStep
<1> QED BY <1>1, <1>2, TypeCorrect, ForgetsUsers, PTL DEF Spec
-----------------------------------------------------------------------------
(* Passwords.                                                              *)

(* The agent serves a session whose passphrases are the keys of its user.  *)
LEMMA ServedByKey ==
  ASSUME TypeOK, SessionsKeepTheirUser, req # None
  PROVE  /\ sess[req.s].user \in User
         /\ Served(req.s) => /\ agent[sess[req.s].user].row = "active"
                             /\ agent[sess[req.s].user].auth = sess[req.s].auth
<1>1. req.s \in Session /\ IsOpen(req.s) /\ sess[req.s] \in Opened
  BY DEF TypeOK, Requests, IsOpen
<1>2. /\ sess[req.s].user \in User
      /\ userList[sess[req.s].user] = [auth |-> sess[req.s].auth, priv |-> sess[req.s].priv]
  BY <1>1 DEF SessionsKeepTheirUser, Opened
<1>3. userList[sess[req.s].user].auth = sess[req.s].auth
  BY <1>2
<1> QED BY <1>2, <1>3 DEF Served

(* A change that is carried out finds the old key, so it sets the new one. *)
LEMMA ChangeFindsOld ==
  ASSUME TypeOK, SessionsKeepTheirUser, ChangeOnce, req # None, Served(req.s),
         Possible(req.set), req.set.kind = "change"
  PROVE  /\ agent[req.set.user].auth = req.set.old
         /\ NewRow(req.set) = [agent[req.set.user] EXCEPT !.auth = req.set.new]
<1>1. agent[req.set.user].row = "active"
  BY DEF Possible
<1>2. agent[req.set.user].auth = req.set.old /\ req.set.flag = "a"
  BY <1>1, ServedByKey DEF ChangeOnce, KeyAmong
<1>3. ChangedKey(req.set) = req.set.new
  BY <1>2 DEF ChangedKey
<1>4. ChangedRow(req.set) = [agent[req.set.user] EXCEPT !.auth = req.set.new]
  BY <1>2, <1>3 DEF ChangedRow
<1> QED BY <1>2, <1>4 DEF NewRow

(* The row a SET leaves has a password the SET gives, or one known before  *)
(* if the SET does not replace it.                                         *)
LEMMA NewRowKnown ==
  ASSUME TypeOK, SessionsKeepTheirUser, KnownInv, req # None, Served(req.s),
         Possible(req.set), NewRow(req.set).row = "active"
  PROVE  /\ NewRow(req.set).auth \in told[req.set.user] \cup Given(req.set)
         /\ req.set.kind \in {"change", "createFrom"} => NewRow(req.set).auth \in Given(req.set)
         /\ req.set.kind # "delete"
<1> DEFINE set == req.set
<1>1. /\ set \in Sets /\ set.kind \in Kinds /\ set.user \in User
      /\ set.kind \in {"createFrom", "cloneFrom"} => set.from \in User
      /\ agent[set.user] \in Rows
  BY DEF TypeOK, Requests, Sets
<1>2. ASSUME set.kind \in {"createFrom", "cloneFrom"}
      PROVE  /\ agent[set.from].row = "active"
             /\ Given(set) = told[set.from]
             /\ agent[set.from].auth \in told[set.from]
  <2>1. agent[set.from].row = "active"
    BY <1>2 DEF Possible
  <2>2. Given(set) = told[set.from]
    BY <1>2 DEF Given
  <2>3. KeyAmong(set.from, told[set.from])
    BY <1>1, <1>2, <2>2 DEF KnownInv
  <2> QED BY <2>1, <2>2, <2>3 DEF KeyAmong
<1>3. KeyAmong(set.user, told[set.user] \cup Given(set))
  BY <1>1 DEF KnownInv
<1>4. CASE set.kind = "change"
  <2>1. NewRow(set).auth = set.new
    BY <1>1, <1>4, ChangeFindsOld DEF KnownInv, Rows
  <2>2. Given(set) = {set.new}
    BY <1>4 DEF Given
  <2> QED BY <1>4, <2>1, <2>2
<1>5. CASE set.kind = "create"
  BY <1>5 DEF NewRow
<1>6. CASE set.kind = "createFrom"
  <2>1. NewRow(set) = agent[set.from]
    BY <1>6 DEF NewRow
  <2> QED BY <1>2, <1>6, <2>1
<1>7. CASE set.kind = "cloneFrom"
  <2>1. NewRow(set) \in {agent[set.from], agent[set.user]}
    BY <1>7 DEF NewRow
  <2> QED BY <1>2, <1>3, <1>7, <2>1 DEF KeyAmong
<1>8. CASE set.kind = "delete"
  BY <1>8 DEF NewRow, Absent
<1> QED BY <1>1, <1>4, <1>5, <1>6, <1>7, <1>8 DEF Kinds

(* What applying a SET does to the agent's table.                          *)
LEMMA AfterApply ==
  ASSUME TypeOK, req # None, Apply(req.set)
  PROVE  /\ req.set.user \in User
         /\ \A v \in User \ {req.set.user} : agent'[v] = agent[v]
         /\ agent'[req.set.user] = IF Served(req.s) /\ Possible(req.set)
                                   THEN NewRow(req.set) ELSE agent[req.set.user]
BY DEF Apply, TypeOK, Requests, Sets

(* What the program learns of it.                                          *)
LEMMA AfterLearn ==
  ASSUME TypeOK, req # None, NEW success \in BOOLEAN, Learn(req.set, success)
  PROVE  /\ req.set.user \in User
         /\ \A v \in User \ {req.set.user} : told'[v] = told[v]
         /\ ~success => told'[req.set.user] = told[req.set.user] \cup Given(req.set)
         /\ success /\ req.set.kind \in {"change", "createFrom"} =>
              told'[req.set.user] = Given(req.set)
         /\ success /\ req.set.kind \notin {"change", "createFrom", "delete"} =>
              told'[req.set.user] = told[req.set.user] \cup Given(req.set)
         /\ done' = IF success THEN req.set ELSE None
<1> DEFINE set == req.set
           news == CASE set.kind = "change" -> {set.new}
                     [] set.kind \in {"createFrom", "cloneFrom"} -> told[set.from]
                     [] OTHER -> {}
           replaced == set.kind \in {"change", "createFrom"}
<1>1. set.user \in User
  BY DEF TypeOK, Requests, Sets
<1>2. news = Given(set)
  BY DEF Given
<1>3. told' = [told EXCEPT ![set.user] =
                 CASE success /\ set.kind = "delete" -> {}
                   [] success /\ replaced -> news
                   [] OTHER -> @ \cup news]
  BY Zenon DEF Learn
<1>4. done' = IF success THEN set ELSE None
  BY DEF Learn
<1> HIDE DEF news
<1>5. /\ \A v \in User \ {set.user} : told'[v] = told[v]
      /\ told'[set.user] = CASE success /\ set.kind = "delete" -> {}
                             [] success /\ replaced -> Given(set)
                             [] OTHER -> told[set.user] \cup Given(set)
  BY <1>1, <1>2, <1>3 DEF TypeOK
<1>6. replaced => set.kind # "delete"
  OBVIOUS
<1> HIDE DEF set
<1>7. CASE ~success
  BY <1>5, <1>7, <1>1, <1>4 DEF set
<1>8. CASE success
  BY <1>5, <1>6, <1>8, <1>1, <1>4 DEF set
<1> QED BY <1>7, <1>8

(* Asking changes nothing but what the program waits for.                  *)
LEMMA KnownAsked ==
  ASSUME TypeOK, KnownInv, Careful = Rules, Asks
  PROVE  KnownInv'
<1>1. PICK s \in Session, set \in Sets, left \in 0 .. Retries :
        /\ Ask(s, set, left)
        /\ set.kind = "change" => /\ told[set.user] = {set.old}
                                  /\ set.user = sess[s].user \/ left = 0
                                  /\ set.flag = "a"
  BY AsksOne DEF Rules
<1>2. /\ req = None /\ UNCHANGED <<sess, agent, told>>
      /\ req' = [s |-> s, set |-> set, left |-> left]
  BY <1>1 DEF Ask
<1>3. /\ req'.s = s /\ req'.set = set /\ req'.left = left
  BY <1>2
<1>4. \A u \in User : KeyAmong(u, told[u])
  BY <1>2 DEF KnownInv, KeyAmong
<1>5. set.user \in User
  BY DEF Sets
<1>6. \A u \in User :
        KeyAmong(u, told[u] \cup IF req # None /\ req.set.user = u
                                 THEN Given(req.set) ELSE {})'
  BY <1>2, <1>4 DEF KeyAmong
<1>7. ChangeOnce'
  BY <1>1, <1>2, <1>3, <1>4, <1>5 DEF ChangeOnce, KeyAmong
<1> QED BY <1>6, <1>7 DEF KnownInv

(* Nor does what other sessions do while it waits.                         *)
LEMMA KnownApart ==
  ASSUME TypeOK, KnownInv, UNCHANGED <<agent, req, told>>,
         req # None => sess'[req.s] = sess[req.s]
  PROVE  KnownInv'
<1>1. \A u \in User :
        KeyAmong(u, told[u] \cup IF req # None /\ req.set.user = u
                                 THEN Given(req.set) ELSE {})'
  BY DEF KnownInv, KeyAmong, Given
<1>2. ChangeOnce'
  BY DEF KnownInv, ChangeOnce, KeyAmong
<1> QED BY <1>1, <1>2 DEF KnownInv

(* A SET that ends or is lost leaves a password that is told or given.     *)
LEMMA KnownApplied ==
  ASSUME TypeOK, SessionsKeepTheirUser, KnownInv, req # None,
         Apply(req.set) \/ UNCHANGED agent
  PROVE  /\ \A v \in User \ {req.set.user} :
              agent'[v].row = "active" => agent'[v].auth \in told[v]
         /\ agent'[req.set.user].row = "active" =>
              agent'[req.set.user].auth \in told[req.set.user] \cup Given(req.set)
<1>1. req.set.user \in User
  BY DEF TypeOK, Requests, Sets
<1>2. /\ \A v \in User \ {req.set.user} : KeyAmong(v, told[v])
      /\ KeyAmong(req.set.user, told[req.set.user] \cup Given(req.set))
  BY <1>1 DEF KnownInv, KeyAmong
<1>3. CASE UNCHANGED agent
  BY <1>2, <1>3 DEF KeyAmong
<1>4. CASE Apply(req.set)
  BY <1>2, <1>4, AfterApply, NewRowKnown DEF KeyAmong
<1> QED BY <1>3, <1>4

(* The answer is there, or the program has given up.                       *)
LEMMA KnownEnded ==
  ASSUME TypeOK, SessionsKeepTheirUser, KnownInv, req # None, req' = None,
         NEW success \in BOOLEAN, Learn(req.set, success),
         Apply(req.set) \/ UNCHANGED agent,
         success => Apply(req.set) /\ Served(req.s) /\ Possible(req.set)
  PROVE  KnownInv'
<1>1. ASSUME NEW v \in User, agent'[v].row = "active"
      PROVE  agent'[v].auth \in told'[v]
  <2>1. CASE v # req.set.user
    BY <1>1, <2>1, KnownApplied, AfterLearn
  <2>2. CASE v = req.set.user /\ ~success
    BY <1>1, <2>2, KnownApplied, AfterLearn
  <2>3. CASE v = req.set.user /\ success
    <3>1. agent'[v] = NewRow(req.set)
      BY <2>3, AfterApply
    <3>2. /\ agent'[v].auth \in told[v] \cup Given(req.set)
          /\ req.set.kind \in {"change", "createFrom"} => agent'[v].auth \in Given(req.set)
          /\ req.set.kind # "delete"
      BY <1>1, <2>3, <3>1, NewRowKnown
    <3> QED BY <2>3, <3>2, AfterLearn
  <2> QED BY <2>1, <2>2, <2>3
<1>2. ChangeOnce'
  BY DEF ChangeOnce
<1> QED BY <1>1, <1>2 DEF KnownInv, KeyAmong

(* The program waits on, and the agent has applied the SET or not.         *)
LEMMA KnownRepeated ==
  ASSUME TypeOK, SessionsKeepTheirUser, KnownInv, req # None, req.left > 0,
         req' = [req EXCEPT !.left = @ - 1], UNCHANGED <<sess, told, done>>,
         Apply(req.set) \/ UNCHANGED agent
  PROVE  KnownInv'
<1> DEFINE set == req.set
           u == req.set.user
<1>1. /\ req' # None /\ req'.s = req.s /\ req'.set = set
  BY UsmAssumption DEF TypeOK, Requests
<1>2. u \in User /\ agent[u] \in Rows
  BY DEF TypeOK, Requests, Sets
<1>3. Given(set)' = Given(set)
  BY <1>1 DEF Given
<1>4. \A v \in User :
        KeyAmong(v, told[v] \cup IF req # None /\ req.set.user = v
                                 THEN Given(req.set) ELSE {})'
  <2> SUFFICES ASSUME NEW v \in User, agent'[v].row = "active"
               PROVE  agent'[v].auth \in told[v] \cup IF u = v THEN Given(set) ELSE {}
    BY <1>1, <1>3 DEF KeyAmong
  <2> QED BY KnownApplied
<1>5. ASSUME set.kind = "change"
      PROVE  u = sess[req.s].user /\ (KeyAmong(u, {set.old}) \/ sess[req.s].auth # agent[u].auth)'
  <2>1. /\ u = sess[req.s].user
        /\ KeyAmong(u, {set.old}) \/ sess[req.s].auth # agent[u].auth
    BY <1>5, UsmAssumption DEF KnownInv, ChangeOnce, TypeOK, Requests
  <2>2. CASE UNCHANGED agent
    BY <1>1, <2>1, <2>2 DEF KeyAmong
  <2>3. CASE Apply(set) /\ Served(req.s) /\ Possible(set)
    <3>1. /\ agent'[u] = [agent[u] EXCEPT !.auth = set.new]
          /\ agent[u].auth = set.old
      BY <1>5, <2>3, AfterApply, ChangeFindsOld DEF KnownInv
    <3>2. agent'[u].auth = set.new
      BY <1>2, <3>1 DEF Rows
    <3>3. sess[req.s].auth = set.old
      BY <2>1, <2>3, <3>1, ServedByKey
    <3> QED BY <1>1, <2>1, <3>2, <3>3 DEF KeyAmong
  <2>4. CASE Apply(set) /\ ~(Served(req.s) /\ Possible(set))
    <3>1. UNCHANGED agent
      BY <2>4 DEF Apply
    <3> QED BY <2>2, <3>1
  <2> QED BY <2>2, <2>3, <2>4
<1>6. ChangeOnce'
  <2> SUFFICES ASSUME set.kind = "change"
               PROVE  /\ told[u] = {set.old}
                      /\ set.flag = "a"
                      /\ u = sess[req.s].user
                      /\ (KeyAmong(u, {set.old}) \/ sess[req.s].auth # agent[u].auth)'
    BY <1>1 DEF ChangeOnce, KeyAmong
  <2>1. told[u] = {set.old} /\ set.flag = "a"
    BY DEF KnownInv, ChangeOnce
  <2> QED BY <1>5, <2>1
<1> QED BY <1>4, <1>6 DEF KnownInv

(* Every step keeps what is known of the passwords: nothing but a SET      *)
(* changes them, and only the program that waits for it learns of it.      *)
LEMMA KnownStep ==
  ASSUME TypeOK, SessionsKeepTheirUser, KnownInv, Careful = Rules, [Next]_vars
  PROVE  KnownInv'
<1>1. ASSUME NEW s \in Session, NEW u \in User, NEW keys \in Keys, Open(s, u, keys)
      PROVE  KnownInv'
  <2>1. UNCHANGED <<agent, req, told>>
    BY <1>1 DEF Open
  <2>2. req # None => req.s \in Session \ {s}
    BY <1>1, AfterOpen DEF TypeOK, Requests, IsOpen
  <2>3. req # None => sess'[req.s] = sess[req.s]
    BY <1>1, <2>2, AfterOpen
  <2> QED BY <2>1, <2>3, KnownApart
<1>2. ASSUME NEW s \in Session, Close(s)
      PROVE  KnownInv'
  <2>1. UNCHANGED <<agent, req, told>>
    BY <1>2 DEF Close
  <2>2. req # None => req.s \in Session \ {s}
    BY <1>2 DEF Close, TypeOK, Requests
  <2>3. req # None => sess'[req.s] = sess[req.s]
    BY <1>2, <2>2, AfterClose
  <2> QED BY <2>1, <2>3, KnownApart
<1>3. CASE Asks
  BY <1>3, KnownAsked
<1>4. CASE Answered \/ RequestLost \/ AnswerLost
  <2>1. req # None /\ UNCHANGED <<sess, userList>>
    BY <1>4, EndsOrWaits
  <2>2. CASE /\ Apply(req.set) /\ req' = None
             /\ Learn(req.set, Served(req.s) /\ Possible(req.set))
    <3>1. PICK success \in BOOLEAN : success <=> Served(req.s) /\ Possible(req.set)
      OBVIOUS
    <3>2. success = (Served(req.s) /\ Possible(req.set))
      <4>1. (Served(req.s) /\ Possible(req.set)) \in BOOLEAN
        BY DEF Served, Possible
      <4> QED BY <3>1, <4>1
    <3> QED BY <2>1, <2>2, <3>1, <3>2, KnownEnded
  <2>3. CASE /\ Apply(req.set) \/ UNCHANGED agent
             /\ req' = None /\ Learn(req.set, FALSE)
    BY <2>1, <2>3, KnownEnded
  <2>4. CASE /\ Apply(req.set) \/ UNCHANGED agent
             /\ req.left > 0
             /\ req' = [req EXCEPT !.left = @ - 1]
             /\ UNCHANGED <<told, done>>
    BY <2>1, <2>4, KnownRepeated
  <2> QED BY <1>4, <2>2, <2>3, <2>4, EndsOrWaits
<1>5. CASE UNCHANGED vars
  BY <1>5, KnownApart DEF vars
<1> QED BY <1>1, <1>2, <1>3, <1>4, <1>5 DEF Next, Asks

(* A careful program is not locked out: whatever the network loses and the *)
(* library repeats, it knows a password of every active user when it does  *)
(* not wait for an answer.                                                 *)
THEOREM KnowsPasswords ==
  ASSUME Careful = Rules
  PROVE  Spec => []PasswordKnown
<1>1. "one_session_per_user" \in Careful
  BY DEF Rules
<1>2. Init => KnownInv
  BY UsmAssumption DEF Init, KnownInv, KeyAmong, ChangeOnce, Absent
<1>3. TypeOK /\ SessionsKeepTheirUser /\ KnownInv /\ [Next]_vars => KnownInv'
  BY KnownStep
<1>4. KnownInv => PasswordKnown
  BY DEF KnownInv, PasswordKnown, KeyAmong
<1>5. Spec => [](OneSessionEach /\ SessionsKeepTheirUser)
  BY <1>1, KeepsUsers
<1> QED BY <1>2, <1>3, <1>4, <1>5, TypeCorrect, PTL DEF Spec

(* A SET carried out leaves what its kind promises.                        *)
LEMMA EffectOfSet ==
  ASSUME TypeOK, SessionsKeepTheirUser, KnownInv, req # None, req' = None,
         done' = req.set, Apply(req.set), Served(req.s), Possible(req.set)
  PROVE  SuccessMeansDone'
<1> DEFINE set == req.set
           row == agent'[set.user]
<1>1. /\ set.kind \in Kinds /\ agent[set.user] \in Rows /\ row = NewRow(set)
      /\ done' = set
  BY AfterApply DEF TypeOK, Requests, Sets
<1>2. CASE set.kind = "change"
  <2>1. /\ row = [agent[set.user] EXCEPT !.auth = set.new]
        /\ set.flag = "a"
    BY <1>1, <1>2, ChangeFindsOld DEF KnownInv, ChangeOnce
  <2>2. row.auth = set.new
    BY <1>1, <2>1 DEF Rows
  <2> QED BY <1>1, <1>2, <2>1, <2>2 DEF SuccessMeansDone
<1>3. CASE set.kind = "create"
  <2>1. row = [row |-> "notReady", auth |-> None, priv |-> None]
    BY <1>1, <1>3 DEF NewRow
  <2> QED BY <1>1, <1>3, <2>1 DEF SuccessMeansDone
<1>4. CASE set.kind \in {"createFrom", "cloneFrom"}
  <2>1. agent[set.from].row = "active"
    BY <1>4 DEF Possible
  <2>2. row = agent[set.from] \/ row = agent[set.user]
    BY <1>1, <1>4 DEF NewRow
  <2>3. row.row = "active"
    <3>1. CASE set.kind = "createFrom"
      <4>1. row = agent[set.from]
        BY <1>1, <3>1 DEF NewRow
      <4> QED BY <2>1, <4>1
    <3>2. CASE set.kind = "cloneFrom"
      <4>1. row = IF agent[set.user].row = "notReady" THEN agent[set.from] ELSE agent[set.user]
        BY <1>1, <3>2 DEF NewRow
      <4>2. agent[set.user].row # "none"
        BY <3>2 DEF Possible
      <4> QED BY <1>1, <2>1, <4>1, <4>2 DEF Rows
    <3> QED BY <1>4, <3>1, <3>2
  <2> QED BY <1>1, <1>4, <2>3 DEF SuccessMeansDone
<1>5. CASE set.kind = "delete"
  <2>1. row = Absent
    BY <1>1, <1>5 DEF NewRow
  <2> QED BY <1>1, <1>5, <2>1 DEF SuccessMeansDone
<1> QED BY <1>1, <1>2, <1>3, <1>4, <1>5 DEF Kinds

(* A report of success is withdrawn by the next call, and is true before.  *)
LEMMA DoneStep ==
  ASSUME TypeOK, SessionsKeepTheirUser, KnownInv, DoneInv, [Next]_vars
  PROVE  DoneInv'
<1>1. CASE \/ \E s \in Session, u \in User, keys \in Keys : Open(s, u, keys)
           \/ \E s \in Session : Close(s)
  BY <1>1 DEF Open, Close, DoneInv, SuccessMeansDone
<1>2. CASE Asks
  BY <1>2, AsksOne DEF Ask, DoneInv, SuccessMeansDone
<1>3. CASE Answered \/ RequestLost \/ AnswerLost
  <2>1. req # None /\ done = None
    BY <1>3, EndsOrWaits DEF DoneInv
  <2>2. CASE /\ Apply(req.set) /\ req' = None
             /\ Learn(req.set, Served(req.s) /\ Possible(req.set))
    <3>1. PICK success \in BOOLEAN : success <=> Served(req.s) /\ Possible(req.set)
      OBVIOUS
    <3>2. success = (Served(req.s) /\ Possible(req.set))
      <4>1. (Served(req.s) /\ Possible(req.set)) \in BOOLEAN
        BY DEF Served, Possible
      <4> QED BY <3>1, <4>1
    <3>3. done' = IF success THEN req.set ELSE None
      BY <2>1, <2>2, <3>2, AfterLearn
    <3>4. CASE success
      BY <2>1, <2>2, <3>1, <3>3, <3>4, EffectOfSet DEF DoneInv
    <3>5. CASE ~success
      BY <2>2, <3>3, <3>5 DEF DoneInv, SuccessMeansDone
    <3> QED BY <3>4, <3>5
  <2>3. CASE req' = None /\ Learn(req.set, FALSE)
    <3>1. done' = None
      BY <2>1, <2>3, AfterLearn
    <3> QED BY <3>1 DEF DoneInv, SuccessMeansDone
  <2>4. CASE UNCHANGED <<told, done>>
    BY <2>1, <2>4 DEF DoneInv, SuccessMeansDone
  <2> QED BY <1>3, <2>2, <2>3, <2>4, EndsOrWaits
<1>4. CASE UNCHANGED vars
  BY <1>4 DEF vars, DoneInv, SuccessMeansDone, Absent
<1> QED BY <1>1, <1>2, <1>3, <1>4 DEF Next, Asks

(* To a careful program success means success: what newpassword,           *)
(* createuser, clonefromuser and deleteuser report as done is done.        *)
THEOREM SucceedsIfSaid ==
  ASSUME Careful = Rules
  PROVE  Spec => []SuccessMeansDone
<1>1. "one_session_per_user" \in Careful
  BY DEF Rules
<1>2. Init => KnownInv /\ DoneInv
  BY UsmAssumption
  DEF Init, KnownInv, KeyAmong, ChangeOnce, Absent, DoneInv, SuccessMeansDone
<1>3. TypeOK /\ SessionsKeepTheirUser /\ KnownInv /\ [Next]_vars => KnownInv'
  BY KnownStep
<1>4. TypeOK /\ SessionsKeepTheirUser /\ KnownInv /\ DoneInv /\ [Next]_vars => DoneInv'
  BY DoneStep
<1>5. DoneInv => SuccessMeansDone
  BY DEF DoneInv
<1>6. Spec => [](OneSessionEach /\ SessionsKeepTheirUser)
  BY <1>1, KeepsUsers
<1> QED BY <1>2, <1>3, <1>4, <1>5, <1>6, TypeCorrect, PTL DEF Spec
=============================================================================
