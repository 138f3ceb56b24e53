---------------------------- MODULE UsmSessions -----------------------------
(***************************************************************************)
(* The version 3 sessions of a program and the users they speak for: open  *)
(* and close of luasnmp.lua with the user list net-snmp keeps for the      *)
(* agent's engine, and the user administration that sends SET requests     *)
(* through them (newpassword, createuser, clonefromuser, deleteuser).      *)
(* Sessions are not cloned: __clone is disabled.                           *)
(*                                                                         *)
(* There is one agent.  Keys derived from passwords and localized for its  *)
(* engine stand for the passwords.  Sessions authenticate and encrypt.     *)
(* A SET is synchronous; callbacks that run while it waits may open and    *)
(* close other sessions.  The network loses requests and answers, and the  *)
(* library repeats an unanswered request.                                  *)
(***************************************************************************)
EXTENDS Naturals, FiniteSets

CONSTANTS
  Session,
  User,
  Password,
  First,    \* the user the agent has to begin with
  Secret,   \* and its password, for both keys
  None,     \* no session, no user, no key
  Junk,     \* a key no password leads to
  Retries,  \* bound: times a session may repeat a request (session.retries)
  Careful   \* what the program takes care of, a subset of the next

Rules == {"one_session_per_user", "no_repeated_change", "auth_only"}

Keys == [auth : Password, priv : Password]
Opened == [user : User, auth : Password, priv : Password]
Kinds == {"change", "create", "createFrom", "cloneFrom", "delete"}
Sets == [kind : Kinds, user : User, from : User \cup {None}, own : BOOLEAN,
         old : Password \cup {None}, new : Password \cup {None},
         flag : {"a", "p", "ap"}]
Requests == [s : Session, set : Sets, left : 0 .. Retries]

ASSUME UsmAssumption ==
  /\ First \in User
  /\ Secret \in Password
  /\ None \notin Session \cup User \cup Password \cup {Junk}
  /\ None \notin Keys /\ None \notin Opened /\ None \notin Requests
  /\ Junk \notin Password
  /\ Retries \in Nat
  /\ Careful \subseteq Rules

VARIABLES
  sess,     \* the open sessions: user and passphrases given to snmp_open
  userList, \* net-snmp's user list: the keys it has for a user
  agent,    \* the agent's usmUserTable
  req,      \* the SET the program waits for, or None
  told,     \* history: passwords the program can think a user has
  done      \* history: the last SET that was reported successful, or None

vars == <<sess, userList, agent, req, told, done>>

Absent == [row |-> "none", auth |-> None, priv |-> None]

Init ==
  /\ sess = [s \in Session |-> None]
  /\ userList = [u \in User |-> None]
  /\ agent = [u \in User |-> IF u = First
                             THEN [row |-> "active", auth |-> Secret, priv |-> Secret]
                             ELSE Absent]
  /\ req = None
  /\ told = [u \in User |-> IF u = First THEN {Secret} ELSE {}]
  /\ done = None

IsOpen(s) == sess[s] # None
SessionsOf(u) == {s \in Session : IsOpen(s) /\ sess[s].user = u}
-----------------------------------------------------------------------------
(* Opening and closing.                                                    *)

(* The library enters the user of a new session in its list unless it is   *)
(* there, and then leaves its keys alone.                                  *)
Enter(u, keys) ==
  userList' = [userList EXCEPT ![u] = IF @ = None THEN keys ELSE @]

Open(s, u, keys) ==
  /\ ~IsOpen(s)
  /\ "one_session_per_user" \in Careful => SessionsOf(u) = {}
  /\ sess' = [sess EXCEPT ![s] = [user |-> u, auth |-> keys.auth, priv |-> keys.priv]]
  /\ Enter(u, keys)
  /\ done' = None
  /\ UNCHANGED <<agent, req, told>>

(* Mutant: the library keeps the user.                                     *)
KeepUser(u) == userList

(* Mutant: the whole list is emptied.                                      *)
ClearUsers(u) == [v \in User |-> None]

WithoutUser(u) == [userList EXCEPT ![u] = None]

(* close of a session first takes its user out of the library's list.      *)
Close(s) ==
  /\ IsOpen(s)
  /\ req # None => req.s # s
  /\ userList' = WithoutUser(sess[s].user)
  /\ sess' = [sess EXCEPT ![s] = None]
  /\ done' = None
  /\ UNCHANGED <<agent, req, told>>
-----------------------------------------------------------------------------
(* User administration.                                                    *)

(* The session repeats a request as often as it was opened to do.          *)
Ask(s, set, left) ==
  /\ req = None
  /\ IsOpen(s)
  /\ userList[sess[s].user] # None
  /\ req' = [s |-> s, set |-> set, left |-> left]
  /\ done' = None
  /\ UNCHANGED <<sess, userList, agent, told>>

(* Without a user argument newpassword changes the session's own.  The     *)
(* program gives the old password as it knows it.                          *)
NewPassword(s, u, own, old, new, flag, left) ==
  /\ IsOpen(s)
  /\ own => u = sess[s].user
  /\ told[u] = {old}
  /\ "no_repeated_change" \in Careful => own \/ left = 0
  /\ "auth_only" \in Careful => flag = "a"
  /\ Ask(s, [kind |-> "change", user |-> u, from |-> None, own |-> own,
             old |-> old, new |-> new, flag |-> flag], left)

UserSet(kind, u, from) ==
  [kind |-> kind, user |-> u, from |-> from, own |-> FALSE,
   old |-> None, new |-> None, flag |-> "a"]

CreateUser(s, u, from, left) ==
  Ask(s, UserSet(IF from = None THEN "create" ELSE "createFrom", u, from), left)

CloneFromUser(s, u, from, left) == Ask(s, UserSet("cloneFrom", u, from), left)

DeleteUser(s, u, left) == Ask(s, UserSet("delete", u, None), left)
-----------------------------------------------------------------------------
(* The agent.                                                              *)

(* Does it accept what the session sends?                                  *)
Served(s) ==
  LET u == sess[s].user
  IN /\ userList[u] # None
     /\ agent[u].row = "active"
     /\ agent[u].auth = userList[u].auth
     /\ agent[u].priv = userList[u].priv

Possible(set) ==
  CASE set.kind = "change"     -> agent[set.user].row = "active"
    [] set.kind = "create"     -> agent[set.user].row = "none"
    [] set.kind = "createFrom" -> /\ agent[set.user].row = "none"
                                  /\ agent[set.from].row = "active"
    [] set.kind = "cloneFrom"  -> /\ agent[set.user].row # "none"
                                  /\ agent[set.from].row = "active"
    [] set.kind = "delete"     -> TRUE

(* Mutant: the change is encoded from the new key to the old one.          *)
ChangedBackwards(set) ==
  IF agent[set.user].auth = set.new THEN set.old ELSE Junk

(* A key change is a difference: applied to another key it gives a key     *)
(* nobody knows.                                                           *)
ChangedKey(set) == IF agent[set.user].auth = set.old THEN set.new ELSE Junk

(* Mutant: the variable for the privacy key stands in the list, too, and   *)
(* the one for the authentication key is missing.                          *)
ChangesPrivOnly(set) ==
  [agent[set.user] EXCEPT !.priv = ChangedKey(set)]

(* newpassword puts the variable for the authentication key into its list, *)
(* and never the one for the privacy key.                                  *)
ChangedRow(set) ==
  IF set.flag \in {"a", "ap"}
  THEN [agent[set.user] EXCEPT !.auth = ChangedKey(set)]
  ELSE agent[set.user]

NewRow(set) ==
  CASE set.kind = "change"     -> ChangedRow(set)
    [] set.kind = "create"     -> [row |-> "notReady", auth |-> None, priv |-> None]
    [] set.kind = "createFrom" -> agent[set.from]
    [] set.kind = "cloneFrom"  -> IF agent[set.user].row = "notReady"
                                  THEN agent[set.from] ELSE agent[set.user]
    [] set.kind = "delete"     -> Absent

Apply(set) ==
  agent' = IF Served(req.s) /\ Possible(set)
           THEN [agent EXCEPT ![set.user] = NewRow(set)] ELSE agent

(* What the program knows when the call returns.                           *)
Learn(set, success) ==
  LET u == set.user
      news == CASE set.kind = "change" -> {set.new}
                [] set.kind \in {"createFrom", "cloneFrom"} -> told[set.from]
                [] OTHER -> {}
      replaced == set.kind \in {"change", "createFrom"}
  IN /\ told' = [told EXCEPT ![u] =
                   CASE success /\ set.kind = "delete" -> {}
                     [] success /\ replaced -> news
                     [] OTHER -> @ \cup news]
     /\ done' = IF success THEN set ELSE None

(* The agent's answer arrives.                                             *)
Answered ==
  /\ req # None
  /\ Apply(req.set)
  /\ Learn(req.set, Served(req.s) /\ Possible(req.set))
  /\ req' = None
  /\ UNCHANGED <<sess, userList>>

(* The request is lost, or its answer; it is repeated or given up.         *)
TimesOut(reached) ==
  /\ req # None
  /\ IF reached THEN Apply(req.set) ELSE UNCHANGED agent
  /\ IF req.left > 0
     THEN /\ req' = [req EXCEPT !.left = @ - 1]
          /\ UNCHANGED <<told, done>>
     ELSE /\ req' = None
          /\ Learn(req.set, FALSE)
  /\ UNCHANGED <<sess, userList>>

RequestLost == TimesOut(FALSE)

AnswerLost == TimesOut(TRUE)

Next ==
  \/ \E s \in Session, u \in User, keys \in Keys : Open(s, u, keys)
  \/ \E s \in Session : Close(s)
  \/ \E s \in Session, u \in User, left \in 0 .. Retries :
       \/ \E own \in BOOLEAN, old, new \in Password, flag \in {"a", "p", "ap"} :
            NewPassword(s, u, own, old, new, flag, left)
       \/ \E from \in User \cup {None} : CreateUser(s, u, from, left)
       \/ \E from \in User : CloneFromUser(s, u, from, left)
       \/ DeleteUser(s, u, left)
  \/ Answered
  \/ RequestLost
  \/ AnswerLost

Spec == Init /\ [][Next]_vars
-----------------------------------------------------------------------------
(* An open session has its user in the library's list, with the            *)
(* passphrases it was opened with: what other sessions do is nothing to it *)
(* (open against close, whose list all sessions to an engine share).        *)
SessionsKeepTheirUser ==
  \A s \in Session :
    IsOpen(s) => userList[sess[s].user] = [auth |-> sess[s].auth, priv |-> sess[s].priv]

(* The library keeps no user without a session, so that one opened after   *)
(* a password change is not given the old keys (the comment in close).     *)
NoForgottenUser == \A u \in User : userList[u] # None => SessionsOf(u) # {}

(* Whatever requests and answers are lost, between calls an active user    *)
(* has a password the program knows of (newpassword with the library's     *)
(* repetitions).                                                           *)
PasswordKnown ==
  req = None => \A u \in User : agent[u].row = "active" => agent[u].auth \in told[u]

(* A call that reports success has had its effect: the keys the flag names *)
(* are those of the new password, the created user is there, with the keys *)
(* of the user it was cloned from, the deleted one is not.                 *)
SuccessMeansDone ==
  done # None /\ req = None =>
    LET row == agent[done.user]
    IN CASE done.kind = "change" -> /\ done.flag # "p" => row.auth = done.new
                                    /\ done.flag # "a" => row.priv = done.new
         [] done.kind = "create" -> row.row = "notReady"
         [] done.kind \in {"createFrom", "cloneFrom"} -> row.row = "active"
         [] done.kind = "delete" -> row = Absent
-----------------------------------------------------------------------------
(* Why these hold.                                                         *)

Rows == [row : {"none", "notReady", "active"},
         auth : Password \cup {None, Junk}, priv : Password \cup {None, Junk}]

(* Every variable has its type; a SET has the fields its kind needs.       *)
TypeOK ==
  /\ sess \in [Session -> Opened \cup {None}]
  /\ userList \in [User -> Keys \cup {None}]
  /\ agent \in [User -> Rows]
  /\ req \in Requests \cup {None}
  /\ told \in [User -> SUBSET Password]
  /\ done \in Sets \cup {None}
  /\ req # None =>
       /\ IsOpen(req.s)
       /\ req.set.kind = "change" => req.set.old \in Password /\ req.set.new \in Password
       /\ req.set.kind \in {"createFrom", "cloneFrom"} => req.set.from \in User

(* What a careful program keeps to.                                        *)
OneSessionEach ==
  \A s, t \in Session : IsOpen(s) /\ IsOpen(t) /\ sess[s].user = sess[t].user => s = t

(* The passwords a SET may give its user.                                  *)
Given(set) ==
  CASE set.kind = "change" -> {set.new}
    [] set.kind \in {"createFrom", "cloneFrom"} -> told[set.from]
    [] OTHER -> {}

(* An active user's key is that of one of these.                           *)
KeyAmong(u, passwords) == agent[u].row = "active" => agent[u].auth \in passwords

(* A change that can reach the agent twice is one of the session's own     *)
(* user: once the agent has changed the key it no longer serves it.        *)
ChangeOnce ==
  LET set == req.set
      u == set.user
  IN req # None /\ set.kind = "change" =>
       /\ told[u] = {set.old}
       /\ set.flag = "a"
       /\ \/ req.left = 0 /\ KeyAmong(u, {set.old})
          \/ /\ u = sess[req.s].user
             /\ KeyAmong(u, {set.old}) \/ sess[req.s].auth # agent[u].auth

(* While the program waits, the user of the SET has a password told before *)
(* or given by the SET.                                                    *)
KnownInv ==
  /\ \A u \in User :
       KeyAmong(u, told[u] \cup IF req # None /\ req.set.user = u
                                THEN Given(req.set) ELSE {})
  /\ ChangeOnce

(* A report is true until the program asks again.                          *)
DoneInv == SuccessMeansDone /\ (req # None => done = None)
=============================================================================
