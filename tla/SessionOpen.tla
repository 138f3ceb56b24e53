---------------------------- MODULE SessionOpen -----------------------------
(***************************************************************************)
(* open of luasnmp.lua and nm_snmp_open: from the table a program fills,   *)
(* the configuration files and the defaults to the session net-snmp gets.  *)
(*                                                                         *)
(* open writes its defaults into the program's table while it checks it,   *)
(* and an open that fails leaves them there: the table a program corrects  *)
(* and tries again is not the one it filled.                               *)
(*                                                                         *)
(* Values stand for what open tells apart; "other" is one of a wrong type  *)
(* or one that means nothing.  A table is used for one session: when that  *)
(* is closed the program takes a new one.                                  *)
(***************************************************************************)
EXTENDS Naturals, Sequences

CONSTANTS
  Filled,   \* tables a program starts with
  Config,   \* what the configuration files may say
  MaxEdits, \* bound: fields of a table the program changes afterwards
  Careful   \* what the program takes care of, a subset of the next

Rules == {"community_for_v1", "sets_again", "passphrases_again", "no_port",
          "no_contextID", "known_privType", "no_defVersion_1", "one_defPassphrase"}

Nil == "nil"
None == [version |-> Nil]

Counts == {"timeout", "retries", "port"}
Version == {"SNMPv1", "SNMPv2C", "SNMPv3"}

Function == {"function", "other"}
Number == {"number", "negative", "other"}

(* The fields of a table, and the values a program may give them.          *)
Values ==
  [version |-> Version \cup {"other"}, community |-> {"private", "other"},
   sprintvar |-> Function, sprintval |-> Function,
   user |-> {"user"}, securityLevel |-> {"noAuthNoPriv", "authPriv", "other"},
   authType |-> {"SHA", "other"}, privType |-> {"AES", "other"},
   password |-> {"pass", "short"}, authPassphrase |-> {"authPass", "short"},
   privPassphrase |-> {"privPass", "short"},
   context |-> {"context"}, engineID |-> {"id", "other"}, contextID |-> {"id2", "other"},
   engineBoots |-> {"other"}, engineTime |-> {"other"},
   timeout |-> Number, retries |-> Number,
   peer |-> {"host", "unknown", "other"}, port |-> Number,
   callback |-> Function, trap |-> Function, inform |-> Function,
   includeroot |-> {"true", "other"}]

Field == DOMAIN Values

(* usertrap is where open keeps the callback that __trap calls.            *)
Names == Field \cup {"usertrap"}

(* Tokens of snmp.conf that open looks at.                                 *)
Token == {"defVersion", "defCommunity", "defSecurityName", "defSecurityLevel",
          "defAuthType", "defPassphrase", "defAuthPassphrase",
          "defPrivPassphrase", "defaultPort"}

(* A table with the fields of r; every other one is nil.                   *)
Table(r, names) == [f \in names |-> IF f \in DOMAIN r THEN r[f] ELSE Nil]

(* What a careful program does not give a field.                           *)
Avoided(f, v) ==
  \/ f = "port" /\ "no_port" \in Careful
  \/ f = "contextID" /\ "no_contextID" \in Careful
  \/ f = "privType" /\ v = "other" /\ "known_privType" \in Careful

(* What the files say of a community or a passphrase is a string; a        *)
(* protocol is no short passphrase.                                        *)
ASSUME OpenAssumption ==
  /\ \A t \in Filled :
       /\ DOMAIN t = Field
       /\ \A f \in Field : t[f] = Nil \/ (t[f] \in Values[f] /\ ~Avoided(f, t[f]))
  /\ \A c \in Config :
       /\ DOMAIN c = Token
       /\ \A k \in {"defCommunity", "defPassphrase", "defAuthPassphrase"} : c[k] # "other"
       /\ c.defAuthType # "short"
  /\ MaxEdits \in Nat
  /\ Careful \subseteq Rules

VARIABLES
  config,  \* what read_config has found
  given,   \* the table as the program has filled it
  table,   \* the table as it is
  edits,   \* changes of the table
  answer,  \* what open has returned: "session", an error, or "none"
  session  \* what net-snmp, the engine and walk use of the session, or None

openVars == <<config, given, table, edits, answer, session>>
-----------------------------------------------------------------------------
(* open of luasnmp.lua.  A check takes the table with the error so far, or *)
(* "none"; it fills in a default, and after an error it does nothing.      *)

Or(a, b) == IF a # Nil THEN a ELSE b

Default(t, f, v) == [t EXCEPT ![f] = Or(@, v)]

(* What a check makes of the table, and its error.                         *)
Check(r, t, ok, err) ==
  IF r.err = "none" THEN [t |-> t, err |-> IF ok THEN "none" ELSE err] ELSE r

(* tonumber(config.defVersion) on versions as snmp.conf has them: 2c is no *)
(* number, and 1 is the constant of version 2c.                            *)
DefVersion ==
  CASE config.defVersion = "1" -> "SNMPv2C"
    [] config.defVersion = "3" -> "SNMPv3"
    [] OTHER -> "SNMPv2C"

CheckVersion(r) ==
  LET u == Default(r.t, "version", DefVersion)
  IN Check(r, u, u.version \in Version, "BADVERSION")

(* No value or a function.                                                 *)
Callable(t, f) == t[f] \in {Nil, "function"}

CheckPrinting(r, f, err) == Check(r, Default(r.t, f, "function"), Callable(r.t, f), err)

CheckPrintvar(r) == CheckPrinting(r, "sprintvar", "BADPRINTVAR")
CheckPrintval(r) == CheckPrinting(r, "sprintval", "BADPRINTVAL")

CheckCommunity(r) ==
  LET u == Default(r.t, "community", Or(config.defCommunity, "public"))
  IN IF r.t.version = "SNMPv2C" THEN Check(r, u, u.community # "other", "BADCOMMUNITY")
     ELSE r

CheckUser(r) ==
  LET u == Default(r.t, "user", config.defSecurityName)
  IN Check(r, u, u.user # Nil, "BADUSER")

CheckLevel(r) ==
  LET u == Default(r.t, "securityLevel", Or(config.defSecurityLevel, "authNoPriv"))
  IN Check(r, u, u.securityLevel # "other", "BADSECLEVEL")

(* A passphrase: its own field, then password, then the configuration.     *)
CheckPassphrase(r, f, token, err) ==
  LET found == IF r.t[f] = Nil /\ r.t.password = Nil
               THEN Or(config.defPassphrase, config[token])
               ELSE Or(r.t[f], r.t.password)
  IN Check(r, [r.t EXCEPT ![f] = found], found # Nil, err)

CheckAuthType(r) ==
  Check(r, Default(r.t, "authType", Or(config.defAuthType, "MD5")), TRUE, "none")

CheckAuth(r) ==
  CheckPassphrase(r, "authPassphrase", "defAuthPassphrase", "BADPASSPHRASE")

(* The default of privType is written to a field nobody reads.             *)
CheckPriv(r) ==
  CheckPassphrase(r, "privPassphrase", "defPrivPassphrase", "BADPRIVPASSPHRASE")

CheckBoots(r) ==
  LET u == Default(Default(r.t, "context", ""), "contextID", r.t.engineID)
  IN Check(r, u, u.engineBoots = Nil, "BADENGBOOTS")

CheckTime(r) == Check(r, r.t, r.t.engineTime = Nil, "BADENGTIME")

CheckV3(r) ==
  LET user == CheckLevel(CheckUser(r))
      keys == CheckPriv(CheckAuth(CheckAuthType(user)))
  IN IF r.t.version = "SNMPv3" THEN CheckTime(CheckBoots(keys)) ELSE r

(* A number that is none becomes nil before it is refused.                 *)
CheckCount(r, f, default, err) ==
  LET u == IF r.t[f] = "other" THEN [r.t EXCEPT ![f] = Nil] ELSE Default(r.t, f, default)
  IN Check(r, u, u[f] \notin {Nil, "negative"}, err)

CheckTimeout(r) == CheckCount(r, "timeout", "1", "BADTIME")
CheckRetries(r) == CheckCount(r, "retries", "5", "BADRETRIES")
CheckPort(r) == CheckCount(r, "port", Or(config.defaultPort, "161"), "BADPORT")

CheckPeer(r) == Check(r, Default(r.t, "peer", "0.0.0.0"), r.t.peer # "other", "BADPEER")

CheckCallback(r) == Check(r, r.t, Callable(r.t, "callback"), "BADCALLBACK")

(* Mutant: the program's callback is not kept.                             *)
CheckTrapLost(r) ==
  LET u == IF r.t.trap = "function" THEN [r.t EXCEPT !.trap = "__trap"] ELSE r.t
  IN Check(r, u, r.t.trap # "other", "BADTRAP")

(* The program's callback is put aside for __trap, which calls it.         *)
CheckTrap(r) ==
  LET u == IF r.t.trap \in {Nil, "other"} THEN r.t
           ELSE [r.t EXCEPT !.usertrap = r.t.trap, !.trap = "__trap"]
  IN Check(r, u, r.t.trap # "other", "BADTRAP")

(* Mutant: informs are not refused with SNMPv1.                            *)
InformAny(r) == Check(r, r.t, TRUE, "INVINFO")

InformAllowed(r) ==
  Check(r, r.t, r.t.inform = Nil \/ r.t.version # "SNMPv1", "INVINFO")

CheckInform(r) == Check(r, r.t, Callable(r.t, "inform"), "BADINFO")

RootAllowed(r) ==
  Check(r, r.t, r.t.includeroot \in {Nil, "false"} \/ r.t.version # "SNMPv1", "INVINFO")

CheckRoot(r) ==
  Check(r, Default(r.t, "includeroot", "false"), r.t.includeroot # "other", "BADINCL")

Checked(r) ==
  LET printing == CheckPrintval(CheckPrintvar(CheckVersion(r)))
      protocol == CheckV3(CheckCommunity(printing))
      network == CheckPort(CheckPeer(CheckRetries(CheckTimeout(protocol))))
      callbacks == CheckInform(InformAllowed(CheckTrap(CheckCallback(network))))
  IN CheckRoot(RootAllowed(callbacks))
-----------------------------------------------------------------------------
(* nm_snmp_open.                                                           *)

(* strlen of no string ends the process.                                   *)
TakeCommunity(r) ==
  Check(r, r.t, r.t.version = "SNMPv3" \/ r.t.community \notin {Nil, "other"}, "crash")

(* generate_Ku refuses short passphrases and needs the protocol.           *)
MakeKey(r, f, err) ==
  Check(r, r.t, r.t.version # "SNMPv3" \/ (r.t.authType # "other" /\ r.t[f] # "short"), err)

MakeAuthKey(r) == MakeKey(r, "authPassphrase", "bad authentication key")
MakePrivKey(r) == MakeKey(r, "privPassphrase", "bad privacy key")

TakeEngine(r) ==
  Check(r, r.t, r.t.version # "SNMPv3" \/ r.t.engineID # "other", "bad engine id")

TakePeer(r) == Check(r, r.t, r.t.peer # "unknown", "bad peer address")

Taken(r) == TakePeer(TakeEngine(MakePrivKey(MakeAuthKey(TakeCommunity(r)))))

(* The session.  An encryption that is not given or not known is left to   *)
(* the library, which takes DES; contextId and the port are never set.     *)
Session(t) ==
  LET v3 == t.version = "SNMPv3"
  IN [version |-> t.version,
      community |-> IF v3 THEN Nil ELSE t.community,
      user |-> IF v3 THEN t.user ELSE Nil,
      securityLevel |-> IF v3 THEN t.securityLevel ELSE Nil,
      auth |-> IF v3 THEN <<t.authType, t.authPassphrase>> ELSE <<>>,
      priv |-> IF v3 THEN <<IF t.privType = "AES" THEN "AES" ELSE "DES", t.privPassphrase>>
               ELSE <<>>,
      context |-> IF v3 THEN t.context ELSE Nil,
      engineID |-> IF v3 THEN t.engineID ELSE Nil,
      contextID |-> IF v3 THEN t.engineID ELSE Nil,
      timeout |-> t.timeout, retries |-> t.retries, peer |-> t.peer, port |-> "161",
      callback |-> t.callback, inform |-> t.inform,
      trap |-> IF t.trap = Nil THEN Nil ELSE t.usertrap,
      includeroot |-> t.includeroot = "true"]
-----------------------------------------------------------------------------
Take(t) ==
  /\ given' = t
  /\ table' = Table(t, Names)
  /\ edits' = 0
  /\ answer' = "none"
  /\ session' = None

OpenInit ==
  /\ config \in Config
  /\ "no_defVersion_1" \in Careful => config.defVersion # "1"
  /\ "no_port" \in Careful => config.defaultPort = Nil
  /\ "one_defPassphrase" \in Careful =>
       config.defPassphrase = Nil
       \/ (config.defAuthPassphrase = Nil /\ config.defPrivPassphrase = Nil)
  /\ given \in Filled
  /\ table = Table(given, Names)
  /\ edits = 0
  /\ answer = "none"
  /\ session = None

Filling == session = None /\ answer # "crash"

(* The program sets a field, before it opens the session or after that     *)
(* has failed.                                                             *)
SetField(f, v) ==
  /\ Filling
  /\ edits < MaxEdits
  /\ v # table[f]
  /\ ~Avoided(f, v)
  /\ f = "password" /\ "passphrases_again" \in Careful =>
       \A p \in {"authPassphrase", "privPassphrase"} : table[p] = given[p]
  /\ given' = [given EXCEPT ![f] = v]
  /\ table' = [table EXCEPT ![f] = v]
  /\ edits' = edits + 1
  /\ answer' = "none"
  /\ UNCHANGED <<config, session>>

(* What open takes from the table when it fails is set again.              *)
SetAgain ==
  \A f \in Counts \cup {"trap"} : given[f] # Nil => table[f] = given[f]

(* The program opens the session.  snmp_open may fail for reasons of its   *)
(* own.                                                                    *)
Open ==
  /\ Filling
  /\ "sets_again" \in Careful => SetAgain
  /\ "community_for_v1" \in Careful /\ given.version = "SNMPv1" =>
       given.community \notin {Nil, "other"}
  /\ LET r == Checked([t |-> table, err |-> "none"])
         c == Taken(r)
     IN /\ table' = r.t
        /\ \/ /\ c.err = "none"
              /\ answer' = "session"
              /\ session' = Session(r.t)
           \/ /\ answer' = IF c.err = "none" THEN "library" ELSE c.err
              /\ session' = None
  /\ UNCHANGED <<config, given, edits>>

Close ==
  /\ session # None
  /\ \E t \in Filled : Take(t)
  /\ UNCHANGED config

(* The program gives a table up.                                           *)
Drop ==
  /\ Filling
  /\ \E t \in Filled : Take(t)
  /\ UNCHANGED config

OpenNext ==
  \/ \E f \in Field : \E v \in Values[f] \cup {Nil} : SetField(f, v)
  \/ Open
  \/ Close
  \/ Drop
-----------------------------------------------------------------------------
(* The documentation of a session's parameters (objects.html, snmp.html on *)
(* open): what is given, what the configuration says, the default, in this *)
(* order.                                                                  *)

MeantVersion(t) ==
  Or(t.version, CASE config.defVersion = "1" -> "SNMPv1"
                  [] config.defVersion = "3" -> "SNMPv3"
                  [] OTHER -> "SNMPv2C")

MeantPassphrase(t, f, token) ==
  Or(t[f], Or(t.password, Or(config[token], config.defPassphrase)))

Meant(t) ==
  LET v3 == MeantVersion(t) = "SNMPv3"
      OfV3(v) == IF v3 THEN v ELSE Nil
  IN [version |-> MeantVersion(t),
      community |-> IF v3 THEN Nil ELSE Or(t.community, Or(config.defCommunity, "public")),
      user |-> OfV3(Or(t.user, config.defSecurityName)),
      securityLevel |-> OfV3(Or(t.securityLevel, Or(config.defSecurityLevel, "authNoPriv"))),
      auth |-> IF v3 THEN <<Or(t.authType, Or(config.defAuthType, "MD5")),
                            MeantPassphrase(t, "authPassphrase", "defAuthPassphrase")>>
               ELSE <<>>,
      priv |-> IF v3 THEN <<Or(t.privType, "DES"),
                            MeantPassphrase(t, "privPassphrase", "defPrivPassphrase")>>
               ELSE <<>>,
      context |-> OfV3(Or(t.context, "")),
      engineID |-> OfV3(t.engineID),
      contextID |-> OfV3(Or(t.contextID, t.engineID)),
      timeout |-> Or(t.timeout, "1"),
      retries |-> Or(t.retries, "5"),
      peer |-> Or(t.peer, "0.0.0.0"),
      port |-> Or(t.port, Or(config.defaultPort, "161")),
      callback |-> t.callback, inform |-> t.inform, trap |-> t.trap,
      includeroot |-> t.includeroot = "true"]

(* Whether a table deserves an error.  Version 3 needs both passphrases,   *)
(* whatever the security level.                                            *)
Deserves(t, err) ==
  LET v == MeantVersion(t)
      v3 == v = "SNMPv3"
      m == Meant(t)
  IN CASE err = "BADVERSION" -> v = "other"
       [] err = "BADPRINTVAR" -> t.sprintvar = "other"
       [] err = "BADPRINTVAL" -> t.sprintval = "other"
       [] err = "BADCOMMUNITY" -> ~v3 /\ t.community = "other"
       [] err = "BADUSER" -> v3 /\ m.user = Nil
       [] err = "BADSECLEVEL" -> m.securityLevel = "other"
       [] err = "BADPASSPHRASE" -> v3 /\ m.auth[2] = Nil
       [] err = "BADPRIVPASSPHRASE" -> v3 /\ m.priv[2] = Nil
       [] err = "BADENGBOOTS" -> v3 /\ t.engineBoots # Nil
       [] err = "BADENGTIME" -> v3 /\ t.engineTime # Nil
       [] err = "BADTIME" -> t.timeout \in {"negative", "other"}
       [] err = "BADRETRIES" -> t.retries \in {"negative", "other"}
       [] err = "BADPORT" -> t.port \in {"negative", "other"}
       [] err = "BADPEER" -> t.peer = "other"
       [] err = "BADCALLBACK" -> t.callback = "other"
       [] err = "BADTRAP" -> t.trap = "other"
       [] err = "BADINFO" -> t.inform = "other"
       [] err = "INVINFO" -> v = "SNMPv1" /\ (t.inform # Nil \/ t.includeroot # Nil)
       [] err = "BADINCL" -> t.includeroot = "other"
       [] err = "bad authentication key" -> v3 /\ {m.auth[1], m.auth[2]} \cap {"other", "short"} # {}
       [] err = "bad privacy key" -> v3 /\ m.priv[2] = "short"
       [] err = "bad engine id" -> v3 /\ t.engineID = "other"
       [] err = "bad peer address" -> t.peer = "unknown"
       [] err = "crash" -> FALSE
       [] OTHER -> TRUE

Errors == {"BADVERSION", "BADPRINTVAR", "BADPRINTVAL", "BADCOMMUNITY", "BADUSER",
           "BADSECLEVEL", "BADPASSPHRASE", "BADPRIVPASSPHRASE", "BADENGBOOTS",
           "BADENGTIME", "BADTIME", "BADRETRIES", "BADPORT", "BADPEER", "BADCALLBACK",
           "BADTRAP", "BADINFO", "INVINFO", "BADINCL", "bad authentication key",
           "bad privacy key", "bad engine id", "bad peer address"}

(* A session that is open is the one the program's table describes, also   *)
(* when it took several attempts: what failed ones have left in the table  *)
(* changes nothing (open's defaults, and __trap in the place of trap).     *)
OpenedAsMeant == session # None => session = Meant(given)

(* open refuses a table that has the fault its error names, and accepts    *)
(* only tables without one, whatever earlier attempts have made of it.     *)
RefusedForCause ==
  /\ answer \notin {"none", "session"} => Deserves(given, answer)
  /\ answer = "session" => \A err \in Errors : ~Deserves(given, err)
-----------------------------------------------------------------------------
(* Why these hold.                                                         *)

(* What open writes into a field that is nil.                              *)
Fills(g) ==
  [version |-> DefVersion, sprintvar |-> "function", sprintval |-> "function",
   community |-> Or(config.defCommunity, "public"), user |-> config.defSecurityName,
   securityLevel |-> Or(config.defSecurityLevel, "authNoPriv"),
   authType |-> Or(config.defAuthType, "MD5"),
   authPassphrase |-> MeantPassphrase(g, "authPassphrase", "defAuthPassphrase"),
   privPassphrase |-> MeantPassphrase(g, "privPassphrase", "defPrivPassphrase"),
   context |-> "", contextID |-> g.engineID,
   timeout |-> "1", retries |-> "5", port |-> Or(config.defaultPort, "161"),
   peer |-> "0.0.0.0", includeroot |-> "false"]

(* What open may have made of a table filled as g, by its attempts so far: *)
(* a field is as given, or filled in, or taken from the table.  Nobody     *)
(* reads contextID, which keeps an engineID that was given before.         *)
MadeOf(g, t) ==
  /\ DOMAIN t = Names
  /\ \A f \in Field \ {"contextID"} :
       \/ t[f] = g[f]
       \/ f \in DOMAIN Fills(g) /\ g[f] = Nil /\ t[f] = Fills(g)[f]
       \/ f \in Counts /\ g[f] = "other" /\ t[f] = Nil
       \/ f = "trap" /\ g[f] = "function" /\ t[f] = "__trap"

(* The configuration and what the program has given.                       *)
GivenOK ==
  /\ config \in Config
  /\ config.defVersion # "1" /\ config.defaultPort = Nil
  /\ \/ config.defPassphrase = Nil
     \/ config.defAuthPassphrase = Nil /\ config.defPrivPassphrase = Nil
  /\ DOMAIN given = Field
  /\ \A f \in Field : given[f] = Nil \/ (given[f] \in Values[f] /\ ~Avoided(f, given[f]))

OpenInv == GivenOK /\ MadeOf(given, table) /\ OpenedAsMeant /\ RefusedForCause
=============================================================================
