--------------------------- MODULE Session_proofs ---------------------------
(***************************************************************************)
(* Theorems about the Lua session layer.                                   *)
(*                                                                         *)
(* open: a careful program gets the session its table describes, and an    *)
(* error only for a fault of the table, for any configuration files, any   *)
(* tables, any number of attempts and of changes between them.  open is a  *)
(* chain of checks.  For each the proof shows what it makes of the table,  *)
(* that its errors are deserved and that no fault it looks for gets past   *)
(* it (Passes); one lemma puts two links of the chain together.            *)
(*                                                                         *)
(* walk: for any objects, roots and sessions, any number of changes of the *)
(* agent's tree and any answers.                                           *)
(***************************************************************************)
EXTENDS Walk, SequenceTheorems, WellFoundedInduction, TLAPS

(* The program takes care of everything SessionOpen lists.                 *)
CarefulProgram == Careful = Rules

LEMMA Fields ==
  /\ Field = {"version", "community", "sprintvar", "sprintval", "user", "securityLevel",
              "authType", "privType", "password", "authPassphrase", "privPassphrase",
              "context", "engineID", "contextID", "engineBoots", "engineTime", "timeout",
              "retries", "peer", "port", "callback", "trap", "inform", "includeroot"}
  /\ "usertrap" \notin Field
BY DEF Field, Values

(* The fields open fills in.                                               *)
Filled_in == {"version", "sprintvar", "sprintval", "community", "user", "securityLevel",
              "authType", "authPassphrase", "privPassphrase", "context", "contextID",
              "timeout", "retries", "port", "peer", "includeroot"}

LEMMA FilledIn == \A g : DOMAIN Fills(g) = Filled_in
BY DEF Fills, Filled_in

(* What a careful program may have given.                                  *)
Given(g) ==
  /\ DOMAIN g = Field
  /\ \A f \in Field : g[f] = Nil \/ (g[f] \in Values[f] /\ ~Avoided(f, g[f]))

LEMMA GivenValues ==
  ASSUME CarefulProgram, NEW g, Given(g)
  PROVE  /\ g.version \in Version \cup {"other", Nil}
         /\ g.community \in {"private", "other", Nil}
         /\ \A f \in {"sprintvar", "sprintval", "callback", "trap", "inform"} :
              g[f] \in Function \cup {Nil}
         /\ g.port = Nil /\ g.contextID = Nil
         /\ \A f \in {"timeout", "retries"} : g[f] \in Number \cup {Nil}
         /\ g.privType \in {"AES", Nil}
         /\ g.peer \in {"host", "unknown", "other", Nil}
         /\ g.includeroot \in {"true", "other", Nil}
         /\ g.user # "other" /\ g.authType \in {"SHA", "other", Nil}
         /\ \A f \in {"password", "authPassphrase", "privPassphrase"} : g[f] # "other"
<1> USE DEF Given
<1>1. \A f \in Field : g[f] \in Values[f] \cup {Nil}
  OBVIOUS
<1>2. g.port = Nil /\ g.contextID = Nil /\ g.privType # "other"
  BY Fields DEF CarefulProgram, Rules, Avoided, Nil
<1>3. /\ Values.version = Version \cup {"other"} /\ Values.community = {"private", "other"}
      /\ \A f \in {"sprintvar", "sprintval", "callback", "trap", "inform"} :
           Values[f] = Function
      /\ \A f \in {"timeout", "retries"} : Values[f] = Number
      /\ Values.privType = {"AES", "other"} /\ Values.peer = {"host", "unknown", "other"}
      /\ Values.includeroot = {"true", "other"} /\ Values.user = {"user"}
      /\ Values.authType = {"SHA", "other"}
      /\ Values.password = {"pass", "short"}
      /\ Values.authPassphrase = {"authPass", "short"}
      /\ Values.privPassphrase = {"privPass", "short"}
  BY DEF Values
<1> QED
  BY <1>1, <1>2, <1>3, Fields DEF Nil

(* What the configuration files may say to a careful program.              *)
Configured ==
  /\ config.defVersion # "1" /\ config.defaultPort = Nil
  /\ config.defCommunity # "other"
  /\ \/ config.defPassphrase = Nil
     \/ config.defAuthPassphrase = Nil /\ config.defPrivPassphrase = Nil
  /\ config.defPassphrase # "other" /\ config.defAuthPassphrase # "other"
  /\ config.defAuthType # "short"

(* The program, its configuration and its table.                           *)
Setting(g) ==
  /\ CarefulProgram /\ Configured /\ Given(g)
  /\ g.version = "SNMPv1" => g.community \notin {Nil, "other"}

(* The version a session of table g has.                                   *)
LEMMA VersionOf ==
  ASSUME NEW g, Setting(g)
  PROVE  /\ MeantVersion(g) = Or(g.version, DefVersion)
         /\ MeantVersion(g) \in Version \cup {"other"}
         /\ MeantVersion(g) = "SNMPv1" => g.version = "SNMPv1"
         /\ MeantVersion(g) = "other" <=> g.version = "other"
         /\ DefVersion \in {"SNMPv2C", "SNMPv3"}
<1>1. g.version \in Version \cup {"other", Nil}
  BY GivenValues DEF Setting
<1>2. config.defVersion # "1"
  BY DEF Setting, Configured
<1> QED
  BY <1>1, <1>2 DEF MeantVersion, DefVersion, Or, Version, Nil

(* The faults of a table, one by one.                                      *)
LEMMA Faults ==
  ASSUME NEW g
  PROVE  LET v3 == MeantVersion(g) = "SNMPv3"
             auth == MeantPassphrase(g, "authPassphrase", "defAuthPassphrase")
             priv == MeantPassphrase(g, "privPassphrase", "defPrivPassphrase")
         IN /\ Deserves(g, "BADVERSION") <=> MeantVersion(g) = "other"
            /\ Deserves(g, "BADPRINTVAR") <=> g.sprintvar = "other"
            /\ Deserves(g, "BADPRINTVAL") <=> g.sprintval = "other"
            /\ Deserves(g, "BADCOMMUNITY") <=> ~v3 /\ g.community = "other"
            /\ Deserves(g, "BADUSER") <=> v3 /\ Or(g.user, config.defSecurityName) = Nil
            /\ Deserves(g, "BADSECLEVEL") <=>
                 v3 /\ Or(g.securityLevel, Or(config.defSecurityLevel, "authNoPriv")) = "other"
            /\ Deserves(g, "BADPASSPHRASE") <=> v3 /\ auth = Nil
            /\ Deserves(g, "BADPRIVPASSPHRASE") <=> v3 /\ priv = Nil
            /\ Deserves(g, "BADENGBOOTS") <=> v3 /\ g.engineBoots # Nil
            /\ Deserves(g, "BADENGTIME") <=> v3 /\ g.engineTime # Nil
            /\ Deserves(g, "BADTIME") <=> g.timeout \in {"negative", "other"}
            /\ Deserves(g, "BADRETRIES") <=> g.retries \in {"negative", "other"}
            /\ Deserves(g, "BADPORT") <=> g.port \in {"negative", "other"}
            /\ Deserves(g, "BADPEER") <=> g.peer = "other"
            /\ Deserves(g, "BADCALLBACK") <=> g.callback = "other"
            /\ Deserves(g, "BADTRAP") <=> g.trap = "other"
            /\ Deserves(g, "BADINFO") <=> g.inform = "other"
            /\ Deserves(g, "INVINFO") <=>
                 MeantVersion(g) = "SNMPv1" /\ (g.inform # Nil \/ g.includeroot # Nil)
            /\ Deserves(g, "BADINCL") <=> g.includeroot = "other"
            /\ Deserves(g, "bad authentication key") <=>
                 v3 /\ {Or(g.authType, Or(config.defAuthType, "MD5")), auth}
                         \cap {"other", "short"} # {}
            /\ Deserves(g, "bad privacy key") <=> v3 /\ priv = "short"
            /\ Deserves(g, "bad engine id") <=> v3 /\ g.engineID = "other"
            /\ Deserves(g, "bad peer address") <=> g.peer = "unknown"
            /\ Deserves(g, "library")
BY DEF Deserves, Meant, Nil

-----------------------------------------------------------------------------
(* Links of the chain.                                                     *)

V3Fields == {"user", "securityLevel", "authType", "authPassphrase", "privPassphrase",
             "context"}

(* Field f of t is what a session of table g has there.                    *)
Settled(g, t, f) ==
  CASE f = "trap" -> t[f] = Nil <=> g.trap = Nil
    [] f = "usertrap" -> g.trap # Nil => t[f] = g.trap
    [] f = "contextID" -> TRUE
    [] f = "community" -> MeantVersion(g) # "SNMPv3" => t[f] = Or(g[f], Fills(g)[f])
    [] f \in V3Fields -> MeantVersion(g) = "SNMPv3" => t[f] = Or(g[f], Fills(g)[f])
    [] OTHER -> t[f] = Or(g[f], Fills(g)[f])

(* A part of open that looks at table t, in the place of g, with result r: *)
(* it touches the fields F and looks for the faults E.                     *)
Passes(g, t, r, F, E) ==
  /\ MadeOf(g, r.t)
  /\ \A f \in Names \ F : r.t[f] = t[f]
  /\ r.err = "none" \/ (r.err \in E /\ Deserves(g, r.err))
  /\ r.err = "none" =>
       /\ \A e \in E : ~Deserves(g, e)
       /\ \A f \in F : Settled(g, r.t, f)

LEMMA SettledStays ==
  ASSUME NEW g, NEW t, NEW u, NEW f, Settled(g, t, f), u[f] = t[f]
  PROVE  Settled(g, u, f)
BY DEF Settled, V3Fields

LEMMA Link ==
  ASSUME NEW g, NEW t, NEW r, NEW q, NEW F, NEW E, NEW F2, NEW E2,
         Passes(g, t, r, F, E), F \subseteq Names, F \cap F2 = {},
         r.err = "none" => Passes(g, r.t, q, F2, E2), r.err # "none" => q = r
  PROVE  Passes(g, t, q, F \cup F2, E \cup E2)
<1>1. CASE r.err # "none"
  BY <1>1 DEF Passes
<1>2. CASE r.err = "none"
  <2>1. Passes(g, r.t, q, F2, E2)
    BY <1>2
  <2>2. q.err = "none" => \A f \in F : Settled(g, q.t, f)
    BY <1>2, <2>1, SettledStays DEF Passes
  <2> QED
    BY <1>2, <2>1, <2>2 DEF Passes
<1> QED
  BY <1>1, <1>2

(* Table t has passed what went before.                                    *)
Result(r, t) == r.err = "none" /\ r.t = t

(* A default that is filled in.                                            *)
LEMMA DefaultFills ==
  ASSUME NEW g, NEW t, MadeOf(g, t), NEW f \in Filled_in, NEW v,
         f = "contextID" \/ v = Fills(g)[f], f \in Counts => (t[f] = Nil => g[f] = Nil)
  PROVE  LET u == Default(t, f, v)
         IN /\ MadeOf(g, u) /\ DOMAIN u = Names
            /\ \A x \in Names \ {f} : u[x] = t[x]
            /\ u[f] = Or(t[f], v)
            /\ f \notin Counts \cup {"contextID"} => u[f] = Or(g[f], Fills(g)[f])
            /\ f \in Counts /\ (t[f] = g[f] \/ g[f] = Nil) => u[f] = Or(g[f], Fills(g)[f])
<1> DEFINE u == Default(t, f, v)
<1>1. f \in Field /\ f # "trap"
  BY Fields DEF Filled_in
<1>2. DOMAIN t = Names /\ f \in Names
  BY <1>1 DEF MadeOf, Names
<1>3. /\ DOMAIN u = Names /\ u[f] = Or(t[f], v)
      /\ \A x \in Names \ {f} : u[x] = t[x]
  BY <1>2 DEF Default
<1>4. f # "contextID" =>
        \/ t[f] = g[f]
        \/ g[f] = Nil /\ t[f] = Fills(g)[f]
        \/ f \in Counts /\ g[f] = "other" /\ t[f] = Nil
  BY <1>1 DEF MadeOf
<1>5. f # "contextID" => u[f] = g[f] \/ (g[f] = Nil /\ u[f] = Fills(g)[f])
                           \/ (f \in Counts /\ g[f] = "other" /\ u[f] = Nil)
  BY <1>3, <1>4 DEF Or
<1>6. MadeOf(g, u)
  <2> SUFFICES ASSUME NEW x \in Field \ {"contextID"}
               PROVE  \/ u[x] = g[x]
                      \/ x \in DOMAIN Fills(g) /\ g[x] = Nil /\ u[x] = Fills(g)[x]
                      \/ x \in Counts /\ g[x] = "other" /\ u[x] = Nil
                      \/ x = "trap" /\ g[x] = "function" /\ u[x] = "__trap"
    BY <1>3 DEF MadeOf
  <2>1. CASE x = f
    BY <2>1, <1>5, FilledIn
  <2>2. CASE x # f
    <3>1. u[x] = t[x]
      BY <2>2, <1>3 DEF Names
    <3> QED
      BY <3>1 DEF MadeOf
  <2> QED
    BY <2>1, <2>2
<1>7. f \notin Counts \cup {"contextID"} => u[f] = Or(g[f], Fills(g)[f])
  BY <1>3, <1>4 DEF Or
<1>8. f \in Counts /\ (t[f] = g[f] \/ g[f] = Nil) => u[f] = Or(g[f], Fills(g)[f])
  BY <1>1, <1>3, <1>4 DEF Or, Counts, Nil
<1> QED
  BY <1>3, <1>6, <1>7, <1>8

LEMMA VersionPasses ==
  ASSUME NEW g, NEW r, NEW t, Result(r, t), Setting(g), MadeOf(g, t)
  PROVE  Passes(g, t, CheckVersion(r), {"version"}, {"BADVERSION"})
<1> DEFINE u == Default(t, "version", DefVersion)
<1>1. Fills(g)["version"] = DefVersion
  BY DEF Fills
<1>2. MadeOf(g, u) /\ (\A x \in Names \ {"version"} : u[x] = t[x])
        /\ u["version"] = Or(g["version"], Fills(g)["version"])
  BY <1>1, DefaultFills DEF Filled_in, Counts
<1>3. u.version = MeantVersion(g) /\ MeantVersion(g) \in Version \cup {"other"}
  BY <1>1, <1>2, VersionOf
<1>4. CheckVersion(r) = [t |-> u, err |-> IF u.version \in Version THEN "none" ELSE "BADVERSION"]
  BY DEF CheckVersion, Check, Result
<1>5. Settled(g, u, "version")
  BY <1>2 DEF Settled, V3Fields
<1>6. Deserves(g, "BADVERSION") <=> MeantVersion(g) = "other"
  BY Faults
<1> QED
  BY <1>2, <1>3, <1>4, <1>5, <1>6 DEF Passes, Version

(* A check that fills in a default and looks at the field afterwards.      *)
LEMMA PrintPasses ==
  ASSUME NEW g, NEW r, NEW t, Result(r, t), Setting(g), MadeOf(g, t),
         NEW f \in {"sprintvar", "sprintval"}, NEW err, err # "none",
         Deserves(g, err) <=> g[f] = "other"
  PROVE  Passes(g, t, CheckPrinting(r, f, err), {f}, {err})
<1> DEFINE u == Default(t, f, "function")
<1>0. Fills(g)["sprintvar"] = "function" /\ Fills(g)["sprintval"] = "function"
  BY DEF Fills
<1>1. Fills(g)[f] = "function" /\ f \in Filled_in /\ f \in Field
        /\ f \notin Counts \cup V3Fields
        /\ f \notin {"contextID", "trap", "usertrap", "community"}
  BY <1>0, Fields DEF Filled_in, Counts, V3Fields
<1>2. MadeOf(g, u) /\ (\A x \in Names \ {f} : u[x] = t[x])
        /\ u[f] = Or(g[f], Fills(g)[f])
  BY <1>1, DefaultFills
<1>3. t[f] = g[f] \/ (g[f] = Nil /\ t[f] = "function")
  BY <1>1 DEF MadeOf
<1>4. g[f] \in Function \cup {Nil}
  BY GivenValues DEF Setting
<1>5. Callable(t, f) <=> g[f] # "other"
  BY <1>3, <1>4 DEF Callable, Function, Nil
<1>6. Settled(g, u, f)
  BY <1>1, <1>2 DEF Settled
<1> QED
  BY <1>2, <1>5, <1>6 DEF Passes, Check, CheckPrinting, Result

LEMMA PrintingPasses ==
  ASSUME NEW g, NEW r, NEW t, Result(r, t), Setting(g), MadeOf(g, t)
  PROVE  /\ Passes(g, t, CheckPrintvar(r), {"sprintvar"}, {"BADPRINTVAR"})
         /\ Passes(g, t, CheckPrintval(r), {"sprintval"}, {"BADPRINTVAL"})
<1>1. /\ Deserves(g, "BADPRINTVAR") <=> g["sprintvar"] = "other"
      /\ Deserves(g, "BADPRINTVAL") <=> g["sprintval"] = "other"
  BY Faults
<1> QED
  BY <1>1, PrintPasses DEF CheckPrintvar, CheckPrintval

LEMMA CommunityPasses ==
  ASSUME NEW g, NEW r, NEW t, Result(r, t), Setting(g), MadeOf(g, t),
         t.version = MeantVersion(g), t.version \in Version
  PROVE  Passes(g, t, CheckCommunity(r), {"community"}, {"BADCOMMUNITY"})
<1> DEFINE u == Default(t, "community", Or(config.defCommunity, "public"))
<1>1. Fills(g)["community"] = Or(config.defCommunity, "public")
  BY DEF Fills
<1>2. MadeOf(g, u) /\ (\A x \in Names \ {"community"} : u[x] = t[x])
        /\ u["community"] = Or(g["community"], Fills(g)["community"])
  BY <1>1, DefaultFills DEF Filled_in, Counts
<1>3. Deserves(g, "BADCOMMUNITY") <=> MeantVersion(g) # "SNMPv3" /\ g.community = "other"
  BY Faults
<1>4. CASE t.version = "SNMPv2C"
  <2>1. CheckCommunity(r)
          = [t |-> u, err |-> IF u.community # "other" THEN "none" ELSE "BADCOMMUNITY"]
    BY <1>4 DEF CheckCommunity, Check, Result
  <2>2. u.community = "other" <=> g.community = "other"
    BY <1>1, <1>2 DEF Setting, Configured, Or, Nil
  <2>3. Settled(g, u, "community")
    BY <1>2 DEF Settled, V3Fields
  <2> QED
    BY <1>2, <1>3, <1>4, <2>1, <2>2, <2>3 DEF Passes
<1>5. CASE t.version # "SNMPv2C"
  <2>1. CheckCommunity(r) = r
    BY <1>5 DEF CheckCommunity, Check, Result
  <2>2. t.version = "SNMPv1" => g.community \notin {Nil, "other"} /\ g.version = "SNMPv1"
    BY VersionOf DEF Setting
  <2>3. "community" \in Field \ {"contextID"} /\ "community" \notin Counts \cup {"trap"}
    BY Fields DEF Counts
  <2>4. t.community = g.community \/ g.community = Nil
    BY <2>3 DEF MadeOf
  <2>5. MeantVersion(g) # "SNMPv3"
          => t["community"] = Or(g["community"], Fills(g)["community"])
    <3>1. MeantVersion(g) # "SNMPv3" => g.community # Nil
      BY <1>5, <2>2 DEF Version
    <3> QED
      BY <3>1, <2>4 DEF Or
  <2>6. Settled(g, t, "community")
    BY <2>5 DEF Settled, V3Fields
  <2> QED
    BY <1>3, <1>5, <2>1, <2>2, <2>6 DEF Passes, Version, Result
<1> QED
  BY <1>4, <1>5

LEMMA UserPasses ==
  ASSUME NEW g, NEW r, NEW t, Result(r, t), Setting(g), MadeOf(g, t), MeantVersion(g) = "SNMPv3"
  PROVE  Passes(g, t, CheckUser(r), {"user"}, {"BADUSER"})
<1> DEFINE u == Default(t, "user", config.defSecurityName)
<1>1. Fills(g)["user"] = config.defSecurityName
  BY DEF Fills
<1>2. MadeOf(g, u) /\ (\A x \in Names \ {"user"} : u[x] = t[x])
        /\ u["user"] = Or(g["user"], Fills(g)["user"])
  BY <1>1, DefaultFills DEF Filled_in, Counts
<1>3. Deserves(g, "BADUSER") <=> u["user"] = Nil
  BY <1>1, <1>2, Faults
<1>4. CheckUser(r) = [t |-> u, err |-> IF u.user # Nil THEN "none" ELSE "BADUSER"]
  BY DEF CheckUser, Check, Result
<1>5. Settled(g, u, "user")
  BY <1>2 DEF Settled, V3Fields
<1> QED
  BY <1>2, <1>3, <1>4, <1>5 DEF Passes

LEMMA LevelPasses ==
  ASSUME NEW g, NEW r, NEW t, Result(r, t), Setting(g), MadeOf(g, t), MeantVersion(g) = "SNMPv3"
  PROVE  Passes(g, t, CheckLevel(r), {"securityLevel"}, {"BADSECLEVEL"})
<1> DEFINE v == Or(config.defSecurityLevel, "authNoPriv")
           u == Default(t, "securityLevel", v)
<1>1. Fills(g)["securityLevel"] = v
  BY DEF Fills
<1>2. MadeOf(g, u) /\ (\A x \in Names \ {"securityLevel"} : u[x] = t[x])
        /\ u["securityLevel"] = Or(g["securityLevel"], Fills(g)["securityLevel"])
  BY <1>1, DefaultFills DEF Filled_in, Counts
<1>3. Deserves(g, "BADSECLEVEL") <=> u["securityLevel"] = "other"
  BY <1>1, <1>2, Faults
<1>4. CheckLevel(r)
        = [t |-> u, err |-> IF u.securityLevel # "other" THEN "none" ELSE "BADSECLEVEL"]
  BY DEF CheckLevel, Check, Result
<1>5. Settled(g, u, "securityLevel")
  BY <1>2 DEF Settled, V3Fields
<1> QED
  BY <1>2, <1>3, <1>4, <1>5 DEF Passes

LEMMA PassphrasePasses ==
  ASSUME NEW g, NEW r, NEW t, Result(r, t), Setting(g), MadeOf(g, t), MeantVersion(g) = "SNMPv3",
         NEW f, NEW token, NEW err, err # "none",
         \/ f = "authPassphrase" /\ token = "defAuthPassphrase"
         \/ f = "privPassphrase" /\ token = "defPrivPassphrase",
         Deserves(g, err) <=> MeantPassphrase(g, f, token) = Nil
  PROVE  Passes(g, t, CheckPassphrase(r, f, token, err), {f}, {err})
<1> DEFINE v == MeantPassphrase(g, f, token)
           u == Default(t, f, v)
           found == IF t[f] = Nil /\ t.password = Nil
                    THEN Or(config.defPassphrase, config[token])
                    ELSE Or(t[f], t.password)
<1>1. Fills(g)[f] = v
  <2>1. /\ Fills(g)["authPassphrase"]
             = MeantPassphrase(g, "authPassphrase", "defAuthPassphrase")
        /\ Fills(g)["privPassphrase"]
             = MeantPassphrase(g, "privPassphrase", "defPrivPassphrase")
    BY DEF Fills
  <2> QED
    BY <2>1
<1>2. f \in Filled_in /\ f \in Field /\ f \notin Counts \cup {"contextID", "trap"}
  BY Fields DEF Filled_in, Counts
<1>3. MadeOf(g, u) /\ (\A x \in Names \ {f} : u[x] = t[x])
        /\ u[f] = Or(g[f], Fills(g)[f]) /\ u[f] = Or(t[f], v)
  BY <1>1, <1>2, DefaultFills
<1>4. t[f] = g[f] \/ (g[f] = Nil /\ t[f] = v)
  BY <1>1, <1>2 DEF MadeOf
<1>5. t.password = g.password
  <2>1. "password" \in Field \ {"contextID"} /\ "password" \notin Filled_in \cup Counts \cup {"trap"}
    BY Fields DEF Filled_in, Counts
  <2> QED
    BY <2>1, FilledIn DEF MadeOf
<1>6. Or(config.defPassphrase, config[token]) = Or(config[token], config.defPassphrase)
  BY DEF Setting, Configured, Or
<1>7. v = Or(g[f], Or(g.password, Or(config[token], config.defPassphrase)))
  BY DEF MeantPassphrase
<1>8. found = v /\ Or(t[f], v) = v /\ Or(g[f], v) = v
  BY <1>4, <1>5, <1>6, <1>7 DEF Or
<1>9. CheckPassphrase(r, f, token, err) = [t |-> u, err |-> IF v # Nil THEN "none" ELSE err]
  BY <1>8 DEF CheckPassphrase, Check, Default, Result
<1>10. Settled(g, u, f)
  BY <1>2, <1>3 DEF Settled, V3Fields
<1> QED
  BY <1>3, <1>9, <1>10 DEF Passes

LEMMA AuthTypePasses ==
  ASSUME NEW g, NEW r, NEW t, Result(r, t), Setting(g), MadeOf(g, t),
         MeantVersion(g) = "SNMPv3"
  PROVE  Passes(g, t, CheckAuthType(r), {"authType"}, {})
<1> DEFINE v == Or(config.defAuthType, "MD5")
           u == Default(t, "authType", v)
<1>1. Fills(g)["authType"] = v
  BY DEF Fills
<1>2. MadeOf(g, u) /\ (\A x \in Names \ {"authType"} : u[x] = t[x])
        /\ u["authType"] = Or(g["authType"], Fills(g)["authType"])
  BY <1>1, DefaultFills DEF Filled_in, Counts
<1>3. Settled(g, u, "authType")
  BY <1>2 DEF Settled, V3Fields
<1>4. CheckAuthType(r) = [t |-> u, err |-> "none"]
  BY DEF CheckAuthType, Check, Result
<1> QED
  BY <1>2, <1>3, <1>4 DEF Passes

LEMMA AuthPasses ==
  ASSUME NEW g, NEW r, NEW t, Result(r, t), Setting(g), MadeOf(g, t),
         MeantVersion(g) = "SNMPv3"
  PROVE  /\ Passes(g, t, CheckAuth(r), {"authPassphrase"}, {"BADPASSPHRASE"})
         /\ Passes(g, t, CheckPriv(r), {"privPassphrase"}, {"BADPRIVPASSPHRASE"})
<1>1. /\ Deserves(g, "BADPASSPHRASE")
           <=> MeantPassphrase(g, "authPassphrase", "defAuthPassphrase") = Nil
      /\ Deserves(g, "BADPRIVPASSPHRASE")
           <=> MeantPassphrase(g, "privPassphrase", "defPrivPassphrase") = Nil
  BY Faults
<1> QED
  BY <1>1, PassphrasePasses DEF CheckAuth, CheckPriv

(* What open does not fill in is as the program has left it.               *)
LEMMA AsGiven ==
  ASSUME NEW g, NEW t, MadeOf(g, t), NEW f \in Field \ Filled_in,
         f \notin Counts \cup {"trap"}
  PROVE  t[f] = g[f]
BY FilledIn DEF MadeOf, Filled_in

LEMMA EnginePasses ==
  ASSUME NEW g, NEW r, NEW t, Result(r, t), Setting(g), MadeOf(g, t), MeantVersion(g) = "SNMPv3"
  PROVE  /\ Passes(g, t, CheckBoots(r), {"context", "contextID"}, {"BADENGBOOTS"})
         /\ Passes(g, t, CheckTime(r), {}, {"BADENGTIME"})
<1> DEFINE u == Default(t, "context", "")
           w == Default(u, "contextID", t.engineID)
<1>1. u = Default(t, "context", Fills(g)["context"])
  BY DEF Fills
<1>2. MadeOf(g, u) /\ (\A x \in Names \ {"context"} : u[x] = t[x])
        /\ u["context"] = Or(g["context"], Fills(g)["context"])
  <2> HIDE DEF u
  <2> QED
    BY <1>1, DefaultFills DEF Filled_in, Counts
<1>3. MadeOf(g, w) /\ (\A x \in Names \ {"contextID"} : w[x] = u[x])
  <2> HIDE DEF u
  <2> QED
    BY <1>2, DefaultFills DEF Filled_in, Counts
<1>4. t.engineBoots = g.engineBoots /\ t.engineTime = g.engineTime
  <2>1. {"engineBoots", "engineTime"} \subseteq Field \ Filled_in
    BY Fields DEF Filled_in
  <2> QED
    BY <2>1, AsGiven DEF Counts
<1>5. {"engineBoots", "engineTime", "context"} \subseteq Names
  BY Fields DEF Names
<1>6. w.engineBoots = t.engineBoots /\ w["context"] = Or(g["context"], Fills(g)["context"])
        /\ \A x \in Names \ {"context", "contextID"} : w[x] = t[x]
  <2> HIDE DEF u, w
  <2> QED
    BY <1>2, <1>3, <1>5
<1>7. Settled(g, w, "context") /\ Settled(g, w, "contextID")
  BY <1>6 DEF Settled, V3Fields
<1>8. /\ Deserves(g, "BADENGBOOTS") <=> g.engineBoots # Nil
      /\ Deserves(g, "BADENGTIME") <=> g.engineTime # Nil
  BY Faults
<1>9. CheckBoots(r) = [t |-> w, err |-> IF w.engineBoots = Nil THEN "none" ELSE "BADENGBOOTS"]
  BY DEF CheckBoots, Check, Result
<1>10. Passes(g, t, CheckBoots(r), {"context", "contextID"}, {"BADENGBOOTS"})
  <2> HIDE DEF u, w
  <2>1. w.engineBoots = g.engineBoots
    BY <1>4, <1>6
  <2> QED
    BY <2>1, <1>3, <1>6, <1>7, <1>8, <1>9 DEF Passes
<1>11. Passes(g, t, CheckTime(r), {}, {"BADENGTIME"})
  BY <1>4, <1>8 DEF Passes, CheckTime, Check, Result
<1> QED
  BY <1>10, <1>11

LEMMA CountPasses ==
  ASSUME NEW g, NEW r, NEW t, Result(r, t), Setting(g), MadeOf(g, t), NEW f \in Counts, NEW err, err # "none",
         g[f] # Nil => t[f] = g[f],
         Deserves(g, err) <=> g[f] \in {"negative", "other"}
  PROVE  Passes(g, t, CheckCount(r, f, Fills(g)[f], err), {f}, {err})
<1> DEFINE v == Fills(g)[f]
           w == Default(t, f, v)
<1>1. f \in Filled_in /\ f \in Field /\ f \notin V3Fields
        /\ f \notin {"contextID", "trap", "usertrap", "community"}
  BY Fields DEF Filled_in, Counts, V3Fields
<1>2. v \in {"1", "5", "161"}
  <2>1. /\ Fills(g)["timeout"] = "1" /\ Fills(g)["retries"] = "5"
        /\ Fills(g)["port"] = Or(config.defaultPort, "161")
    BY DEF Fills
  <2>2. Or(config.defaultPort, "161") = "161"
    BY DEF Setting, Configured, Or
  <2> QED
    BY <2>1, <2>2 DEF Counts
<1>3. g[f] \in Number \cup {Nil}
  BY GivenValues DEF Setting, Counts
<1>4. t[f] = g[f] \/ (g[f] = Nil /\ t[f] = v)
  BY <1>1 DEF MadeOf
<1>5. CASE g[f] = "other"
  <2> DEFINE u == [t EXCEPT ![f] = Nil]
  <2>1. t[f] = "other" /\ DOMAIN t = Names /\ f \in Names
    BY <1>1, <1>4, <1>5 DEF Nil, MadeOf, Names
  <2>2. CheckCount(r, f, v, err) = [t |-> u, err |-> err]
    BY <2>1 DEF CheckCount, Check, Result
  <2>3. DOMAIN u = Names /\ u[f] = Nil /\ \A x \in Names \ {f} : u[x] = t[x]
    BY <2>1
  <2>4. MadeOf(g, u)
    <3> SUFFICES ASSUME NEW x \in Field \ {"contextID"}
                 PROVE  \/ u[x] = g[x]
                        \/ x \in DOMAIN Fills(g) /\ g[x] = Nil /\ u[x] = Fills(g)[x]
                        \/ x \in Counts /\ g[x] = "other" /\ u[x] = Nil
                        \/ x = "trap" /\ g[x] = "function" /\ u[x] = "__trap"
      BY <2>3 DEF MadeOf
    <3>1. CASE x = f
      BY <3>1, <1>5, <2>3
    <3>2. CASE x # f
      <4>1. u[x] = t[x]
        BY <3>2, <2>3 DEF Names
      <4> QED
        BY <4>1 DEF MadeOf
    <3> QED
      BY <3>1, <3>2
  <2> HIDE DEF u
  <2> QED
    BY <1>5, <2>2, <2>3, <2>4 DEF Passes
<1>6. CASE g[f] # "other"
  <2>1. t[f] # "other"
    BY <1>2, <1>4, <1>6
  <2>2. CheckCount(r, f, v, err)
          = [t |-> w, err |-> IF w[f] \notin {Nil, "negative"} THEN "none" ELSE err]
    BY <2>1 DEF CheckCount, Check, Result
  <2>3. MadeOf(g, w) /\ (\A x \in Names \ {f} : w[x] = t[x]) /\ w[f] = Or(g[f], v)
    BY <1>1, <1>4, DefaultFills
  <2>4. Settled(g, w, f)
    BY <1>1, <2>3 DEF Settled
  <2>5. w[f] \notin {Nil, "negative"} <=> g[f] \notin {"negative", "other"}
    BY <1>2, <1>3, <1>6, <2>3 DEF Or, Nil, Number
  <2> HIDE DEF w
  <2> QED
    BY <2>2, <2>3, <2>4, <2>5 DEF Passes
<1> QED
  BY <1>5, <1>6

LEMMA CountsPass ==
  ASSUME NEW g, NEW r, NEW t, Result(r, t), Setting(g), MadeOf(g, t)
  PROVE  LET Set(f) == g[f] # Nil => t[f] = g[f]
         IN /\ Set("timeout") => Passes(g, t, CheckTimeout(r), {"timeout"}, {"BADTIME"})
            /\ Set("retries") => Passes(g, t, CheckRetries(r), {"retries"}, {"BADRETRIES"})
            /\ Set("port") => Passes(g, t, CheckPort(r), {"port"}, {"BADPORT"})
<1> DEFINE Set(f) == g[f] # Nil => t[f] = g[f]
<1>1. /\ Fills(g)["timeout"] = "1" /\ Fills(g)["retries"] = "5"
      /\ Fills(g)["port"] = Or(config.defaultPort, "161")
  BY DEF Fills
<1>2. /\ Deserves(g, "BADTIME") <=> g["timeout"] \in {"negative", "other"}
      /\ Deserves(g, "BADRETRIES") <=> g["retries"] \in {"negative", "other"}
      /\ Deserves(g, "BADPORT") <=> g["port"] \in {"negative", "other"}
  BY Faults
<1>3. "timeout" \in Counts /\ "retries" \in Counts /\ "port" \in Counts
  BY DEF Counts
<1>4. /\ Set("timeout") =>
           Passes(g, t, CheckCount(r, "timeout", Fills(g)["timeout"], "BADTIME"),
                  {"timeout"}, {"BADTIME"})
      /\ Set("retries") =>
           Passes(g, t, CheckCount(r, "retries", Fills(g)["retries"], "BADRETRIES"),
                  {"retries"}, {"BADRETRIES"})
      /\ Set("port") =>
           Passes(g, t, CheckCount(r, "port", Fills(g)["port"], "BADPORT"),
                  {"port"}, {"BADPORT"})
  BY <1>2, <1>3, CountPasses
<1> QED
  BY <1>1, <1>4 DEF CheckTimeout, CheckRetries, CheckPort

LEMMA PeerPasses ==
  ASSUME NEW g, NEW r, NEW t, Result(r, t), Setting(g), MadeOf(g, t)
  PROVE  Passes(g, t, CheckPeer(r), {"peer"}, {"BADPEER"})
<1> DEFINE u == Default(t, "peer", "0.0.0.0")
<1>1. Fills(g)["peer"] = "0.0.0.0"
  BY DEF Fills
<1>2. MadeOf(g, u) /\ (\A x \in Names \ {"peer"} : u[x] = t[x])
        /\ u["peer"] = Or(g["peer"], Fills(g)["peer"])
  <2>1. u = Default(t, "peer", Fills(g)["peer"])
    BY <1>1
  <2> HIDE DEF u
  <2> QED
    BY <2>1, DefaultFills DEF Filled_in, Counts
<1>3. t.peer = "other" <=> g.peer = "other"
  <2>1. "peer" \in Field \ {"contextID"} /\ "peer" \notin Counts \cup {"trap"}
    BY Fields DEF Counts
  <2>2. t["peer"] = g["peer"] \/ (g["peer"] = Nil /\ t["peer"] = "0.0.0.0")
    BY <1>1, <2>1 DEF MadeOf
  <2> QED
    BY <2>2 DEF Nil
<1>4. Deserves(g, "BADPEER") <=> g.peer = "other"
  BY Faults
<1>5. CheckPeer(r) = [t |-> u, err |-> IF t.peer # "other" THEN "none" ELSE "BADPEER"]
  BY DEF CheckPeer, Check, Result
<1>6. Settled(g, u, "peer")
  BY <1>2 DEF Settled, V3Fields
<1> HIDE DEF u
<1> QED
  BY <1>2, <1>3, <1>4, <1>5, <1>6 DEF Passes

LEMMA CallbackPasses ==
  ASSUME NEW g, NEW r, NEW t, Result(r, t), Setting(g), MadeOf(g, t)
  PROVE  Passes(g, t, CheckCallback(r), {}, {"BADCALLBACK"})
<1>1. t.callback = g.callback
  <2>1. "callback" \in Field \ Filled_in
    BY Fields DEF Filled_in
  <2> QED
    BY <2>1, AsGiven DEF Counts
<1>2. g["callback"] \in Function \cup {Nil}
  BY GivenValues DEF Setting
<1>3. Deserves(g, "BADCALLBACK") <=> g.callback = "other"
  BY Faults
<1> QED
  BY <1>1, <1>2, <1>3 DEF Passes, CheckCallback, Check, Result, Callable, Function, Nil

LEMMA TrapPasses ==
  ASSUME NEW g, NEW r, NEW t, Result(r, t), Setting(g), MadeOf(g, t),
         g.trap # Nil => t.trap = g.trap
  PROVE  Passes(g, t, CheckTrap(r), {"trap", "usertrap"}, {"BADTRAP"})
<1> DEFINE u == [t EXCEPT !.usertrap = t.trap, !.trap = "__trap"]
<1>1. "trap" \in Field \ {"contextID"} /\ "trap" \notin Filled_in \cup Counts
        /\ "usertrap" \notin Field /\ DOMAIN t = Names
  BY Fields DEF Filled_in, Counts, MadeOf
<1>2. t.trap = g.trap
  <2>1. t["trap"] = g["trap"] \/ g["trap"] = "function"
    BY <1>1, FilledIn DEF MadeOf
  <2> QED
    BY <2>1 DEF Nil
<1>3. g["trap"] \in Function \cup {Nil}
  BY GivenValues DEF Setting
<1>4. Deserves(g, "BADTRAP") <=> g.trap = "other"
  BY Faults
<1>5. CASE g.trap \in {Nil, "other"}
  <2>1. CheckTrap(r) = [t |-> t, err |-> IF t.trap # "other" THEN "none" ELSE "BADTRAP"]
    BY <1>2, <1>5 DEF CheckTrap, Check, Result
  <2>2. g.trap = Nil => Settled(g, t, "trap") /\ Settled(g, t, "usertrap")
    BY <1>2 DEF Settled, V3Fields
  <2> QED
    BY <1>2, <1>4, <1>5, <2>1, <2>2 DEF Passes, Nil
<1>6. CASE g.trap = "function"
  <2>1. CheckTrap(r) = [t |-> u, err |-> "none"]
    BY <1>2, <1>6 DEF CheckTrap, Check, Result, Nil
  <2>2. /\ DOMAIN u = Names /\ u["trap"] = "__trap" /\ u["usertrap"] = g.trap
        /\ \A x \in Names \ {"trap", "usertrap"} : u[x] = t[x]
    BY <1>1, <1>2 DEF Names
  <2>3. MadeOf(g, u)
    <3> SUFFICES ASSUME NEW x \in Field \ {"contextID"}
                 PROVE  \/ u[x] = g[x]
                        \/ x \in DOMAIN Fills(g) /\ g[x] = Nil /\ u[x] = Fills(g)[x]
                        \/ x \in Counts /\ g[x] = "other" /\ u[x] = Nil
                        \/ x = "trap" /\ g[x] = "function" /\ u[x] = "__trap"
      BY <2>2 DEF MadeOf
    <3>1. CASE x = "trap"
      BY <3>1, <1>6, <2>2
    <3>2. CASE x # "trap"
      <4>1. u[x] = t[x]
        BY <3>2, <1>1, <2>2 DEF Names
      <4> QED
        BY <4>1 DEF MadeOf
    <3> QED
      BY <3>1, <3>2
  <2>4. Settled(g, u, "trap") /\ Settled(g, u, "usertrap")
    BY <1>6, <2>2 DEF Settled, V3Fields, Nil
  <2> HIDE DEF u
  <2> QED
    BY <1>4, <1>6, <2>1, <2>2, <2>3, <2>4 DEF Passes
<1> QED
  BY <1>3, <1>5, <1>6 DEF Function

(* INVINFO is an error of two checks: informs, and a walk with its root,   *)
(* are not for SNMPv1.                                                     *)
LEMMA InformPasses ==
  ASSUME NEW g, NEW r, NEW t, Result(r, t), Setting(g), MadeOf(g, t),
         t.version = MeantVersion(g)
  PROVE  Passes(g, t, RootAllowed(CheckInform(InformAllowed(r))), {},
                {"INVINFO", "BADINFO"})
<1> DEFINE v1 == MeantVersion(g) = "SNMPv1"
           i == InformAllowed(r)
           c == CheckInform(i)
           q == RootAllowed(c)
<1>1. t.inform = g.inform
  <2>1. "inform" \in Field \ Filled_in
    BY Fields DEF Filled_in
  <2> QED
    BY <2>1, AsGiven DEF Counts
<1>2. t.includeroot = g.includeroot \/ (g.includeroot = Nil /\ t.includeroot = "false")
  <2>1. "includeroot" \in Field \ {"contextID"} /\ "includeroot" \notin Counts \cup {"trap"}
    BY Fields DEF Counts
  <2>2. Fills(g)["includeroot"] = "false"
    BY DEF Fills
  <2> QED
    BY <2>1, <2>2 DEF MadeOf
<1>3. g["inform"] \in Function \cup {Nil} /\ g["includeroot"] \in {"true", "other", Nil}
  BY GivenValues DEF Setting
<1>4. /\ Deserves(g, "INVINFO") <=> v1 /\ (g.inform # Nil \/ g.includeroot # Nil)
      /\ Deserves(g, "BADINFO") <=> g.inform = "other"
  BY Faults
<1>5. i = [t |-> t, err |-> IF g.inform = Nil \/ ~v1 THEN "none" ELSE "INVINFO"]
  BY <1>1 DEF InformAllowed, Check, Result
<1>6. c = IF g.inform = Nil \/ ~v1
          THEN [t |-> t, err |-> IF g.inform # "other" THEN "none" ELSE "BADINFO"] ELSE i
  <2> HIDE DEF i
  <2> QED
    BY <1>1, <1>3, <1>5 DEF CheckInform, Check, Callable, Function, Nil
<1>7. q = IF c.err = "none"
          THEN [t |-> t, err |-> IF g.includeroot = Nil \/ ~v1 THEN "none" ELSE "INVINFO"]
          ELSE c
  <2>1. c.t = t
    <3> HIDE DEF i, c
    <3> QED
      BY <1>5, <1>6
  <2> HIDE DEF i, c
  <2> QED
    BY <1>2, <1>3, <2>1 DEF RootAllowed, Check, Nil
<1>8. \/ /\ q = [t |-> t, err |-> "none"]
         /\ ~Deserves(g, "INVINFO") /\ ~Deserves(g, "BADINFO")
      \/ q = [t |-> t, err |-> "INVINFO"] /\ Deserves(g, "INVINFO")
      \/ q = [t |-> t, err |-> "BADINFO"] /\ Deserves(g, "BADINFO")
  <2> HIDE DEF i, c, q
  <2>1. CASE g.inform # Nil /\ v1
    BY <2>1, <1>4, <1>5, <1>6, <1>7
  <2>2. CASE ~(g.inform # Nil /\ v1) /\ g.inform = "other"
    BY <2>2, <1>4, <1>5, <1>6, <1>7
  <2>3. CASE ~(g.inform # Nil /\ v1) /\ g.inform # "other"
    BY <2>3, <1>4, <1>5, <1>6, <1>7
  <2> QED
    BY <2>1, <2>2, <2>3
<1> HIDE DEF q
<1>9. Passes(g, t, q, {}, {"INVINFO", "BADINFO"})
  BY <1>8 DEF Passes
<1> QED
  BY <1>9 DEF q

LEMMA RootPasses ==
  ASSUME NEW g, NEW r, NEW t, Result(r, t), Setting(g), MadeOf(g, t)
  PROVE  Passes(g, t, CheckRoot(r), {"includeroot"}, {"BADINCL"})
<1> DEFINE u == Default(t, "includeroot", "false")
<1>1. Fills(g)["includeroot"] = "false"
  BY DEF Fills
<1>2. MadeOf(g, u) /\ (\A x \in Names \ {"includeroot"} : u[x] = t[x])
        /\ u["includeroot"] = Or(g["includeroot"], Fills(g)["includeroot"])
  <2>1. u = Default(t, "includeroot", Fills(g)["includeroot"])
    BY <1>1
  <2> HIDE DEF u
  <2> QED
    BY <2>1, DefaultFills DEF Filled_in, Counts
<1>3. t.includeroot = "other" <=> g.includeroot = "other"
  <2>1. "includeroot" \in Field \ {"contextID"} /\ "includeroot" \notin Counts \cup {"trap"}
    BY Fields DEF Counts
  <2>2. t["includeroot"] = g["includeroot"]
          \/ (g["includeroot"] = Nil /\ t["includeroot"] = "false")
    BY <1>1, <2>1 DEF MadeOf
  <2> QED
    BY <2>2 DEF Nil
<1>4. Deserves(g, "BADINCL") <=> g.includeroot = "other"
  BY Faults
<1>5. CheckRoot(r) = [t |-> u, err |-> IF t.includeroot # "other" THEN "none" ELSE "BADINCL"]
  BY DEF CheckRoot, Check, Result
<1>6. Settled(g, u, "includeroot")
  BY <1>2 DEF Settled, V3Fields
<1> HIDE DEF u
<1> QED
  BY <1>2, <1>3, <1>4, <1>5, <1>6 DEF Passes

-----------------------------------------------------------------------------
(* The chain.                                                              *)

(* After an error nothing is done.                                         *)
LEMMA Blocked ==
  ASSUME NEW r, r.err # "none"
  PROVE  /\ CheckVersion(r) = r /\ CheckPrintvar(r) = r /\ CheckPrintval(r) = r
         /\ CheckCommunity(r) = r /\ CheckUser(r) = r /\ CheckLevel(r) = r
         /\ CheckAuthType(r) = r /\ CheckAuth(r) = r /\ CheckPriv(r) = r
         /\ CheckBoots(r) = r /\ CheckTime(r) = r
         /\ CheckTimeout(r) = r /\ CheckRetries(r) = r /\ CheckPort(r) = r
         /\ CheckPeer(r) = r /\ CheckCallback(r) = r /\ CheckTrap(r) = r
         /\ InformAllowed(r) = r /\ CheckInform(r) = r
         /\ RootAllowed(r) = r /\ CheckRoot(r) = r
         /\ TakeCommunity(r) = r /\ MakeAuthKey(r) = r /\ MakePrivKey(r) = r
         /\ TakeEngine(r) = r /\ TakePeer(r) = r
<1>1. \A t, ok, err : Check(r, t, ok, err) = r
  BY DEF Check
<1>2. CheckVersion(r) = r /\ CheckPrintvar(r) = r /\ CheckPrintval(r) = r
  BY <1>1 DEF CheckVersion, CheckPrintvar, CheckPrintval, CheckPrinting
<1>3. CheckCommunity(r) = r /\ CheckUser(r) = r /\ CheckLevel(r) = r
        /\ CheckAuthType(r) = r
  BY <1>1 DEF CheckCommunity, CheckUser, CheckLevel, CheckAuthType
<1>4. CheckAuth(r) = r /\ CheckPriv(r) = r /\ CheckBoots(r) = r /\ CheckTime(r) = r
  <2>1. CheckAuth(r) = r /\ CheckPriv(r) = r
    BY DEF CheckAuth, CheckPriv, CheckPassphrase, Check
  <2>2. CheckBoots(r) = r
    BY DEF CheckBoots, Check
  <2>3. CheckTime(r) = r
    BY DEF CheckTime, Check
  <2> QED
    BY <2>1, <2>2, <2>3
<1>5. CheckTimeout(r) = r /\ CheckRetries(r) = r /\ CheckPort(r) = r
  BY <1>1 DEF CheckTimeout, CheckRetries, CheckPort, CheckCount
<1>6. CheckPeer(r) = r /\ CheckCallback(r) = r /\ CheckTrap(r) = r
  BY <1>1 DEF CheckPeer, CheckCallback, CheckTrap
<1>7. InformAllowed(r) = r /\ CheckInform(r) = r /\ RootAllowed(r) = r /\ CheckRoot(r) = r
  BY <1>1 DEF InformAllowed, CheckInform, RootAllowed, CheckRoot
<1>8. /\ TakeCommunity(r) = r /\ MakeAuthKey(r) = r /\ MakePrivKey(r) = r
      /\ TakeEngine(r) = r /\ TakePeer(r) = r
  BY <1>1 DEF TakeCommunity, MakeAuthKey, MakePrivKey, MakeKey, TakeEngine, TakePeer
<1> QED
  BY <1>2, <1>3, <1>4, <1>5, <1>6, <1>7, <1>8

V3Faults == {"BADUSER", "BADSECLEVEL", "BADPASSPHRASE", "BADPRIVPASSPHRASE",
             "BADENGBOOTS", "BADENGTIME"}

LEMMA BlockedV3 ==
  ASSUME NEW r, r.err # "none"
  PROVE  CheckV3(r) = r
<1> DEFINE c1 == CheckUser(r)
           c2 == CheckLevel(c1)
           c3 == CheckAuthType(c2)
           c4 == CheckAuth(c3)
           c5 == CheckPriv(c4)
           c6 == CheckBoots(c5)
           c7 == CheckTime(c6)
<1>1. c1 = r
  BY Blocked
<1>2. c2 = r
  BY <1>1, Blocked
<1>3. c3 = r
  BY <1>2, Blocked
<1>4. c4 = r
  BY <1>3, Blocked
<1>5. c5 = r
  BY <1>4, Blocked
<1>6. c6 = r
  BY <1>5, Blocked
<1>7. c7 = r
  BY <1>6, Blocked
<1> QED
  BY <1>7 DEF CheckV3

LEMMA V3Passes ==
  ASSUME NEW g, NEW r, NEW t, Result(r, t), Setting(g), MadeOf(g, t),
         t.version = MeantVersion(g)
  PROVE  Passes(g, t, CheckV3(r), V3Fields \cup {"contextID"}, V3Faults)
<1>1. CASE t.version # "SNMPv3"
  <2>1. CheckV3(r) = r
    BY <1>1 DEF CheckV3, Result
  <2>2. \A e \in V3Faults : ~Deserves(g, e)
    <3>1. /\ ~Deserves(g, "BADUSER") /\ ~Deserves(g, "BADSECLEVEL")
          /\ ~Deserves(g, "BADPASSPHRASE") /\ ~Deserves(g, "BADPRIVPASSPHRASE")
          /\ ~Deserves(g, "BADENGBOOTS") /\ ~Deserves(g, "BADENGTIME")
      BY <1>1, Faults
    <3> QED
      BY <3>1 DEF V3Faults
  <2>3. \A f \in V3Fields \cup {"contextID"} : Settled(g, t, f)
    BY <1>1 DEF Settled, V3Fields
  <2> QED
    BY <2>1, <2>2, <2>3 DEF Passes, Result
<1>2. CASE t.version = "SNMPv3"
  <2> DEFINE c1 == CheckUser(r)
             c2 == CheckLevel(c1)
             c3 == CheckAuthType(c2)
             c4 == CheckAuth(c3)
             c5 == CheckPriv(c4)
             c6 == CheckBoots(c5)
             c7 == CheckTime(c6)
             F1 == {"user"}
             E1 == {"BADUSER"}
             F2 == F1 \cup {"securityLevel"}
             E2 == E1 \cup {"BADSECLEVEL"}
             F3 == F2 \cup {"authType"}
             E3 == E2 \cup {}
             F4 == F3 \cup {"authPassphrase"}
             E4 == E3 \cup {"BADPASSPHRASE"}
             F5 == F4 \cup {"privPassphrase"}
             E5 == E4 \cup {"BADPRIVPASSPHRASE"}
             F6 == F5 \cup {"context", "contextID"}
             E6 == E5 \cup {"BADENGBOOTS"}
             F7 == F6 \cup {}
             E7 == E6 \cup {"BADENGTIME"}
  <2>0. MeantVersion(g) = "SNMPv3"
    BY <1>2
  <2>1. Passes(g, t, c1, F1, E1)
    BY <2>0, UserPasses
  <2>2. Passes(g, t, c2, F2, E2)
    <3>1. c1.err = "none" => Passes(g, c1.t, CheckLevel(c1), {"securityLevel"}, {"BADSECLEVEL"})
      <4> HIDE DEF c1, F1, E1
      <4> QED
        BY <2>0, <2>1, LevelPasses DEF Passes, Result
    <3>2. c1.err # "none" => c2 = c1
      <4> HIDE DEF c1
      <4> QED
        BY Blocked
    <3>3. F1 \subseteq Names /\ F1 \cap {"securityLevel"} = {}
      BY Fields DEF Names
    <3> HIDE DEF c1, F1, E1
    <3> QED
      BY <2>1, <3>1, <3>2, <3>3, Link
  <2>3. Passes(g, t, c3, F3, E3)
    <3>1. c2.err = "none" => Passes(g, c2.t, CheckAuthType(c2), {"authType"}, {})
      <4> HIDE DEF c2, F2, E2
      <4> QED
        BY <2>0, <2>2, AuthTypePasses DEF Passes, Result
    <3>2. c2.err # "none" => c3 = c2
      <4> HIDE DEF c2
      <4> QED
        BY Blocked
    <3>3. F2 \subseteq Names /\ F2 \cap {"authType"} = {}
      BY Fields DEF Names
    <3> HIDE DEF c2, F2, E2
    <3> QED
      BY <2>2, <3>1, <3>2, <3>3, Link
  <2>4. Passes(g, t, c4, F4, E4)
    <3>1. c3.err = "none" => Passes(g, c3.t, CheckAuth(c3), {"authPassphrase"}, {"BADPASSPHRASE"})
      <4> HIDE DEF c3, F3, E3
      <4> QED
        BY <2>0, <2>3, AuthPasses DEF Passes, Result
    <3>2. c3.err # "none" => c4 = c3
      <4> HIDE DEF c3
      <4> QED
        BY Blocked
    <3>3. F3 \subseteq Names /\ F3 \cap {"authPassphrase"} = {}
      BY Fields DEF Names
    <3> HIDE DEF c3, F3, E3
    <3> QED
      BY <2>3, <3>1, <3>2, <3>3, Link
  <2>5. Passes(g, t, c5, F5, E5)
    <3>1. c4.err = "none" => Passes(g, c4.t, CheckPriv(c4), {"privPassphrase"}, {"BADPRIVPASSPHRASE"})
      <4> HIDE DEF c4, F4, E4
      <4> QED
        BY <2>0, <2>4, AuthPasses DEF Passes, Result
    <3>2. c4.err # "none" => c5 = c4
      <4> HIDE DEF c4
      <4> QED
        BY Blocked
    <3>3. F4 \subseteq Names /\ F4 \cap {"privPassphrase"} = {}
      BY Fields DEF Names
    <3> HIDE DEF c4, F4, E4
    <3> QED
      BY <2>4, <3>1, <3>2, <3>3, Link
  <2>6. Passes(g, t, c6, F6, E6)
    <3>1. c5.err = "none" => Passes(g, c5.t, CheckBoots(c5), {"context", "contextID"}, {"BADENGBOOTS"})
      <4> HIDE DEF c5, F5, E5
      <4> QED
        BY <2>0, <2>5, EnginePasses DEF Passes, Result
    <3>2. c5.err # "none" => c6 = c5
      <4> HIDE DEF c5
      <4> QED
        BY Blocked
    <3>3. F5 \subseteq Names /\ F5 \cap {"context", "contextID"} = {}
      BY Fields DEF Names
    <3> HIDE DEF c5, F5, E5
    <3> QED
      BY <2>5, <3>1, <3>2, <3>3, Link
  <2>7. Passes(g, t, c7, F7, E7)
    <3>1. c6.err = "none" => Passes(g, c6.t, CheckTime(c6), {}, {"BADENGTIME"})
      <4> HIDE DEF c6, F6, E6
      <4> QED
        BY <2>0, <2>6, EnginePasses DEF Passes, Result
    <3>2. c6.err # "none" => c7 = c6
      <4> HIDE DEF c6
      <4> QED
        BY Blocked
    <3>3. F6 \subseteq Names /\ F6 \cap {} = {}
      BY Fields DEF Names
    <3> HIDE DEF c6, F6, E6
    <3> QED
      BY <2>6, <3>1, <3>2, <3>3, Link
  <2>8. CheckV3(r) = c7
    BY <1>2 DEF CheckV3, Result
  <2>9. F7 = V3Fields \cup {"contextID"} /\ E7 = V3Faults
    BY DEF V3Fields, V3Faults
  <2> HIDE DEF c7, F7, E7
  <2> QED
    BY <2>7, <2>8, <2>9
<1> QED
  BY <1>1, <1>2

(* The two checks of informs and that of walks with their root.            *)
Informs(r) == RootAllowed(CheckInform(InformAllowed(r)))

LEMMA BlockedInforms ==
  ASSUME NEW r, r.err # "none"
  PROVE  Informs(r) = r
<1>1. InformAllowed(r) = r
  BY Blocked
<1>2. CheckInform(InformAllowed(r)) = r
  BY <1>1, Blocked
<1> QED
  BY <1>2, Blocked DEF Informs

(* The version of a table that has passed the first check.                 *)
LEMMA VersionSettled ==
  ASSUME NEW g, NEW t, NEW r, NEW F, NEW E, Setting(g), Passes(g, t, r, F, E),
         "version" \in F, "BADVERSION" \in E, r.err = "none"
  PROVE  r.t.version = MeantVersion(g) /\ r.t.version \in Version
<1>1. Settled(g, r.t, "version") /\ ~Deserves(g, "BADVERSION")
  BY DEF Passes
<1>2. r.t["version"] = Or(g["version"], Fills(g)["version"])
  BY <1>1 DEF Settled, V3Fields
<1>3. Fills(g)["version"] = DefVersion
  BY DEF Fills
<1>4. MeantVersion(g) # "other"
  BY <1>1, Faults
<1> QED
  BY <1>2, <1>3, <1>4, VersionOf

(* The table at the start of open: what a failed open has taken from it is *)
(* set again.                                                              *)
SetFor(g, t) == \A f \in Counts \cup {"trap"} : g[f] # Nil => t[f] = g[f]

(* What a session consists of, and the errors of open itself.              *)
SessionFields == {"version", "community", "timeout", "retries", "peer", "trap", "usertrap"}
                   \cup V3Fields

OpenFaults ==
  V3Faults \cup {"BADVERSION", "BADPRINTVAR", "BADPRINTVAL", "BADCOMMUNITY", "BADTIME",
                 "BADRETRIES", "BADPEER", "BADPORT", "BADCALLBACK", "BADTRAP", "INVINFO",
                 "BADINFO", "BADINCL"}

LEMMA CheckedPasses ==
  ASSUME NEW g, NEW r, NEW t, Result(r, t), Setting(g), MadeOf(g, t), SetFor(g, t)
  PROVE  \E F, E : /\ Passes(g, t, Checked(r), F, E)
                   /\ SessionFields \subseteq F /\ E = OpenFaults
<1> DEFINE c1 == CheckVersion(r)
           c2 == CheckPrintvar(c1)
           c3 == CheckPrintval(c2)
           c4 == CheckCommunity(c3)
           c5 == CheckV3(c4)
           c6 == CheckTimeout(c5)
           c7 == CheckRetries(c6)
           c8 == CheckPeer(c7)
           c9 == CheckPort(c8)
           c10 == CheckCallback(c9)
           c11 == CheckTrap(c10)
           c12 == Informs(c11)
           c13 == CheckRoot(c12)
           F1 == {"version"}
           E1 == {"BADVERSION"}
           F2 == F1 \cup {"sprintvar"}
           E2 == E1 \cup {"BADPRINTVAR"}
           F3 == F2 \cup {"sprintval"}
           E3 == E2 \cup {"BADPRINTVAL"}
           F4 == F3 \cup {"community"}
           E4 == E3 \cup {"BADCOMMUNITY"}
           F5 == F4 \cup (V3Fields \cup {"contextID"})
           E5 == E4 \cup V3Faults
           F6 == F5 \cup {"timeout"}
           E6 == E5 \cup {"BADTIME"}
           F7 == F6 \cup {"retries"}
           E7 == E6 \cup {"BADRETRIES"}
           F8 == F7 \cup {"peer"}
           E8 == E7 \cup {"BADPEER"}
           F9 == F8 \cup {"port"}
           E9 == E8 \cup {"BADPORT"}
           F10 == F9 \cup {}
           E10 == E9 \cup {"BADCALLBACK"}
           F11 == F10 \cup {"trap", "usertrap"}
           E11 == E10 \cup {"BADTRAP"}
           F12 == F11 \cup {}
           E12 == E11 \cup {"INVINFO", "BADINFO"}
           F13 == F12 \cup {"includeroot"}
           E13 == E12 \cup {"BADINCL"}
<1>1. Passes(g, t, c1, F1, E1)
  BY VersionPasses
<1>2. Passes(g, t, c2, F2, E2)
  <2>1. c1.err = "none" => Passes(g, c1.t, CheckPrintvar(c1), {"sprintvar"}, {"BADPRINTVAR"})
    <3> HIDE DEF c1, F1, E1
    <3> QED
      BY <1>1, PrintingPasses DEF Passes, Result
  <2>2. c1.err # "none" => c2 = c1
    <3> HIDE DEF c1
    <3> QED
      BY Blocked
  <2>3. F1 \subseteq Names /\ F1 \cap {"sprintvar"} = {}
    BY Fields DEF Names, V3Fields
  <2> HIDE DEF c1, F1, E1
  <2> QED
    BY <1>1, <2>1, <2>2, <2>3, Link
<1>3. Passes(g, t, c3, F3, E3)
  <2>1. c2.err = "none" => Passes(g, c2.t, CheckPrintval(c2), {"sprintval"}, {"BADPRINTVAL"})
    <3> HIDE DEF c2, F2, E2
    <3> QED
      BY <1>2, PrintingPasses DEF Passes, Result
  <2>2. c2.err # "none" => c3 = c2
    <3> HIDE DEF c2
    <3> QED
      BY Blocked
  <2>3. F2 \subseteq Names /\ F2 \cap {"sprintval"} = {}
    BY Fields DEF Names, V3Fields
  <2> HIDE DEF c2, F2, E2
  <2> QED
    BY <1>2, <2>1, <2>2, <2>3, Link
<1>4. Passes(g, t, c4, F4, E4)
  <2>0. "version" \in F3 /\ "BADVERSION" \in E3
    OBVIOUS
  <2>1. c3.err = "none" => Passes(g, c3.t, CheckCommunity(c3), {"community"}, {"BADCOMMUNITY"})
    <3> HIDE DEF c3, F3, E3
    <3> QED
      BY <1>3, <2>0, VersionSettled, CommunityPasses DEF Passes, Result
  <2>2. c3.err # "none" => c4 = c3
    <3> HIDE DEF c3
    <3> QED
      BY Blocked
  <2>3. F3 \subseteq Names /\ F3 \cap {"community"} = {}
    BY Fields DEF Names, V3Fields
  <2> HIDE DEF c3, F3, E3
  <2> QED
    BY <1>3, <2>1, <2>2, <2>3, Link
<1>5. Passes(g, t, c5, F5, E5)
  <2>0. "version" \in F4 /\ "BADVERSION" \in E4
    OBVIOUS
  <2>1. c4.err = "none" => Passes(g, c4.t, CheckV3(c4), (V3Fields \cup {"contextID"}), V3Faults)
    <3> HIDE DEF c4, F4, E4
    <3> QED
      BY <1>4, <2>0, VersionSettled, V3Passes DEF Passes, Result
  <2>2. c4.err # "none" => c5 = c4
    <3> HIDE DEF c4
    <3> QED
      BY BlockedV3
  <2>3. F4 \subseteq Names /\ F4 \cap (V3Fields \cup {"contextID"}) = {}
    BY Fields DEF Names, V3Fields
  <2> HIDE DEF c4, F4, E4
  <2> QED
    BY <1>4, <2>1, <2>2, <2>3, Link
<1>6. Passes(g, t, c6, F6, E6)
  <2>0. g["timeout"] # Nil => c5.t["timeout"] = g["timeout"]
    <3>1. "timeout" \in Names \ F5 /\ "timeout" \in Counts \cup {"trap"}
      BY Fields DEF Names, V3Fields, Counts
    <3> HIDE DEF c5, F5, E5
    <3> QED
      BY <1>5, <3>1 DEF Passes, SetFor
  <2>1. c5.err = "none" => Passes(g, c5.t, CheckTimeout(c5), {"timeout"}, {"BADTIME"})
    <3> HIDE DEF c5, F5, E5
    <3> QED
      BY <1>5, <2>0, CountsPass DEF Passes, Result
  <2>2. c5.err # "none" => c6 = c5
    <3> HIDE DEF c5
    <3> QED
      BY Blocked
  <2>3. F5 \subseteq Names /\ F5 \cap {"timeout"} = {}
    BY Fields DEF Names, V3Fields
  <2> HIDE DEF c5, F5, E5
  <2> QED
    BY <1>5, <2>1, <2>2, <2>3, Link
<1>7. Passes(g, t, c7, F7, E7)
  <2>0. g["retries"] # Nil => c6.t["retries"] = g["retries"]
    <3>1. "retries" \in Names \ F6 /\ "retries" \in Counts \cup {"trap"}
      BY Fields DEF Names, V3Fields, Counts
    <3> HIDE DEF c6, F6, E6
    <3> QED
      BY <1>6, <3>1 DEF Passes, SetFor
  <2>1. c6.err = "none" => Passes(g, c6.t, CheckRetries(c6), {"retries"}, {"BADRETRIES"})
    <3> HIDE DEF c6, F6, E6
    <3> QED
      BY <1>6, <2>0, CountsPass DEF Passes, Result
  <2>2. c6.err # "none" => c7 = c6
    <3> HIDE DEF c6
    <3> QED
      BY Blocked
  <2>3. F6 \subseteq Names /\ F6 \cap {"retries"} = {}
    BY Fields DEF Names, V3Fields
  <2> HIDE DEF c6, F6, E6
  <2> QED
    BY <1>6, <2>1, <2>2, <2>3, Link
<1>8. Passes(g, t, c8, F8, E8)
  <2>1. c7.err = "none" => Passes(g, c7.t, CheckPeer(c7), {"peer"}, {"BADPEER"})
    <3> HIDE DEF c7, F7, E7
    <3> QED
      BY <1>7, PeerPasses DEF Passes, Result
  <2>2. c7.err # "none" => c8 = c7
    <3> HIDE DEF c7
    <3> QED
      BY Blocked
  <2>3. F7 \subseteq Names /\ F7 \cap {"peer"} = {}
    BY Fields DEF Names, V3Fields
  <2> HIDE DEF c7, F7, E7
  <2> QED
    BY <1>7, <2>1, <2>2, <2>3, Link
<1>9. Passes(g, t, c9, F9, E9)
  <2>0. g["port"] # Nil => c8.t["port"] = g["port"]
    <3>1. "port" \in Names \ F8 /\ "port" \in Counts \cup {"trap"}
      BY Fields DEF Names, V3Fields, Counts
    <3> HIDE DEF c8, F8, E8
    <3> QED
      BY <1>8, <3>1 DEF Passes, SetFor
  <2>1. c8.err = "none" => Passes(g, c8.t, CheckPort(c8), {"port"}, {"BADPORT"})
    <3> HIDE DEF c8, F8, E8
    <3> QED
      BY <1>8, <2>0, CountsPass DEF Passes, Result
  <2>2. c8.err # "none" => c9 = c8
    <3> HIDE DEF c8
    <3> QED
      BY Blocked
  <2>3. F8 \subseteq Names /\ F8 \cap {"port"} = {}
    BY Fields DEF Names, V3Fields
  <2> HIDE DEF c8, F8, E8
  <2> QED
    BY <1>8, <2>1, <2>2, <2>3, Link
<1>10. Passes(g, t, c10, F10, E10)
  <2>1. c9.err = "none" => Passes(g, c9.t, CheckCallback(c9), {}, {"BADCALLBACK"})
    <3> HIDE DEF c9, F9, E9
    <3> QED
      BY <1>9, CallbackPasses DEF Passes, Result
  <2>2. c9.err # "none" => c10 = c9
    <3> HIDE DEF c9
    <3> QED
      BY Blocked
  <2>3. F9 \subseteq Names /\ F9 \cap {} = {}
    BY Fields DEF Names, V3Fields
  <2> HIDE DEF c9, F9, E9
  <2> QED
    BY <1>9, <2>1, <2>2, <2>3, Link
<1>11. Passes(g, t, c11, F11, E11)
  <2>0. g["trap"] # Nil => c10.t["trap"] = g["trap"]
    <3>1. "trap" \in Names \ F10 /\ "trap" \in Counts \cup {"trap"}
      BY Fields DEF Names, V3Fields, Counts
    <3> HIDE DEF c10, F10, E10
    <3> QED
      BY <1>10, <3>1 DEF Passes, SetFor
  <2>1. c10.err = "none" => Passes(g, c10.t, CheckTrap(c10), {"trap", "usertrap"}, {"BADTRAP"})
    <3> HIDE DEF c10, F10, E10
    <3> QED
      BY <1>10, <2>0, TrapPasses DEF Passes, Result
  <2>2. c10.err # "none" => c11 = c10
    <3> HIDE DEF c10
    <3> QED
      BY Blocked
  <2>3. F10 \subseteq Names /\ F10 \cap {"trap", "usertrap"} = {}
    BY Fields DEF Names, V3Fields
  <2> HIDE DEF c10, F10, E10
  <2> QED
    BY <1>10, <2>1, <2>2, <2>3, Link
<1>12. Passes(g, t, c12, F12, E12)
  <2>0. "version" \in F11 /\ "BADVERSION" \in E11
    OBVIOUS
  <2>1. c11.err = "none" => Passes(g, c11.t, Informs(c11), {}, {"INVINFO", "BADINFO"})
    <3> HIDE DEF c11, F11, E11
    <3> QED
      BY <1>11, <2>0, VersionSettled, InformPasses DEF Passes, Result, Informs
  <2>2. c11.err # "none" => c12 = c11
    <3> HIDE DEF c11
    <3> QED
      BY BlockedInforms
  <2>3. F11 \subseteq Names /\ F11 \cap {} = {}
    BY Fields DEF Names, V3Fields
  <2> HIDE DEF c11, F11, E11
  <2> QED
    BY <1>11, <2>1, <2>2, <2>3, Link
<1>13. Passes(g, t, c13, F13, E13)
  <2>1. c12.err = "none" => Passes(g, c12.t, CheckRoot(c12), {"includeroot"}, {"BADINCL"})
    <3> HIDE DEF c12, F12, E12
    <3> QED
      BY <1>12, RootPasses DEF Passes, Result
  <2>2. c12.err # "none" => c13 = c12
    <3> HIDE DEF c12
    <3> QED
      BY Blocked
  <2>3. F12 \subseteq Names /\ F12 \cap {"includeroot"} = {}
    BY Fields DEF Names, V3Fields
  <2> HIDE DEF c12, F12, E12
  <2> QED
    BY <1>12, <2>1, <2>2, <2>3, Link
<1>14. Checked(r) = c13
  BY DEF Checked, Informs
<1>15. SessionFields \subseteq F13 /\ E13 = OpenFaults
  BY DEF SessionFields, OpenFaults
<1> HIDE DEF c13, F13, E13
<1> QED
  BY <1>13, <1>14, <1>15

-----------------------------------------------------------------------------
(* The session.                                                            *)

(* What nm_snmp_open finds in a table that has passed.                     *)
Passed(g, t) ==
  /\ MadeOf(g, t)
  /\ t.version = MeantVersion(g) /\ t.version \in Version
  /\ \A f \in SessionFields : Settled(g, t, f)
  /\ \A e \in OpenFaults : ~Deserves(g, e)

LEMMA PassedFields ==
  ASSUME NEW g, NEW t, Setting(g), Passed(g, t)
  PROVE  LET v3 == MeantVersion(g) = "SNMPv3"
         IN /\ ~v3 => t.community = Or(g.community, Or(config.defCommunity, "public"))
            /\ v3 => /\ t.user = Or(g.user, config.defSecurityName)
                     /\ t.securityLevel
                          = Or(g.securityLevel, Or(config.defSecurityLevel, "authNoPriv"))
                     /\ t.authType = Or(g.authType, Or(config.defAuthType, "MD5"))
                     /\ t.authPassphrase
                          = MeantPassphrase(g, "authPassphrase", "defAuthPassphrase")
                     /\ t.privPassphrase
                          = MeantPassphrase(g, "privPassphrase", "defPrivPassphrase")
                     /\ t.context = Or(g.context, "")
            /\ t.timeout = Or(g.timeout, "1") /\ t.retries = Or(g.retries, "5")
            /\ t.peer = Or(g.peer, "0.0.0.0")
            /\ t.trap = Nil <=> g.trap = Nil
            /\ g.trap # Nil => t.usertrap = g.trap
            /\ t.callback = g.callback /\ t.inform = g.inform
            /\ t.engineID = g.engineID /\ t.privType = g.privType
            /\ t.includeroot = "true" <=> g.includeroot = "true"
<1> DEFINE v3 == MeantVersion(g) = "SNMPv3"
<1>1. \A f \in SessionFields : Settled(g, t, f)
  BY DEF Passed
<1>2. ~v3 => t["community"] = Or(g["community"], Fills(g)["community"])
  <2>1. Settled(g, t, "community")
    BY <1>1 DEF SessionFields
  <2> QED
    BY <2>1 DEF Settled, V3Fields
<1>3. ASSUME v3, NEW f \in V3Fields
      PROVE  t[f] = Or(g[f], Fills(g)[f])
  <2>1. Settled(g, t, f)
    BY <1>1 DEF SessionFields
  <2> QED
    BY <1>3, <2>1 DEF Settled, V3Fields
<1>4. /\ v3 => t["user"] = Or(g["user"], Fills(g)["user"])
      /\ v3 => t["securityLevel"] = Or(g["securityLevel"], Fills(g)["securityLevel"])
      /\ v3 => t["authType"] = Or(g["authType"], Fills(g)["authType"])
      /\ v3 => t["context"] = Or(g["context"], Fills(g)["context"])
  BY <1>3 DEF V3Fields
<1>5. /\ v3 => t["authPassphrase"] = Or(g["authPassphrase"], Fills(g)["authPassphrase"])
      /\ v3 => t["privPassphrase"] = Or(g["privPassphrase"], Fills(g)["privPassphrase"])
  BY <1>3 DEF V3Fields
<1>6. ASSUME NEW f \in {"timeout", "retries", "peer"}
      PROVE  t[f] = Or(g[f], Fills(g)[f])
  <2>1. Settled(g, t, f)
    BY <1>1 DEF SessionFields
  <2> QED
    BY <2>1 DEF Settled, V3Fields
<1>7. /\ t["timeout"] = Or(g["timeout"], Fills(g)["timeout"])
      /\ t["retries"] = Or(g["retries"], Fills(g)["retries"])
      /\ t["peer"] = Or(g["peer"], Fills(g)["peer"])
  BY <1>6
<1>8. /\ Fills(g)["community"] = Or(config.defCommunity, "public")
      /\ Fills(g)["user"] = config.defSecurityName
      /\ Fills(g)["securityLevel"] = Or(config.defSecurityLevel, "authNoPriv")
      /\ Fills(g)["authType"] = Or(config.defAuthType, "MD5")
      /\ Fills(g)["authPassphrase"] = MeantPassphrase(g, "authPassphrase", "defAuthPassphrase")
      /\ Fills(g)["privPassphrase"] = MeantPassphrase(g, "privPassphrase", "defPrivPassphrase")
      /\ Fills(g)["context"] = "" /\ Fills(g)["timeout"] = "1" /\ Fills(g)["retries"] = "5"
      /\ Fills(g)["peer"] = "0.0.0.0" /\ Fills(g)["includeroot"] = "false"
  BY DEF Fills
<1>9. /\ Or(g["authPassphrase"], Fills(g)["authPassphrase"])
           = MeantPassphrase(g, "authPassphrase", "defAuthPassphrase")
      /\ Or(g["privPassphrase"], Fills(g)["privPassphrase"])
           = MeantPassphrase(g, "privPassphrase", "defPrivPassphrase")
  BY <1>8 DEF MeantPassphrase, Or
<1>10. (t.trap = Nil <=> g.trap = Nil) /\ (g.trap # Nil => t.usertrap = g.trap)
  <2>1. Settled(g, t, "trap") /\ Settled(g, t, "usertrap")
    BY <1>1 DEF SessionFields
  <2> QED
    BY <2>1 DEF Settled, V3Fields
<1>11. /\ t.callback = g.callback /\ t.inform = g.inform
       /\ t.engineID = g.engineID /\ t.privType = g.privType
  <2>1. {"callback", "inform", "engineID", "privType"} \subseteq Field \ Filled_in
    BY Fields DEF Filled_in
  <2> QED
    BY <2>1, AsGiven DEF Counts, Passed
<1>12. t.includeroot = "true" <=> g.includeroot = "true"
  <2>1. "includeroot" \in Field \ {"contextID"} /\ "includeroot" \notin Counts \cup {"trap"}
    BY Fields DEF Counts
  <2>2. t["includeroot"] = g["includeroot"]
          \/ (g["includeroot"] = Nil /\ t["includeroot"] = "false")
    BY <1>8, <2>1 DEF MadeOf, Passed
  <2> QED
    BY <2>2 DEF Nil
<1>13. ~v3 => t.community = Or(g.community, Or(config.defCommunity, "public"))
  BY <1>2, <1>8
<1>14. v3 => /\ t.user = Or(g.user, config.defSecurityName)
             /\ t.securityLevel
                  = Or(g.securityLevel, Or(config.defSecurityLevel, "authNoPriv"))
             /\ t.authType = Or(g.authType, Or(config.defAuthType, "MD5"))
             /\ t.context = Or(g.context, "")
  BY <1>4, <1>8
<1>15. t.timeout = Or(g.timeout, "1") /\ t.retries = Or(g.retries, "5")
         /\ t.peer = Or(g.peer, "0.0.0.0")
  BY <1>7, <1>8
<1> HIDE DEF v3
<1> QED
  BY <1>5, <1>9, <1>10, <1>11, <1>12, <1>13, <1>14, <1>15 DEF v3

LEMMA SessionMeant ==
  ASSUME NEW g, NEW t, Setting(g), Passed(g, t)
  PROVE  Session(t) = Meant(g)
<1> DEFINE v3 == MeantVersion(g) = "SNMPv3"
<1>1. t.version = MeantVersion(g)
  BY DEF Passed
<1>2. g.privType \in {"AES", Nil} /\ g.port = Nil /\ g.contextID = Nil
  BY GivenValues DEF Setting
<1>3. Or(g.port, Or(config.defaultPort, "161")) = "161" /\ Or(g.contextID, g.engineID) = g.engineID
  BY <1>2 DEF Or, Setting, Configured
<1>4. (IF t.privType = "AES" THEN "AES" ELSE "DES") = Or(g.privType, "DES")
  <2>1. t.privType = g.privType
    BY PassedFields
  <2> QED
    BY <1>2, <2>1 DEF Or, Nil
<1>5. (IF t.trap = Nil THEN Nil ELSE t.usertrap) = g.trap
  BY PassedFields
<1>6. (t.includeroot = "true") = (g.includeroot = "true")
  BY PassedFields
<1>7. CASE v3
  <2>1. /\ t.user = Or(g.user, config.defSecurityName)
        /\ t.securityLevel = Or(g.securityLevel, Or(config.defSecurityLevel, "authNoPriv"))
        /\ t.authType = Or(g.authType, Or(config.defAuthType, "MD5"))
        /\ t.authPassphrase = MeantPassphrase(g, "authPassphrase", "defAuthPassphrase")
        /\ t.privPassphrase = MeantPassphrase(g, "privPassphrase", "defPrivPassphrase")
        /\ t.context = Or(g.context, "") /\ t.engineID = g.engineID
        /\ t.timeout = Or(g.timeout, "1") /\ t.retries = Or(g.retries, "5")
        /\ t.peer = Or(g.peer, "0.0.0.0")
        /\ t.callback = g.callback /\ t.inform = g.inform
    BY <1>7, PassedFields
  <2> QED
    BY <1>1, <1>3, <1>4, <1>5, <1>6, <1>7, <2>1 DEF Session, Meant
<1>8. CASE ~v3
  <2>1. /\ t.community = Or(g.community, Or(config.defCommunity, "public"))
        /\ t.timeout = Or(g.timeout, "1") /\ t.retries = Or(g.retries, "5")
        /\ t.peer = Or(g.peer, "0.0.0.0")
        /\ t.callback = g.callback /\ t.inform = g.inform
    BY <1>8, PassedFields
  <2> QED
    BY <1>1, <1>3, <1>5, <1>6, <1>8, <2>1 DEF Session, Meant
<1> QED
  BY <1>7, <1>8

TakeFaults == {"bad authentication key", "bad privacy key", "bad engine id",
               "bad peer address"}

(* nm_snmp_open refuses the table for its first fault, if it has one.      *)
LEMMA TakePasses ==
  ASSUME NEW g, NEW r, NEW t, Result(r, t), Setting(g), Passed(g, t)
  PROVE  LET c == Taken(r)
         IN \/ c.err = "none" /\ \A e \in TakeFaults : ~Deserves(g, e)
            \/ c.err \in TakeFaults /\ Deserves(g, c.err)
<1> DEFINE v3 == MeantVersion(g) = "SNMPv3"
           auth == MeantPassphrase(g, "authPassphrase", "defAuthPassphrase")
           priv == MeantPassphrase(g, "privPassphrase", "defPrivPassphrase")
           authType == Or(g.authType, Or(config.defAuthType, "MD5"))
           badAuth == v3 /\ (authType = "other" \/ auth = "short")
           badPriv == v3 /\ priv = "short"
           badEngine == v3 /\ g.engineID = "other"
           badPeer == g.peer = "unknown"
           c1 == TakeCommunity(r)
           c2 == MakeAuthKey(c1)
           c3 == MakePrivKey(c2)
           c4 == TakeEngine(c3)
           c5 == TakePeer(c4)
<1>1. t.version = MeantVersion(g)
  BY DEF Passed
<1>2. ~v3 => t.community \notin {Nil, "other"}
  <2>1. ~v3 => t.community = Or(g.community, Or(config.defCommunity, "public"))
    BY PassedFields
  <2>2. g.community \in {"private", "other", Nil} /\ config.defCommunity # "other"
    BY GivenValues DEF Setting, Configured
  <2>3. ~v3 => g.community # "other"
    <3>1. ~Deserves(g, "BADCOMMUNITY")
      BY DEF Passed, OpenFaults
    <3> QED
      BY <3>1, Faults
  <2> QED
    BY <2>1, <2>2, <2>3 DEF Or, Nil
<1>3. /\ v3 => t.authType = authType /\ t["authPassphrase"] = auth
                /\ t["privPassphrase"] = priv
      /\ t.engineID = g.engineID
  BY PassedFields
<1>4. t.peer = "unknown" <=> badPeer
  <2>1. t.peer = Or(g.peer, "0.0.0.0")
    BY PassedFields
  <2> QED
    BY <2>1 DEF Or, Nil
<1>5. auth # "other" /\ authType # "short"
  <2>1. /\ g.authType \in {"SHA", "other", Nil}
        /\ \A f \in {"password", "authPassphrase", "privPassphrase"} : g[f] # "other"
    BY GivenValues DEF Setting
  <2>2. /\ g["password"] # "other" /\ g["authPassphrase"] # "other"
        /\ config["defAuthPassphrase"] # "other" /\ config.defPassphrase # "other"
        /\ config.defAuthType # "short"
    BY <2>1 DEF Setting, Configured
  <2>3. auth # "other"
    BY <2>2 DEF MeantPassphrase, Or
  <2> QED
    BY <2>1, <2>2, <2>3 DEF Or, Nil
<1>6. /\ Deserves(g, "bad authentication key") <=> badAuth
      /\ Deserves(g, "bad privacy key") <=> badPriv
      /\ Deserves(g, "bad engine id") <=> badEngine
      /\ Deserves(g, "bad peer address") <=> badPeer
  <2>1. /\ Deserves(g, "bad authentication key")
             <=> v3 /\ {authType, auth} \cap {"other", "short"} # {}
        /\ Deserves(g, "bad privacy key") <=> badPriv
        /\ Deserves(g, "bad engine id") <=> badEngine
        /\ Deserves(g, "bad peer address") <=> badPeer
    BY Faults
  <2>2. {authType, auth} \cap {"other", "short"} # {}
          <=> authType = "other" \/ auth = "short"
    <3> HIDE DEF authType, auth
    <3> QED
      BY <1>5
  <2> QED
    BY <2>1, <2>2
<1> HIDE DEF v3, auth, priv, authType
<1>7. c1 = [t |-> t, err |-> "none"]
  BY <1>1, <1>2 DEF TakeCommunity, Check, Result, v3
<1>8. c2 = [t |-> t, err |-> IF badAuth THEN "bad authentication key" ELSE "none"]
  <2> HIDE DEF c1
  <2> QED
    BY <1>1, <1>3, <1>7 DEF MakeAuthKey, MakeKey, Check, v3
<1>9. c3 = IF badAuth THEN c2
           ELSE [t |-> t, err |-> IF badPriv THEN "bad privacy key" ELSE "none"]
  <2> HIDE DEF c2
  <2>1. CASE badAuth
    <3>1. c2.err # "none"
      BY <1>8, <2>1
    <3> QED
      BY <2>1, <3>1, Blocked
  <2>2. CASE ~badAuth
    BY <1>1, <1>3, <1>8, <2>2 DEF MakePrivKey, MakeKey, Check, v3
  <2> QED
    BY <2>1, <2>2
<1>10. c4 = IF badAuth \/ badPriv THEN c3
            ELSE [t |-> t, err |-> IF badEngine THEN "bad engine id" ELSE "none"]
  <2> HIDE DEF c2, c3
  <2>1. CASE badAuth \/ badPriv
    <3>1. c3.err # "none"
      BY <1>8, <1>9, <2>1
    <3> QED
      BY <2>1, <3>1, Blocked
  <2>2. CASE ~(badAuth \/ badPriv)
    BY <1>1, <1>3, <1>9, <2>2 DEF TakeEngine, Check, v3
  <2> QED
    BY <2>1, <2>2
<1>11. c5 = IF badAuth \/ badPriv \/ badEngine THEN c4
            ELSE [t |-> t, err |-> IF badPeer THEN "bad peer address" ELSE "none"]
  <2> HIDE DEF c2, c3, c4
  <2>1. CASE badAuth \/ badPriv \/ badEngine
    <3>1. c4.err # "none"
      BY <1>8, <1>9, <1>10, <2>1
    <3> QED
      BY <2>1, <3>1, Blocked
  <2>2. CASE ~(badAuth \/ badPriv \/ badEngine)
    BY <1>4, <1>10, <2>2 DEF TakePeer, Check
  <2> QED
    BY <2>1, <2>2
<1>12. Taken(r) = c5
  BY DEF Taken
<1>13. \/ c5.err = "none" /\ ~badAuth /\ ~badPriv /\ ~badEngine /\ ~badPeer
       \/ c5.err = "bad authentication key" /\ badAuth
       \/ c5.err = "bad privacy key" /\ badPriv
       \/ c5.err = "bad engine id" /\ badEngine
       \/ c5.err = "bad peer address" /\ badPeer
  <2> HIDE DEF c2, c3, c4, c5, badAuth, badPriv, badEngine, badPeer
  <2> QED
    BY <1>8, <1>9, <1>10, <1>11
<1> HIDE DEF c5, badAuth, badPriv, badEngine, badPeer
<1> QED
  BY <1>6, <1>12, <1>13 DEF TakeFaults

(* What an attempt to open makes of the table, and its outcome.            *)
LEMMA Attempt ==
  ASSUME NEW g, NEW t, Setting(g), MadeOf(g, t), SetFor(g, t)
  PROVE  LET r == Checked([t |-> t, err |-> "none"])
             c == Taken(r)
         IN /\ MadeOf(g, r.t)
            /\ \/ /\ c.err = "none" /\ Session(r.t) = Meant(g)
                  /\ \A e \in Errors : ~Deserves(g, e)
               \/ c.err \in Errors /\ Deserves(g, c.err)
<1> DEFINE s == [t |-> t, err |-> "none"]
           r == Checked(s)
           c == Taken(r)
<1>1. Errors = OpenFaults \cup TakeFaults
  BY DEF Errors, OpenFaults, TakeFaults, V3Faults
<1>2. PICK F, E : Passes(g, t, r, F, E) /\ SessionFields \subseteq F /\ E = OpenFaults
  <2>1. Result(s, t)
    BY DEF Result
  <2> HIDE DEF s
  <2> QED
    BY <2>1, CheckedPasses
<1> HIDE DEF s, r
<1>3. MadeOf(g, r.t)
  BY <1>2 DEF Passes
<1>4. CASE r.err # "none"
  <2>1. c = r
    <3>1. TakeCommunity(r) = r
      BY <1>4, Blocked
    <3>2. MakePrivKey(MakeAuthKey(r)) = r
      BY <1>4, Blocked
    <3>3. TakePeer(TakeEngine(r)) = r
      BY <1>4, Blocked
    <3> QED
      BY <3>1, <3>2, <3>3 DEF Taken
  <2> HIDE DEF c
  <2>2. c.err \in Errors /\ Deserves(g, c.err)
    BY <1>1, <1>2, <1>4, <2>1 DEF Passes
  <2> QED
    BY <1>3, <2>2 DEF c, r, s
<1>5. CASE r.err = "none"
  <2>1. Passed(g, r.t)
    <3>1. "version" \in F /\ "BADVERSION" \in E
      BY <1>2 DEF SessionFields, OpenFaults
    <3>2. r.t.version = MeantVersion(g) /\ r.t.version \in Version
      BY <1>2, <1>5, <3>1, VersionSettled
    <3> QED
      BY <1>2, <1>3, <1>5, <3>2 DEF Passes, Passed
  <2>2. Session(r.t) = Meant(g)
    BY <2>1, SessionMeant
  <2>3. \/ c.err = "none" /\ \A e \in TakeFaults : ~Deserves(g, e)
        \/ c.err \in TakeFaults /\ Deserves(g, c.err)
    BY <1>5, <2>1, TakePasses DEF Result
  <2> HIDE DEF c
  <2>4. \/ c.err = "none" /\ \A e \in Errors : ~Deserves(g, e)
        \/ c.err \in Errors /\ Deserves(g, c.err)
    BY <1>1, <2>1, <2>3 DEF Passed
  <2> QED
    BY <1>3, <2>2, <2>4 DEF c, r, s
<1> QED
  BY <1>4, <1>5

-----------------------------------------------------------------------------
(* OpenInv is inductive.                                                   *)

LEMMA ConfiguredOK ==
  ASSUME CarefulProgram, GivenOK
  PROVE  Configured /\ Given(given)
BY OpenAssumption DEF GivenOK, Configured, Given

(* A table that is taken is as it was filled.                              *)
LEMMA FreshTable ==
  ASSUME NEW g, DOMAIN g = Field
  PROVE  MadeOf(g, Table(g, Names))
<1>1. DOMAIN Table(g, Names) = Names /\ \A f \in Field : Table(g, Names)[f] = g[f]
  BY DEF Table, Names
<1> QED
  BY <1>1 DEF MadeOf

LEMMA OpenInvInit ==
  ASSUME CarefulProgram, OpenInit
  PROVE  OpenInv
<1>1. GivenOK
  BY OpenAssumption DEF OpenInit, GivenOK, CarefulProgram, Rules
<1>2. MadeOf(given, table)
  BY <1>1, FreshTable DEF OpenInit, GivenOK
<1>3. OpenedAsMeant /\ RefusedForCause
  BY DEF OpenInit, OpenedAsMeant, RefusedForCause
<1> QED
  BY <1>1, <1>2, <1>3 DEF OpenInv

(* What open fills in, and what it has made of a table, once the program   *)
(* has taken one filled as g, which now is t.                              *)
LEMMA SameFillings ==
  ASSUME config' = config, NEW g, given' = g
  PROVE  Fills(given)' = Fills(g)
<1>1. DefVersion' = DefVersion
  BY DEF DefVersion
<1>2. MeantPassphrase(given, "authPassphrase", "defAuthPassphrase")'
        = MeantPassphrase(g, "authPassphrase", "defAuthPassphrase")
  BY DEF MeantPassphrase
<1>3. MeantPassphrase(given, "privPassphrase", "defPrivPassphrase")'
        = MeantPassphrase(g, "privPassphrase", "defPrivPassphrase")
  BY DEF MeantPassphrase
<1> QED
  BY <1>1, <1>2, <1>3 DEF Fills

LEMMA MadeOfNext ==
  ASSUME config' = config, NEW g, NEW t, given' = g, table' = t, MadeOf(g, t)
  PROVE  MadeOf(given, table)'
BY SameFillings DEF MadeOf

LEMMA TakeInv ==
  ASSUME OpenInv, NEW g \in Filled, Take(g), UNCHANGED config
  PROVE  OpenInv'
<1>1. GivenOK'
  BY OpenAssumption DEF OpenInv, Take, GivenOK
<1>2. MadeOf(g, Table(g, Names))
  BY OpenAssumption, FreshTable
<1>3. MadeOf(given, table)'
  BY <1>2, MadeOfNext DEF Take
<1>4. OpenedAsMeant' /\ RefusedForCause'
  BY DEF Take, OpenedAsMeant, RefusedForCause
<1> QED
  BY <1>1, <1>3, <1>4 DEF OpenInv

(* What open fills in depends on the table only for the passphrases.       *)
LEMMA SameFills ==
  ASSUME NEW g, NEW h, NEW f \in Filled_in \ {"contextID"},
         f \in {"authPassphrase", "privPassphrase"} =>
           h[f] = g[f] /\ h.password = g.password
  PROVE  Fills(h)[f] = Fills(g)[f]
<1>1. CASE f = "authPassphrase"
  BY <1>1 DEF Fills, MeantPassphrase
<1>2. CASE f = "privPassphrase"
  <2>1. Fills(h)["privPassphrase"] = Fills(g)["privPassphrase"]
    BY <1>2 DEF Fills, MeantPassphrase
  <2> QED
    BY <1>2, <2>1
<1>3. CASE f \in {"version", "sprintvar", "sprintval", "community", "user", "securityLevel"}
  <2>1. /\ Fills(h)["version"] = Fills(g)["version"]
        /\ Fills(h)["sprintvar"] = Fills(g)["sprintvar"]
        /\ Fills(h)["sprintval"] = Fills(g)["sprintval"]
        /\ Fills(h)["community"] = Fills(g)["community"]
        /\ Fills(h)["user"] = Fills(g)["user"]
        /\ Fills(h)["securityLevel"] = Fills(g)["securityLevel"]
    BY DEF Fills
  <2> QED
    BY <1>3, <2>1
<1>4. CASE f \in {"authType", "context", "timeout", "retries", "port", "peer", "includeroot"}
  <2>1. /\ Fills(h)["authType"] = Fills(g)["authType"]
        /\ Fills(h)["context"] = Fills(g)["context"]
        /\ Fills(h)["timeout"] = Fills(g)["timeout"]
        /\ Fills(h)["retries"] = Fills(g)["retries"]
        /\ Fills(h)["port"] = Fills(g)["port"]
        /\ Fills(h)["peer"] = Fills(g)["peer"]
        /\ Fills(h)["includeroot"] = Fills(g)["includeroot"]
    BY DEF Fills
  <2> QED
    BY <1>4, <2>1
<1> QED
  BY <1>1, <1>2, <1>3, <1>4 DEF Filled_in

LEMMA SetFieldInv ==
  ASSUME CarefulProgram, OpenInv, NEW f \in Field, NEW v \in Values[f] \cup {Nil},
         SetField(f, v)
  PROVE  OpenInv'
<1> DEFINE g == [given EXCEPT ![f] = v]
           t == [table EXCEPT ![f] = v]
<1>1. given' = g /\ table' = t /\ config' = config /\ session' = session /\ answer' = "none"
  BY DEF SetField
<1>2. DOMAIN given = Field /\ DOMAIN table = Names /\ Field \subseteq Names
  BY DEF OpenInv, GivenOK, MadeOf, Names
<1>3. GivenOK'
  <2>1. ~Avoided(f, v)
    BY DEF SetField
  <2>2. \A x \in Field : g[x] = Nil \/ (g[x] \in Values[x] /\ ~Avoided(x, g[x]))
    BY <1>2, <2>1 DEF OpenInv, GivenOK
  <2>3. DOMAIN g = Field
    BY <1>2
  <2> HIDE DEF g
  <2> QED
    BY <1>1, <2>2, <2>3 DEF OpenInv, GivenOK
<1>4. MadeOf(g, t)
  <2> SUFFICES ASSUME NEW x \in Field \ {"contextID"}
               PROVE  \/ t[x] = g[x]
                      \/ x \in DOMAIN Fills(g) /\ g[x] = Nil /\ t[x] = Fills(g)[x]
                      \/ x \in Counts /\ g[x] = "other" /\ t[x] = Nil
                      \/ x = "trap" /\ g[x] = "function" /\ t[x] = "__trap"
    BY <1>2 DEF MadeOf
  <2>1. CASE x = f
    BY <1>2, <2>1
  <2>2. CASE x # f /\ f = "password" /\ x \in {"authPassphrase", "privPassphrase"}
    <3>1. table[x] = given[x]
      BY <2>2 DEF SetField, CarefulProgram, Rules
    <3> QED
      BY <1>2, <2>2, <3>1
  <2>3. CASE x # f /\ ~(f = "password" /\ x \in {"authPassphrase", "privPassphrase"})
    <3>1. g[x] = given[x] /\ t[x] = table[x]
      BY <1>2, <2>3
    <3>2. "password" \in Field
      BY Fields
    <3>3. x \in {"authPassphrase", "privPassphrase"} => g.password = given.password
      BY <1>2, <2>3, <3>2
    <3> HIDE DEF g, t
    <3>4. x \in Filled_in => Fills(g)[x] = Fills(given)[x]
      BY <3>1, <3>3, SameFills
    <3> QED
      BY <3>1, <3>4, FilledIn DEF OpenInv, MadeOf
  <2> QED
    BY <2>1, <2>2, <2>3
<1>5. MadeOf(given, table)'
  <2> HIDE DEF g, t
  <2> QED
    BY <1>1, <1>4, MadeOfNext
<1>6. session = None
  BY DEF SetField, Filling
<1>7. OpenedAsMeant' /\ RefusedForCause'
  BY <1>1, <1>6 DEF OpenedAsMeant, RefusedForCause
<1> QED
  BY <1>3, <1>5, <1>7 DEF OpenInv

LEMMA OpenStep ==
  ASSUME CarefulProgram, OpenInv, Open
  PROVE  OpenInv'
<1> DEFINE r == Checked([t |-> table, err |-> "none"])
           c == Taken(r)
<1>1. Setting(given)
  <2>1. given.version = "SNMPv1" => given.community \notin {Nil, "other"}
    BY DEF Open, CarefulProgram, Rules
  <2> QED
    BY <2>1, ConfiguredOK DEF OpenInv, Setting
<1>2. MadeOf(given, table) /\ SetFor(given, table)
  BY DEF OpenInv, Open, SetAgain, SetFor, CarefulProgram, Rules
<1>3. /\ MadeOf(given, r.t)
      /\ \/ /\ c.err = "none" /\ Session(r.t) = Meant(given)
            /\ \A e \in Errors : ~Deserves(given, e)
         \/ c.err \in Errors /\ Deserves(given, c.err)
  BY <1>1, <1>2, Attempt
<1>4. /\ table' = r.t
      /\ \/ c.err = "none" /\ answer' = "session" /\ session' = Session(r.t)
         \/ /\ answer' = (IF c.err = "none" THEN "library" ELSE c.err)
            /\ session' = None
      /\ UNCHANGED <<config, given, edits>>
  BY DEF Open
<1> HIDE DEF r, c
<1>5. GivenOK' /\ MadeOf(given, table)'
  <2>1. GivenOK'
    BY <1>4 DEF OpenInv, GivenOK
  <2> QED
    BY <1>3, <1>4, <2>1, MadeOfNext
<1>6. Meant(given)' = Meant(given) /\ \A e : Deserves(given, e)' <=> Deserves(given, e)
  BY <1>4 DEF Meant, MeantVersion, MeantPassphrase, Deserves
<1>7. Deserves(given, "library")
  BY Faults
<1>8. "session" \notin Errors /\ "none" \notin Errors
  BY DEF Errors
<1>9. OpenedAsMeant'
  BY <1>3, <1>4, <1>6, <1>8 DEF OpenedAsMeant
<1>10. RefusedForCause'
  BY <1>3, <1>4, <1>6, <1>7, <1>8 DEF RefusedForCause
<1> QED
  BY <1>5, <1>9, <1>10 DEF OpenInv

LEMMA OpenInvStep ==
  ASSUME CarefulProgram, OpenInv, [Next]_vars
  PROVE  OpenInv'
<1>1. CASE UNCHANGED openVars
  <2>1. GivenOK'
    BY <1>1 DEF openVars, OpenInv, GivenOK
  <2>2. MadeOf(given, table)'
    BY <1>1, MadeOfNext DEF openVars, OpenInv
  <2>3. Meant(given)' = Meant(given)
    BY <1>1 DEF openVars, Meant, MeantVersion, MeantPassphrase
  <2>4. \A e : Deserves(given, e)' <=> Deserves(given, e)
    BY <1>1, <2>3 DEF openVars, Deserves, MeantVersion
  <2>5. OpenedAsMeant' /\ RefusedForCause'
    BY <1>1, <2>3, <2>4 DEF openVars, OpenInv, OpenedAsMeant, RefusedForCause
  <2> QED
    BY <2>1, <2>2, <2>5 DEF OpenInv
<1>2. CASE OpenNext
  <2>1. ASSUME NEW f \in Field, NEW v \in Values[f] \cup {Nil}, SetField(f, v)
        PROVE  OpenInv'
    BY <2>1, SetFieldInv
  <2>2. CASE Open
    BY <2>2, OpenStep
  <2>3. CASE Close \/ Drop
    BY <2>3, TakeInv DEF Close, Drop
  <2> QED
    BY <1>2, <2>1, <2>2, <2>3 DEF OpenNext
<1>3. ASSUME NEW root \in Root, Start(root)
      PROVE  UNCHANGED openVars
  BY <1>3 DEF Start
<1>4. CASE Walking
  BY <1>1, <1>4 DEF Walking, GetRoot, NextEnds, NextReturns, GetSingle, RequestFails, Agent
<1>5. ASSUME NEW o \in Oid, TreeChanges(o)
      PROVE  UNCHANGED openVars
  BY <1>5 DEF TreeChanges
<1> QED
  BY <1>1, <1>2, <1>3, <1>4, <1>5 DEF Next, Sessions, vars

(* For a careful program, open's invariant holds whatever the program      *)
(* fills in and changes, and however often an open fails in between.       *)
THEOREM OpenInductive == CarefulProgram /\ Spec => []OpenInv
<1>1. CarefulProgram /\ Init => OpenInv
  BY OpenInvInit DEF Init
<1>2. CarefulProgram /\ OpenInv /\ [Next]_vars => OpenInv'
  BY OpenInvStep
<1>3. CarefulProgram => []CarefulProgram
  <2>1. CarefulProgram => CarefulProgram'
    BY DEF CarefulProgram, Rules
  <2> QED
    BY <2>1, PTL
<1> QED
  BY <1>1, <1>2, <1>3, PTL DEF Spec

(* The session a careful program has is the one its table describes,       *)
(* also when open has failed on that table before and left its defaults    *)
(* and __trap in it.                                                       *)
THEOREM OpensAsMeant == CarefulProgram /\ Spec => []OpenedAsMeant
<1>1. OpenInv => OpenedAsMeant
  BY DEF OpenInv
<1> QED
  BY <1>1, OpenInductive, PTL

(* open refuses a careful program's table only for a fault the program has *)
(* put there and that the error names, and it accepts none with a fault.   *)
THEOREM RefusesForCause == CarefulProgram /\ Spec => []RefusedForCause
<1>1. OpenInv => RefusedForCause
  BY DEF OpenInv
<1> QED
  BY <1>1, OpenInductive, PTL
-----------------------------------------------------------------------------
(* walk.                                                                   *)


(* A set of natural numbers has a least one.                               *)
LEMMA Least ==
  ASSUME NEW S \in SUBSET Nat, S # {}
  PROVE  \E i \in S : \A j \in S : i <= j
<1>1. PICK i \in S : \A j \in S : ~(<<j, i>> \in OpToRel(<, Nat))
  BY NatLessThanWellFounded, WFMin
<1>2. \A j \in S : ~(j < i)
  BY <1>1 DEF OpToRel
<1> QED BY <1>2

-----------------------------------------------------------------------------
(* The order of OIDs.                                                      *)

(* Precedes, subidentifier by subidentifier.                               *)
Less(a, b) ==
  \/ Len(a) < Len(b) /\ \A j \in 1 .. Len(a) : a[j] = b[j]
  \/ \E i \in Nat : /\ i \in 1 .. Len(a) /\ i \in 1 .. Len(b)
                    /\ \A j \in 1 .. i - 1 : a[j] = b[j]
                    /\ a[i] < b[i]

(* An OID is a finite sequence of numbers.                                 *)
LEMMA OidTypes ==
  ASSUME NEW a \in Oids
  PROVE  /\ Len(a) \in Nat /\ DOMAIN a = 1 .. Len(a)
         /\ \A j \in 1 .. Len(a) : a[j] \in 0 .. 99 /\ a[j] \in Nat
<1>1. Len(a) \in Nat /\ DOMAIN a = 1 .. Len(a)
  BY DEF Oids
<1>2. PICK S : S = 0 .. 99
  OBVIOUS
<1>3. a \in Seq(S)
  BY <1>2, Zenon DEF Oids
<1>4. \A j \in 1 .. Len(a) : a[j] \in S
  BY <1>3, ElementOfSeq
<1>5. \A x \in S : x \in 0 .. 99 /\ x \in Nat
  BY <1>2
<1> QED BY <1>1, <1>4, <1>5

(* The first n parts of a sequence.                                        *)
LEMMA BeginningOf ==
  ASSUME NEW S, NEW c, NEW n \in Nat, \A j \in 1 .. n : c[j] \in S
  PROVE  /\ SubSeq(c, 1, n) \in Seq(S)
         /\ Len(SubSeq(c, 1, n)) = n
         /\ \A j \in 1 .. n : SubSeq(c, 1, n)[j] = c[j]
OBVIOUS

(* A beginning is told by its subidentifiers.                              *)
LEMMA Begins ==
  ASSUME NEW a \in Oids, NEW b \in Oids, NEW n \in Nat, n <= Len(a), n <= Len(b)
  PROVE  SubSeq(a, 1, n) = SubSeq(b, 1, n) <=> \A j \in 1 .. n : a[j] = b[j]
<1>1. /\ SubSeq(a, 1, n) \in Oids /\ Len(SubSeq(a, 1, n)) = n
      /\ \A j \in 1 .. n : SubSeq(a, 1, n)[j] = a[j]
      /\ SubSeq(b, 1, n) \in Oids /\ Len(SubSeq(b, 1, n)) = n
      /\ \A j \in 1 .. n : SubSeq(b, 1, n)[j] = b[j]
  <2>1. ASSUME NEW c \in Oids, n <= Len(c)
        PROVE  /\ SubSeq(c, 1, n) \in Oids /\ Len(SubSeq(c, 1, n)) = n
               /\ \A j \in 1 .. n : SubSeq(c, 1, n)[j] = c[j]
    <3>1. \A j \in 1 .. n : c[j] \in 0 .. 99
      <4>1. n <= Len(c) /\ Len(c) \in Nat
        BY <2>1, OidTypes
      <4>2. \A j \in 1 .. n : j \in 1 .. Len(c)
        BY <4>1
      <4> QED BY <4>2, OidTypes
    <3> QED BY <3>1, BeginningOf DEF Oids
  <2> QED BY <2>1
<1> QED BY <1>1, SeqEqual DEF Oids

(* Below, subidentifier by subidentifier.                                  *)
LEMMA BelowPointwise ==
  ASSUME NEW o \in Oids, NEW root \in Oids
  PROVE  Below(o, root) <=> Len(root) < Len(o) /\ \A j \in 1 .. Len(root) : root[j] = o[j]
<1>1. Len(o) \in Nat /\ Len(root) \in Nat
  BY DEF Oids
<1>2. SubSeq(root, 1, Len(root)) = root
  BY DEF Oids
<1> QED BY <1>1, <1>2, Begins DEF Below

(* Less is Precedes.                                                       *)
LEMMA PrecedesPointwise ==
  ASSUME NEW a \in Oids, NEW b \in Oids
  PROVE  Precedes(a, b) <=> Less(a, b)
<1>1. /\ Len(a) \in Nat /\ Len(b) \in Nat
      /\ DOMAIN a = 1 .. Len(a) /\ DOMAIN b = 1 .. Len(b)
  BY OidTypes
<1>2. ASSUME NEW i \in DOMAIN a \cap DOMAIN b
      PROVE  SubSeq(a, 1, i - 1) = SubSeq(b, 1, i - 1) <=> \A j \in 1 .. i - 1 : a[j] = b[j]
  <2>1. i - 1 \in Nat /\ i - 1 <= Len(a) /\ i - 1 <= Len(b)
    BY <1>1
  <2> QED BY <2>1, Begins
<1>3. Below(b, a) <=> Len(a) < Len(b) /\ \A j \in 1 .. Len(a) : a[j] = b[j]
  BY BelowPointwise
<1>4. ASSUME NEW i \in Nat, i \in 1 .. Len(a), i \in 1 .. Len(b),
             \A j \in 1 .. i - 1 : a[j] = b[j], a[i] < b[i]
      PROVE  Precedes(a, b)
  <2>1. i \in DOMAIN a \cap DOMAIN b
    BY <1>1, <1>4
  <2> QED BY <1>2, <1>4, <2>1 DEF Precedes
<1>5. ASSUME NEW i \in DOMAIN a \cap DOMAIN b,
             SubSeq(a, 1, i - 1) = SubSeq(b, 1, i - 1), a[i] < b[i]
      PROVE  Less(a, b)
  <2>1. i \in Nat /\ i \in 1 .. Len(a) /\ i \in 1 .. Len(b)
    BY <1>1
  <2>2. \A j \in 1 .. i - 1 : a[j] = b[j]
    BY <1>2, <1>5
  <2> QED BY <1>5, <2>1, <2>2 DEF Less
<1>6. Precedes(a, b) => Less(a, b)
  BY <1>3, <1>5 DEF Precedes, Less
<1>7. Less(a, b) => Precedes(a, b)
  <2>1. Below(b, a) => Precedes(a, b)
    BY DEF Precedes
  <2> QED BY <1>3, <1>4, <2>1 DEF Less
<1> QED BY <1>6, <1>7

(* Precedes is a strict order: transitive, and one way only.               *)
LEMMA PrecedesTransitive ==
  ASSUME NEW a \in Oids, NEW b \in Oids, NEW c \in Oids, Precedes(a, b), Precedes(b, c)
  PROVE  Precedes(a, c)
<1>1. /\ Len(a) \in Nat /\ Len(b) \in Nat /\ Len(c) \in Nat
      /\ \A j \in 1 .. Len(a) : a[j] \in Nat
      /\ \A j \in 1 .. Len(b) : b[j] \in Nat
      /\ \A j \in 1 .. Len(c) : c[j] \in Nat
  BY OidTypes
<1>2. Less(a, b) /\ Less(b, c)
  BY PrecedesPointwise
<1>3. ASSUME Len(a) < Len(b), \A j \in 1 .. Len(a) : a[j] = b[j],
             Len(b) < Len(c), \A j \in 1 .. Len(b) : b[j] = c[j]
      PROVE  Less(a, c)
  <2>1. Len(a) < Len(c) /\ \A j \in 1 .. Len(a) : j \in 1 .. Len(b)
    BY <1>1, <1>3
  <2>2. \A j \in 1 .. Len(a) : a[j] = c[j]
    BY <1>3, <2>1
  <2> QED BY <2>1, <2>2 DEF Less
<1>4. ASSUME Len(a) < Len(b), \A j \in 1 .. Len(a) : a[j] = b[j],
             NEW i \in Nat, i \in 1 .. Len(b), i \in 1 .. Len(c),
             \A j \in 1 .. i - 1 : b[j] = c[j], b[i] < c[i]
      PROVE  Less(a, c)
  <2>1. CASE i <= Len(a)
    BY <1>1, <1>4, <2>1 DEF Less
  <2>2. CASE i > Len(a)
    BY <1>1, <1>4, <2>2 DEF Less
  <2> QED BY <1>1, <2>1, <2>2
<1>5. ASSUME NEW i \in Nat, i \in 1 .. Len(a), i \in 1 .. Len(b),
             \A j \in 1 .. i - 1 : a[j] = b[j], a[i] < b[i],
             Len(b) < Len(c), \A j \in 1 .. Len(b) : b[j] = c[j]
      PROVE  Less(a, c)
  BY <1>1, <1>5 DEF Less
<1>6. ASSUME NEW i \in Nat, i \in 1 .. Len(a), i \in 1 .. Len(b),
             \A j \in 1 .. i - 1 : a[j] = b[j], a[i] < b[i],
             NEW k \in Nat, k \in 1 .. Len(b), k \in 1 .. Len(c),
             \A j \in 1 .. k - 1 : b[j] = c[j], b[k] < c[k]
      PROVE  Less(a, c)
  <2>1. CASE i < k
    <3>1. i \in 1 .. Len(c) /\ \A j \in 1 .. i : j \in 1 .. k - 1
      BY <1>1, <1>6, <2>1
    <3>2. \A j \in 1 .. i : b[j] = c[j]
      BY <1>6, <3>1
    <3>3. i \in 1 .. i /\ \A j \in 1 .. i - 1 : j \in 1 .. i
      BY <1>6
    <3>4. a[i] < c[i] /\ \A j \in 1 .. i - 1 : a[j] = c[j]
      BY <1>6, <3>2, <3>3
    <3> QED BY <1>6, <3>1, <3>4 DEF Less
  <2>2. CASE i = k
    <3>1. i \in 1 .. Len(c) /\ \A j \in 1 .. i - 1 : b[j] = c[j]
      BY <1>6, <2>2
    <3>2. a[i] < c[i]
      BY <1>1, <1>6, <2>2
    <3> QED BY <1>6, <3>1, <3>2 DEF Less
  <2>3. CASE i > k
    <3>1. k \in 1 .. Len(a) /\ \A j \in 1 .. k : j \in 1 .. i - 1
      BY <1>1, <1>6, <2>3
    <3>2. \A j \in 1 .. k : a[j] = b[j]
      BY <1>6, <3>1
    <3>3. k \in 1 .. k /\ \A j \in 1 .. k - 1 : j \in 1 .. k
      BY <1>6
    <3>4. a[k] < c[k] /\ \A j \in 1 .. k - 1 : a[j] = c[j]
      BY <1>6, <3>2, <3>3
    <3> QED BY <1>6, <3>1, <3>4 DEF Less
  <2> QED BY <2>1, <2>2, <2>3
<1>7. Less(a, c)
  BY <1>2, <1>3, <1>4, <1>5, <1>6 DEF Less
<1> QED BY <1>7, PrecedesPointwise

(* No OID precedes itself or one that precedes it.                         *)
LEMMA PrecedesIrreflexive ==
  ASSUME NEW a \in Oids, NEW b \in Oids, Precedes(a, b)
  PROVE  a # b /\ ~Precedes(b, a)
<1>1. /\ Len(a) \in Nat /\ Len(b) \in Nat
      /\ \A j \in 1 .. Len(a) : a[j] \in Nat
      /\ \A j \in 1 .. Len(b) : b[j] \in Nat
  BY OidTypes
<1>2. Less(a, b)
  BY PrecedesPointwise
<1>3. ~Less(a, a)
  BY <1>1 DEF Less
<1>4. ~Precedes(a, a)
  BY <1>3, PrecedesPointwise
<1> QED BY <1>4, PrecedesTransitive

(* Where two OIDs differ first decides between them.                       *)
LEMMA FirstDifference ==
  ASSUME NEW a \in Oids, NEW b \in Oids
  PROVE  LET n == IF Len(a) < Len(b) THEN Len(a) ELSE Len(b)
             differ == {i \in 1 .. n : a[i] # b[i]}
             i == CHOOSE i \in differ : \A j \in differ : i <= j
         IN /\ n \in Nat /\ n <= Len(a) /\ n <= Len(b) /\ n \in {Len(a), Len(b)}
            /\ differ # {} => /\ i \in 1 .. n /\ a[i] # b[i]
                              /\ \A j \in 1 .. i - 1 : a[j] = b[j]
            /\ differ = {} => \A j \in 1 .. n : a[j] = b[j]
<1> DEFINE n == IF Len(a) < Len(b) THEN Len(a) ELSE Len(b)
           differ == {i \in 1 .. n : a[i] # b[i]}
           i == CHOOSE i \in differ : \A j \in differ : i <= j
<1>1. n \in Nat /\ n <= Len(a) /\ n <= Len(b) /\ n \in {Len(a), Len(b)}
  BY DEF Oids
<1> HIDE DEF n
<1>2. ASSUME differ # {}
      PROVE  i \in 1 .. n /\ a[i] # b[i] /\ \A j \in 1 .. i - 1 : a[j] = b[j]
  <2>1. differ \in SUBSET Nat
    BY <1>1
  <2>2. \E k \in differ : \A j \in differ : k <= j
    BY <1>2, <2>1, Least
  <2>3. i \in differ /\ \A j \in differ : i <= j
    BY <2>2
  <2> HIDE DEF i
  <2> QED BY <1>1, <2>3
<1>3. differ = {} => \A j \in 1 .. n : a[j] = b[j]
  OBVIOUS
<1> QED BY <1>1, <1>2, <1>3 DEF n

(* oidcompare is this order: what it says of two OIDs is which of them     *)
(* comes first in the management tree.                                     *)
THEOREM OidCompareOrders ==
  ASSUME NEW a \in Oids, NEW b \in Oids
  PROVE  /\ OidCompare(a, b) < 0 <=> Precedes(a, b)
         /\ OidCompare(a, b) > 0 <=> Precedes(b, a)
         /\ OidCompare(a, b) = 0 <=> a = b
         /\ OidCompare(a, b) \in {-1, 0, 1}
<1>1. /\ Len(a) \in Nat /\ Len(b) \in Nat
      /\ \A j \in 1 .. Len(a) : a[j] \in Nat
      /\ \A j \in 1 .. Len(b) : b[j] \in Nat
  BY OidTypes
<1> DEFINE n == IF Len(a) < Len(b) THEN Len(a) ELSE Len(b)
           differ == {i \in 1 .. n : a[i] # b[i]}
           i == CHOOSE i \in differ : \A j \in differ : i <= j
<1>2. /\ n \in Nat /\ n <= Len(a) /\ n <= Len(b) /\ n \in {Len(a), Len(b)}
      /\ differ # {} => /\ i \in 1 .. n /\ a[i] # b[i]
                        /\ \A j \in 1 .. i - 1 : a[j] = b[j]
      /\ differ = {} => \A j \in 1 .. n : a[j] = b[j]
  BY FirstDifference
<1>3. OidCompare(a, b) =
        CASE differ # {} /\ a[i] > b[i] -> 1
          [] differ # {} /\ a[i] < b[i] -> -1
          [] differ = {} -> IF Len(a) < Len(b) THEN -1
                            ELSE IF Len(b) < Len(a) THEN 1 ELSE 0
  BY DEF OidCompare
<1> HIDE DEF n, differ, i
<1>4. \/ OidCompare(a, b) = -1 /\ Less(a, b)
      \/ OidCompare(a, b) = 1 /\ Less(b, a)
      \/ OidCompare(a, b) = 0 /\ a = b
  <2>1. CASE differ # {} /\ a[i] > b[i]
    <3>1. OidCompare(a, b) = 1
      BY <1>1, <1>2, <1>3, <2>1
    <3>2. PICK k \in 1 .. n : k = i
      BY <1>2, <2>1
    <3>3. /\ k \in Nat /\ k \in 1 .. Len(a) /\ k \in 1 .. Len(b)
          /\ a[k] \in Nat /\ b[k] \in Nat
          /\ \A j \in 1 .. k - 1 : a[j] = b[j]
          /\ b[k] < a[k]
      BY <1>1, <1>2, <2>1, <3>2
    <3>4. Less(b, a)
      BY <3>3 DEF Less
    <3> QED BY <3>1, <3>4
  <2>2. CASE differ # {} /\ a[i] < b[i]
    <3>1. OidCompare(a, b) = -1
      BY <1>1, <1>2, <1>3, <2>2
    <3>2. PICK k \in 1 .. n : k = i
      BY <1>2, <2>2
    <3>3. /\ k \in Nat /\ k \in 1 .. Len(a) /\ k \in 1 .. Len(b)
          /\ a[k] \in Nat /\ b[k] \in Nat
          /\ \A j \in 1 .. k - 1 : a[j] = b[j]
          /\ a[k] < b[k]
      BY <1>1, <1>2, <2>2, <3>2
    <3>4. Less(a, b)
      BY <3>3 DEF Less
    <3> QED BY <3>1, <3>4
  <2>3. CASE differ = {} /\ Len(a) < Len(b)
    <3>1. OidCompare(a, b) = -1
      BY <1>3, <2>3
    <3>2. Less(a, b)
      BY <1>1, <1>2, <2>3 DEF Less
    <3> QED BY <3>1, <3>2
  <2>4. CASE differ = {} /\ Len(b) < Len(a)
    <3>1. OidCompare(a, b) = 1
      BY <1>1, <1>3, <2>4
    <3>2. Less(b, a)
      BY <1>1, <1>2, <2>4 DEF Less
    <3> QED BY <3>1, <3>2
  <2>5. CASE differ = {} /\ Len(a) = Len(b)
    <3>1. OidCompare(a, b) = 0
      BY <1>1, <1>3, <2>5
    <3>2. a = b
      BY <1>1, <1>2, <2>5, SeqEqual DEF Oids
    <3> QED BY <3>1, <3>2
  <2>6. differ # {} => a[i] \in Nat /\ b[i] \in Nat
    BY <1>1, <1>2
  <2> QED BY <1>1, <1>2, <2>1, <2>2, <2>3, <2>4, <2>5, <2>6
<1> QED BY <1>4, PrecedesPointwise, PrecedesIrreflexive

(* A subtree is one stretch of the order.                                  *)
LEMMA SubtreeConvex ==
  ASSUME NEW root \in Oids, NEW x \in Oids, NEW o \in Oids,
         Precedes(root, x), Precedes(x, o), Below(o, root)
  PROVE  Below(x, root)
<1>1. /\ Len(root) \in Nat /\ Len(x) \in Nat /\ Len(o) \in Nat
      /\ \A j \in 1 .. Len(root) : root[j] \in Nat
      /\ \A j \in 1 .. Len(x) : x[j] \in Nat
      /\ \A j \in 1 .. Len(o) : o[j] \in Nat
  BY OidTypes
<1>2. Less(root, x) /\ Less(x, o)
  BY PrecedesPointwise
<1>3. Len(root) < Len(o) /\ \A j \in 1 .. Len(root) : root[j] = o[j]
  BY BelowPointwise
<1>4. ASSUME NEW i \in Nat, i \in 1 .. Len(root), i \in 1 .. Len(x),
             \A j \in 1 .. i - 1 : root[j] = x[j], root[i] < x[i]
      PROVE  FALSE
  <2>1. Less(o, x)
    BY <1>1, <1>3, <1>4 DEF Less
  <2> QED BY <2>1, PrecedesPointwise, PrecedesIrreflexive
<1>5. Len(root) < Len(x) /\ \A j \in 1 .. Len(root) : root[j] = x[j]
  BY <1>2, <1>4 DEF Less
<1> QED BY <1>5, BelowPointwise
-----------------------------------------------------------------------------
(* The text of OIDs.                                                       *)

(* The texts of the beginnings of an OID, up to its n-th subidentifier.    *)
IsTexts(f, oid, n) ==
  f = [i \in 1 .. n |-> IF i = 1 THEN Digits(oid[1])
                        ELSE f[i - 1] \o <<Dot>> \o Digits(oid[i])]

(* There are such texts: the definition of Text recurs on smaller numbers. *)
LEMMA TextsExist ==
  ASSUME NEW oid
  PROVE  \A n \in Nat : \E f : IsTexts(f, oid, n)
<1> DEFINE Bad == {n \in Nat : ~\E f : IsTexts(f, oid, n)}
<1> SUFFICES ASSUME Bad # {} PROVE FALSE
  OBVIOUS
<1>1. PICK n \in Bad : \A m \in Bad : n <= m
  BY Least
<1>2. n \in Nat /\ ~\E f : IsTexts(f, oid, n)
  OBVIOUS
<1>3. n # 0
  <2>1. IsTexts([i \in 1 .. 0 |-> 0], oid, 0)
    BY DEF IsTexts
  <2> QED BY <1>2, <2>1
<1>4. PICK m \in Nat : n = m + 1
  <2>1. n - 1 \in Nat /\ n = (n - 1) + 1
    BY <1>2, <1>3
  <2> QED BY <2>1
<1>5. m \notin Bad
  BY <1>1, <1>4
<1> HIDE DEF Bad
<1>6. PICK g : IsTexts(g, oid, m)
  BY <1>5 DEF Bad
<1> DEFINE f == [i \in 1 .. n |-> IF i = 1 THEN Digits(oid[1])
                                  ELSE g[i - 1] \o <<Dot>> \o Digits(oid[i])]
<1>7. ASSUME NEW i \in 1 .. m
      PROVE  f[i] = g[i]
  <2>1. g[i] = IF i = 1 THEN Digits(oid[1]) ELSE g[i - 1] \o <<Dot>> \o Digits(oid[i])
    BY <1>6, Zenon DEF IsTexts
  <2>2. i \in 1 .. n
    BY <1>4
  <2> QED BY <2>1, <2>2
<1>8. ASSUME NEW i \in 1 .. n, i # 1
      PROVE  f[i - 1] = g[i - 1]
  <2>1. i - 1 \in 1 .. m
    BY <1>4, <1>8
  <2> QED BY <1>7, <2>1
<1> HIDE DEF f
<1>9. f = [i \in 1 .. n |-> IF i = 1 THEN Digits(oid[1])
                            ELSE f[i - 1] \o <<Dot>> \o Digits(oid[i])]
  BY <1>8 DEF f
<1> QED BY <1>2, <1>9 DEF IsTexts

(* The text of an OID is the last of them.                                 *)
LEMMA TextIs ==
  ASSUME NEW oid, Len(oid) \in Nat
  PROVE  \E f : IsTexts(f, oid, Len(oid)) /\ Text(oid) = f[Len(oid)]
<1>1. PICK f : f = CHOOSE g : IsTexts(g, oid, Len(oid))
  OBVIOUS
<1>2. IsTexts(f, oid, Len(oid))
  BY <1>1, TextsExist
<1>3. Text(oid) = f[Len(oid)]
  BY <1>1 DEF Text, IsTexts
<1> QED BY <1>2, <1>3

(* One text begins another.                                                *)
Starts(s, t) == Len(s) <= Len(t) /\ \A j \in 1 .. Len(s) : s[j] = t[j]

(* The texts of the beginnings of an OID are texts, each of which begins   *)
(* the next.                                                               *)
LEMMA TextsGrow ==
  ASSUME NEW oid \in Oids, NEW f, IsTexts(f, oid, Len(oid))
  PROVE  /\ \A i \in 1 .. Len(oid) : f[i] \in Seq(Nat)
         /\ \A n, i \in 1 .. Len(oid) : n <= i => Starts(f[n], f[i])
<1>1. /\ Len(oid) \in Nat
      /\ \A i \in 1 .. Len(oid) : oid[i] \in Nat
  BY OidTypes
<1>2. \A i \in 1 .. Len(oid) :
        f[i] = IF i = 1 THEN Digits(oid[1]) ELSE f[i - 1] \o <<Dot>> \o Digits(oid[i])
  BY Zenon DEF IsTexts
<1>3. \A i \in 1 .. Len(oid) : Digits(oid[i]) \in Seq(Nat)
  BY <1>1 DEF Digits
<1>4. \A i \in 1 .. Len(oid) : f[i] \in Seq(Nat)
  <2> DEFINE Bad == {i \in 1 .. Len(oid) : f[i] \notin Seq(Nat)}
  <2> SUFFICES ASSUME Bad # {} PROVE FALSE
    OBVIOUS
  <2>0. Bad \in SUBSET Nat
    BY <1>1
  <2>1. PICK i \in Bad : \A j \in Bad : i <= j
    BY <2>0, Least
  <2>2. i \in 1 .. Len(oid) /\ f[i] \notin Seq(Nat)
    OBVIOUS
  <2>3. i # 1
    BY <1>2, <1>3, <2>2
  <2>4. PICK k \in 1 .. Len(oid) : k = i - 1
    BY <1>1, <2>2, <2>3
  <2>5. f[k] \in Seq(Nat)
    BY <1>1, <2>1, <2>4
  <2> HIDE DEF Bad
  <2>6. f[i] = f[k] \o <<Dot>> \o Digits(oid[i])
    BY <1>2, <2>2, <2>3, <2>4
  <2>7. <<Dot>> \in Seq(Nat)
    BY DEF Dot
  <2> QED BY <1>3, <2>2, <2>5, <2>6, <2>7
<1>5. ASSUME NEW k \in 1 .. Len(oid), NEW i \in 1 .. Len(oid), i = k + 1
      PROVE  Starts(f[k], f[i])
  <2>1. f[i] = f[k] \o <<Dot>> \o Digits(oid[i])
    <3>1. i # 1 /\ i - 1 = k
      BY <1>1, <1>5
    <3> QED BY <1>2, <3>1
  <2>2. <<Dot>> \in Seq(Nat)
    BY DEF Dot
  <2>3. PICK s \in Seq(Nat), d \in Seq(Nat) : s = f[k] /\ d = Digits(oid[i])
    BY <1>3, <1>4
  <2>4. Starts(s, s \o <<Dot>> \o d)
    BY <2>2 DEF Starts
  <2> QED BY <2>1, <2>3, <2>4
<1>6. ASSUME NEW n \in 1 .. Len(oid), NEW i \in 1 .. Len(oid), n <= i
      PROVE  Starts(f[n], f[i])
  <2> DEFINE Bad == {m \in n .. Len(oid) : ~Starts(f[n], f[m])}
  <2> SUFFICES ASSUME Bad # {} PROVE FALSE
    BY <1>6
  <2>0. Bad \in SUBSET Nat
    BY <1>1
  <2>1. PICK m \in Bad : \A j \in Bad : m <= j
    BY <2>0, Least
  <2>2. m \in 1 .. Len(oid) /\ ~Starts(f[n], f[m])
    OBVIOUS
  <2>3. m # n
    <3>1. Len(f[n]) \in Nat
      BY <1>4
    <3>2. Starts(f[n], f[n])
      BY <3>1 DEF Starts
    <3> QED BY <2>2, <3>2
  <2>4. PICK k \in 1 .. Len(oid) : m = k + 1 /\ k >= n
    <3>1. m - 1 \in 1 .. Len(oid) /\ m = (m - 1) + 1 /\ m - 1 >= n
      BY <1>1, <2>3
    <3> QED BY <3>1
  <2>5. Starts(f[n], f[k])
    BY <1>1, <2>1, <2>4
  <2>6. Starts(f[k], f[m])
    BY <1>5, <2>2, <2>4
  <2>7. Len(f[n]) \in Nat /\ Len(f[k]) \in Nat /\ Len(f[m]) \in Nat
    BY <1>4, <2>2
  <2>8. Starts(f[n], f[m])
    <3>1. Len(f[n]) <= Len(f[k]) /\ Len(f[k]) <= Len(f[m])
      BY <2>5, <2>6 DEF Starts
    <3>2. ASSUME NEW j \in 1 .. Len(f[n]) PROVE f[n][j] = f[m][j]
      <4>1. j \in 1 .. Len(f[k])
        BY <2>7, <3>1
      <4> QED BY <2>5, <2>6, <4>1, Zenon DEF Starts
    <3>3. Len(f[n]) <= Len(f[m])
      BY <2>7, <3>1
    <3> QED BY <3>2, <3>3 DEF Starts
  <2> QED BY <2>2, <2>8
<1> QED BY <1>4, <1>6

(* The text of an object below a root begins with the text of the root, so *)
(* walk finds it there.                                                    *)
LEMMA FoundBelow ==
  ASSUME NEW root \in Oids, root # <<>>, NEW o \in Oids, Below(o, root)
  PROVE  ~Outside(o, root)
<1>1. /\ Len(root) \in Nat \ {0} /\ Len(o) \in Nat /\ Len(root) < Len(o)
      /\ \A j \in 1 .. Len(root) : root[j] = o[j]
  BY BelowPointwise, OidTypes, EmptySeq DEF Oids
<1>2. PICK f : IsTexts(f, root, Len(root)) /\ Text(root) = f[Len(root)]
  BY <1>1, TextIs
<1>3. PICK g : IsTexts(g, o, Len(o)) /\ Text(o) = g[Len(o)]
  BY <1>1, TextIs
<1>4. \A i \in 1 .. Len(root) : f[i] = g[i]
  <2> DEFINE Bad == {i \in 1 .. Len(root) : f[i] # g[i]}
  <2> SUFFICES ASSUME Bad # {} PROVE FALSE
    OBVIOUS
  <2>0. Bad \in SUBSET Nat
    BY <1>1
  <2>1. PICK i \in Bad : \A j \in Bad : i <= j
    BY <2>0, Least
  <2>2. i \in 1 .. Len(root) /\ i \in 1 .. Len(o) /\ f[i] # g[i]
    BY <1>1
  <2>3. /\ f[i] = IF i = 1 THEN Digits(root[1]) ELSE f[i - 1] \o <<Dot>> \o Digits(root[i])
        /\ g[i] = IF i = 1 THEN Digits(o[1]) ELSE g[i - 1] \o <<Dot>> \o Digits(o[i])
    BY <1>2, <1>3, <2>2, Zenon DEF IsTexts
  <2>4. i # 1
    BY <1>1, <2>2, <2>3
  <2>5. PICK k \in 1 .. Len(root) : k = i - 1
    BY <1>1, <2>2, <2>4
  <2>6. f[k] = g[k]
    BY <1>1, <2>1, <2>5
  <2> QED BY <1>1, <2>2, <2>3, <2>4, <2>5, <2>6
<1>5. Starts(Text(root), Text(o)) /\ Len(Text(root)) \in Nat /\ Len(Text(o)) \in Nat
  <2>1. Len(root) \in 1 .. Len(root) /\ Len(root) \in 1 .. Len(o) /\ Len(o) \in 1 .. Len(o)
    BY <1>1
  <2>2. Text(root) = g[Len(root)]
    BY <1>2, <1>4, <2>1
  <2> QED BY <1>1, <1>3, <2>1, <2>2, TextsGrow
<1>6. Found(Text(o), Text(root))
  <2>1. 0 \in 0 .. Len(Text(o)) - Len(Text(root))
    BY <1>5 DEF Starts
  <2>2. \A j \in 1 .. Len(Text(root)) : Text(root)[j] \in {Dot, Text(o)[0 + j]}
    BY <1>5 DEF Starts
  <2> QED BY <2>1, <2>2 DEF Found
<1>7. ~(Len(o) < Len(root))
  BY <1>1
<1> QED BY <1>6, <1>7 DEF Outside
-----------------------------------------------------------------------------
(* Types.                                                                  *)

(* The objects and the roots are OIDs.                                     *)
LEMMA ObjectsAreOids == Oid \cup Root \subseteq Oids \ {<<>>}
BY WalkAssumption DEF Oids

(* A step that only changes where the walk is and what it has got.         *)
LEMMA AfterGoto ==
  ASSUME walk \in Walks, NEW pc, NEW t, NEW err, Goto(pc, t, err)
  PROVE  /\ walk'.pc = pc /\ walk'.t = t /\ walk'.err = err
         /\ walk'.root = walk.root /\ walk'.last = walk.last
         /\ pc \in {"root", "next", "single", "done"} /\ t \in Seq(Binding)
              /\ err \in {"none", "failed", "noSuchName", "BADOID"} => walk' \in Walks
<1>1. walk' = [walk EXCEPT !.pc = pc, !.t = t, !.err = err]
  BY DEF Goto
<1> QED BY <1>1 DEF Walks

(* The root's entry.                                                       *)
LEMMA RootBound ==
  ASSUME walk \in Walks
  PROVE  /\ RootBinding \in Binding
         /\ RootBinding.oid = walk.root /\ RootBinding.found = (walk.root \in tree)
         /\ <<RootBinding>> \in Seq(Binding)
         /\ Append(<<>>, RootBinding) = <<RootBinding>>
         /\ Len(<<RootBinding>>) = 1 /\ <<RootBinding>>[1] = RootBinding
         /\ DOMAIN <<RootBinding>> = {1}
<1>1. walk.root \in Oids
  BY DEF Walks
<1>3. RootBinding \in Binding
  BY <1>1 DEF RootBinding, Binding
<1>4. RootBinding.oid = walk.root /\ RootBinding.found = (walk.root \in tree)
  BY Zenon DEF RootBinding
<1> HIDE DEF RootBinding
<1> QED BY <1>3, <1>4

(* What a step of the walk does, in one form: it goes on, with the entry   *)
(* of the root or a further one, or leaves its loop, or ends.              *)
LEMMA WalkingSteps ==
  ASSUME WalkTypeOK, Walking
  PROVE  /\ Running /\ UNCHANGED Agent
         /\ \/ /\ walk.pc = "root" /\ UNCHANGED sane
               /\ Goto("next", <<RootBinding>>, "none")
            \/ /\ walk.pc = "next"
               /\ sane' = (sane /\ After(walk.last) = {})
               /\ \/ walk.t = <<>> /\ Goto("single", walk.t, "none")
                  \/ /\ walk.t # <<>> \/ session.version = "SNMPv1"
                     /\ Return(walk.t, "none")
            \/ \E o \in Oid :
                 /\ walk.pc = "next"
                 /\ sane' = (sane /\ IsNext(o, walk.last))
                 /\ \/ /\ Outside(o, walk.root)
                       /\ \/ walk.t = <<>> /\ Goto("single", walk.t, "none")
                          \/ walk.t # <<>> /\ Return(walk.t, "none")
                    \/ /\ ~Outside(o, walk.root) /\ Precedes(walk.last, o)
                       /\ walk' = [walk EXCEPT !.last = o,
                                               !.t = Append(@, [oid |-> o, found |-> TRUE])]
                    \/ ~Precedes(walk.last, o) /\ Return(<<>>, "BADOID")
            \/ /\ walk.pc = "single" /\ UNCHANGED sane
               /\ \/ Return(<<>>, "noSuchName")
                  \/ Return(Append(walk.t, RootBinding), "none")
            \/ /\ UNCHANGED sane
               /\ Return(<<>>, "failed") \/ Return(walk.t, "failed")
<1>1. CASE GetRoot
  BY <1>1 DEF GetRoot, Running
<1>2. CASE NextEnds
  BY <1>2 DEF NextEnds, LeaveLoop, Running
<1>3. ASSUME NEW o \in Oid, NextReturns(o)
      PROVE  /\ walk.pc = "next" /\ Running /\ UNCHANGED Agent
             /\ sane' = (sane /\ IsNext(o, walk.last))
             /\ \/ /\ Outside(o, walk.root)
                   /\ \/ walk.t = <<>> /\ Goto("single", walk.t, "none")
                      \/ walk.t # <<>> /\ Return(walk.t, "none")
                \/ /\ ~Outside(o, walk.root) /\ Precedes(walk.last, o)
                   /\ walk' = [walk EXCEPT !.last = o,
                                           !.t = Append(@, [oid |-> o, found |-> TRUE])]
                \/ ~Precedes(walk.last, o) /\ Return(<<>>, "BADOID")
  <2>1. walk.pc = "next" /\ Running /\ UNCHANGED Agent /\ sane' = (sane /\ IsNext(o, walk.last))
    BY <1>3 DEF NextReturns, Running
  <2>2. Accepts(o) <=> Precedes(walk.last, o)
    BY OidCompareOrders, ObjectsAreOids DEF Accepts, WalkTypeOK, Walks
  <2>3. CASE Outside(o, walk.root)
    <3>1. LeaveLoop
      BY <1>3, <2>3 DEF NextReturns
    <3> QED BY <2>1, <2>3, <3>1 DEF LeaveLoop
  <2>4. CASE ~Outside(o, walk.root) /\ Accepts(o)
    BY <1>3, <2>1, <2>2, <2>4 DEF NextReturns
  <2>5. CASE ~Outside(o, walk.root) /\ ~Accepts(o)
    <3>1. Return(<<>>, "BADOID")
      BY <1>3, <2>5 DEF NextReturns
    <3> QED BY <2>1, <2>2, <2>5, <3>1
  <2> QED BY <2>3, <2>4, <2>5
<1>4. CASE GetSingle
  BY <1>4 DEF GetSingle, Running
<1>5. CASE RequestFails
  BY <1>5 DEF RequestFails
<1> QED BY <1>1, <1>2, <1>3, <1>4, <1>5 DEF Walking

(* Everything that happens while no walk step is taken: nothing to a walk, *)
(* a change of the tree, or the start of another.                          *)
LEMMA OtherSteps ==
  ASSUME [Next]_vars
  PROVE  \/ Walking
         \/ Sessions
         \/ \E root \in Root : Start(root)
         \/ \E o \in Oid : TreeChanges(o)
         \/ UNCHANGED vars
BY DEF Next

(* No walk: nothing listed, no error.                                      *)
LEMMA IdleIs ==
  /\ Idle \in Walks
  /\ Idle.pc = "idle" /\ Idle.t = <<>> /\ Idle.err = "none"
BY DEF Idle, Walks, Oids

(* Opening and closing leave nothing of a walk.                            *)
LEMMA AfterSessions ==
  ASSUME Sessions
  PROVE  /\ walk' \in Walks /\ walk'.pc = "idle" /\ walk'.t = <<>> /\ walk'.err = "none"
         /\ tree' = {} /\ always' = {} /\ ever' = {} /\ changes' = 0 /\ sane' = TRUE
<1>1. walk' = Idle
  BY DEF Sessions
<1> QED BY <1>1, IdleIs, Zenon DEF Sessions

(* A walk starts at its root with an empty list.                           *)
LEMMA AfterStart ==
  ASSUME NEW root \in Root, Start(root)
  PROVE  /\ walk' \in Walks /\ walk'.pc \in {"root", "next"}
         /\ walk'.root = root /\ walk'.last = root /\ walk'.t = <<>> /\ walk'.err = "none"
         /\ tree' \subseteq Oid /\ always' = tree' /\ ever' = tree'
         /\ changes' = 0 /\ sane' = TRUE
<1>1. PICK pc \in {"root", "next"} :
        walk' = [Idle EXCEPT !.pc = pc, !.root = root, !.last = root]
  BY DEF Start
<1>2. root \in Oids
  BY ObjectsAreOids
<1>3. /\ walk' \in Walks /\ walk'.pc \in {"root", "next"}
      /\ walk'.root = root /\ walk'.last = root /\ walk'.t = <<>> /\ walk'.err = "none"
  BY <1>1, <1>2, IdleIs DEF Walks
<1> QED BY <1>3 DEF Start

(* A further entry of the list.                                            *)
LEMMA AfterObject ==
  ASSUME WalkTypeOK, NEW o \in Oid,
         walk' = [walk EXCEPT !.last = o, !.t = Append(@, [oid |-> o, found |-> TRUE])]
  PROVE  /\ walk' \in Walks
         /\ walk'.pc = walk.pc /\ walk'.root = walk.root /\ walk'.err = walk.err
         /\ walk'.last = o /\ walk'.t = Append(walk.t, [oid |-> o, found |-> TRUE])
<1>1. [oid |-> o, found |-> TRUE] \in Binding
  BY ObjectsAreOids DEF Binding
<1>2. PICK b \in Binding : b = [oid |-> o, found |-> TRUE]
  BY <1>1
<1>3. walk' = [walk EXCEPT !.last = o, !.t = Append(@, b)]
  BY <1>2
<1>4. walk.t \in Seq(Binding) /\ Append(walk.t, b) \in Seq(Binding) /\ o \in Oids /\ walk \in Walks
  BY ObjectsAreOids DEF WalkTypeOK, Walks
<1> QED BY <1>2, <1>3, <1>4 DEF Walks

(* The types hold at first.                                                *)
LEMMA TypesHold == Init => WalkTypeOK
<1> SUFFICES ASSUME Init PROVE WalkTypeOK
  OBVIOUS
<1> QED BY IdleIs DEF Init, WalkTypeOK, Running

(* Every step keeps the types.                                             *)
LEMMA TypesStep ==
  ASSUME WalkTypeOK, [Next]_vars
  PROVE  WalkTypeOK'
<1>1. CASE Walking
  <2>1. /\ Running /\ walk \in Walks /\ walk.root \in Root /\ walk.t \in Seq(Binding)
        /\ walk.err = "none"
        /\ tree' = tree /\ always' = always /\ ever' = ever /\ changes' = changes
    BY <1>1, WalkingSteps DEF Agent, WalkTypeOK, Walks
  <2>2. sane' \in BOOLEAN
    <3>1. sane \in BOOLEAN
      BY DEF WalkTypeOK
    <3>2. \/ sane' = sane
          \/ sane' = (sane /\ After(walk.last) = {})
          \/ \E o \in Oid : sane' = (sane /\ IsNext(o, walk.last))
      BY <1>1, WalkingSteps, Zenon
    <3> QED BY <3>1, <3>2
  <2>3. \/ \E o \in Oid : walk' = [walk EXCEPT !.last = o,
                                               !.t = Append(@, [oid |-> o, found |-> TRUE])]
        \/ \E pc \in {"next", "single"}, t \in {<<>>, walk.t, <<RootBinding>>} : Goto(pc, t, "none")
        \/ \E t \in {<<>>, walk.t, Append(walk.t, RootBinding)},
              err \in {"none", "failed", "noSuchName", "BADOID"} : Return(t, err)
    BY <1>1, WalkingSteps
  <2>4. {<<>>, walk.t, <<RootBinding>>, Append(walk.t, RootBinding)} \subseteq Seq(Binding)
    <3>1. RootBinding \in Binding
      BY <2>1, RootBound
    <3> QED BY <2>1, <3>1
  <2>5. walk' \in Walks /\ (Running' => walk'.root = walk.root /\ walk'.err = "none")
    <3>1. CASE \E o \in Oid : walk' = [walk EXCEPT !.last = o,
                                           !.t = Append(@, [oid |-> o, found |-> TRUE])]
      BY <2>1, <3>1, AfterObject
    <3>2. ASSUME NEW pc \in {"next", "single"}, NEW t \in {<<>>, walk.t, <<RootBinding>>},
                 Goto(pc, t, "none")
          PROVE  walk' \in Walks /\ walk'.root = walk.root /\ walk'.err = "none"
      <4>1. t \in Seq(Binding)
        BY <2>4
      <4> QED BY <2>1, <3>2, <4>1, AfterGoto, SMTT(20)
    <3>3. ASSUME NEW t \in {<<>>, walk.t, Append(walk.t, RootBinding)},
                 NEW err \in {"none", "failed", "noSuchName", "BADOID"}, Return(t, err)
          PROVE  walk' \in Walks /\ ~Running'
      BY <2>1, <2>4, <3>3, AfterGoto DEF Return, Running
    <3> QED BY <2>3, <3>1, <3>2, <3>3
  <2> QED BY <2>1, <2>2, <2>5 DEF WalkTypeOK
<1>2. CASE Sessions
  BY <1>2, AfterSessions DEF WalkTypeOK, Running
<1>3. ASSUME NEW root \in Root, Start(root)
      PROVE  WalkTypeOK'
  <2>1. /\ walk' \in Walks /\ walk'.root = root /\ walk'.err = "none"
        /\ tree' \subseteq Oid /\ always' = tree' /\ ever' = tree'
        /\ changes' = 0 /\ sane' = TRUE
    BY <1>3, AfterStart
  <2> QED BY <2>1 DEF WalkTypeOK
<1>4. ASSUME NEW o \in Oid, TreeChanges(o)
      PROVE  WalkTypeOK'
  <2>1. /\ walk' = walk /\ sane' = sane /\ changes' = changes + 1
        /\ always' = always \cap tree' /\ ever' = ever \cup tree' /\ tree' \subseteq Oid
    BY <1>4 DEF TreeChanges, WalkTypeOK
  <2> QED BY <2>1 DEF WalkTypeOK, Running
<1>5. CASE UNCHANGED vars
  BY <1>5 DEF vars, WalkTypeOK, Running
<1> QED BY <1>1, <1>2, <1>3, <1>4, <1>5, OtherSteps

(* A walk, its list and the agent's trees have their types.                *)
THEOREM WalkTypes == Spec => []WalkTypeOK
<1>1. WalkTypeOK /\ [Next]_vars => WalkTypeOK'
  BY TypesStep
<1> QED BY <1>1, TypesHold, PTL DEF Spec
-----------------------------------------------------------------------------
(* The list and its order.                                                 *)

(* What comes after an OID comes after everything at or before it.         *)
LEMMA AheadOfAll ==
  ASSUME NEW a \in Oids, NEW b \in Oids, NEW c \in Oids, AtOrAfter(b, a), Precedes(b, c)
  PROVE  Precedes(a, c)
BY PrecedesTransitive DEF AtOrAfter

(* A longer list: what it had and the new entry.                           *)
LEMMA Longer ==
  ASSUME NEW t \in Seq(Binding), NEW b \in Binding
  PROVE  /\ Len(t) \in Nat /\ DOMAIN t = 1 .. Len(t)
         /\ \A i \in DOMAIN t : t[i] \in Binding
         /\ DOMAIN Append(t, b) = DOMAIN t \cup {Len(t) + 1}
         /\ \A i \in DOMAIN t : Append(t, b)[i] = t[i]
         /\ Append(t, b)[Len(t) + 1] = b
<1>1. Len(t) \in Nat /\ DOMAIN t = 1 .. Len(t)
  OBVIOUS
<1>2. \A i \in 1 .. Len(t) : t[i] \in Binding
  BY ElementOfSeq
<1>3. /\ Append(t, b) \in Seq(Binding) /\ Len(Append(t, b)) = Len(t) + 1
      /\ \A i \in 1 .. Len(t) : Append(t, b)[i] = t[i]
      /\ Append(t, b)[Len(t) + 1] = b
  BY AppendProperties
<1>4. DOMAIN Append(t, b) = 1 .. Len(t) + 1
  BY <1>3
<1> QED BY <1>1, <1>2, <1>3, <1>4

(* The entries of a list are objects that were asked for or returned.      *)
LEMMA EntriesAreOids ==
  ASSUME WalkTypeOK
  PROVE  \A i \in DOMAIN walk.t : walk.t[i].oid \in Oids
<1>1. walk.t \in Seq(Binding)
  BY DEF WalkTypeOK, Walks
<1>2. \A i \in DOMAIN walk.t : walk.t[i] \in Binding
  BY <1>1, ElementOfSeq
<1> QED BY <1>2 DEF Binding

(* A list of no entry or of one is in order.                               *)
LEMMA ShortSorted ==
  ASSUME walk \in Walks, walk'.t \in {<<>>, <<RootBinding>>}
  PROVE  ListSorted'
<1>1. CASE walk'.t = <<>>
  BY <1>1 DEF ListSorted
<1>2. CASE walk'.t = <<RootBinding>>
  <2>1. DOMAIN walk'.t = {1}
    BY <1>2, RootBound
  <2> QED BY <2>1 DEF ListSorted
<1> QED BY <1>1, <1>2

(* Every step keeps the list in order.                                     *)
LEMMA SortedStep ==
  ASSUME WalkTypeOK, SortedInv, [Next]_vars
  PROVE  SortedInv'
<1>0. walk \in Walks /\ walk.t \in Seq(Binding) /\ walk.last \in Oids /\ walk.root \in Oids
  BY DEF WalkTypeOK, Walks
<1>1. CASE Walking
  <2>0. /\ Running /\ AtOrAfter(walk.last, walk.root)
        /\ \A i \in DOMAIN walk.t : AtOrAfter(walk.last, walk.t[i].oid)
        /\ walk.pc \in {"root", "single"} => walk.t = <<>>
        /\ ListSorted
    BY <1>1, WalkingSteps DEF SortedInv
  <2>1. CASE walk.pc = "root" /\ Goto("next", <<RootBinding>>, "none")
    <3>1. /\ walk'.pc = "next" /\ walk'.t = <<RootBinding>>
          /\ walk'.last = walk.last /\ walk'.root = walk.root
      BY <1>0, <2>1, AfterGoto
    <3>2. ListSorted'
      BY <1>0, <3>1, ShortSorted
    <3>3. \A i \in DOMAIN walk'.t : walk'.t[i].oid = walk.root
      BY <1>0, <3>1, RootBound
    <3> QED BY <2>0, <3>1, <3>2, <3>3 DEF SortedInv, AtOrAfter
  <2>2. CASE walk.t = <<>> /\ Goto("single", walk.t, "none")
    <3>1. walk'.t = <<>> /\ walk'.last = walk.last /\ walk'.root = walk.root
      BY <1>0, <2>2, AfterGoto
    <3> QED BY <2>0, <3>1 DEF SortedInv, ListSorted, AtOrAfter
  <2>3. ASSUME NEW t, NEW err, Return(t, err),
               t \in {<<>>, walk.t, <<RootBinding>>}
        PROVE  SortedInv'
    <3>1. walk'.pc = "done" /\ walk'.t = t
      BY <1>0, <2>3, AfterGoto DEF Return
    <3>2. t \in {<<>>, <<RootBinding>>} => ListSorted'
      BY <1>0, <3>1, ShortSorted
    <3>3. ASSUME t = walk.t
          PROVE  ListSorted'
      <4>1. walk'.t = walk.t
        BY <3>1, <3>3
      <4> QED BY <2>0, <4>1, Zenon DEF ListSorted
    <3>4. ListSorted' /\ ~Running'
      BY <2>3, <3>1, <3>2, <3>3 DEF Running
    <3> QED BY <3>4 DEF SortedInv
  <2>4. ASSUME NEW o \in Oid, Precedes(walk.last, o), walk.pc = "next",
               walk' = [walk EXCEPT !.last = o, !.t = Append(@, [oid |-> o, found |-> TRUE])]
        PROVE  SortedInv'
    <3>1. /\ walk'.pc = walk.pc /\ walk'.root = walk.root /\ walk'.last = o
          /\ walk'.t = Append(walk.t, [oid |-> o, found |-> TRUE])
      BY <2>4, AfterObject
    <3>2. PICK b \in Binding : b = [oid |-> o, found |-> TRUE] /\ b.oid = o
      <4>1. [oid |-> o, found |-> TRUE] \in Binding
        BY ObjectsAreOids DEF Binding
      <4> QED BY <4>1
    <3>3. PICK n \in Nat : n = Len(walk.t) + 1
      BY <1>0
    <3>4. /\ DOMAIN walk.t = 1 .. n - 1 /\ DOMAIN walk'.t = 1 .. n
          /\ \A i \in 1 .. n - 1 : walk'.t[i] = walk.t[i]
          /\ walk'.t[n] = b
      BY <1>0, <3>1, <3>2, <3>3, Longer
    <3>5. o \in Oids
      BY ObjectsAreOids
    <3>6. Precedes(walk.root, o) /\ \A i \in 1 .. n - 1 : Precedes(walk.t[i].oid, o)
      <4>1. \A i \in 1 .. n - 1 : /\ walk.t[i].oid \in Oids
                                 /\ AtOrAfter(walk.last, walk.t[i].oid)
        BY <2>0, <3>4, EntriesAreOids
      <4> QED BY <1>0, <2>0, <2>4, <3>5, <4>1, AheadOfAll
    <3>7. ListSorted'
      <4> SUFFICES ASSUME NEW i \in 1 .. n, NEW j \in 1 .. n, i < j
                   PROVE  Precedes(walk'.t[i].oid, walk'.t[j].oid)
        BY <3>4 DEF ListSorted
      <4>1. i \in 1 .. n - 1 /\ walk'.t[i] = walk.t[i]
        BY <3>4
      <4>2. CASE j = n
        <5>1. Precedes(walk.t[i].oid, o)
          BY <3>6, <4>1
        <5>2. walk'.t[j].oid = o
          BY <3>2, <3>4, <4>2
        <5> QED BY <4>1, <5>1, <5>2
      <4>3. CASE j \in 1 .. n - 1
        BY <2>0, <3>4, <4>1, <4>3 DEF ListSorted
      <4> QED BY <4>2, <4>3
    <3>8. \A i \in DOMAIN walk'.t : AtOrAfter(o, walk'.t[i].oid)
      <4> SUFFICES ASSUME NEW i \in 1 .. n
                   PROVE  AtOrAfter(o, walk'.t[i].oid)
        BY <3>4
      <4>1. CASE i = n
        BY <3>2, <3>4, <4>1 DEF AtOrAfter
      <4>2. CASE i \in 1 .. n - 1
        BY <3>4, <3>6, <4>2 DEF AtOrAfter
      <4> QED BY <4>1, <4>2
    <3> QED BY <2>4, <3>1, <3>6, <3>7, <3>8 DEF SortedInv, AtOrAfter
  <2>5. walk.pc = "single" => Append(walk.t, RootBinding) = <<RootBinding>>
    BY <1>0, <2>0, RootBound
  <2> QED BY <1>1, <2>1, <2>2, <2>3, <2>4, <2>5, WalkingSteps
<1>2. CASE Sessions
  <2>1. walk'.t = <<>> /\ walk'.pc = "idle"
    BY <1>2, AfterSessions
  <2> QED BY <2>1 DEF SortedInv, ListSorted, Running
<1>3. ASSUME NEW root \in Root, Start(root)
      PROVE  SortedInv'
  <2>1. walk'.t = <<>> /\ walk'.last = walk'.root
    BY <1>3, AfterStart
  <2> QED BY <2>1 DEF SortedInv, ListSorted, AtOrAfter
<1>4. CASE walk' = walk
  BY <1>4 DEF SortedInv, ListSorted, AtOrAfter, Running
<1>5. (\E o \in Oid : TreeChanges(o)) \/ UNCHANGED vars => walk' = walk
  BY DEF TreeChanges, vars
<1> QED BY <1>1, <1>2, <1>3, <1>4, <1>5, OtherSteps

(* Whatever the agent answers, the list is in the order of the management  *)
(* tree and has no object twice (the comparison in the loop of walk).      *)
THEOREM WalkSorts == Spec => []ListSorted
<1>1. Init => SortedInv
  <2> SUFFICES ASSUME Init PROVE SortedInv
    OBVIOUS
  <2> QED BY IdleIs DEF Init, SortedInv, ListSorted, Running
<1>2. WalkTypeOK /\ SortedInv /\ [Next]_vars => SortedInv'
  BY SortedStep
<1>3. SortedInv => ListSorted
  BY DEF SortedInv
<1> QED BY <1>1, <1>2, <1>3, WalkTypes, PTL DEF Spec

(* The walk ends with BADOID only when the agent did not return the next   *)
(* object.                                                                 *)
LEMMA BadOidStep ==
  ASSUME WalkTypeOK, BadOidJustified, [Next]_vars
  PROVE  BadOidJustified'
<1>0. walk \in Walks
  BY DEF WalkTypeOK
<1>1. CASE Walking
  <2>1. ASSUME NEW pc, NEW t, NEW err, Goto(pc, t, err), err # "BADOID"
        PROVE  BadOidJustified'
    <3>1. walk'.err = err
      BY <1>0, <2>1, AfterGoto
    <3> QED BY <2>1, <3>1 DEF BadOidJustified
  <2>2. ASSUME NEW o \in Oid, sane' = (sane /\ IsNext(o, walk.last)), ~Precedes(walk.last, o)
        PROVE  BadOidJustified'
    <3>1. ~IsNext(o, walk.last)
      BY <2>2 DEF IsNext, After
    <3> QED BY <2>2, <3>1 DEF BadOidJustified
  <2>3. ASSUME NEW o \in Oid,
               walk' = [walk EXCEPT !.last = o, !.t = Append(@, [oid |-> o, found |-> TRUE])]
        PROVE  BadOidJustified'
    <3>1. walk'.err = "none"
      BY <1>1, <2>3, AfterObject, WalkingSteps DEF WalkTypeOK
    <3> QED BY <3>1 DEF BadOidJustified
  <2> QED BY <1>1, <2>1, <2>2, <2>3, WalkingSteps DEF Return
<1>2. CASE Sessions
  BY <1>2, AfterSessions DEF BadOidJustified
<1>3. ASSUME NEW root \in Root, Start(root)
      PROVE  BadOidJustified'
  BY <1>3, AfterStart DEF BadOidJustified
<1>4. (\E o \in Oid : TreeChanges(o)) \/ UNCHANGED vars => walk' = walk /\ sane' = sane
  BY DEF TreeChanges, vars
<1>5. CASE walk' = walk /\ sane' = sane
  BY <1>5 DEF BadOidJustified
<1> QED BY <1>1, <1>2, <1>3, <1>4, <1>5, OtherSteps

(* An agent that returns its objects in order is never said not to.        *)
THEOREM BadOidIsTrue == Spec => []BadOidJustified
<1>1. Init => BadOidJustified
  <2> SUFFICES ASSUME Init PROVE BadOidJustified
    OBVIOUS
  <2> QED BY IdleIs DEF Init, BadOidJustified
<1>2. WalkTypeOK /\ BadOidJustified /\ [Next]_vars => BadOidJustified'
  BY BadOidStep
<1> QED BY <1>1, <1>2, WalkTypes, PTL DEF Spec
-----------------------------------------------------------------------------
(* What the list says of the agent's tree.                                 *)

(* Of two OIDs one comes first, unless they are the same.                  *)
LEMMA PrecedesTotal ==
  ASSUME NEW a \in Oids, NEW b \in Oids
  PROVE  Precedes(a, b) \/ Precedes(b, a) \/ a = b
<1>1. OidCompare(a, b) \in {-1, 0, 1}
  BY OidCompareOrders
<1>2. OidCompare(a, b) < 0 \/ OidCompare(a, b) > 0 \/ OidCompare(a, b) = 0
  BY <1>1
<1> QED BY <1>2, OidCompareOrders

(* The next object, when the agent returns it: it is there, and whatever   *)
(* else of the subtree is ahead comes after it.                            *)
LEMMA NextIs ==
  ASSUME WalkTypeOK, NEW o \in Oid, IsNext(o, walk.last)
  PROVE  /\ o \in tree /\ Precedes(walk.last, o)
         /\ \A x \in tree : Precedes(walk.last, x) => x = o \/ Precedes(o, x)
<1>1. o \in tree /\ Precedes(walk.last, o)
  BY DEF IsNext, After
<1>2. ASSUME NEW x \in tree, Precedes(walk.last, x)
      PROVE  x = o \/ Precedes(o, x)
  <2>1. ~Precedes(x, o)
    BY <1>2 DEF IsNext, After
  <2>2. x \in Oids /\ o \in Oids
    BY ObjectsAreOids DEF WalkTypeOK
  <2> QED BY <2>1, <2>2, PrecedesTotal
<1> QED BY <1>1, <1>2

(* The entries of a walk that goes on with no entry, or with the root's,   *)
(* or with what it had, or with one more.                                  *)
LEMMA ListedThen ==
  ASSUME WalkTypeOK
  PROVE  /\ walk'.t = <<>> => Listed' = {}
         /\ walk'.t = walk.t => Listed' = Listed
         /\ walk'.t = <<RootBinding>> => Listed' = {walk.root}
         /\ \A o \in Oid : walk'.t = Append(walk.t, [oid |-> o, found |-> TRUE])
                             => Listed' = Listed \cup {o}
<1>0. walk \in Walks /\ walk.t \in Seq(Binding)
  BY DEF WalkTypeOK, Walks
<1>1. walk'.t = <<>> => Listed' = {}
  BY DEF Listed
<1>2. walk'.t = walk.t => Listed' = Listed
  BY Zenon DEF Listed
<1>3. walk'.t = <<RootBinding>> => Listed' = {walk.root}
  BY <1>0, RootBound DEF Listed
<1>4. ASSUME NEW o \in Oid, walk'.t = Append(walk.t, [oid |-> o, found |-> TRUE])
      PROVE  Listed' = Listed \cup {o}
  <2>1. PICK b \in Binding : b = [oid |-> o, found |-> TRUE] /\ b.oid = o
    <3>1. [oid |-> o, found |-> TRUE] \in Binding
      BY ObjectsAreOids DEF Binding
    <3> QED BY <3>1
  <2>2. PICK n \in Nat : n = Len(walk.t) + 1
    BY <1>0
  <2>3. /\ DOMAIN walk'.t = DOMAIN walk.t \cup {n}
        /\ \A i \in DOMAIN walk.t : walk'.t[i] = walk.t[i]
        /\ walk'.t[n] = b
    BY <1>0, <1>4, <2>1, <2>2, Longer
  <2> QED BY <2>1, <2>3 DEF Listed
<1> QED BY <1>1, <1>2, <1>3, <1>4

(* Those of them that the list says the agent had, likewise.               *)
LEMMA ClaimedThen ==
  ASSUME WalkTypeOK
  PROVE  /\ walk'.t = <<>> => Claimed' = {}
         /\ walk'.t = walk.t => Claimed' = Claimed
         /\ walk'.t = <<RootBinding>> => Claimed' \subseteq tree
         /\ \A o \in Oid : walk'.t = Append(walk.t, [oid |-> o, found |-> TRUE])
                             => Claimed' = Claimed \cup {o}
<1>0. walk \in Walks /\ walk.t \in Seq(Binding)
  BY DEF WalkTypeOK, Walks
<1>1. walk'.t = <<>> => Claimed' = {}
  BY DEF Claimed
<1>2. walk'.t = walk.t => Claimed' = Claimed
  BY Zenon DEF Claimed
<1>3. walk'.t = <<RootBinding>> => Claimed' \subseteq tree
  BY <1>0, RootBound DEF Claimed
<1>4. ASSUME NEW o \in Oid, walk'.t = Append(walk.t, [oid |-> o, found |-> TRUE])
      PROVE  Claimed' = Claimed \cup {o}
  <2>1. PICK b \in Binding : b = [oid |-> o, found |-> TRUE] /\ b.oid = o /\ b.found
    <3>1. [oid |-> o, found |-> TRUE] \in Binding
      BY ObjectsAreOids DEF Binding
    <3> QED BY <3>1
  <2>2. PICK n \in Nat : n = Len(walk.t) + 1
    BY <1>0
  <2>3. /\ DOMAIN walk'.t = DOMAIN walk.t \cup {n}
        /\ \A i \in DOMAIN walk.t : walk'.t[i] = walk.t[i]
        /\ walk'.t[n] = b
    BY <1>0, <1>4, <2>1, <2>2, Longer
  <2> QED BY <2>1, <2>3 DEF Claimed
<1> QED BY <1>1, <1>2, <1>3, <1>4

(* Every step of a walk loses nothing of the subtree, as long as the agent *)
(* answers with the next object.                                           *)
LEMMA CompleteWalking ==
  ASSUME WalkTypeOK, SortedInv, CompleteInv, Walking
  PROVE  CompleteInv'
<1>0. /\ walk \in Walks /\ walk.t \in Seq(Binding) /\ walk.root \in Root
      /\ walk.last \in Oids /\ walk.root \in Oids /\ walk.root # <<>>
      /\ always \subseteq tree /\ tree \subseteq ever /\ tree \subseteq Oid
      /\ always' = always /\ ever' = ever /\ tree' = tree
      /\ walk.err = "none" /\ sane \in BOOLEAN
      /\ AtOrAfter(walk.last, walk.root)
      /\ walk.pc \in {"root", "single"} => walk.t = <<>>
  <2>1. Running /\ UNCHANGED Agent
    BY WalkingSteps
  <2> QED BY <2>1, ObjectsAreOids DEF Agent, WalkTypeOK, Walks, SortedInv
<1>1. walk.t = <<>> => Listed = {}
  BY DEF Listed
<1>2. sane => /\ Claimed \subseteq ever
              /\ \A x \in always :
                   Below(x, walk.root) =>
                     \/ x \in Listed
                     \/ walk.pc \in {"root", "next"} /\ Precedes(walk.last, x)
  BY <1>0 DEF CompleteInv
<1>3. ASSUME NEW t, NEW pc, NEW err, Goto(pc, t, err), err # "none"
      PROVE  CompleteInv'
  <2>1. walk'.err # "none"
    BY <1>0, <1>3, AfterGoto
  <2> QED BY <2>1 DEF CompleteInv
<1>4. CASE walk.pc = "root" /\ sane' = sane /\ Goto("next", <<RootBinding>>, "none")
  <2>1. /\ walk'.pc = "next" /\ walk'.t = <<RootBinding>>
        /\ walk'.last = walk.last /\ walk'.root = walk.root
    BY <1>0, <1>4, AfterGoto
  <2>2. Claimed' \subseteq tree
    BY <2>1, ClaimedThen
  <2>3. sane' => \A x \in always : Below(x, walk.root) => Precedes(walk.last, x)
    BY <1>0, <1>1, <1>2, <1>4
  <2> QED BY <1>0, <2>1, <2>2, <2>3 DEF CompleteInv
<1>5. ASSUME NEW pc, Goto(pc, walk.t, "none"),
             sane' => /\ sane
                      /\ \A x \in always : Below(x, walk.root) => ~Precedes(walk.last, x)
      PROVE  CompleteInv'
  <2>1. walk'.t = walk.t /\ walk'.root = walk.root
    BY <1>0, <1>5, AfterGoto
  <2>2. Claimed' = Claimed /\ Listed' = Listed
    BY <2>1, ClaimedThen, ListedThen
  <2>3. sane' => \A x \in always : Below(x, walk.root) => x \in Listed
    BY <1>2, <1>5
  <2> QED BY <1>0, <1>2, <1>5, <2>1, <2>2, <2>3 DEF CompleteInv
<1>6. sane /\ After(walk.last) = {} =>
        \A x \in always : Below(x, walk.root) => ~Precedes(walk.last, x)
  BY <1>0 DEF After
<1>7. ASSUME NEW o \in Oid, IsNext(o, walk.last), Outside(o, walk.root)
      PROVE  \A x \in always : Below(x, walk.root) => ~Precedes(walk.last, x)
  <2> SUFFICES ASSUME NEW x \in always, Below(x, walk.root), Precedes(walk.last, x)
               PROVE  FALSE
    OBVIOUS
  <2>1. x \in Oids /\ o \in Oids
    BY <1>0, ObjectsAreOids
  <2>2. x = o \/ Precedes(o, x)
    BY <1>0, <1>7, NextIs
  <2>3. Precedes(walk.root, o)
    BY <1>0, <1>7, <2>1, NextIs, AheadOfAll
  <2>4. Below(o, walk.root)
    BY <1>0, <2>1, <2>2, <2>3, SubtreeConvex
  <2> QED BY <1>0, <1>7, <2>1, <2>4, FoundBelow
<1>8. ASSUME NEW o \in Oid, walk.pc = "next", sane' = (sane /\ IsNext(o, walk.last)),
             walk' = [walk EXCEPT !.last = o, !.t = Append(@, [oid |-> o, found |-> TRUE])]
      PROVE  CompleteInv'
  <2>1. /\ walk'.pc = "next" /\ walk'.root = walk.root /\ walk'.last = o
        /\ walk'.t = Append(walk.t, [oid |-> o, found |-> TRUE])
    BY <1>8, AfterObject
  <2>2. Claimed' = Claimed \cup {o} /\ Listed' = Listed \cup {o}
    BY <2>1, ClaimedThen, ListedThen
  <2>3. sane' => sane /\ IsNext(o, walk.last)
    BY <1>8
  <2>4. sane' => /\ o \in tree
                 /\ \A x \in always : Precedes(walk.last, x) => x = o \/ Precedes(o, x)
    BY <1>0, <2>3, NextIs
  <2>5. sane' => \A x \in always :
                   Below(x, walk.root) => x \in Listed \cup {o} \/ Precedes(o, x)
    BY <1>2, <2>3, <2>4
  <2> QED BY <1>0, <1>2, <2>1, <2>2, <2>3, <2>4, <2>5 DEF CompleteInv
<1>9. CASE walk.pc = "single" /\ sane' = sane /\ Return(Append(walk.t, RootBinding), "none")
  <2>1. Append(walk.t, RootBinding) = <<RootBinding>>
    BY <1>0, <1>9, RootBound
  <2>2. walk'.t = <<RootBinding>> /\ walk'.root = walk.root
    BY <1>0, <1>9, <2>1, AfterGoto DEF Return
  <2>3. Claimed' \subseteq tree
    BY <2>2, ClaimedThen
  <2>4. sane' => \A x \in always : ~Below(x, walk.root)
    BY <1>0, <1>1, <1>2, <1>9
  <2> QED BY <1>0, <2>2, <2>3, <2>4 DEF CompleteInv
<1>10. CASE /\ walk.pc = "next" /\ sane' = (sane /\ After(walk.last) = {})
            /\ \E pc \in {"single", "done"} : Goto(pc, walk.t, "none")
  <2>1. sane' => sane /\ After(walk.last) = {}
    BY <1>10
  <2> QED BY <1>5, <1>6, <1>10, <2>1
<1>11. ASSUME NEW o \in Oid, sane' = (sane /\ IsNext(o, walk.last)), Outside(o, walk.root),
              \E pc \in {"single", "done"} : Goto(pc, walk.t, "none")
       PROVE  CompleteInv'
  <2>1. sane' => sane /\ IsNext(o, walk.last)
    BY <1>11
  <2> QED BY <1>5, <1>7, <1>11, <2>1
<1> QED BY <1>3, <1>4, <1>8, <1>9, <1>10, <1>11, WalkingSteps DEF Return

(* So does every other step.                                               *)
LEMMA CompleteStep ==
  ASSUME WalkTypeOK, SortedInv, CompleteInv, [Next]_vars
  PROVE  CompleteInv'
<1>1. CASE Walking
  BY <1>1, CompleteWalking
<1>2. CASE Sessions
  <2>1. always' = {} /\ walk'.t = <<>>
    BY <1>2, AfterSessions
  <2> QED BY <2>1 DEF CompleteInv, Claimed
<1>3. ASSUME NEW root \in Root, Start(root)
      PROVE  CompleteInv'
  <2>1. walk'.t = <<>> /\ walk'.last = walk'.root /\ walk'.pc \in {"root", "next"}
    BY <1>3, AfterStart
  <2>2. \A x \in always' : Below(x, walk'.root) => Precedes(walk'.last, x)
    BY <2>1 DEF Precedes
  <2> QED BY <2>1, <2>2 DEF CompleteInv, Claimed
<1>4. CASE /\ walk' = walk /\ sane' = sane
           /\ always' \subseteq always /\ ever \subseteq ever'
  <2>1. Listed' = Listed /\ Claimed' = Claimed
    BY <1>4, Zenon DEF Listed, Claimed
  <2> QED BY <1>4, <2>1 DEF CompleteInv
<1>5. (\E o \in Oid : TreeChanges(o)) \/ UNCHANGED vars =>
        /\ walk' = walk /\ sane' = sane
        /\ always' \subseteq always /\ ever \subseteq ever'
  BY DEF TreeChanges, vars
<1> QED BY <1>1, <1>2, <1>3, <1>4, <1>5, OtherSteps

(* A walk that succeeds lists everything the agent had below the root all  *)
(* through the walk, and nothing it never had.                             *)
THEOREM WalkIsComplete == Spec => []ListComplete
<1>1. Init => CompleteInv /\ SortedInv
  <2> SUFFICES ASSUME Init PROVE CompleteInv /\ SortedInv
    OBVIOUS
  <2> QED BY IdleIs DEF Init, CompleteInv, Claimed, SortedInv, ListSorted, Running
<1>2. WalkTypeOK /\ SortedInv /\ CompleteInv /\ [Next]_vars => SortedInv' /\ CompleteInv'
  BY SortedStep, CompleteStep
<1>3. CompleteInv => ListComplete
  BY DEF CompleteInv, Claimed, ListComplete, Succeeded
<1> QED BY <1>1, <1>2, <1>3, WalkTypes, PTL DEF Spec
-----------------------------------------------------------------------------
(* The subtree, where the text of an OID decides.                          *)

(* An object that is accepted lies below the root.                         *)
LEMMA AcceptedIsBelow ==
  ASSUME TextDecides, WalkTypeOK, SortedInv, Running,
         NEW o \in Oid, Precedes(walk.last, o), ~Outside(o, walk.root)
  PROVE  Below(o, walk.root)
<1>1. /\ walk.root \in Root /\ walk.root \in Oids /\ walk.last \in Oids /\ o \in Oids
      /\ AtOrAfter(walk.last, walk.root)
  BY ObjectsAreOids DEF WalkTypeOK, SortedInv, Walks
<1>2. Precedes(walk.root, o)
  BY <1>1, AheadOfAll
<1> QED BY <1>1, <1>2 DEF TextDecides, TextTells, Outside

(* Every step lists objects of the subtree only.                           *)
LEMMA SubtreeStep ==
  ASSUME TextDecides, WalkTypeOK, SortedInv, InSubtree, [Next]_vars
  PROVE  InSubtree'
<1>0. walk \in Walks /\ walk.t \in Seq(Binding)
  BY DEF WalkTypeOK, Walks
<1>1. CASE Walking
  <2>0. Running /\ (walk.pc = "single" => Append(walk.t, RootBinding) = <<RootBinding>>)
        /\ (sane' => sane)
    <3>1. Running
      BY <1>1, WalkingSteps
    <3>2. sane' => sane
      BY <1>1, WalkingSteps, Zenon
    <3> QED BY <1>0, <3>1, <3>2, RootBound DEF SortedInv
  <2>1. ASSUME NEW pc, NEW err, NEW t \in {<<>>, walk.t, <<RootBinding>>}, Goto(pc, t, err)
        PROVE  InSubtree'
    <3>1. walk'.t = t /\ walk'.root = walk.root
      BY <1>0, <2>1, AfterGoto
    <3>2. Listed' \subseteq Listed \cup {walk.root}
      BY <3>1, ListedThen
    <3> QED BY <2>0, <3>1, <3>2 DEF InSubtree
  <2>2. ASSUME NEW o \in Oid, ~Outside(o, walk.root), Precedes(walk.last, o),
               walk' = [walk EXCEPT !.last = o, !.t = Append(@, [oid |-> o, found |-> TRUE])]
        PROVE  InSubtree'
    <3>1. walk'.t = Append(walk.t, [oid |-> o, found |-> TRUE]) /\ walk'.root = walk.root
      BY <2>2, AfterObject
    <3>2. Listed' = Listed \cup {o}
      BY <3>1, ListedThen
    <3>3. Below(o, walk.root)
      BY <2>0, <2>2, AcceptedIsBelow
    <3> QED BY <2>0, <3>1, <3>2, <3>3 DEF InSubtree
  <2> QED BY <1>1, <2>0, <2>1, <2>2, WalkingSteps DEF Return
<1>2. CASE Sessions \/ \E root \in Root : Start(root)
  <2>1. walk'.t = <<>>
    BY <1>2, AfterSessions, AfterStart
  <2> QED BY <2>1, ListedThen DEF InSubtree
<1>3. CASE walk' = walk /\ sane' = sane
  <2>1. Listed' = Listed /\ walk'.root = walk.root
    BY <1>3, ListedThen
  <2> QED BY <1>3, <2>1 DEF InSubtree
<1>4. (\E o \in Oid : TreeChanges(o)) \/ UNCHANGED vars => walk' = walk /\ sane' = sane
  BY DEF TreeChanges, vars
<1> QED BY <1>1, <1>2, <1>3, <1>4, OtherSteps

(* Where the text of an OID decides, the list has objects of the subtree   *)
(* of the root and no others (snmp.html on walk).                          *)
THEOREM WalkStaysInside ==
  ASSUME TextDecides
  PROVE  Spec => []InSubtree
<1>1. Init => InSubtree /\ SortedInv
  <2> SUFFICES ASSUME Init PROVE InSubtree /\ SortedInv
    OBVIOUS
  <2> QED BY IdleIs DEF Init, InSubtree, Listed, SortedInv, ListSorted, Running
<1>2. WalkTypeOK /\ SortedInv /\ InSubtree /\ [Next]_vars => SortedInv' /\ InSubtree'
  BY SortedStep, SubtreeStep
<1> QED BY <1>1, <1>2, WalkTypes, PTL DEF Spec

(* The entry of a root that is there.                                      *)
LEMMA RootThere ==
  ASSUME walk.root \in tree
  PROVE  RootBinding = [oid |-> walk.root, found |-> TRUE]
BY DEF RootBinding

(* Every step of the walk of a single object.                              *)
LEMMA SingleStep ==
  ASSUME TextDecides, WalkTypeOK, SortedInv, SingleInv, [Next]_vars
  PROVE  SingleInv'
<1> DEFINE Alone == walk.root \in always /\ \A o \in ever : ~Below(o, walk.root)
           Got == [oid |-> walk.root, found |-> TRUE]
<1>0. /\ walk \in Walks /\ walk.t \in Seq(Binding)
      /\ always \subseteq tree /\ tree \subseteq ever /\ sane \in BOOLEAN
  BY DEF WalkTypeOK, Walks
<1>1. CASE Walking
  <2>0. /\ Running /\ walk.err = "none"
        /\ walk.pc \in {"root", "single"} => walk.t = <<>>
        /\ tree' = tree /\ always' = always /\ ever' = ever /\ session' = session
    <3>1. Running /\ UNCHANGED Agent
      BY <1>1, WalkingSteps
    <3> QED BY <3>1 DEF Agent, openVars, WalkTypeOK, SortedInv
  <2>1. sane /\ Alone => walk.t \in {<<>>, <<Got>>}
    BY <2>0 DEF SingleInv
  <2>2. Alone => <<RootBinding>> = <<Got>>
    BY <1>0, RootThere
  <2>3. ASSUME NEW pc, NEW t, NEW err, Goto(pc, t, err),
               err = "none" =>
                 /\ sane' => sane
                 /\ t \in {walk.t, <<RootBinding>>}
                 /\ pc = "done" => t = <<RootBinding>> \/ t # <<>> \/ session.version = "SNMPv1"
        PROVE  SingleInv'
    <3>1. walk'.t = t /\ walk'.root = walk.root /\ walk'.pc = pc /\ walk'.err = err
      BY <1>0, <2>3, AfterGoto
    <3> QED BY <2>0, <2>1, <2>2, <2>3, <3>1 DEF SingleInv
  <2>4. ASSUME NEW o \in Oid, ~Outside(o, walk.root), Precedes(walk.last, o),
               sane' = (sane /\ IsNext(o, walk.last)),
               walk' = [walk EXCEPT !.last = o, !.t = Append(@, [oid |-> o, found |-> TRUE])]
        PROVE  SingleInv'
    <3>1. walk'.root = walk.root
      BY <2>4, AfterObject
    <3>2. Below(o, walk.root)
      BY <2>0, <2>4, AcceptedIsBelow
    <3>3. sane' => o \in ever
      BY <1>0, <2>4, NextIs
    <3> QED BY <2>0, <3>1, <3>2, <3>3 DEF SingleInv
  <2>5. walk.pc = "single" => Append(walk.t, RootBinding) = <<RootBinding>>
    BY <1>0, <2>0, RootBound
  <2>6. \/ sane' = sane
        \/ sane' = (sane /\ After(walk.last) = {})
        \/ \E o \in Oid : sane' = (sane /\ IsNext(o, walk.last))
    BY <1>1, WalkingSteps, Zenon
  <2>7. sane' => sane
    BY <2>6, Zenon
  <2> QED BY <1>1, <2>0, <2>3, <2>4, <2>5, <2>7, WalkingSteps DEF Return
<1>2. CASE Sessions
  <2>1. always' = {}
    BY <1>2, AfterSessions
  <2> QED BY <2>1 DEF SingleInv
<1>3. ASSUME NEW root \in Root, Start(root)
      PROVE  SingleInv'
  <2>1. walk'.t = <<>> /\ walk'.pc # "done"
    BY <1>3, AfterStart
  <2> QED BY <2>1 DEF SingleInv
<1>4. CASE /\ walk' = walk /\ sane' = sane /\ session' = session
           /\ always' \subseteq always /\ ever \subseteq ever'
  BY <1>4 DEF SingleInv
<1>5. (\E o \in Oid : TreeChanges(o)) \/ UNCHANGED vars =>
        /\ walk' = walk /\ sane' = sane /\ session' = session
        /\ always' \subseteq always /\ ever \subseteq ever'
  BY DEF TreeChanges, vars, openVars
<1> QED BY <1>1, <1>2, <1>3, <1>4, <1>5, OtherSteps

(* Where the text of an OID decides, the walk of a single object lists it, *)
(* once, whatever else the agent has (the get after the loop).             *)
THEOREM WalkGetsSingle ==
  ASSUME TextDecides
  PROVE  Spec => []SingleListed
<1>1. Init => SingleInv /\ SortedInv
  <2> SUFFICES ASSUME Init PROVE SingleInv /\ SortedInv
    OBVIOUS
  <2> QED BY IdleIs DEF Init, SingleInv, SortedInv, ListSorted, Running
<1>2. WalkTypeOK /\ SortedInv /\ SingleInv /\ [Next]_vars => SortedInv' /\ SingleInv'
  BY SortedStep, SingleStep
<1>3. SingleInv => SingleListed
  BY DEF SingleInv, SingleListed, Succeeded
<1> QED BY <1>1, <1>2, <1>3, WalkTypes, PTL DEF Spec
=============================================================================
