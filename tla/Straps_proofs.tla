--------------------------- MODULE Straps_proofs ----------------------------
(***************************************************************************)
(* Theorems about trap forwarding, for any number of programs, connections *)
(* and datagrams and any size of the sockets' buffers: wherever the daemon *)
(* and the programs are killed, and however their steps interleave.        *)
(***************************************************************************)
EXTENDS Straps, SequenceTheorems, TLAPS

-----------------------------------------------------------------------------
(* Types.                                                                  *)

(* A datagram is written in two.                                           *)
Parts == {"head", "body"}

(* A connection is made.                                                   *)
LEMMA ConnectTypes ==
  ASSUME TypeOK, NEW p \in Process, NEW c \in Conn, Connect(p, c)
  PROVE  /\ sock' \in [Process -> Conn \cup {None}]
         /\ backlog' \in Seq(Conn)
BY DEF Connect, TypeOK

(* A connection is closed by its client.                                   *)
LEMMA HangupTypes ==
  ASSUME TypeOK, NEW p \in Process, Hangup(p)
  PROVE  /\ sock' \in [Process -> Conn \cup {None}]
         /\ shut' \subseteq Conn
         /\ stream' \in [Conn -> Seq(Parts \X (Trap \cup {None}))]
         /\ got' \in [Conn -> Seq(Trap \cup {None})]
<1>1. sock[p] \in Conn \cup {None}
  BY DEF TypeOK
<1>2. shut' \subseteq Conn
  BY <1>1 DEF Hangup, TypeOK
<1>3. stream' \in [Conn -> Seq(Parts \X (Trap \cup {None}))]
  BY DEF Hangup, TypeOK, Parts
<1>4. got' \in [Conn -> Seq(Trap \cup {None})]
  BY DEF Hangup, TypeOK
<1> QED BY <1>2, <1>3, <1>4 DEF Hangup, TypeOK

(* The types hold at the start.                                            *)
LEMMA TypesInit == Init => TypeOK
<1> SUFFICES ASSUME Init PROVE TypeOK
  OBVIOUS
<1>1. /\ udp \in Seq(Trap) /\ backlog \in Seq(Conn) /\ log \in Seq(Trap)
      /\ <<>> \in Seq(Trap \cup {None})
      /\ <<>> \in Seq({"head", "body"} \X (Trap \cup {None}))
  BY DEF Init
<1>2. /\ stream \in [Conn -> Seq({"head", "body"} \X (Trap \cup {None}))]
      /\ got \in [Conn -> Seq(Trap \cup {None})]
  BY <1>1 DEF Init
<1> QED BY <1>1, <1>2 DEF Init, TypeOK

(* A program's steps keep them.                                            *)
LEMMA ClientTypes ==
  ASSUME TypeOK, NEW p \in Process,
         \/ OpenAnother(p) \/ OpenConnects(p) \/ OpenForks(p) \/ RetryConnects(p)
         \/ RetryFails(p) \/ CloseSession(p) \/ ReadTrap(p) \/ ReadFails(p) \/ Die(p)
  PROVE  TypeOK'
<1> USE DEF queueVars, daemonVars, connVars, clientVars
<1>1. CASE OpenAnother(p)
  BY <1>1, SMTT(20) DEF OpenAnother, TypeOK
<1>2. CASE OpenConnects(p)
  BY <1>2, ConnectTypes DEF OpenConnects, OpenFirst, Connect, TypeOK
<1>3. CASE OpenForks(p)
  BY <1>3, StrapsAssumption DEF OpenForks, OpenFirst, TypeOK
<1>4. CASE RetryConnects(p)
  BY <1>4, ConnectTypes DEF RetryConnects, Connect, TypeOK
<1>5. CASE RetryFails(p)
  BY <1>5, SMTT(20) DEF RetryFails, TypeOK
<1>6. CASE CloseSession(p)
  <2>1. ntraps' \in [Process -> Nat]
    BY <1>6 DEF CloseSession, TypeOK
  <2>2. CASE Hangup(p)
    BY <1>6, <2>1, <2>2, HangupTypes DEF CloseSession, Hangup, TypeOK, Parts
  <2>3. CASE UNCHANGED <<connVars, sock>>
    BY <1>6, <2>1, <2>3 DEF CloseSession, TypeOK
  <2> QED BY <1>6, <2>2, <2>3 DEF CloseSession
<1>7. CASE ReadTrap(p)
  <2>1. PICK c \in Conn : /\ c = sock[p] /\ Len(stream[c]) >= 2
                          /\ got' = [got EXCEPT ![c] = Append(@, stream[c][2][2])]
                          /\ stream' = [stream EXCEPT ![c] = AfterPacket(@)]
    BY <1>7 DEF ReadTrap, TypeOK
  <2>2. stream[c] \in Seq(Parts \X (Trap \cup {None}))
    BY DEF TypeOK, Parts
  <2>3. stream[c][2] \in Parts \X (Trap \cup {None})
    BY <2>1, <2>2
  <2>4. stream[c][2][2] \in Trap \cup {None}
    BY <2>3
  <2>5. AfterPacket(stream[c]) \in Seq(Parts \X (Trap \cup {None}))
    BY <2>1, <2>2 DEF AfterPacket
  <2>6. got' \in [Conn -> Seq(Trap \cup {None})]
    BY <2>1, <2>4, SMTT(20) DEF TypeOK
  <2>7. stream' \in [Conn -> Seq(Parts \X (Trap \cup {None}))]
    BY <2>1, <2>5 DEF TypeOK, Parts
  <2> QED BY <1>7, <2>6, <2>7 DEF ReadTrap, TypeOK, Parts
<1>8. CASE ReadFails(p)
  BY <1>8, HangupTypes DEF ReadFails, Hangup, TypeOK, Parts
<1>9. CASE Die(p)
  <2>1. ntraps' \in [Process -> Nat] /\ opening' \in [Process -> Nat]
    BY <1>9 DEF Die, TypeOK
  <2> QED BY <1>9, <2>1, HangupTypes DEF Die, Hangup, TypeOK, Parts
<1> QED BY <1>1, <1>2, <1>3, <1>4, <1>5, <1>6, <1>7, <1>8, <1>9

(* A piece is written to a connection.                                     *)
LEMMA WriteTypes ==
  ASSUME TypeOK, NEW c \in Conn, NEW part \in Parts, Write(c, part)
  PROVE  stream' \in [Conn -> Seq(Parts \X (Trap \cup {None}))]
<1>1. <<part, cur>> \in Parts \X (Trap \cup {None})
  BY DEF TypeOK
<1>2. Append(stream[c], <<part, cur>>) \in Seq(Parts \X (Trap \cup {None}))
  BY <1>1 DEF TypeOK, Parts
<1> QED BY <1>2 DEF Write, TypeOK, Parts

(* The daemon's process has ended.                                         *)
LEMMA GoneTypes ==
  ASSUME TypeOK, Gone
  PROVE  TypeOK'
<1>1. Waiting \subseteq Conn
  BY DEF Waiting, TypeOK
<1> QED BY <1>1 DEF Gone, TypeOK, clientVars

(* The daemon's steps keep them.                                           *)
LEMMA DaemonTypes ==
  ASSUME TypeOK, DaemonNext
  PROVE  TypeOK'
<1> USE DEF queueVars, daemonVars, connVars, clientVars
<1>1. CASE Receive
  BY <1>1 DEF Receive, TypeOK
<1>2. ASSUME NEW c \in Conn, WriteHead(c)
      PROVE  TypeOK'
  BY <1>2, WriteTypes DEF WriteHead, Write, TypeOK, Parts
<1>3. ASSUME NEW c \in Conn, WriteBody(c)
      PROVE  TypeOK'
  BY <1>3, WriteTypes DEF WriteBody, Write, TypeOK, Parts, LeftToWrite
<1>4. ASSUME NEW c \in Conn, WriteFails(c)
      PROVE  TypeOK'
  BY <1>4 DEF WriteFails, TypeOK, LeftToWrite
<1>5. CASE ForwardDone
  BY <1>5 DEF ForwardDone, TypeOK, GoOn
<1>6. CASE Accept
  <2>1. Head(backlog) \in Conn /\ Tail(backlog) \in Seq(Conn) /\ Len(log) \in Nat
    BY <1>6 DEF Accept, TypeOK
  <2>2. since' \in [Conn -> Nat] /\ cl_addr' \subseteq Conn
    BY <1>6, <2>1 DEF Accept, TypeOK, Admitted
  <2>3. served' \in BOOLEAN
    BY <1>6, Zenon DEF Accept
  <2> QED BY <1>6, <2>1, <2>2, <2>3 DEF Accept, TypeOK
<1>7. CASE DropClosed
  BY <1>7 DEF DropClosed, TypeOK, GoOn
<1>8. CASE Unlink
  BY <1>8 DEF Unlink, TypeOK
<1>9. CASE Exit
  BY <1>9, GoneTypes DEF Exit
<1> QED BY <1>1, <1>2, <1>3, <1>4, <1>5, <1>6, <1>7, <1>8, <1>9 DEF DaemonNext

(* Every step does.                                                        *)
LEMMA TypesStep ==
  ASSUME TypeOK, [Next]_vars
  PROVE  TypeOK'
<1> USE DEF queueVars, daemonVars, connVars, clientVars
<1>1. CASE ClientNext
  BY <1>1, ClientTypes DEF ClientNext
<1>2. CASE Start
  <2>1. log' \in Seq(Trap)
    BY <1>2 DEF Start
  <2>2. served' \in BOOLEAN
    BY <1>2, Zenon DEF Start
  <2> QED BY <1>2, <2>1, <2>2 DEF Start, TypeOK
<1>3. CASE StartFails
  BY <1>3 DEF StartFails, TypeOK
<1>4. CASE DaemonNext
  BY <1>4, DaemonTypes
<1>5. CASE Killed
  BY <1>5, GoneTypes DEF Killed
<1>6. ASSUME NEW t \in Trap, TrapSent(t)
      PROVE  TypeOK'
  BY <1>6 DEF TrapSent, TypeOK
<1>7. CASE UNCHANGED vars
  BY <1>7 DEF vars, TypeOK
<1> QED BY <1>1, <1>2, <1>3, <1>4, <1>5, <1>6, <1>7 DEF Next

(* Every variable keeps its type.                                          *)
THEOREM StrapsTypes == Spec => []TypeOK
BY TypesInit, TypesStep, PTL DEF Spec
-----------------------------------------------------------------------------
(* Who is connected.                                                       *)

(* The count of sessions and the socket go together: only the first        *)
(* session connects, and the last one closes.                              *)
LEMMA ClientsOrderlyStep ==
  ASSUME TypeOK, ClientsOrderly, [Next]_vars
  PROVE  ClientsOrderly'
<1>1. CASE UNCHANGED clientVars
  BY <1>1 DEF ClientsOrderly, clientVars
<1>2. ASSUME NEW p \in Process,
             \/ OpenAnother(p) \/ OpenConnects(p) \/ OpenForks(p) \/ RetryConnects(p)
             \/ RetryFails(p) \/ CloseSession(p) \/ ReadFails(p) \/ Die(p)
      PROVE  /\ ntraps'[p] = 0 \/ opening'[p] > 0 => sock'[p] = None
             /\ opening'[p] > 0 => ntraps'[p] > 0
             /\ \A q \in Process \ {p} : /\ ntraps'[q] = ntraps[q]
                                         /\ opening'[q] = opening[q]
                                         /\ sock'[q] = sock[q]
  <2> USE DEF TypeOK, ClientsOrderly
  <2>1. CASE OpenAnother(p)
    BY <2>1, StrapsAssumption DEF OpenAnother
  <2>2. CASE OpenConnects(p)
    BY <2>2 DEF OpenConnects, OpenFirst, Connect
  <2>3. CASE OpenForks(p)
    BY <2>3 DEF OpenForks, OpenFirst, connVars
  <2>4. CASE RetryConnects(p)
    BY <2>4 DEF RetryConnects, Connect
  <2>5. CASE RetryFails(p)
    BY <2>5 DEF RetryFails
  <2>6. CASE CloseSession(p)
    <3>1. CASE LastOne(p)
      BY <2>6, <3>1 DEF CloseSession, LastOne, Hangup
    <3>2. CASE ~LastOne(p)
      BY <2>6, <3>2 DEF CloseSession, LastOne
    <3> QED BY <3>1, <3>2
  <2>7. CASE ReadFails(p)
    BY <2>7 DEF ReadFails, Hangup
  <2>8. CASE Die(p)
    BY <2>8 DEF Die, Hangup
  <2> QED BY <1>2, <2>1, <2>2, <2>3, <2>4, <2>5, <2>6, <2>7, <2>8
<1>3. ASSUME NEW p \in Process,
             \/ OpenAnother(p) \/ OpenConnects(p) \/ OpenForks(p) \/ RetryConnects(p)
             \/ RetryFails(p) \/ CloseSession(p) \/ ReadFails(p) \/ Die(p)
      PROVE  ClientsOrderly'
  <2> SUFFICES ASSUME NEW q \in Process
               PROVE  /\ ntraps'[q] = 0 \/ opening'[q] > 0 => sock'[q] = None
                      /\ opening'[q] > 0 => ntraps'[q] > 0
    BY DEF ClientsOrderly
  <2>1. CASE q = p
    BY <1>2, <1>3, <2>1
  <2>2. CASE q # p
    BY <1>2, <1>3, <2>2 DEF ClientsOrderly
  <2> QED BY <2>1, <2>2
<1>4. CASE \E p \in Process : ReadTrap(p)
  BY <1>1, <1>4 DEF ReadTrap
<1>5. CASE Start \/ StartFails \/ DaemonNext \/ Killed \/ \E t \in Trap : TrapSent(t)
  BY <1>1, <1>5
  DEF Start, StartFails, DaemonNext, Killed, TrapSent, Receive, WriteHead, WriteBody, Write,
      WriteFails, ForwardDone, Accept, DropClosed, Unlink, Exit, Gone
<1>6. CASE UNCHANGED vars
  BY <1>1, <1>6 DEF vars, clientVars
<1> QED BY <1>3, <1>4, <1>5, <1>6 DEF Next, ClientNext

(* So they do in every state.                                              *)
LEMMA ClientsInv == Spec => []ClientsOrderly
<1>1. Init => ClientsOrderly
  BY DEF Init, ClientsOrderly
<1>2. TypeOK /\ ClientsOrderly /\ [Next]_vars => ClientsOrderly'
  BY ClientsOrderlyStep
<1> QED BY <1>1, <1>2, StrapsTypes, PTL DEF Spec

(* The connections the daemon has or will accept.                          *)
Known == cl_addr \cup Waiting

(* The backlog after a connection is made.                                 *)
LEMMA WaitingAppended ==
  ASSUME TypeOK, NEW c \in Conn, backlog' = Append(backlog, c)
  PROVE  Waiting' = Waiting \cup {c}
<1>1. /\ DOMAIN backlog = 1 .. Len(backlog)
      /\ DOMAIN backlog' = 1 .. Len(backlog) + 1
      /\ Len(backlog) \in Nat
      /\ \A i \in 1 .. Len(backlog) : backlog'[i] = backlog[i]
      /\ backlog'[Len(backlog) + 1] = c
  BY DEF TypeOK
<1>2. Waiting' = {backlog'[i] : i \in DOMAIN backlog'}
  BY DEF Waiting
<1>3. Len(backlog) + 1 \in DOMAIN backlog'
  BY <1>1
<1>4. DOMAIN backlog' = DOMAIN backlog \cup {Len(backlog) + 1}
  BY <1>1
<1> QED BY <1>1, <1>2, <1>4 DEF Waiting

(* And after one is accepted.                                              *)
LEMMA WaitingAccepted ==
  ASSUME TypeOK, backlog # <<>>, backlog' = Tail(backlog)
  PROVE  Waiting = Waiting' \cup {Head(backlog)}
<1>1. /\ DOMAIN backlog = 1 .. Len(backlog)
      /\ Len(backlog) \in Nat \ {0}
      /\ Head(backlog) = backlog[1]
      /\ DOMAIN backlog' = 1 .. Len(backlog) - 1
      /\ \A i \in 1 .. Len(backlog) - 1 : backlog'[i] = backlog[i + 1]
  BY DEF TypeOK
<1>2. Waiting' = {backlog'[i] : i \in DOMAIN backlog'}
  BY DEF Waiting
<1>3. ASSUME NEW i \in DOMAIN backlog
      PROVE  backlog[i] \in Waiting' \cup {Head(backlog)}
  <2>1. CASE i = 1
    BY <1>1, <2>1
  <2>2. CASE i # 1
    <3>1. PICK k \in DOMAIN backlog' : k + 1 = i
      <4>1. i - 1 \in DOMAIN backlog' /\ (i - 1) + 1 = i
        BY <1>1, <2>2
      <4> QED BY <4>1
    <3> QED BY <1>1, <1>2, <3>1
  <2> QED BY <2>1, <2>2
<1>4. ASSUME NEW i \in DOMAIN backlog'
      PROVE  backlog'[i] \in Waiting
  <2>1. i + 1 \in DOMAIN backlog
    BY <1>1
  <2> QED BY <1>1, <2>1 DEF Waiting
<1>5. Head(backlog) \in Waiting
  BY <1>1 DEF Waiting
<1> QED BY <1>2, <1>3, <1>4, <1>5 DEF Waiting

(* A program connects while the daemon listens, and has no connection yet. *)
Connecting(p, c) ==
  /\ Connect(p, c)
  /\ Listening
  /\ UNCHANGED daemonVars
  /\ sock[p] = None /\ ntraps'[p] > 0
  /\ \A q \in Process \ {p} : ntraps'[q] = ntraps[q]

(* A program closes its connection, if it has one.                         *)
HangingUp(p) ==
  /\ Hangup(p)
  /\ UNCHANGED daemonVars
  /\ \A q \in Process \ {p} : ntraps'[q] = ntraps[q]

(* Connections are accepted or closed by the daemon, or nothing happens to *)
(* them.                                                                   *)
DaemonsPart ==
  /\ UNCHANGED <<sock, shut>>
  /\ eof \subseteq eof'
  /\ Known' \subseteq Known /\ Known \subseteq Known' \cup eof'
  /\ daemon # "none" => daemon' # "none"
  /\ \A q \in Process : ntraps[q] > 0 => ntraps'[q] > 0

(* There is nothing else that happens to connections.                      *)
LEMMA ConnectionSteps ==
  ASSUME TypeOK, ClientsOrderly, [Next]_vars
  PROVE  \/ \E p \in Process, c \in Conn : Connecting(p, c)
         \/ \E p \in Process : HangingUp(p)
         \/ Gone
         \/ DaemonsPart
<1>1. ASSUME UNCHANGED <<sock, shut, eof, cl_addr, backlog>>, daemon # "none" => daemon' # "none",
             \A q \in Process : ntraps[q] > 0 => ntraps'[q] > 0
      PROVE  DaemonsPart
  BY <1>1 DEF DaemonsPart, Known, Waiting
<1>2. ASSUME NEW p \in Process,
             \/ OpenAnother(p) \/ OpenForks(p) \/ RetryFails(p) \/ ReadTrap(p)
      PROVE  DaemonsPart
  <2>1. UNCHANGED <<sock, shut, eof, cl_addr, backlog, daemon>>
    BY <1>2 DEF OpenAnother, OpenForks, RetryFails, ReadTrap, daemonVars, connVars, clientVars
  <2>2. \A q \in Process : ntraps[q] > 0 => ntraps'[q] > 0
    <3>1. CASE OpenAnother(p)
      BY <3>1 DEF OpenAnother, TypeOK
    <3>2. CASE OpenForks(p)
      BY <3>2 DEF OpenForks, OpenFirst, TypeOK
    <3>3. CASE RetryFails(p) \/ ReadTrap(p)
      BY <3>3 DEF RetryFails, ReadTrap, clientVars
    <3> QED BY <1>2, <3>1, <3>2, <3>3
  <2> QED BY <1>1, <2>1, <2>2
<1>3. ASSUME NEW p \in Process, OpenConnects(p) \/ RetryConnects(p)
      PROVE  \E c \in Conn : Connecting(p, c)
  <2>1. PICK c \in Conn : Connect(p, c)
    BY <1>3 DEF OpenConnects, RetryConnects
  <2>2. Listening /\ UNCHANGED daemonVars
    BY <1>3 DEF OpenConnects, RetryConnects
  <2>3. sock[p] = None /\ ntraps'[p] > 0 /\ \A q \in Process \ {p} : ntraps'[q] = ntraps[q]
    BY <1>3 DEF OpenConnects, OpenFirst, RetryConnects, ClientsOrderly, TypeOK
  <2> QED BY <2>1, <2>2, <2>3 DEF Connecting
<1>4. ASSUME NEW p \in Process, CloseSession(p)
      PROVE  HangingUp(p) \/ DaemonsPart
  <2>1. \A q \in Process \ {p} : ntraps'[q] = ntraps[q]
    BY <1>4 DEF CloseSession, TypeOK
  <2>2. CASE LastOne(p)
    BY <1>4, <2>1, <2>2 DEF CloseSession, HangingUp
  <2>3. CASE ~LastOne(p)
    <3>1. UNCHANGED <<sock, shut, eof, cl_addr, backlog, daemon>>
      BY <1>4, <2>3 DEF CloseSession, daemonVars, connVars
    <3>2. \A q \in Process : ntraps[q] > 0 => ntraps'[q] > 0
      BY <1>4, <2>3 DEF CloseSession, LastOne, TypeOK
    <3> QED BY <1>1, <3>1, <3>2
  <2> QED BY <2>2, <2>3
<1>5. ASSUME NEW p \in Process, ReadFails(p) \/ Die(p)
      PROVE  HangingUp(p)
  BY <1>5 DEF ReadFails, Die, HangingUp, TypeOK
<1>6. CASE Accept
  <2>1. Known' = Known
    BY <1>6, WaitingAccepted DEF Accept, Admitted, Known
  <2> QED BY <1>6, <2>1 DEF Accept, DaemonsPart, clientVars
<1>7. CASE DropClosed \/ \E c \in Conn : WriteFails(c)
  <2>1. /\ UNCHANGED <<backlog, shut, clientVars>>
        /\ cl_addr' \subseteq cl_addr /\ eof \subseteq eof'
        /\ cl_addr \subseteq cl_addr' \cup eof'
    BY <1>7 DEF DropClosed, WriteFails
  <2>2. daemon' # "none"
    BY <1>7 DEF DropClosed, WriteFails, GoOn
  <2>3. Waiting' = Waiting
    BY <2>1 DEF Waiting
  <2> QED BY <2>1, <2>2, <2>3 DEF DaemonsPart, Known, clientVars
<1>8. CASE Receive \/ (\E c \in Conn : WriteHead(c) \/ WriteBody(c)) \/ ForwardDone \/ Unlink
           \/ Start \/ StartFails \/ \E t \in Trap : TrapSent(t)
  <2>1. UNCHANGED <<sock, shut, eof, cl_addr, backlog, ntraps>>
    BY <1>8 DEF Receive, WriteHead, WriteBody, Write, ForwardDone, Unlink, Start, StartFails,
                TrapSent, daemonVars, connVars, clientVars
  <2>2. daemon # "none" => daemon' # "none"
    BY <1>8 DEF Receive, WriteHead, WriteBody, Write, ForwardDone, Unlink, Start, StartFails,
                TrapSent, daemonVars, GoOn
  <2> QED BY <1>1, <2>1, <2>2
<1>9. CASE Exit \/ Killed
  BY <1>9 DEF Exit, Killed
<1>10. CASE UNCHANGED vars
  BY <1>1, <1>10 DEF vars, daemonVars, connVars, clientVars
<1> QED BY <1>2, <1>3, <1>4, <1>5, <1>6, <1>7, <1>8, <1>9, <1>10 DEF Next, ClientNext, DaemonNext

(* What is in the daemon's hands after a program has connected.            *)
LEMMA AfterConnecting ==
  ASSUME TypeOK, NEW p \in Process, NEW c \in Conn, Connecting(p, c)
  PROVE  /\ c \notin Known \cup eof \cup shut
         /\ Known' = Known \cup {c}
         /\ UNCHANGED <<daemon, eof, shut>> /\ daemon # "none"
         /\ sock'[p] = c /\ \A q \in Process \ {p} : sock'[q] = sock[q]
<1>1. Waiting' = Waiting \cup {c}
  BY WaitingAppended DEF Connecting, Connect
<1> QED BY <1>1 DEF Connecting, Connect, Used, Known, Listening, daemonVars, TypeOK

(* After a program has closed its connection.                              *)
LEMMA AfterHangingUp ==
  ASSUME TypeOK, NEW p \in Process, HangingUp(p)
  PROVE  /\ Known' = Known
         /\ UNCHANGED <<daemon, eof>> /\ shut' = shut \cup ({sock[p]} \ {None})
         /\ sock'[p] = None /\ \A q \in Process \ {p} : sock'[q] = sock[q]
<1>1. Waiting' = Waiting
  BY DEF HangingUp, Hangup, Waiting
<1> QED BY <1>1 DEF HangingUp, Hangup, Known, daemonVars, TypeOK

(* After the daemon's process has ended.                                   *)
LEMMA AfterGone ==
  ASSUME Gone
  PROVE  /\ Known' = {} /\ eof' = eof \cup Known
         /\ UNCHANGED <<sock, shut, ntraps>>
BY DEF Gone, Known, Waiting, clientVars

(* Whoever is killed when, a program that thinks it is connected is, or    *)
(* finds the end of the connection when it reads.                          *)
THEOREM NoneDangles == Spec => []NoDanglingClient
<1>1. Init => NoDanglingClient
  BY DEF Init, NoDanglingClient
<1>2. ASSUME TypeOK, ClientsOrderly, NoDanglingClient, [Next]_vars
      PROVE  NoDanglingClient'
  <2> SUFFICES ASSUME NEW q \in Process, sock'[q] # None
               PROVE  sock'[q] \in eof' \/ (daemon' # "none" /\ sock'[q] \in Known')
    BY DEF NoDanglingClient, Known
  <2>0. sock[q] # None => sock[q] \in eof \/ (daemon # "none" /\ sock[q] \in Known)
    BY <1>2 DEF NoDanglingClient, Known
  <2>1. ASSUME NEW p \in Process, NEW c \in Conn, Connecting(p, c)
        PROVE  sock'[q] \in eof' \/ (daemon' # "none" /\ sock'[q] \in Known')
    BY <1>2, <2>0, <2>1, AfterConnecting
  <2>2. ASSUME NEW p \in Process, HangingUp(p)
        PROVE  sock'[q] \in eof' \/ (daemon' # "none" /\ sock'[q] \in Known')
    BY <1>2, <2>0, <2>2, AfterHangingUp
  <2>3. CASE Gone
    BY <2>0, <2>3, AfterGone
  <2>4. CASE DaemonsPart
    BY <2>0, <2>4 DEF DaemonsPart
  <2> QED BY <1>2, <2>1, <2>2, <2>3, <2>4, ConnectionSteps
<1> QED BY <1>1, <1>2, StrapsTypes, ClientsInv, PTL DEF Spec

(* The daemon has no connection that nobody has, and none of a program     *)
(* that has closed its last session with a notification callback.          *)
THEOREM NoneLeaks == Spec => []ConnectionsServeSessions
<1>1. Init => ConnectionsServeSessions
  BY DEF Init, ConnectionsServeSessions, Waiting
<1>2. ASSUME TypeOK, ClientsOrderly, ConnectionsServeSessions, [Next]_vars
      PROVE  ConnectionsServeSessions'
  <2> SUFFICES ASSUME NEW d \in Known' \ shut'
               PROVE  \E q \in Process : sock'[q] = d /\ ntraps'[q] > 0
    BY DEF ConnectionsServeSessions, Known
  <2>0. d \in Known \ shut => \E q \in Process : sock[q] = d /\ ntraps[q] > 0
    BY <1>2 DEF ConnectionsServeSessions, Known
  <2>9. d # None
    <3>1. Known' \subseteq Conn
      BY <1>2, TypesStep DEF Known, Waiting, TypeOK
    <3> QED BY <3>1, StrapsAssumption
  <2>1. ASSUME NEW p \in Process, NEW c \in Conn, Connecting(p, c)
        PROVE  \E q \in Process : sock'[q] = d /\ ntraps'[q] > 0
    <3>1. CASE d = c
      BY <1>2, <2>1, <3>1, AfterConnecting DEF Connecting
    <3>2. CASE d # c
      <4>1. PICK q \in Process : sock[q] = d /\ ntraps[q] > 0
        BY <1>2, <2>0, <2>1, <3>2, AfterConnecting
      <4>2. q # p
        BY <2>1, <2>9, <4>1 DEF Connecting
      <4> QED BY <1>2, <2>1, <4>1, <4>2, AfterConnecting DEF Connecting
    <3> QED BY <3>1, <3>2
  <2>2. ASSUME NEW p \in Process, HangingUp(p)
        PROVE  \E q \in Process : sock'[q] = d /\ ntraps'[q] > 0
    <3>1. PICK q \in Process : sock[q] = d /\ ntraps[q] > 0
      BY <1>2, <2>0, <2>2, AfterHangingUp
    <3>2. q # p
      BY <1>2, <2>2, <2>9, <3>1, AfterHangingUp
    <3> QED BY <1>2, <2>2, <3>1, <3>2, AfterHangingUp DEF HangingUp
  <2>3. CASE Gone
    BY <2>3, AfterGone
  <2>4. CASE DaemonsPart
    BY <2>0, <2>4 DEF DaemonsPart
  <2> QED BY <1>2, <2>1, <2>2, <2>3, <2>4, ConnectionSteps
<1> QED BY <1>1, <1>2, StrapsTypes, ClientsInv, PTL DEF Spec

(* A daemon that has lost its last client goes on to its exit.             *)
THEOREM NeverIdles == Spec => []NoIdleDaemon
<1>1. Init => NoIdleDaemon
  BY DEF Init, NoIdleDaemon
<1>2. ASSUME NoIdleDaemon, [Next]_vars
      PROVE  NoIdleDaemon'
  <2> USE DEF NoIdleDaemon
  <2>1. CASE UNCHANGED <<daemon, served, cl_addr>>
    BY <1>2, <2>1
  <2>2. CASE ClientNext \/ StartFails \/ (\E t \in Trap : TrapSent(t)) \/ UNCHANGED vars
    BY <2>1, <2>2
    DEF ClientNext, OpenAnother, OpenConnects, OpenForks, RetryConnects, RetryFails, CloseSession,
        ReadTrap, ReadFails, Die, StartFails, TrapSent, daemonVars, vars
  <2>3. CASE Start
    BY <2>3 DEF Start
  <2>4. CASE Exit \/ Killed
    BY <2>4 DEF Exit, Killed, Gone
  <2>5. CASE Receive \/ Unlink \/ \E c \in Conn : WriteHead(c) \/ WriteBody(c) \/ WriteFails(c)
    BY <2>5 DEF Receive, Unlink, WriteHead, WriteBody, Write, WriteFails
  <2>6. CASE ForwardDone \/ DropClosed
    BY <2>6 DEF ForwardDone, DropClosed, GoOn
  <2>7. CASE Accept
    BY <2>7 DEF Accept, Admitted
  <2> QED BY <1>2, <2>2, <2>3, <2>4, <2>5, <2>6, <2>7 DEF Next, DaemonNext
<1> QED BY <1>1, <1>2, PTL DEF Spec

-----------------------------------------------------------------------------
(* What the clients are sent.                                              *)

(* The client's steps that read nothing: they leave the daemon alone, and  *)
(* of the connections only those they open or close.                       *)
ClientsPart ==
  /\ UNCHANGED <<daemon, cl_addr, cur, todo, half, log, since>>
  /\ shut \subseteq shut' /\ UNCHANGED eof
  /\ \/ UNCHANGED backlog
     \/ \E c \in Conn : c \notin Used /\ backlog' = Append(backlog, c)
  /\ \A c \in Conn \ shut' : stream'[c] = stream[c] /\ got'[c] = got[c]

(* A packet is read from a connection.                                     *)
Reading(c) ==
  /\ UNCHANGED <<daemon, cl_addr, cur, todo, half, log, since, shut, eof, backlog>>
  /\ Len(stream[c]) >= 2
  /\ got' = [got EXCEPT ![c] = Append(@, stream[c][2][2])]
  /\ stream' = [stream EXCEPT ![c] = AfterPacket(@)]

(* Every step that is not the daemon's is one of these.                    *)
LEMMA SilentSteps ==
  ASSUME TypeOK, [Next]_vars
  PROVE  ClientsPart \/ (\E c \in Conn : Reading(c)) \/ Start \/ DaemonNext \/ Killed
<1>1. ASSUME UNCHANGED <<daemon, cl_addr, cur, todo, half, log, since, connVars>>
      PROVE  ClientsPart
  BY <1>1 DEF ClientsPart, connVars
<1>2. ASSUME NEW p \in Process, Hangup(p), UNCHANGED daemonVars
      PROVE  ClientsPart
  <2>1. \A c \in Conn \ shut' : c # sock[p]
    BY <1>2, StrapsAssumption DEF Hangup, TypeOK
  <2> QED BY <1>2, <2>1 DEF Hangup, ClientsPart, daemonVars, TypeOK
<1>3. ASSUME NEW p \in Process, NEW c \in Conn, Connect(p, c), UNCHANGED daemonVars
      PROVE  ClientsPart
  BY <1>3 DEF Connect, ClientsPart, daemonVars
<1>4. ASSUME NEW p \in Process,
             \/ OpenAnother(p) \/ OpenForks(p) \/ RetryFails(p)
      PROVE  ClientsPart
  BY <1>1, <1>4 DEF OpenAnother, OpenForks, RetryFails, daemonVars
<1>5. ASSUME NEW p \in Process, OpenConnects(p) \/ RetryConnects(p)
      PROVE  ClientsPart
  BY <1>3, <1>5 DEF OpenConnects, RetryConnects
<1>6. ASSUME NEW p \in Process, CloseSession(p) \/ ReadFails(p) \/ Die(p)
      PROVE  ClientsPart
  BY <1>1, <1>2, <1>6 DEF CloseSession, ReadFails, Die, daemonVars
<1>7. ASSUME NEW p \in Process, ReadTrap(p)
      PROVE  \E c \in Conn : Reading(c)
  BY <1>7 DEF ReadTrap, Reading, daemonVars, TypeOK
<1>8. CASE StartFails \/ (\E t \in Trap : TrapSent(t)) \/ UNCHANGED vars
  BY <1>1, <1>8 DEF StartFails, TrapSent, vars, daemonVars
<1> QED BY <1>4, <1>5, <1>6, <1>7, <1>8 DEF Next, ClientNext

(* The daemon forwards one datagram at a time, the one it received last.   *)
LEMMA ForwardOrderlyStep ==
  ASSUME TypeOK, ForwardOrderly, [Next]_vars
  PROVE  ForwardOrderly'
<1> USE DEF ForwardOrderly
<1>1. CASE ClientsPart \/ \E c \in Conn : Reading(c)
  BY <1>1 DEF ClientsPart, Reading
<1>2. CASE Start
  BY <1>2 DEF Start
<1>3. CASE Exit \/ Killed
  BY <1>3 DEF Exit, Killed, Gone
<1>4. CASE Receive
  <2>1. /\ udp \in Seq(Trap) /\ udp # <<>> /\ log \in Seq(Trap)
        /\ \A c \in cl_addr : since[c] \in Nat
    BY <1>4 DEF Receive, TypeOK
  <2>2. /\ Len(log') = Len(log) + 1 /\ log' # <<>> /\ log'[Len(log')] = Head(udp)
        /\ Len(log) \in Nat
    BY <1>4, <2>1 DEF Receive
  <2> QED BY <1>4, <2>1, <2>2 DEF Receive
<1>5. ASSUME NEW c \in Conn, WriteHead(c)
      PROVE  ForwardOrderly'
  BY <1>5 DEF WriteHead, Write
<1>6. ASSUME NEW c \in Conn, WriteBody(c)
      PROVE  ForwardOrderly'
  BY <1>6, StrapsAssumption DEF WriteBody, Write, LeftToWrite
<1>7. ASSUME NEW c \in Conn, WriteFails(c)
      PROVE  ForwardOrderly'
  BY <1>7 DEF WriteFails, LeftToWrite
<1>8. CASE ForwardDone
  BY <1>8 DEF ForwardDone, GoOn
<1>9. CASE Accept
  <2>1. Head(backlog) \in Conn /\ Len(log) \in Nat
    BY <1>9 DEF Accept, TypeOK
  <2>2. /\ since'[Head(backlog)] = Len(log)
        /\ \A c \in Conn \ {Head(backlog)} : since'[c] = since[c]
    BY <1>9, <2>1 DEF Accept, TypeOK
  <2> QED BY <1>9, <2>1, <2>2 DEF Accept, Admitted, TypeOK
<1>10. CASE DropClosed
  BY <1>10 DEF DropClosed, GoOn
<1>11. CASE Unlink
  BY <1>11 DEF Unlink
<1> QED BY <1>1, <1>2, <1>3, <1>4, <1>5, <1>6, <1>7, <1>8, <1>9, <1>10, <1>11, SilentSteps
        DEF DaemonNext

(* No connection is accepted a second time.                                *)
LEMMA BacklogOrderlyStep ==
  ASSUME TypeOK, ForwardOrderly, BacklogOrderly, [Next]_vars
  PROVE  BacklogOrderly'
<1> DEFINE Fresh == Conn \ (cl_addr \cup eof \cup shut)
           Once == \A i, j \in DOMAIN backlog : backlog[i] = backlog[j] => i = j
<1>1. ASSUME UNCHANGED backlog, cl_addr' \cup eof' = cl_addr \cup eof, shut \subseteq shut',
             \A c \in Fresh' : stream'[c] = stream[c] /\ got'[c] = got[c]
      PROVE  BacklogOrderly'
  BY <1>1 DEF BacklogOrderly, Waiting
<1>2. CASE ClientsPart
  <2>1. CASE UNCHANGED backlog
    BY <1>1, <1>2, <2>1 DEF ClientsPart
  <2>2. ASSUME NEW d \in Conn, d \notin Used, backlog' = Append(backlog, d)
        PROVE  BacklogOrderly'
    <3>1. Waiting' = Waiting \cup {d}
      BY <2>2, WaitingAppended
    <3>2. Once'
      <4>1. /\ backlog \in Seq(Conn) /\ Len(backlog) \in Nat
            /\ DOMAIN backlog = 1 .. Len(backlog)
            /\ DOMAIN backlog' = 1 .. Len(backlog) + 1
            /\ \A i \in 1 .. Len(backlog) : backlog'[i] = backlog[i] /\ backlog[i] # d
            /\ backlog'[Len(backlog) + 1] = d
        BY <2>2, SMTT(20) DEF TypeOK, Used, Waiting
      <4> QED BY <4>1 DEF BacklogOrderly
    <3>3. Waiting' \cap (cl_addr' \cup eof') = {}
      BY <1>2, <2>2, <3>1 DEF BacklogOrderly, ClientsPart, Used
    <3>4. \A c \in Fresh' : stream'[c] = <<>> /\ got'[c] = <<>>
      BY <1>2 DEF BacklogOrderly, ClientsPart
    <3> QED BY <3>2, <3>3, <3>4 DEF BacklogOrderly
  <2> QED BY <1>2, <2>1, <2>2 DEF ClientsPart
<1>3. ASSUME NEW d \in Conn, Reading(d)
      PROVE  BacklogOrderly'
  <2>1. d \notin Fresh
    <3>1. stream[d] # <<>>
      BY <1>3 DEF Reading
    <3> QED BY <3>1 DEF BacklogOrderly
  <2>2. \A c \in Conn \ {d} : stream'[c] = stream[c] /\ got'[c] = got[c]
    BY <1>3 DEF Reading, TypeOK
  <2> QED BY <1>1, <1>3, <2>1, <2>2 DEF Reading
<1>4. CASE Start \/ Receive \/ ForwardDone \/ Unlink
  BY <1>1, <1>4 DEF Start, Receive, ForwardDone, Unlink, connVars
<1>5. CASE Exit \/ Killed
  <2>1. /\ backlog' = <<>> /\ cl_addr' = {} /\ eof' = eof \cup cl_addr \cup Waiting
        /\ UNCHANGED <<shut, stream, got>>
    BY <1>5 DEF Exit, Killed, Gone
  <2>2. Waiting' = {}
    BY <2>1 DEF Waiting
  <2> QED BY <2>1, <2>2 DEF BacklogOrderly
<1>6. ASSUME NEW d \in Conn, WriteHead(d) \/ WriteBody(d)
      PROVE  BacklogOrderly'
  <2>1. d \notin Fresh
    BY <1>6, StrapsAssumption DEF WriteHead, WriteBody, ForwardOrderly
  <2>2. /\ \A c \in Conn \ {d} : stream'[c] = stream[c]
        /\ UNCHANGED <<got, backlog, cl_addr, eof, shut>>
    BY <1>6 DEF WriteHead, WriteBody, Write, TypeOK
  <2> QED BY <1>1, <2>1, <2>2
<1>7. ASSUME NEW d \in Conn, WriteFails(d)
      PROVE  BacklogOrderly'
  <2>1. cl_addr' \cup eof' = cl_addr \cup eof
    BY <1>7 DEF WriteFails, ForwardOrderly
  <2> QED BY <1>1, <1>7, <2>1 DEF WriteFails
<1>8. CASE Accept
  <2>1. Waiting = Waiting' \cup {Head(backlog)}
    BY <1>8, WaitingAccepted DEF Accept
  <2>2. /\ backlog \in Seq(Conn) /\ Len(backlog) \in Nat \ {0}
        /\ Head(backlog) = backlog[1]
        /\ DOMAIN backlog = 1 .. Len(backlog)
        /\ DOMAIN backlog' = 1 .. Len(backlog) - 1
        /\ \A i \in 1 .. Len(backlog) - 1 : backlog'[i] = backlog[i + 1]
    BY <1>8 DEF Accept, TypeOK
  <2>3. Once'
    BY <2>2 DEF BacklogOrderly
  <2>4. Head(backlog) \notin Waiting'
    <3>1. \A i \in DOMAIN backlog' : backlog'[i] # Head(backlog)
      BY <2>2 DEF BacklogOrderly
    <3>2. Waiting' = {backlog'[i] : i \in DOMAIN backlog'}
      BY DEF Waiting
    <3> QED BY <3>1, <3>2
  <2>5. Waiting' \cap (cl_addr' \cup eof') = {}
    BY <1>8, <2>1, <2>4 DEF Accept, Admitted, BacklogOrderly
  <2>6. \A c \in Fresh' : stream'[c] = <<>> /\ got'[c] = <<>>
    BY <1>8 DEF Accept, Admitted, BacklogOrderly
  <2> QED BY <2>3, <2>5, <2>6 DEF BacklogOrderly
<1>9. CASE DropClosed
  BY <1>1, <1>9 DEF DropClosed
<1> QED BY <1>2, <1>3, <1>4, <1>5, <1>6, <1>7, <1>8, <1>9, SilentSteps DEF DaemonNext

(* A client about which nothing changes.                                   *)
LEMMA PassedSame ==
  ASSUME NEW c \in Conn, Passed(c), UNCHANGED log,
         stream'[c] = stream[c], got'[c] = got[c], since'[c] = since[c],
         Unwritten(c)' = Unwritten(c)
  PROVE  Passed(c)'
BY DEF Passed

(* The numbers and sequences Passed is about.                              *)
LEMMA PassedTypes ==
  ASSUME TypeOK, ForwardOrderly, NEW c \in cl_addr
  PROVE  /\ c \in Conn
         /\ Len(log) \in Nat /\ since[c] \in Nat /\ since[c] <= Len(log)
         /\ Len(got[c]) \in Nat /\ Len(stream[c]) \in Nat
         /\ Unwritten(c) \in 0 .. 2
         /\ got[c] \in Seq(Trap \cup {None})
         /\ stream[c] \in Seq({"head", "body"} \X (Trap \cup {None}))
BY DEF TypeOK, ForwardOrderly, Unwritten

(* A client reads a packet: the oldest it was written and has not read.    *)
LEMMA PassedRead ==
  ASSUME TypeOK, ForwardOrderly, NEW c \in cl_addr, Passed(c), Reading(c)
  PROVE  Passed(c)'
<1>1. PICK L \in Nat, s \in Nat, r \in Nat, m \in Nat, u \in 0 .. 2 :
        /\ L = Len(log) /\ s = since[c] /\ r = Len(got[c]) /\ m = Len(stream[c])
        /\ u = Unwritten(c) /\ s <= L
  BY PassedTypes
<1>2. /\ m = 2 * ((L - s) - r) - u
      /\ \A i \in 1 .. r : got[c][i] = log[s + i]
      /\ \A k \in 1 .. (L - s) - r :
           /\ 2 * k - 1 <= m => stream[c][2 * k - 1] = <<"head", log[s + r + k]>>
           /\ 2 * k <= m => stream[c][2 * k] = <<"body", log[s + r + k]>>
  BY <1>1 DEF Passed
<1>3. m >= 2
  BY <1>1 DEF Reading
<1>4. 1 \in 1 .. (L - s) - r
  BY <1>2, <1>3
<1>5. stream[c][2][2] = log[s + r + 1]
  BY <1>2, <1>3, <1>4
<1>6. /\ got'[c] = Append(got[c], log[s + r + 1])
      /\ stream'[c] = SubSeq(stream[c], 3, m)
  BY <1>1, <1>5 DEF Reading, TypeOK, AfterPacket
<1>7. /\ Len(got'[c]) = r + 1
      /\ \A i \in 1 .. r : got'[c][i] = got[c][i]
      /\ got'[c][r + 1] = log[s + r + 1]
  BY <1>1, <1>6, PassedTypes
<1>8. /\ Len(stream'[c]) = m - 2
      /\ \A i \in 1 .. m - 2 : stream'[c][i] = stream[c][i + 2]
  BY <1>1, <1>3, <1>6, PassedTypes
<1>9. ASSUME NEW i \in 1 .. r + 1
      PROVE  got'[c][i] = log[s + i]
  <2>1. CASE i \in 1 .. r
    BY <1>2, <1>7, <2>1
  <2>2. CASE i = r + 1
    <3>1. s + i = s + r + 1
      BY <2>2
    <3> QED BY <1>7, <2>2, <3>1
  <2> QED BY <2>1, <2>2
<1>10. ASSUME NEW k \in 1 .. (L - s) - (r + 1)
       PROVE  /\ 2 * k - 1 <= m - 2 => stream'[c][2 * k - 1] = <<"head", log[s + (r + 1) + k]>>
              /\ 2 * k <= m - 2 => stream'[c][2 * k] = <<"body", log[s + (r + 1) + k]>>
  <2>1. PICK j \in 1 .. (L - s) - r : j = k + 1
    OBVIOUS
  <2>2. /\ 2 * j - 1 <= m => stream[c][2 * j - 1] = <<"head", log[s + r + j]>>
        /\ 2 * j <= m => stream[c][2 * j] = <<"body", log[s + r + j]>>
    BY <1>2
  <2>3. 2 * j - 1 = (2 * k - 1) + 2 /\ 2 * j = 2 * k + 2 /\ s + r + j = s + (r + 1) + k
    BY <2>1
  <2>4. 2 * k - 1 <= m - 2 => 2 * k - 1 \in 1 .. m - 2 /\ 2 * j - 1 <= m
    BY <2>1
  <2>5. 2 * k <= m - 2 => 2 * k \in 1 .. m - 2 /\ 2 * j <= m
    BY <2>1
  <2> QED BY <1>8, <2>2, <2>3, <2>4, <2>5
<1>11. m - 2 = 2 * ((L - s) - (r + 1)) - u
  BY <1>2
<1>12. Unwritten(c)' = u /\ log' = log /\ since'[c] = s
  BY <1>1 DEF Reading, Unwritten
<1> QED BY <1>1, <1>7, <1>8, <1>9, <1>10, <1>11, <1>12, ZenonT(30) DEF Passed

(* A datagram is received: it is owed to every client, and none of it is   *)
(* written.                                                                *)
LEMMA PassedReceive ==
  ASSUME TypeOK, ForwardOrderly, NEW c \in cl_addr, Passed(c), Receive
  PROVE  Passed(c)'
<1>1. PICK L \in Nat, s \in Nat, r \in Nat, m \in Nat :
        /\ L = Len(log) /\ s = since[c] /\ r = Len(got[c]) /\ m = Len(stream[c])
        /\ s <= L
  BY PassedTypes
<1>2. Unwritten(c) = 0 /\ Unwritten(c)' = 2
  BY PassedTypes, StrapsAssumption DEF Receive, ForwardOrderly, Unwritten
<1>3. /\ m = 2 * ((L - s) - r)
      /\ \A i \in 1 .. r : got[c][i] = log[s + i]
      /\ \A k \in 1 .. (L - s) - r :
           /\ 2 * k - 1 <= m => stream[c][2 * k - 1] = <<"head", log[s + r + k]>>
           /\ 2 * k <= m => stream[c][2 * k] = <<"body", log[s + r + k]>>
  <2>1. m = 2 * ((L - s) - r) - Unwritten(c)
    BY <1>1 DEF Passed
  <2>2. m = 2 * ((L - s) - r)
    BY <1>2, <2>1
  <2> QED BY <1>1, <2>2 DEF Passed
<1>4. /\ Len(log') = L + 1
      /\ \A i \in 1 .. L : log'[i] = log[i]
  BY <1>1 DEF Receive, TypeOK
<1>5. r <= L - s
  BY <1>3
<1>6. \A i \in 1 .. r : got[c][i] = log'[s + i]
  BY <1>3, <1>4, <1>5, SMTT(20)
<1>7. ASSUME NEW k \in 1 .. (L + 1 - s) - r
      PROVE  /\ 2 * k - 1 <= m => stream[c][2 * k - 1] = <<"head", log'[s + r + k]>>
             /\ 2 * k <= m => stream[c][2 * k] = <<"body", log'[s + r + k]>>
  <2>1. CASE k \in 1 .. (L - s) - r
    <3>1. s + r + k \in 1 .. L
      BY <2>1
    <3> QED BY <1>3, <1>4, <2>1, <3>1
  <2>2. CASE k = (L + 1 - s) - r
    BY <1>3, <2>2
  <2> QED BY <2>1, <2>2
<1>8. m = 2 * ((L + 1 - s) - r) - 2
  BY <1>3
<1>9. UNCHANGED <<stream, got, since>>
  BY DEF Receive, connVars
<1>10. /\ Len(log') - since'[c] = L + 1 - s
       /\ Len(got'[c]) = r /\ Len(stream'[c]) = m
       /\ stream'[c] = stream[c] /\ got'[c] = got[c] /\ since'[c] = s
  BY <1>1, <1>4, <1>9
<1>11. PICK due \in Int : due = L + 1 - s
  OBVIOUS
<1>12. Len(stream'[c]) = 2 * (due - r) - Unwritten(c)'
  BY <1>2, <1>8, <1>10, <1>11
<1>13. \A i \in 1 .. r : got'[c][i] = log'[s + i]
  BY <1>6, <1>10
<1>14. \A k \in 1 .. due - r :
         /\ 2 * k - 1 <= m => stream'[c][2 * k - 1] = <<"head", log'[s + r + k]>>
         /\ 2 * k <= m => stream'[c][2 * k] = <<"body", log'[s + r + k]>>
  BY <1>7, <1>10, <1>11
<1>15. Len(log') - since'[c] = due
  BY <1>10, <1>11
<1> QED BY <1>10, <1>12, <1>13, <1>14, <1>15 DEF Passed

(* One more piece is written to the connection.                            *)
LEMMA PassedWritten ==
  ASSUME TypeOK, ForwardOrderly, NEW c \in todo, Passed(c), daemon = "forward",
         NEW part \in {"head", "body"}, Write(c, part),
         \/ part = "head" /\ Unwritten(c) = 2 /\ Unwritten(c)' = 1
         \/ part = "body" /\ Unwritten(c) = 1 /\ Unwritten(c)' = 0
  PROVE  Passed(c)'
<1>0. c \in cl_addr
  BY DEF ForwardOrderly
<1>1. PICK L \in Nat, s \in Nat, r \in Nat, m \in Nat, u \in 0 .. 2 :
        /\ L = Len(log) /\ s = since[c] /\ r = Len(got[c]) /\ m = Len(stream[c])
        /\ u = Unwritten(c) /\ s <= L
  BY <1>0, PassedTypes
<1>2. /\ m = 2 * ((L - s) - r) - u
      /\ \A i \in 1 .. r : got[c][i] = log[s + i]
      /\ \A k \in 1 .. (L - s) - r :
           /\ 2 * k - 1 <= m => stream[c][2 * k - 1] = <<"head", log[s + r + k]>>
           /\ 2 * k <= m => stream[c][2 * k] = <<"body", log[s + r + k]>>
  BY <1>1 DEF Passed
<1>3. cur = log[L]
  BY <1>1 DEF ForwardOrderly
<1>4. stream'[c] = Append(stream[c], <<part, log[L]>>)
  BY <1>0, <1>3 DEF Write, TypeOK
<1>5. /\ Len(stream'[c]) = m + 1
      /\ \A i \in 1 .. m : stream'[c][i] = stream[c][i]
      /\ stream'[c][m + 1] = <<part, log[L]>>
  BY <1>0, <1>1, <1>4, PassedTypes
<1>6. /\ part = "head" => u = 2 /\ Unwritten(c)' = 1
      /\ part = "body" => u = 1 /\ Unwritten(c)' = 0
  BY <1>1
<1>7. ASSUME NEW k \in 1 .. (L - s) - r
      PROVE  /\ 2 * k - 1 <= m + 1 => stream'[c][2 * k - 1] = <<"head", log[s + r + k]>>
             /\ 2 * k <= m + 1 => stream'[c][2 * k] = <<"body", log[s + r + k]>>
  <2>1. CASE k < (L - s) - r
    <3>1. 2 * k \in 1 .. m /\ 2 * k - 1 \in 1 .. m
      BY <1>2, <1>6, <2>1
    <3>2. 2 * k <= m /\ 2 * k - 1 <= m
      BY <3>1
    <3>3. /\ stream[c][2 * k - 1] = <<"head", log[s + r + k]>>
          /\ stream[c][2 * k] = <<"body", log[s + r + k]>>
      BY <1>2, <3>2
    <3>4. /\ stream'[c][2 * k - 1] = stream[c][2 * k - 1]
          /\ stream'[c][2 * k] = stream[c][2 * k]
      BY <1>5, <3>1
    <3> QED BY <3>3, <3>4
  <2>2. CASE k = (L - s) - r
    <3>1. s + r + k = L
      BY <2>2
    <3>2. CASE part = "head"
      <4>1. 2 * k - 1 = m + 1
        BY <1>2, <1>6, <2>2, <3>2
      <4> QED BY <1>5, <3>1, <3>2, <4>1, SMTT(40)
    <3>3. CASE part = "body"
      <4>1. 2 * k = m + 1 /\ 2 * k - 1 \in 1 .. m
        BY <1>2, <1>6, <2>2, <3>3
      <4>2. stream[c][2 * k - 1] = <<"head", log[s + r + k]>>
        BY <1>2, <4>1
      <4> QED BY <1>5, <3>1, <3>3, <4>1, <4>2
    <3> QED BY <3>2, <3>3
  <2> QED BY <2>1, <2>2
<1>8. m + 1 = 2 * ((L - s) - r) - Unwritten(c)'
  BY <1>2, <1>6
<1>9. UNCHANGED <<log, got, since>>
  BY DEF Write
<1> QED BY <1>1, <1>2, <1>5, <1>7, <1>8, <1>9 DEF Passed

(* No step of anybody brings a client's packets out of order.              *)
LEMMA PassedStep ==
  ASSUME TypeOK, PassedInv, [Next]_vars, NEW c \in cl_addr' \ shut'
  PROVE  Passed(c)'
<1>0. /\ ForwardOrderly /\ BacklogOrderly
      /\ c \in cl_addr \ shut => Passed(c)
      /\ c \in Conn
  <2>1. TypeOK'
    BY TypesStep
  <2> QED BY <2>1 DEF PassedInv, TypeOK
<1>1. CASE ClientsPart
  <2>1. Unwritten(c)' = Unwritten(c)
    BY <1>1 DEF ClientsPart, Unwritten
  <2> QED BY <1>0, <1>1, <2>1, PassedSame DEF ClientsPart
<1>2. ASSUME NEW d \in Conn, Reading(d)
      PROVE  Passed(c)'
  <2>1. CASE c = d
    BY <1>0, <1>2, <2>1, PassedRead DEF Reading
  <2>2. CASE c # d
    <3>1. Unwritten(c)' = Unwritten(c)
      BY <1>2 DEF Reading, Unwritten
    <3> QED BY <1>0, <1>2, <2>2, <3>1, PassedSame DEF Reading, TypeOK
  <2> QED BY <2>1, <2>2
<1>3. CASE Start \/ Exit \/ Killed
  BY <1>0, <1>3 DEF Start, Exit, Killed, Gone, ForwardOrderly
<1>4. CASE Receive
  BY <1>0, <1>4, PassedReceive DEF Receive, connVars
<1>5. ASSUME NEW d \in Conn, WriteHead(d) \/ WriteBody(d)
      PROVE  Passed(c)'
  <2>1. d \in todo /\ d \in cl_addr /\ daemon = "forward" /\ UNCHANGED <<cl_addr, shut>>
    BY <1>0, <1>5, StrapsAssumption DEF WriteHead, WriteBody, Write, ForwardOrderly
  <2>2. CASE c = d
    <3>1. CASE WriteHead(d)
      <4>1. Unwritten(c) = 2 /\ Unwritten(c)' = 1 /\ Write(c, "head")
        BY <1>0, <2>1, <2>2, <3>1, StrapsAssumption DEF WriteHead, Unwritten
      <4> QED BY <1>0, <2>1, <2>2, <4>1, PassedWritten
    <3>2. CASE WriteBody(d)
      <4>1. Unwritten(c) = 1 /\ Unwritten(c)' = 0 /\ Write(c, "body")
        BY <2>1, <2>2, <3>2 DEF WriteBody, Unwritten, LeftToWrite
      <4> QED BY <1>0, <2>1, <2>2, <4>1, PassedWritten
    <3> QED BY <1>5, <3>1, <3>2
  <2>3. CASE c # d
    <3>1. Unwritten(c)' = Unwritten(c)
      BY <1>0, <1>5, <2>3, StrapsAssumption DEF WriteHead, WriteBody, Unwritten, LeftToWrite
    <3>2. stream'[c] = stream[c] /\ UNCHANGED <<log, got, since>>
      BY <1>0, <1>5, <2>3 DEF WriteHead, WriteBody, Write, TypeOK
    <3> QED BY <1>0, <2>1, <3>1, <3>2, PassedSame
  <2> QED BY <2>2, <2>3
<1>6. ASSUME NEW d \in Conn, WriteFails(d)
      PROVE  Passed(c)'
  <2>1. c # d /\ c \in cl_addr \ shut
    BY <1>6 DEF WriteFails
  <2>2. Unwritten(c)' = Unwritten(c)
    BY <1>0, <1>6, <2>1, StrapsAssumption DEF WriteFails, Unwritten, LeftToWrite
  <2> QED BY <1>0, <1>6, <2>1, <2>2, PassedSame DEF WriteFails
<1>7. CASE ForwardDone \/ Unlink \/ DropClosed
  <2>1. c \in cl_addr \ shut /\ UNCHANGED <<todo, half, log, since, stream, got>>
    BY <1>7 DEF ForwardDone, Unlink, DropClosed, connVars
  <2>2. Unwritten(c)' = Unwritten(c)
    BY <2>1 DEF Unwritten
  <2> QED BY <1>0, <2>1, <2>2, PassedSame
<1>8. CASE Accept
  <2>1. Head(backlog) \in Conn /\ Head(backlog) \in Waiting
    <3>1. backlog \in Seq(Conn) /\ backlog # <<>>
      BY <1>8 DEF Accept, TypeOK
    <3>2. Waiting = Waiting' \cup {Head(backlog)}
      BY <1>8, WaitingAccepted DEF Accept
    <3> QED BY <3>1, <3>2
  <2>2. /\ since'[Head(backlog)] = Len(log)
        /\ c # Head(backlog) => since'[c] = since[c]
        /\ UNCHANGED <<todo, half, log, stream, got>>
        /\ todo = {}
    BY <1>0, <1>8, <2>1 DEF Accept, TypeOK, ForwardOrderly
  <2>3. CASE c = Head(backlog)
    <3>1. stream[c] = <<>> /\ got[c] = <<>>
      BY <1>0, <1>8, <2>1, <2>3 DEF Accept, BacklogOrderly
    <3>2. Unwritten(c)' = 0
      BY <2>2 DEF Unwritten
    <3>3. /\ Len(stream'[c]) = 0 /\ Len(got'[c]) = 0 /\ Len(log') - since'[c] = 0
      <4>1. Len(log) \in Nat
        BY DEF TypeOK
      <4> QED BY <2>2, <2>3, <3>1, <4>1
    <3> QED BY <3>2, <3>3 DEF Passed
  <2>4. CASE c # Head(backlog)
    <3>1. Unwritten(c)' = Unwritten(c)
      BY <2>2 DEF Unwritten
    <3>2. c \in cl_addr \ shut
      BY <1>8, <2>4 DEF Accept, Admitted
    <3> QED BY <1>0, <2>2, <2>4, <3>1, <3>2, PassedSame
  <2> QED BY <2>3, <2>4
<1> QED BY <1>1, <1>2, <1>3, <1>4, <1>5, <1>6, <1>7, <1>8, SilentSteps DEF DaemonNext

(* So they are in order in every state.                                    *)
LEMMA PassedAlways == Spec => []PassedInv
<1>1. Init => PassedInv
  BY DEF Init, PassedInv, ForwardOrderly, BacklogOrderly, Waiting
<1>2. ASSUME TypeOK, PassedInv, [Next]_vars
      PROVE  PassedInv'
  <2>1. ForwardOrderly'
    BY <1>2, ForwardOrderlyStep DEF PassedInv
  <2>2. BacklogOrderly'
    BY <1>2, BacklogOrderlyStep DEF PassedInv
  <2>3. \A c \in cl_addr' \ shut' : Passed(c)'
    BY <1>2, PassedStep
  <2> QED BY <2>1, <2>2, <2>3 DEF PassedInv
<1> QED BY <1>1, <1>2, StrapsTypes, PTL DEF Spec

(* A datagram is written as its head and its body.                         *)
LEMMA PieceOf ==
  ASSUME NEW l \in Seq(Trap), NEW k \in 1 .. Len(l)
  PROVE  /\ Pieces(l)[2 * k - 1] = <<"head", l[k]>>
         /\ Pieces(l)[2 * k] = <<"body", l[k]>>
<1>1. 2 * k - 1 \in 1 .. 2 * Len(l) /\ 2 * k \in 1 .. 2 * Len(l)
  OBVIOUS
<1>2. (2 * k - 1) % 2 = 1 /\ (2 * k) % 2 = 0
  OBVIOUS
<1>3. (2 * k - 1 + 1) \div 2 = k /\ (2 * k + 1) \div 2 = k
  OBVIOUS
<1> QED BY <1>1, <1>2, <1>3 DEF Pieces

(* The pieces from one datagram's head to another's head or body are what  *)
(* Passed says.                                                            *)
LEMMA PassedIsSubSeq ==
  ASSUME TypeOK, ForwardOrderly, NEW c \in cl_addr, Passed(c)
  PROVE  LET due == SubSeq(log, since[c] + 1, Len(log))
             read == Len(got[c])
         IN /\ got[c] = SubSeq(due, 1, read)
            /\ stream[c] = SubSeq(Pieces(due), 2 * read + 1, 2 * Len(due) - Unwritten(c))
<1> DEFINE Piece == {"head", "body"} \X (Trap \cup {None})
<1>1. PICK L \in Nat, s \in Nat, r \in Nat, m \in Nat, u \in 0 .. 2 :
        /\ L = Len(log) /\ s = since[c] /\ r = Len(got[c]) /\ m = Len(stream[c])
        /\ u = Unwritten(c) /\ s <= L
  BY PassedTypes
<1>2. PICK due : due = SubSeq(log, s + 1, L)
  OBVIOUS
<1>3. /\ due \in Seq(Trap) /\ Len(due) = L - s
      /\ \A i \in 1 .. L - s : due[i] = log[s + i]
  <2>1. \A i \in s + 1 .. L : log[i] \in Trap
    BY <1>1 DEF TypeOK
  <2>2. s + 1 \in Int
    OBVIOUS
  <2>3. /\ due \in Seq(Trap)
        /\ Len(due) = IF s + 1 <= L THEN L - (s + 1) + 1 ELSE 0
        /\ \A i \in 1 .. L - (s + 1) + 1 : due[i] = log[(s + 1) + i - 1]
    BY <1>2, <2>1, <2>2, SubSeqProperties
  <2>4. /\ L - (s + 1) + 1 = L - s /\ (s + 1 <= L <=> L - s > 0) /\ L - s >= 0
        /\ \A i \in 1 .. L - s : (s + 1) + i - 1 = s + i
    BY <1>1
  <2> QED BY <2>3, <2>4, SMTT(40)
<1>4. /\ m = 2 * ((L - s) - r) - u
      /\ \A i \in 1 .. r : got[c][i] = log[s + i]
      /\ \A k \in 1 .. (L - s) - r :
           /\ 2 * k - 1 <= m => stream[c][2 * k - 1] = <<"head", log[s + r + k]>>
           /\ 2 * k <= m => stream[c][2 * k] = <<"body", log[s + r + k]>>
  BY <1>1 DEF Passed
<1>5. r <= L - s
  BY <1>4
<1>6. got[c] = SubSeq(due, 1, r)
  <2>1. /\ SubSeq(due, 1, r) \in Seq(Trap \cup {None}) /\ Len(SubSeq(due, 1, r)) = r
        /\ \A i \in 1 .. r : SubSeq(due, 1, r)[i] = due[i]
    BY <1>3, <1>5
  <2>2. \A i \in 1 .. r : got[c][i] = SubSeq(due, 1, r)[i]
    BY <1>3, <1>4, <1>5, <2>1
  <2> QED BY <1>1, <2>1, <2>2, PassedTypes, SeqEqual
<1>7. PICK p : p = Pieces(due)
  OBVIOUS
<1>8. \A k \in 1 .. L - s : /\ p[2 * k - 1] = <<"head", due[k]>> /\ p[2 * k] = <<"body", due[k]>>
                            /\ due[k] \in Trap
  BY <1>3, <1>7, PieceOf
<1>9. ASSUME NEW i \in 1 .. m
      PROVE  stream[c][i] = p[2 * r + i]
  <2>1. PICK k \in 1 .. (L - s) - r : i = 2 * k - 1 \/ i = 2 * k
    <3>1. CASE i % 2 = 1
      <4>1. PICK k \in Int : i = 2 * k - 1
        <5>1. i = 2 * ((i + 1) \div 2) - 1
          BY <3>1
        <5>2. (i + 1) \div 2 \in Int
          OBVIOUS
        <5> QED BY <5>1, <5>2
      <4>2. k \in 1 .. (L - s) - r
        BY <1>4, <4>1
      <4> QED BY <4>1, <4>2
    <3>2. CASE i % 2 = 0
      <4>1. PICK k \in Int : i = 2 * k
        <5>1. i = 2 * (i \div 2)
          BY <3>2
        <5>2. i \div 2 \in Int
          OBVIOUS
        <5> QED BY <5>1, <5>2
      <4>2. k \in 1 .. (L - s) - r
        BY <1>4, <4>1
      <4> QED BY <4>1, <4>2
    <3>3. i % 2 \in {0, 1}
      OBVIOUS
    <3> QED BY <3>1, <3>2, <3>3
  <2>2. PICK j \in 1 .. L - s : j = r + k
    BY <1>5
  <2>3. due[j] = log[s + r + k]
    <3>1. s + j = s + r + k
      BY <2>2
    <3> QED BY <1>3, <3>1
  <2>4. CASE i = 2 * k - 1
    <3>1. 2 * r + i = 2 * j - 1 /\ 2 * k - 1 <= m
      BY <2>2, <2>4
    <3> QED BY <1>4, <1>8, <2>3, <2>4, <3>1
  <2>5. CASE i = 2 * k
    <3>1. 2 * r + i = 2 * j /\ 2 * k <= m
      BY <2>2, <2>5
    <3> QED BY <1>4, <1>8, <2>3, <2>5, <3>1
  <2> QED BY <2>1, <2>4, <2>5
<1>10. PICK n \in Int : n = 2 * (L - s) - u
  OBVIOUS
<1>11. stream[c] = SubSeq(p, 2 * r + 1, n)
  <2>1. n = 2 * r + m
    BY <1>4, <1>10
  <2>2. \A i \in 2 * r + 1 .. n : p[i] \in Piece
    <3> SUFFICES ASSUME NEW i \in 2 * r + 1 .. n PROVE p[i] \in Piece
      OBVIOUS
    <3>1. PICK j \in 1 .. m : i = 2 * r + j
      <4>1. i - 2 * r \in 1 .. m /\ i = 2 * r + (i - 2 * r)
        BY <2>1
      <4> QED BY <4>1
    <3>2. stream[c][j] \in Piece
      BY <1>1, PassedTypes
    <3> QED BY <1>9, <3>1, <3>2
  <2>3. /\ SubSeq(p, 2 * r + 1, n) \in Seq(Piece)
        /\ Len(SubSeq(p, 2 * r + 1, n)) = m
        /\ \A i \in 1 .. m : SubSeq(p, 2 * r + 1, n)[i] = p[2 * r + i]
    <3> HIDE DEF Piece
    <3>1. 2 * r + 1 \in Int
      OBVIOUS
    <3>2. /\ SubSeq(p, 2 * r + 1, n) \in Seq(Piece)
          /\ Len(SubSeq(p, 2 * r + 1, n)) = IF 2 * r + 1 <= n THEN n - (2 * r + 1) + 1 ELSE 0
          /\ \A i \in 1 .. n - (2 * r + 1) + 1 :
               SubSeq(p, 2 * r + 1, n)[i] = p[(2 * r + 1) + i - 1]
      BY <2>2, <3>1, SubSeqProperties
    <3>3. n - (2 * r + 1) + 1 = m /\ (2 * r + 1 <= n <=> m >= 1)
      BY <2>1
    <3>4. \A i \in 1 .. m : (2 * r + 1) + i - 1 = 2 * r + i
      OBVIOUS
    <3> QED BY <3>2, <3>3, <3>4
  <2>4. stream[c] \in Seq(Piece) /\ Len(stream[c]) = m
    BY <1>1, PassedTypes
  <2>5. \A i \in 1 .. Len(stream[c]) : stream[c][i] = SubSeq(p, 2 * r + 1, n)[i]
    BY <1>9, <2>3, <2>4
  <2> HIDE DEF Piece
  <2> QED BY <2>3, <2>4, <2>5, SeqEqual
<1>12. 2 * Len(due) - Unwritten(c) = n
  BY <1>1, <1>3, <1>10
<1> QED BY <1>1, <1>2, <1>6, <1>7, <1>11, <1>12

(* A client gets what the daemon has received since it was accepted, each  *)
(* datagram once, whole and in its place.                                  *)
THEOREM GetsTraps == Spec => []ClientsGetTraps
<1>1. ASSUME TypeOK, PassedInv
      PROVE  ClientsGetTraps
  <2> SUFFICES ASSUME NEW c \in cl_addr \ shut
               PROVE  LET due == SubSeq(log, since[c] + 1, Len(log))
                          read == Len(got[c])
                      IN /\ got[c] = SubSeq(due, 1, read)
                         /\ stream[c] = SubSeq(Pieces(due), 2 * read + 1,
                                               2 * Len(due) - Unwritten(c))
    BY DEF ClientsGetTraps, Unwritten
  <2> QED BY <1>1, PassedIsSubSeq DEF PassedInv
<1> QED BY <1>1, StrapsTypes, PassedAlways, PTL
=============================================================================
