------------------------------- MODULE Straps -------------------------------
(***************************************************************************)
(* Trap forwarding in the build without USE_SNMPTRAPD: the straps daemon   *)
(* (src/src/straps/straps.c), which owns the trap port and passes what it  *)
(* receives to every client connected to its Unix domain socket, and the   *)
(* clients, programs whose luasnmp opens and closes that connection        *)
(* (src/src/nm_trap.c) with its first and last session that has a trap or  *)
(* inform callback, and starts the daemon when nobody listens.             *)
(*                                                                         *)
(* The network, the operating system's sockets and the programs (what they *)
(* open, when they pump events, when they are killed) are the environment. *)
(* A packet on a connection is a head (address, port and length) and a     *)
(* body, written and read one after the other.  inittrap has been called   *)
(* before the first session is opened: luasnmp.lua does so when loaded.    *)
(***************************************************************************)
EXTENDS Naturals, Sequences, FiniteSets

CONSTANTS
  Process,     \* programs that use luasnmp
  Conn,        \* connections, each made at most once
  Trap,        \* datagrams sent to the trap port, each at most once
  None,        \* no connection, no datagram
  SockBuf,     \* head and body pieces a connection can hold
  Retries,     \* connection attempts after starting the daemon
  MaxSessions, \* bound: sessions with a notification callback per program
  MaxStarting  \* bound: daemons started and not yet at their bind

ASSUME StrapsAssumption ==
  /\ IsFiniteSet(Conn)
  /\ None \notin Conn \cup Trap
  /\ SockBuf \in Nat \ {0}
  /\ Retries \in Nat \ {0}
  /\ MaxSessions \in Nat
  /\ MaxStarting \in Nat

VARIABLES
  daemon,   \* where the daemon that owns the trap port is
  starting, \* daemons that are started and have not bound the port yet
  udp,      \* datagrams waiting at the trap port
  backlog,  \* connections not accepted yet, oldest first
  cl_addr,  \* connections the daemon has accepted and not closed
  cur,      \* the datagram being forwarded
  todo,     \* connections it has still to be written to
  half,     \* the connection that has been written the head only
  stream,   \* per connection: pieces written and not read
  eof,      \* connections closed by the daemon's side
  shut,     \* connections closed by the client's side
  sock,     \* per program: nm_trap_sock
  ntraps,   \* per program: nm_snmp_ntraps
  opening,  \* per program: attempts left in nm_trap_open, 0 when not in it
  sent,     \* datagrams sent so far
  log,      \* history: datagrams this daemon has received
  since,    \* history: how many of them before the connection was accepted
  got,      \* history: per connection, packets read from it
  served    \* history: this daemon has accepted a connection

queueVars  == <<udp, sent>>
daemonVars == <<daemon, starting, cl_addr, cur, todo, half, log, since, served>>
connVars   == <<backlog, stream, eof, shut, got>>
clientVars == <<sock, ntraps, opening>>
vars == <<queueVars, daemonVars, connVars, clientVars>>

Init ==
  /\ daemon = "none"
  /\ starting = 0
  /\ udp = <<>>
  /\ backlog = <<>>
  /\ cl_addr = {}
  /\ cur = None
  /\ todo = {}
  /\ half = None
  /\ stream = [c \in Conn |-> <<>>]
  /\ eof = {}
  /\ shut = {}
  /\ sock = [p \in Process |-> None]
  /\ ntraps = [p \in Process |-> 0]
  /\ opening = [p \in Process |-> 0]
  /\ sent = {}
  /\ log = <<>>
  /\ since = [c \in Conn |-> 0]
  /\ got = [c \in Conn |-> <<>>]
  /\ served = FALSE

Waiting == {backlog[i] : i \in DOMAIN backlog}
Used == cl_addr \cup Waiting \cup eof \cup shut

(* The socket's path exists and somebody listens.                          *)
Listening == daemon \in {"loop", "forward", "exit"}
-----------------------------------------------------------------------------
(* The clients.                                                            *)

Connect(p, c) ==
  /\ c \notin Used
  /\ sock' = [sock EXCEPT ![p] = c]
  /\ backlog' = Append(backlog, c)
  /\ UNCHANGED <<stream, eof, shut, got>>

(* Mutant: nm_trap_sock is forgotten, not closed.                          *)
HangupLeaks(p) ==
  /\ sock' = [sock EXCEPT ![p] = None]
  /\ UNCHANGED connVars

(* What is not read yet is gone with the connection.                       *)
Hangup(p) ==
  /\ sock' = [sock EXCEPT ![p] = None]
  /\ shut' = shut \cup ({sock[p]} \ {None})
  /\ stream' = [c \in Conn |-> IF c = sock[p] THEN <<>> ELSE stream[c]]
  /\ got' = [c \in Conn |-> IF c = sock[p] THEN <<>> ELSE got[c]]
  /\ UNCHANGED <<backlog, eof>>

(* A session with a notification callback is opened, and it is not the     *)
(* first.                                                                  *)
OpenAnother(p) ==
  /\ opening[p] = 0
  /\ ntraps[p] \in 1 .. MaxSessions - 1
  /\ ntraps' = [ntraps EXCEPT ![p] = @ + 1]
  /\ UNCHANGED <<queueVars, daemonVars, connVars, sock, opening>>

(* nm_trap_open for the first one: connect, or start the daemon.           *)
OpenFirst(p) ==
  /\ opening[p] = 0
  /\ ntraps[p] = 0
  /\ ntraps' = [ntraps EXCEPT ![p] = 1]

OpenConnects(p) ==
  /\ OpenFirst(p)
  /\ Listening
  /\ \E c \in Conn : Connect(p, c)
  /\ UNCHANGED <<queueVars, daemonVars, opening>>

OpenForks(p) ==
  /\ OpenFirst(p)
  /\ ~Listening
  /\ starting < MaxStarting
  /\ starting' = starting + 1
  /\ opening' = [opening EXCEPT ![p] = Retries]
  /\ UNCHANGED <<queueVars, daemon, cl_addr, cur, todo, half, log, since, served,
                 connVars, sock>>

(* One of the attempts to connect to the daemon that was started.          *)
RetryConnects(p) ==
  /\ opening[p] > 0
  /\ Listening
  /\ \E c \in Conn : Connect(p, c)
  /\ opening' = [opening EXCEPT ![p] = 0]
  /\ UNCHANGED <<queueVars, daemonVars, ntraps>>

RetryFails(p) ==
  /\ opening[p] > 0
  /\ ~Listening
  /\ opening' = [opening EXCEPT ![p] = @ - 1]
  /\ UNCHANGED <<queueVars, daemonVars, connVars, sock, ntraps>>

(* Mutant: the count is compared before it is taken down.                  *)
LastOneLate(p) == ntraps[p] = 0

LastOne(p) == ntraps[p] = 1

(* A session with a notification callback is closed; with the last one     *)
(* goes the connection.                                                    *)
CloseSession(p) ==
  /\ opening[p] = 0
  /\ ntraps[p] > 0
  /\ ntraps' = [ntraps EXCEPT ![p] = @ - 1]
  /\ IF LastOne(p) THEN Hangup(p) ELSE UNCHANGED <<connVars, sock>>
  /\ UNCHANGED <<queueVars, daemonVars, opening>>

(* Mutant: the rest of a packet longer than the buffer is left unread.     *)
AfterHead(s) == SubSeq(s, 2, Len(s))

AfterPacket(s) == SubSeq(s, 3, Len(s))

(* nm_trap_event when the socket is readable: the whole packet is there,   *)
(* or nothing more will come.                                              *)
ReadTrap(p) ==
  LET c == sock[p]
  IN /\ ntraps[p] > 0
     /\ c # None
     /\ Len(stream[c]) >= 2
     /\ got' = [got EXCEPT ![c] = Append(@, stream[c][2][2])]
     /\ stream' = [stream EXCEPT ![c] = AfterPacket(@)]
     /\ UNCHANGED <<queueVars, daemonVars, backlog, eof, shut, clientVars>>

(* Mutant: an error is reported and the socket kept.                       *)
ReadFailsKeepsSocket(p) == sock[p] \in eof /\ UNCHANGED vars

ReadFails(p) ==
  /\ ntraps[p] > 0
  /\ sock[p] \in eof
  /\ Len(stream[sock[p]]) < 2
  /\ Hangup(p)
  /\ UNCHANGED <<queueVars, daemonVars, ntraps, opening>>

(* The program is killed (and started again): its sessions are gone.       *)
Die(p) ==
  /\ ntraps[p] > 0
  /\ ntraps' = [ntraps EXCEPT ![p] = 0]
  /\ opening' = [opening EXCEPT ![p] = 0]
  /\ Hangup(p)
  /\ UNCHANGED <<queueVars, daemonVars>>
-----------------------------------------------------------------------------
(* The daemon.                                                             *)

(* main up to its loop.                                                    *)
Start ==
  /\ starting > 0
  /\ daemon = "none"
  /\ starting' = starting - 1
  /\ daemon' = "loop"
  /\ log' = <<>>
  /\ served' = FALSE
  /\ UNCHANGED <<queueVars, cl_addr, cur, todo, half, since, connVars, clientVars>>

(* The program cannot be executed or one of its sockets not be had: a      *)
(* second daemon fails to bind the port.                                   *)
StartFails ==
  /\ starting > 0
  /\ starting' = starting - 1
  /\ UNCHANGED <<queueVars, daemon, cl_addr, cur, todo, half, log, since, served,
                 connVars, clientVars>>

(* A datagram is read, and goes to every client the daemon has accepted.   *)
Receive ==
  /\ daemon = "loop"
  /\ udp # <<>>
  /\ daemon' = "forward"
  /\ cur' = Head(udp)
  /\ udp' = Tail(udp)
  /\ todo' = cl_addr
  /\ log' = Append(log, Head(udp))
  /\ UNCHANGED <<sent, starting, cl_addr, half, since, served, connVars, clientVars>>

LeftToWrite(c) == todo \ {c}

(* The sockets block: a write waits until there is room.                   *)
Write(c, part) ==
  /\ daemon = "forward"
  /\ c \notin shut
  /\ Len(stream[c]) < SockBuf
  /\ stream' = [stream EXCEPT ![c] = Append(@, <<part, cur>>)]
  /\ UNCHANGED <<queueVars, daemon, starting, cl_addr, cur, log, since, served,
                 backlog, eof, shut, got, clientVars>>

WriteHead(c) ==
  /\ half = None
  /\ c \in todo
  /\ Write(c, "head")
  /\ half' = c
  /\ UNCHANGED todo

WriteBody(c) ==
  /\ half = c
  /\ Write(c, "body")
  /\ half' = None
  /\ todo' = LeftToWrite(c)

(* The client is gone: any of the writes fails.                            *)
WriteFails(c) ==
  /\ daemon = "forward"
  /\ c \in todo \cap shut
  /\ half \in {c, None}
  /\ cl_addr' = cl_addr \ {c}
  /\ eof' = eof \cup {c}
  /\ todo' = LeftToWrite(c)
  /\ half' = None
  /\ UNCHANGED <<queueVars, daemon, starting, cur, log, since, served, backlog,
                 stream, shut, got, clientVars>>

(* Mutant: the clients are not counted.                                    *)
GoOnAlways(clients) == "loop"

(* Should the daemon go on?                                                *)
GoOn(clients) == IF clients = {} THEN "exit" ELSE "loop"

ForwardDone ==
  /\ daemon = "forward"
  /\ todo = {}
  /\ daemon' = GoOn(cl_addr)
  /\ cur' = None
  /\ UNCHANGED <<queueVars, starting, cl_addr, todo, half, log, since, served,
                 connVars, clientVars>>

(* Mutant: one client only.                                                *)
AdmittedAlone(c) == {c}

Admitted(c) == cl_addr \cup {c}

(* Connections are accepted when no datagram is waiting, and closed ones   *)
(* noticed when no connection is waiting either.                           *)
Accept ==
  /\ daemon = "loop"
  /\ udp = <<>>
  /\ backlog # <<>>
  /\ cl_addr' = Admitted(Head(backlog))
  /\ backlog' = Tail(backlog)
  /\ since' = [since EXCEPT ![Head(backlog)] = Len(log)]
  /\ served' = TRUE
  /\ UNCHANGED <<queueVars, daemon, starting, cur, todo, half, log, stream, eof,
                 shut, got, clientVars>>

DropClosed ==
  /\ daemon = "loop"
  /\ udp = <<>>
  /\ backlog = <<>>
  /\ cl_addr \cap shut # {}
  /\ cl_addr' = cl_addr \ shut
  /\ eof' = eof \cup (cl_addr \cap shut)
  /\ daemon' = GoOn(cl_addr \ shut)
  /\ UNCHANGED <<queueVars, starting, cur, todo, half, log, since, served, backlog,
                 stream, shut, got, clientVars>>

(* After the loop: the path is removed, then the process ends.             *)
Unlink ==
  /\ daemon = "exit"
  /\ daemon' = "bye"
  /\ UNCHANGED <<queueVars, starting, cl_addr, cur, todo, half, log, since, served,
                 connVars, clientVars>>

(* The end of the process closes its sockets.                              *)
Gone ==
  /\ daemon' = "none"
  /\ udp' = <<>>
  /\ backlog' = <<>>
  /\ cl_addr' = {}
  /\ eof' = eof \cup cl_addr \cup Waiting
  /\ cur' = None
  /\ todo' = {}
  /\ half' = None
  /\ UNCHANGED <<sent, starting, log, since, served, stream, shut, got, clientVars>>

Exit == daemon = "bye" /\ Gone

Killed == daemon # "none" /\ Gone
-----------------------------------------------------------------------------
(* Somebody sends a datagram to the trap port.                             *)
TrapSent(t) ==
  /\ t \notin sent
  /\ sent' = sent \cup {t}
  /\ udp' = IF daemon = "none" THEN udp ELSE Append(udp, t)
  /\ UNCHANGED <<daemonVars, connVars, clientVars>>

ClientNext ==
  \E p \in Process :
    \/ OpenAnother(p)
    \/ OpenConnects(p)
    \/ OpenForks(p)
    \/ RetryConnects(p)
    \/ RetryFails(p)
    \/ CloseSession(p)
    \/ ReadTrap(p)
    \/ ReadFails(p)
    \/ Die(p)

DaemonNext ==
  \/ Receive
  \/ \E c \in Conn : WriteHead(c) \/ WriteBody(c) \/ WriteFails(c)
  \/ ForwardDone
  \/ Accept
  \/ DropClosed
  \/ Unlink
  \/ Exit

Next == ClientNext \/ Start \/ StartFails \/ DaemonNext \/ Killed \/ \E t \in Trap : TrapSent(t)

Spec == Init /\ [][Next]_vars

(* The daemon runs, and programs pump events.                              *)
Fairness ==
  /\ WF_vars(Start \/ StartFails) /\ WF_vars(DaemonNext)
  /\ \A p \in Process : WF_vars(ReadTrap(p)) /\ WF_vars(ReadFails(p))

FairSpec == Spec /\ Fairness
-----------------------------------------------------------------------------
(* The pieces a sequence of datagrams is written as.                       *)
Pieces(l) ==
  [i \in 1 .. 2 * Len(l) |->
     <<IF i % 2 = 1 THEN "head" ELSE "body", l[(i + 1) \div 2]>>]

(* A client gets the datagrams the daemon has received since it accepted   *)
(* the client, in order, none twice and none left out, and each head on    *)
(* the connection is followed by its own body (the forwarding loop of      *)
(* straps, nm_trap_event).                                                 *)
ClientsGetTraps ==
  \A c \in cl_addr \ shut :
    LET due == SubSeq(log, since[c] + 1, Len(log))
        read == Len(got[c])
        unwritten == IF c \notin todo THEN 0 ELSE IF half = c THEN 1 ELSE 2
    IN /\ got[c] = SubSeq(due, 1, read)
       /\ stream[c] = SubSeq(Pieces(due), 2 * read + 1, 2 * Len(due) - unwritten)

(* A connected program is one the daemon knows or will accept; otherwise   *)
(* the connection has ended and reading it will tell.                      *)
NoDanglingClient ==
  \A p \in Process :
    sock[p] # None => \/ sock[p] \in eof
                      \/ daemon # "none" /\ sock[p] \in cl_addr \cup Waiting

(* Every connection the daemon has or will accept whose client has not     *)
(* closed it serves one program, which has a session with a notification   *)
(* callback (nm_snmp_ntraps against nm_trap_sock): a leaked one would keep *)
(* the daemon running and block it when nobody reads.                      *)
ConnectionsServeSessions ==
  \A c \in (cl_addr \cup Waiting) \ shut :
    \E p \in Process : sock[p] = c /\ ntraps[p] > 0

(* Once it has had a client, the daemon does not idle without one.         *)
NoIdleDaemon == daemon = "loop" /\ served => cl_addr # {}

(* No client is kept waiting for ever: what is to be written to it is      *)
(* written and read, or its connection ends.                               *)
TrapsArrive ==
  \A c \in Conn : (c \in todo \/ stream[c] # <<>>) ~> (c \notin todo /\ stream[c] = <<>>)

(* A program notices that the daemon is gone.                              *)
LossNoticed == \A c \in Conn : (\E p \in Process : sock[p] = c /\ c \in eof) ~> (c \in shut)

(* When all its clients have gone and no program connects, the daemon ends.*)
DaemonEnds == (daemon = "loop" /\ served /\ cl_addr \subseteq shut)
                 ~> (daemon = "none" \/ cl_addr \cup Waiting \notin SUBSET shut)
-----------------------------------------------------------------------------
(* Why these hold.                                                         *)

(* Every variable has its type.                                            *)
TypeOK ==
  /\ daemon \in {"none", "loop", "forward", "exit", "bye"}
  /\ starting \in Nat
  /\ udp \in Seq(Trap) /\ sent \subseteq Trap
  /\ backlog \in Seq(Conn)
  /\ cl_addr \subseteq Conn
  /\ cur \in Trap \cup {None} /\ log \in Seq(Trap)
  /\ todo \subseteq Conn /\ half \in Conn \cup {None}
  /\ stream \in [Conn -> Seq({"head", "body"} \X (Trap \cup {None}))]
  /\ eof \subseteq Conn /\ shut \subseteq Conn
  /\ sock \in [Process -> Conn \cup {None}]
  /\ ntraps \in [Process -> Nat] /\ opening \in [Process -> Nat]
  /\ since \in [Conn -> Nat]
  /\ got \in [Conn -> Seq(Trap \cup {None})]
  /\ served \in BOOLEAN

(* A program that has no session with a notification callback, or is still *)
(* in nm_trap_open for its first one, has no connection.                   *)
ClientsOrderly ==
  \A p \in Process :
    /\ ntraps[p] = 0 \/ opening[p] > 0 => sock[p] = None
    /\ opening[p] > 0 => ntraps[p] > 0

(* The daemon writes the datagram it received last, to clients it had      *)
(* accepted before that.                                                   *)
ForwardOrderly ==
  /\ todo \subseteq cl_addr
  /\ daemon # "forward" => todo = {}
  /\ half # None => half \in todo
  /\ daemon = "forward" => log # <<>> /\ cur = log[Len(log)]
  /\ daemon = "none" => cl_addr = {}
  /\ \A c \in cl_addr : since[c] <= Len(log)
  /\ \A c \in todo : since[c] < Len(log)

(* A connection is accepted once, and nothing is written to it before.     *)
BacklogOrderly ==
  /\ \A i, j \in DOMAIN backlog : backlog[i] = backlog[j] => i = j
  /\ Waiting \cap (cl_addr \cup eof) = {}
  /\ \A c \in Conn \ (cl_addr \cup eof \cup shut) : stream[c] = <<>> /\ got[c] = <<>>

Unwritten(c) == IF c \notin todo THEN 0 ELSE IF half = c THEN 1 ELSE 2

(* What ClientsGetTraps says of a client, piece by piece.                  *)
Passed(c) ==
  LET due == Len(log) - since[c]
      read == Len(got[c])
  IN /\ Len(stream[c]) = 2 * (due - read) - Unwritten(c)
     /\ \A i \in 1 .. read : got[c][i] = log[since[c] + i]
     /\ \A k \in 1 .. due - read :
          LET t == log[since[c] + read + k]
          IN /\ 2 * k - 1 <= Len(stream[c]) => stream[c][2 * k - 1] = <<"head", t>>
             /\ 2 * k <= Len(stream[c]) => stream[c][2 * k] = <<"body", t>>

PassedInv ==
  /\ ForwardOrderly
  /\ BacklogOrderly
  /\ \A c \in cl_addr \ shut : Passed(c)
=============================================================================
