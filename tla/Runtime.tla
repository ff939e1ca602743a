------------------------------ MODULE Runtime ------------------------------
(***************************************************************************)
(* What the connection handlers run on: the peers and their sockets, the   *)
(* calls read, dprintf, SSL_accept, SSL_read and SSL_write as the handlers *)
(* see them, the heap, and the local variables of process_connection.      *)
(* The calls are external code, modelled from how src/ uses them.          *)
(*                                                                         *)
(* Bytes in flight are a sequence of pieces.  A piece is a stretch of      *)
(* bytes no read ends inside of: what a read that starts there parses as   *)
(* (tok), its length, and whether it completes the CRLF.CRLF that ends a   *)
(* message (eom).  A read returns any run of pieces that have arrived and  *)
(* fit the buffer, so commands may be coalesced or delayed.                *)
(***************************************************************************)
EXTENDS Connection, Sequences, Functions

CONSTANTS
  Listeners,   \* the accept calls of one pass of the master loop, in order:
               \* records [type, up], up if the listening socket is not -1
  BufSize,     \* SMALL_BUFFER_SIZE
  Pieces,      \* the pieces peers may send
  Lockstep,    \* peers wait for the reply to what they sent
  MaxRx,       \* bound on the pieces in flight to the server, per peer
  MaxUpgrades, \* bound on the STARTTLS commands a peer sends
  NoConn       \* the zeroed local variable of process_connection

ASSUME SizeAssumption == BufSize \in Nat /\ BufSize > 1
ASSUME PieceAssumption ==
  Pieces \subseteq [tok : STRING, len : 1 .. BufSize, eom : BOOLEAN]
ASSUME BoundAssumption == MaxUpgrades \in Nat
ASSUME NoConnAssumption == NoConn \notin Connection
ASSUME ListenerAssumption ==
  /\ Listeners \in Seq([type : ConnectionType, up : BOOLEAN])
  /\ Listeners # <<>>
  /\ \A l \in DOMAIN Listeners :
       Strategy(Listeners[l].type) = "IMPLICIT_TLS" => CtxLoaded

VARIABLES
  sock,     \* per peer, its end of the connection and the kernel's
  heap,     \* per peer, the SSL objects and message buffers allocated for it
  proc,     \* "running", "killed" by a signal, or "undefined" behaviour met
  pc,       \* where the master thread is
  conn,     \* process_connection's conn
  result,   \* process_connection's result
  intr      \* a signal handler has interrupted the call pc is blocked in

callvars == <<sock, heap, proc, pc, conn, result, intr>>

Replies ==
  {"none", "220 ESMTP", "220 Go ahead", "221", "250 Hello", "250 SIZE",
   "250 Ok", "354", "500 Bye", "500 Too long", "500 Unrecognized", "502",
   "503", "523", "554 Too Large", "301", "204"}

Sock ==
  [phase : {"idle", "backlog", "open", "closed"}, at : 0 .. Len(Listeners),
   peer : {"open", "fin", "reset"}, rx : Seq(Pieces), upgrades : Nat,
   said : Replies, waiting : BOOLEAN]

NewSock ==
  [phase |-> "idle", at |-> 0, peer |-> "open", rx |-> <<>>, upgrades |-> 0,
   said |-> "none", waiting |-> FALSE]
-----------------------------------------------------------------------------
(* The peers. *)

\* A peer completes a TCP connection to a listening socket.
Connect(c) ==
  /\ sock[c].phase = "idle"
  /\ \E l \in DOMAIN Listeners :
       /\ Listeners[l].up
       /\ sock' = [sock EXCEPT ![c].phase = "backlog", ![c].at = l]

\* A lockstep peer talks when it has its reply (on SMTP the greeting first);
\* after 354 it sends message text without waiting until the end of it.
MayTalk(c) ==
  /\ ~sock[c].waiting
  /\ Listeners[sock[c].at].type = "SMTP_CONNECTION" => sock[c].said # "none"

\* A peer sends one more piece.
Talk(c) ==
  /\ sock[c].phase \in {"backlog", "open"}
  /\ sock[c].peer = "open"
  /\ Len(sock[c].rx) < MaxRx
  /\ Lockstep => MayTalk(c)
  /\ \E p \in Pieces :
       /\ p.tok = "STARTTLS" => sock[c].upgrades < MaxUpgrades
       /\ sock' = [sock EXCEPT
                  ![c].rx = Append(@, p),
                  ![c].upgrades = IF p.tok = "STARTTLS" THEN @ + 1 ELSE @,
                  ![c].waiting = Lockstep /\ p.tok # "TLS"
                                           /\ (sock[c].said = "354" => p.eom)]

\* A peer closes its side, or resets the connection.
Leave(c) ==
  /\ sock[c].phase \in {"backlog", "open"}
  /\ \/ sock[c].peer = "open" /\ sock' = [sock EXCEPT ![c].peer = "fin"]
     \/ sock[c].peer # "reset" /\ sock' = [sock EXCEPT ![c].peer = "reset"]

\* Peers act until the process ends.
Peer(c) ==
  /\ proc = "running" /\ pc # "done"
  /\ Connect(c) \/ Talk(c) \/ Leave(c)
  /\ UNCHANGED <<heap, proc, pc, conn, result, intr>>
-----------------------------------------------------------------------------
(* Reading. *)

\* The socket of the connection being handled.
Self == sock[conn.client]

Bytes(s) == SumFunction([i \in DOMAIN s |-> s[i].len])

\* A read or an SSL_accept: how it went, what it left unread, what became of
\* the SSL object and, for data, what was read.
Outcome(how, rest, ssl) ==
  [how |-> how, rest |-> rest, ssl |-> ssl, tok |-> "", len |-> 0, eom |-> FALSE]

Data(rx, k, ssl) ==
  [how |-> "data", rest |-> SubSeq(rx, k + 1, Len(rx)), ssl |-> ssl,
   tok |-> rx[1].tok, len |-> Bytes(SubSeq(rx, 1, k)),
   eom |-> \E i \in 1 .. k : rx[i].eom]

\* A call on a connection with nothing to read, by what the peer did.  On an
\* open one it waits until there is something, or until a signal interrupts it:
\* only the listening sockets are SOCK_NONBLOCK, and on Linux the sockets that
\* accept returns do not inherit that.
Idle(s, ssl) ==
  IF s.rx # <<>> THEN {}
  ELSE CASE s.peer = "fin"   -> {Outcome("eof", <<>>, ssl)}
         [] s.peer = "reset" -> {Outcome("error", <<>>, ssl)}
         [] OTHER -> IF intr THEN {Outcome("error", <<>>, ssl)} ELSE {}

\* The numbers of pieces that fit the buffer of SMALL_BUFFER_SIZE.
Fitting(rx) ==
  {k \in 1 .. Len(rx) : Bytes(SubSeq(rx, 1, k)) \in 1 .. BufSize}

\* read(clientsocket, buffer, SMALL_BUFFER_SIZE)
read(s) ==
  {Data(s.rx, k, conn.sslconn) : k \in Fitting(s.rx)} \cup Idle(s, conn.sslconn)

\* SSL_read: one record at a time.  After a fatal error it returns -1 and
\* errno is what an earlier call left, EWOULDBLOCK or not.
SSL_read(s, ssl) ==
  CASE ssl = "up" ->
         (IF s.rx # <<>> /\ s.rx[1].tok = "BADREC"
          THEN {Outcome(e, Tail(s.rx), "broken") : e \in {"again", "error"}}
          ELSE {Data(s.rx, k, ssl) : k \in Fitting(s.rx) \cap {1}})
         \cup Idle(s, ssl)
    [] OTHER -> {Outcome(e, s.rx, ssl) : e \in {"again", "error"}}

\* SSL_accept: "data" when the handshake is done, "again" when it must wait.
SSL_accept(s, ssl) ==
  CASE ssl = "up" -> {Outcome("data", s.rx, "up")}
    [] ssl = "fresh" /\ s.rx # <<>> ->
         IF s.rx[1].tok = "TLS"
         THEN {Outcome("data", Tail(s.rx), "up")}
         ELSE {Outcome("error", Tail(s.rx), "broken")}
    [] ssl = "fresh" /\ s.rx = <<>> ->
         {IF s.peer = "open" THEN Outcome("again", <<>>, ssl)
          ELSE Outcome("error", <<>>, "broken") : o \in Idle(s, ssl)}
    [] OTHER -> {Outcome("error", s.rx, ssl)}
-----------------------------------------------------------------------------
(* Writing and returning. *)

\* Take what o left unread and say nothing.
Quiet(o) ==
  /\ sock' = [sock EXCEPT ![conn.client].rx = o.rest]
  /\ proc' = proc

\* dprintf or SSL_write of one reply.  Writing to a peer that has closed may
\* provoke a reset.
Sent(msg, o) ==
  \E p \in IF Self.peer = "fin" THEN {"fin", "reset"} ELSE {Self.peer} :
    sock' = [sock EXCEPT ![conn.client] =
               [@ EXCEPT !.rx = o.rest, !.said = msg,
                         !.waiting = FALSE, !.peer = p]]

\* Writing to a peer that has reset may raise SIGPIPE, for which no handler is
\* installed.
Sigpipe == IF Self.peer = "reset" THEN {"killed"} ELSE {}

Say(msg, o) == Sent(msg, o) /\ proc' \in {"running"} \cup Sigpipe

\* The handler returns r, having left the connection as k.
Return(k, r) ==
  /\ conn' = k
  /\ result' = r
  /\ pc' = "dispatch"
  /\ intr' = FALSE

\* A pointer that was never assigned, or that was freed, is used.
Undefined == proc' = "undefined" /\ UNCHANGED <<sock, heap, pc, conn, result, intr>>
=============================================================================
