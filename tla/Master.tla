------------------------------- MODULE Master -------------------------------
(***************************************************************************)
(* The master service of master.c: one thread that accepts on every        *)
(* listening socket in turn, takes one connection off the queue, runs its  *)
(* handler, and puts it back or closes it, until a signal asks it to stop. *)
(* The queue is used through its operations (QueueOps).                    *)
(*                                                                         *)
(* pc  "loop"      at while (!is_stopped())                                *)
(*     "accept"    at the accept call on listener at                       *)
(*     "process"   at conn_queue_dequeue                                   *)
(*     "handle"    in the connection's handler                             *)
(*     "dispatch"  at the switch on the handler's result                   *)
(*     "done"      returned from start_master_service                      *)
(***************************************************************************)
EXTENDS SmtpHandler, HttpHandler

CONSTANTS
  CONNECTION_QUEUE_CAPACITY,
  MutexFaults,
  Signals        \* the signals request_stop is installed for that are sent

ASSUME QueueAssumption == CONNECTION_QUEUE_CAPACITY \in Nat \ {0}
\* Unlocking a mutex the caller holds does not fail.
ASSUME MutexAssumption == MutexFaults \subseteq {"lock"}

VARIABLES
  at,            \* the next listener to accept on
  fifo,          \* the queued connections
  stop_signal,
  armed          \* the signals whose handler is still installed

vars == <<callvars, at, fifo, stop_signal, armed>>

Queue == INSTANCE QueueOps WITH Capacity <- CONNECTION_QUEUE_CAPACITY

Init ==
  /\ sock = [c \in Clients |-> NewSock]
  /\ heap = [c \in Clients |-> [ssl |-> 0, buf |-> 0]]
  /\ proc = "running"
  /\ pc = "loop"
  /\ conn = NoConn
  /\ result = "CONNECTION_ERROR"
  /\ intr = FALSE
  /\ at = 1
  /\ fifo = <<>>
  /\ stop_signal = FALSE
  /\ armed = Signals
-----------------------------------------------------------------------------
\* Mutant: the stop flag is read once, before the loop.
LoopHoisted ==
  /\ pc = "loop"
  /\ pc' = "accept"
  /\ at' = 1
  /\ UNCHANGED <<sock, heap, proc, conn, result, intr, fifo, stop_signal, armed>>

\* while (!is_stopped())
Loop ==
  /\ pc = "loop"
  /\ \/ stop_signal /\ pc' = "done"
     \/ ~stop_signal /\ pc' = "accept"
  /\ at' = 1
  /\ UNCHANGED <<sock, heap, proc, conn, result, intr, fifo, stop_signal, armed>>

\* On to the next accept, or after the last one to process_connection.
NextAccept ==
  /\ at' = at + 1
  /\ pc' = IF at = Len(Listeners) THEN "process" ELSE "accept"

\* The peers whose connection the accept call may return.
Pending ==
  {c \in Clients : sock[c].phase = "backlog" /\ sock[c].at = at /\ Listeners[at].up}

\* accept has nothing to return (ACCEPT_UNBLOCK), or the socket is -1
\* (ACCEPT_ERROR, which is only logged).
AcceptNothing ==
  /\ pc = "accept"
  /\ Pending = {}
  /\ NextAccept
  /\ UNCHANGED <<sock, heap, proc, conn, result, intr, fifo, stop_signal, armed>>

\* Mutant: the message buffer is not freed.
DeinitKeepsBuffer(k, h) ==
  /\ sock' = [sock EXCEPT ![k.client] = [NewSock EXCEPT !.phase = "closed"]]
  /\ heap' = [heap EXCEPT ![k.client] =
       [ssl |-> IF k.sslconn = "null" THEN h.ssl ELSE h.ssl - 1, buf |-> h.buf]]

\* Mutant: the SSL object is not freed.
DeinitKeepsSsl(k, h) ==
  /\ sock' = [sock EXCEPT ![k.client] = [NewSock EXCEPT !.phase = "closed"]]
  /\ heap' = [heap EXCEPT ![k.client] =
       [ssl |-> h.ssl, buf |-> IF k.messagebuffer = 0 THEN h.buf ELSE h.buf - 1]]

\* The effects of connection_deinit on connection k, whose SSL objects and
\* buffers are now counted by h: SSL_free, free, close.  What the peer knows
\* of a closed connection no longer matters.
connection_deinit(k, h) ==
  /\ sock' = [sock EXCEPT ![k.client] = [NewSock EXCEPT !.phase = "closed"]]
  /\ heap' = [heap EXCEPT ![k.client] =
       [ssl |-> IF k.sslconn = "null" THEN h.ssl ELSE h.ssl - 1,
        buf |-> IF k.messagebuffer = 0 THEN h.buf ELSE h.buf - 1]]

\* accept returned a connection: handle_connection initialises and queues it,
\* or closes it when it cannot be queued.
handle_connection(c) ==
  LET type == Listeners[at].type IN
  /\ pc = "accept"
  /\ c \in Pending
  /\ \E sslconn \in InitialSslconn(type), r \in {0, 1} :
       LET k == connection_init(c, type, sslconn)
           h == [ssl |-> IF sslconn = "fresh" THEN 1 ELSE 0, buf |-> 0] IN
       /\ Queue!Enqueue(k, r)
       /\ \/ /\ r = 0
             /\ sock' = [sock EXCEPT ![c].phase = "open"]
             /\ heap' = [heap EXCEPT ![c] = h]
             /\ proc' = proc
             /\ NextAccept
          \/ /\ r # 0 /\ sslconn # "wild"
             /\ connection_deinit(k, h)
             /\ proc' = proc
             /\ NextAccept
          \/ /\ r # 0 /\ sslconn = "wild"
             /\ proc' = "undefined"
             /\ UNCHANGED <<sock, heap, pc, at>>
  /\ UNCHANGED <<conn, result, intr, stop_signal, armed>>

\* process_connection takes the oldest connection, if there is one.
Take ==
  /\ pc = "process"
  /\ \E r \in {0, 1}, k \in {NoConn} \cup {fifo[i] : i \in DOMAIN fifo} :
       /\ Queue!Dequeue(NoConn, k, r)
       /\ conn' = IF r = 0 THEN k ELSE NoConn
       /\ pc' = IF r = 0 THEN "handle" ELSE "loop"
  /\ UNCHANGED <<sock, heap, proc, result, intr, at, stop_signal, armed>>

\* The handler of the connection's service.
Handle ==
  /\ \/ UseWildSslconn
     \/ smtp_handler
     \/ smtps_handler
     \/ starttls_handler
     \/ http_handler
     \/ https_handler
  /\ UNCHANGED <<at, fifo, stop_signal, armed>>
-----------------------------------------------------------------------------
(* The switch on the handler's result. *)

\* process_connection returns.
Processed ==
  /\ pc' = "loop"
  /\ conn' = NoConn
  /\ result' = "CONNECTION_ERROR"
  /\ UNCHANGED <<intr, at, stop_signal, armed>>

\* connection_deinit on k, whose allocations are h, and return.
Close(k, h) ==
  \/ k.sslconn # "wild" /\ connection_deinit(k, h) /\ proc' = proc /\ Processed
  \/ k.sslconn = "wild" /\ Undefined /\ UNCHANGED <<at, stop_signal, armed>>

\* Mutant: a connection the queue refuses is forgotten, not closed.
RequeueForgets(k, h) ==
  \E r \in {0, 1} :
    /\ Queue!Enqueue(k, r)
    /\ heap' = [heap EXCEPT ![k.client] = h]
    /\ UNCHANGED <<sock, proc>>
    /\ Processed

\* Put k back, or close it when the queue refuses it.
Requeue(k, h) ==
  \E r \in {0, 1} :
    /\ Queue!Enqueue(k, r)
    /\ \/ /\ r = 0
          /\ heap' = [heap EXCEPT ![k.client] = h]
          /\ UNCHANGED <<sock, proc>>
          /\ Processed
       \/ r # 0 /\ Close(k, h)

DispatchContinue ==
  /\ pc = "dispatch" /\ result = "CONNECTION_CONTINUE"
  /\ Requeue(conn, heap[conn.client])

\* reset_connection frees the message buffer.
DispatchReset ==
  /\ pc = "dispatch" /\ result = "CONNECTION_RESET"
  /\ Requeue(reset_connection(conn),
             [heap[conn.client] EXCEPT
                !.buf = IF conn.messagebuffer = 0 THEN @ ELSE @ - 1])

DispatchClose ==
  /\ pc = "dispatch" /\ result \in {"CONNECTION_DONE", "CONNECTION_ERROR"}
  /\ Close(conn, heap[conn.client])
  /\ UNCHANGED fifo

process_connection == Take \/ Handle \/ DispatchContinue \/ DispatchReset \/ DispatchClose

\* start_master_service, as long as the process runs.
MasterStep ==
  /\ proc = "running"
  /\ Loop \/ AcceptNothing \/ (\E c \in Clients : handle_connection(c))
     \/ process_connection
-----------------------------------------------------------------------------
\* The handler of the connection is at a read or an SSL_accept that waits for
\* the peer.  http_handler reads whatever sslconn is.
AtRead ==
  CASE conn.type = "HTTP_CONNECTION"     -> TRUE
    [] conn.type = "STARTTLS_CONNECTION" -> FALSE
    [] conn.type = "SMTP_CONNECTION"     ->
         /\ conn.state # "MAIL_CONNECTION_OPENED"
         /\ conn.sslconn \notin {"wild", "broken"}
    [] OTHER                             -> conn.sslconn # "broken"

\* On an open connection with nothing to read that call blocks the thread.
Blocked == pc = "handle" /\ AtRead /\ Self.rx = <<>> /\ Self.peer = "open"

\* request_stop.  Under -std=c23 signal() has the System V semantics: the
\* handler is uninstalled when it runs, and calls are not restarted.  The
\* kernel may run it on the main thread or on the master thread.
Signal(s) ==
  /\ proc = "running" /\ pc # "done"
  /\ \/ /\ s \in armed
        /\ armed' = armed \ {s}
        /\ stop_signal' = TRUE
        /\ intr' \in IF Blocked THEN {TRUE, intr} ELSE {intr}
        /\ proc' = proc
     \/ /\ s \notin armed
        /\ proc' = "killed"
        /\ UNCHANGED <<intr, stop_signal, armed>>
  /\ UNCHANGED <<sock, heap, pc, conn, result, at, fifo>>

\* The thread has returned, or the process is gone.
Ended == (pc = "done" \/ proc # "running") /\ UNCHANGED vars

Next ==
  \/ MasterStep
  \/ \E c \in Clients : Peer(c) /\ UNCHANGED <<at, fifo, stop_signal, armed>>
  \/ \E s \in Signals : Signal(s)
  \/ Ended

Spec == Init /\ [][Next]_vars

\* The kernel keeps scheduling the master thread.
FairSpec == Spec /\ WF_vars(MasterStep)

\* A peer that the thread is blocked on, and that is not itself waiting for a
\* reply, sends something or leaves sooner or later.  The code does not see to
\* that (it has no idle timeout), and without it there is no progress: see
\* StopHonoured.
PeersAct ==
  \A c \in Clients :
    WF_vars(/\ Blocked /\ conn.client = c /\ ~sock[c].waiting
            /\ Peer(c) /\ UNCHANGED <<at, fifo, stop_signal, armed>>)

FairPeersSpec == FairSpec /\ PeersAct
-----------------------------------------------------------------------------
(* Safety. *)

\* Types: no buffer and no SSL object is freed twice (the counts stay natural
\* numbers), and process_connection has a connection exactly while it handles
\* or dispatches one (master.c:58-77, 187-247).
TypeOK ==
  /\ sock \in [Clients -> Sock]
  /\ heap \in [Clients -> [ssl : Nat, buf : Nat]]
  /\ proc \in {"running", "killed", "undefined"}
  /\ pc \in {"loop", "accept", "process", "handle", "dispatch", "done"}
  /\ conn \in Connection \cup {NoConn}
  /\ conn = NoConn <=> pc \notin {"handle", "dispatch"}
  /\ result \in ConnectionHandlerResult
  /\ intr \in BOOLEAN
  /\ at \in 1 .. Len(Listeners) + 1
  /\ fifo \in Seq(Connection)
  /\ stop_signal \in BOOLEAN
  /\ armed \subseteq Signals

\* The places a connection can be held: queue positions, and 0 for conn.
Holders(c) ==
  {i \in DOMAIN fifo : fifo[i].client = c}
  \cup (IF conn # NoConn /\ conn.client = c THEN {0} ELSE {})

\* Every accepted connection that is not closed is held exactly once, by the
\* queue or by process_connection, and nothing else is held: no connection is
\* lost, queued twice, or used after connection_deinit (master.c:162-247).
HeldOnce ==
  \A c \in Clients :
    IF sock[c].phase = "open" THEN \E i \in Holders(c) : Holders(c) = {i}
                              ELSE Holders(c) = {}

\* Re-queueing never finds the queue full: the slot process_connection freed
\* is still free when the handler returns, so an accepted connection is only
\* ever turned away by accept, never dropped in mid-session (master.c:218-232).
RequeueHasRoom ==
  pc \in {"handle", "dispatch"} => Len(fifo) < CONNECTION_QUEUE_CAPACITY

\* The connections the program holds.
Held == {fifo[i] : i \in DOMAIN fifo} \cup ({conn} \ {NoConn})

\* The terminating zero written after every memcpy into the message buffer
\* lies inside the allocation, and the allocation never exceeds ESMTP_SIZE,
\* however the message was cut into reads (smtp.c:221-240).
MessageFits ==
  \A k \in Held : k.messagebuffer # 0 =>
    /\ k.messagebufferend + 1 <= k.messagebuffer
    /\ k.messagebuffer <= ESMTP_SIZE

\* Between handler calls, only a connection that is receiving a message has
\* one: whichever way the last message ended (accepted, too large, refused),
\* its buffer, count and end were reset, so the next one starts empty and is
\* not written past its own allocation (smtp.c:218-253, master.c:58-70).
NoStaleMessage ==
  \A i \in DOMAIN fifo :
    \/ fifo[i].state = "MAIL_CONNECTION_EXPECT_DATA"
    \/ /\ fifo[i].messagebuffer = 0
       /\ fifo[i].messagebufferend = 0
       /\ fifo[i].alloccount = 0

\* A queued connection's message buffer is the only one allocated for it, and
\* once the connection is closed none is left; only a failed realloc loses a
\* buffer, at most one, and always ends the connection (smtp.c:228-234,
\* master.c:58-77).
BuffersAccounted ==
  /\ \A c \in Clients :
       sock[c].phase = "closed" => heap[c].buf <= (IF AllocFails THEN 1 ELSE 0)
  /\ \A i \in DOMAIN fifo :
       heap[fifo[i].client].buf = IF fifo[i].messagebuffer = 0 THEN 0 ELSE 1

\* A connection has an SSL object exactly when its sslconn points to one, and
\* when it is closed the only SSL objects left are those that a repeated
\* STARTTLS has replaced, one for each after the first; with at most one
\* STARTTLS there are none (smtp.c:338-344, master.c:21-37, 72-77).
SslObjectsAccounted ==
  /\ \A c \in Clients :
       sock[c].phase = "closed" =>
         heap[c].ssl <= (IF MaxUpgrades = 0 THEN 0 ELSE MaxUpgrades - 1)
  /\ \A i \in DOMAIN fifo :
       heap[fifo[i].client].ssl = 0 <=> fifo[i].sslconn \in {"null", "wild"}

\* What may end the process other than a stop request: a signal after its
\* one-shot handler ran; SIGPIPE, in reply to a peer that has reset; a plain
\* connection's unassigned sslconn; STARTTLS without a context.  No connection
\* of a TLS service, no departed peer that is merely closed, and no failure of
\* the queue or of an allocation does (master.c:21-37, 162-247, smtp.h:28-45).
EndsOnlyBy ==
  /\ proc = "killed" =>
       stop_signal \/ (pc \in {"handle", "dispatch"} /\ Self.peer = "reset")
  /\ proc = "undefined" =>
       \/ pc = "accept" /\ Strategy(Listeners[at].type) # "IMPLICIT_TLS"
       \/ /\ pc # "accept" /\ conn.sslconn = "wild"
          /\ conn.sslstrat # "IMPLICIT_TLS"
       \/ /\ pc # "accept" /\ conn.sslconn # "wild"
          /\ ~CtxLoaded /\ Self.said = "220 Go ahead"

PhaseName ==
  [MAIL_CONNECTION_OPENED |-> "opened", MAIL_CONNECTION_EXPECT_ANY |-> "any",
   MAIL_CONNECTION_GREETED |-> "greeted", MAIL_CONNECTION_MAILING |-> "mailing",
   MAIL_CONNECTION_RCPT |-> "rcpt", MAIL_CONNECTION_EXPECT_TLS_NEG |-> "tls",
   MAIL_CONNECTION_EXPECT_DATA |-> "data", HTTP_CONNECTION_OPENED |-> "opened"]

SecureName ==
  [null |-> "plain", wild |-> "plain", fresh |-> "pending", up |-> "tls",
   broken |-> "dead"]

Session0 == [phase |-> "absent", secure |-> "plain", size |-> 0]

\* The session of client c as MailSession sees it: the connection as the
\* dispatch will leave it once the handler has asked for a reset.
SessionOf(c) ==
  CASE sock[c].phase \in {"idle", "backlog"} -> Session0
    [] sock[c].phase = "closed" -> [Session0 EXCEPT !.phase = "gone"]
    [] OTHER ->
       LET held == CHOOSE k \in Held : k.client = c
           k == IF held = conn /\ pc = "dispatch" /\ result = "CONNECTION_RESET"
                THEN reset_connection(held) ELSE held IN
       [phase  |-> PhaseName[k.state],
        secure |-> SecureName[k.sslconn],
        size   |-> k.messagebufferend]

MailService == INSTANCE MailSession
  WITH Limit <- ESMTP_SIZE, session <- [c \in Clients |-> SessionOf(c)]

\* The program keeps every session to the order MailSession allows: MAIL only
\* after a greeting or a message, RCPT only after MAIL, text only after DATA, no command
\* during a handshake or after a TLS error, nothing in the clear once TLS was
\* started, and no message carried over from one transaction to the next
\* (smtp.c:142-351, master.c:58-70, 187-247).
RefinesSession == MailService!Spec

-----------------------------------------------------------------------------
(* What the repository says of the program and the code does not keep. *)

\* connection_init leaves only two fields to its callers ("these two will be
\* set else where", master.c:18: type and clientsocket), so the sslconn of a
\* queued connection has been assigned.  It has not, unless IMPLICIT_TLS.
SslconnAssigned == \A k \in Held : k.sslconn # "wild"

\* Without an SSL context start_smtp logs "StartTLS disabled." (comm.c:49);
\* the handler answers STARTTLS with 220 Go ahead all the same.
StartTlsOnlyIfEnabled ==
  \A c \in Clients : sock[c].said = "220 Go ahead" => CtxLoaded

\* The EHLO reply announces SIZE ESMTP_SIZE (smtp.h:52), so a message is too
\* large only when its bytes exceed that; the code counts reads, not bytes.
\* (The refused read itself adds at most BufSize bytes.)
TooLargeOnlyIfTooLarge ==
  (/\ pc = "dispatch" /\ result = "CONNECTION_RESET"
   /\ Self.said = "554 Too Large")
     => conn.messagebufferend + BufSize > ESMTP_SIZE
-----------------------------------------------------------------------------
(* Liveness. *)

\* No process is left to make progress, or it has been told to stop.
Over == stop_signal \/ proc # "running"

\* A stop request ends the master loop: the flag that request_stop sets is seen
\* by the loop, on whichever thread the handler ran and whatever call it
\* interrupted.  With FairPeersSpec this holds.  With FairSpec it does not: when the
\* handler runs on the main thread, the read of the master thread is not
\* interrupted, and a peer that stays silent keeps the loop from its condition
\* (femail.c:48-55, master.c:257, smtp.c:195).
StopHonoured == stop_signal ~> (pc = "done" \/ proc # "running")

\* Every queued connection gets its turn, if the peers before it do not leave the
\* thread waiting for ever: the loop takes connections in queue order and puts
\* them back behind the others (master.c:187-247).
TurnComes ==
  \A c \in Clients :
    (\E i \in DOMAIN fifo : fifo[i].client = c)
      ~> ((conn # NoConn /\ conn.client = c) \/ Over)

\* A connection whose peer has gone is eventually closed, except after a fatal
\* TLS error: then SSL_read fails without setting errno, and the connection is
\* kept for as long as errno is a left-over EWOULDBLOCK (smtp.c:205-214).
PeerGoneReaped ==
  \A c \in Clients :
    (sock[c].phase \in {"backlog", "open"} /\ sock[c].peer # "open")
      ~> \/ sock[c].phase = "closed"
         \/ \E k \in Held : k.client = c /\ k.sslconn = "broken"
         \/ Over

\* A peer that waits for a reply to a command, a message or a request gets one
\* or is disconnected, whatever the other peers do: no path of the handlers
\* leaves a peer and the thread waiting for each other.  The exceptions are
\* NOOP, which is never answered, a request that fills the read buffer, and a
\* connection kept after a fatal TLS error (smtp.c:142-351, http.c:26-92).
EveryCommandAnswered ==
  \A c \in Clients :
    sock[c].waiting ~> \/ ~sock[c].waiting
                       \/ sock[c].peer # "open"
                       \/ sock[c].phase = "closed"
                       \/ \E k \in Held : k.client = c /\ k.sslconn = "broken"
                       \/ Over
=============================================================================
