---------------------------- MODULE MasterProofs ----------------------------
(***************************************************************************)
(* Machine-checked proofs about the master service, for every set of       *)
(* clients, services, pieces and signals, every buffer and queue size, and *)
(* both kinds of socket.                                                   *)
(***************************************************************************)
EXTENDS Master, SequenceTheorems, TLAPS

\* The objects an sslconn of these values points to are allocated.
Allocated == {"fresh", "up", "broken"}

\* A connection k between two calls of its handler, with h allocated for it:
\* the buffer has room for one full read per read that was stored.
Settled(k, h) ==
  /\ k.messagebufferend <= k.alloccount * BufSize
  /\ k.messagebuffer # 0 => /\ k.messagebuffer = k.alloccount * BufSize + 1
                            /\ k.messagebuffer <= ESMTP_SIZE
  /\ k.state # "MAIL_CONNECTION_EXPECT_DATA" =>
       k.messagebuffer = 0 /\ k.messagebufferend = 0 /\ k.alloccount = 0
  /\ h.buf = IF k.messagebuffer = 0 THEN 0 ELSE 1
  /\ k.sslconn \in Allocated => h.ssl >= 1

\* A connection the handler wants reset or closed.
Leaving(k, h, r) ==
  /\ k.messagebuffer # 0 => /\ k.messagebufferend + 1 <= k.messagebuffer
                            /\ k.messagebuffer <= ESMTP_SIZE
  /\ \/ h.buf = IF k.messagebuffer = 0 THEN 0 ELSE 1
     \/ /\ AllocFails /\ r = "CONNECTION_ERROR"
        /\ k.messagebuffer = 0 /\ h.buf \in {0, 1}
  /\ k.sslconn \in Allocated => h.ssl >= 1

\* The inductive invariant, in parts.
Types ==
  /\ TypeOK
  /\ pc = "accept" => at <= Len(Listeners)

\* Open connections are held, once; others are not.
Holding ==
  /\ \A i \in DOMAIN fifo : sock[fifo[i].client].phase = "open"
  /\ \A i, j \in DOMAIN fifo : fifo[i].client = fifo[j].client => i = j
  /\ conn # NoConn => /\ sock[conn.client].phase = "open"
                      /\ \A i \in DOMAIN fifo : fifo[i].client # conn.client
  /\ \A c \in Clients :
       sock[c].phase = "open" => \/ \E i \in DOMAIN fifo : fifo[i].client = c
                                 \/ conn # NoConn /\ conn.client = c

\* What is allocated for each connection.
Accounts ==
  /\ \A i \in DOMAIN fifo : Settled(fifo[i], heap[fifo[i].client])
  /\ pc = "handle" => Settled(conn, heap[conn.client])
  /\ pc = "dispatch" =>
       IF result = "CONNECTION_CONTINUE"
       THEN Settled(conn, heap[conn.client])
       ELSE Leaving(conn, heap[conn.client], result)
  /\ \A c \in Clients :
       sock[c].phase = "closed" => heap[c].buf <= (IF AllocFails THEN 1 ELSE 0)

Room ==
  /\ Len(fifo) <= CONNECTION_QUEUE_CAPACITY
  /\ RequeueHasRoom

IInv == Types /\ Holding /\ Accounts /\ Room
-----------------------------------------------------------------------------
(* The invariant implies the properties. *)

\* Holding is HeldOnce, spelled out.
LEMMA HoldingImpliesHeldOnce == Types /\ Holding => HeldOnce
  <1> SUFFICES ASSUME Types, Holding, NEW c \in Clients
               PROVE  IF sock[c].phase = "open"
                      THEN \E i \in Holders(c) : Holders(c) = {i}
                      ELSE Holders(c) = {}
    BY Zenon DEF HeldOnce
  <1> USE DEF Holders, Holding
  <1>1. CASE sock[c].phase # "open"
    BY <1>1
  <1>2. CASE sock[c].phase = "open" /\ conn # NoConn /\ conn.client = c
    <2>1. Holders(c) = {0}
      BY <1>2
    <2> QED
      BY <1>2, <2>1
  <1>3. CASE sock[c].phase = "open" /\ ~(conn # NoConn /\ conn.client = c)
    <2>1. PICK i \in DOMAIN fifo : fifo[i].client = c
      BY <1>3
    <2>2. Holders(c) = {i}
      BY <1>3, <2>1
    <2> QED
      BY <1>3, <2>2
  <1> QED
    BY <1>1, <1>2, <1>3

\* A buffer with room for one read more per stored read holds the message.
LEMMA SettledFits ==
  ASSUME NEW k \in Connection, NEW h, Settled(k, h), k.messagebuffer # 0
  PROVE  /\ k.messagebufferend + 1 <= k.messagebuffer
         /\ k.messagebuffer <= ESMTP_SIZE
  <1> DEFINE room == k.alloccount * BufSize
  <1>1. room \in Nat
    BY SizeAssumption DEF Connection
  <1>2. k.messagebufferend <= room /\ k.messagebuffer = room + 1
        /\ k.messagebuffer <= ESMTP_SIZE
    BY DEF Settled
  <1> HIDE DEF room
  <1> QED
    BY <1>1, <1>2, EsmtpAssumption DEF Connection

\* The invariant implies the six properties the runs check.
LEMMA IInvImplies ==
  IInv => /\ TypeOK /\ HeldOnce /\ RequeueHasRoom /\ MessageFits
          /\ NoStaleMessage /\ BuffersAccounted
  <1> SUFFICES ASSUME IInv
               PROVE  /\ TypeOK /\ HeldOnce /\ RequeueHasRoom /\ MessageFits
                      /\ NoStaleMessage /\ BuffersAccounted
    OBVIOUS
  <1> USE DEF IInv
  <1>1. TypeOK /\ HeldOnce /\ RequeueHasRoom
    BY HoldingImpliesHeldOnce DEF Types, Room
  <1>2. fifo \in Seq(Connection)
    BY DEF Types, TypeOK
  <1>3. \A i \in DOMAIN fifo : fifo[i] \in Connection
    BY <1>2
  <1>4. MessageFits
    <2> SUFFICES ASSUME NEW k \in Held, k.messagebuffer # 0
                 PROVE  /\ k.messagebufferend + 1 <= k.messagebuffer
                        /\ k.messagebuffer <= ESMTP_SIZE
      BY DEF MessageFits
    <2>1. CASE \E i \in DOMAIN fifo : k = fifo[i]
      <3> PICK i \in DOMAIN fifo : k = fifo[i]
        BY <2>1
      <3> QED
        BY <1>3, SettledFits DEF Accounts
    <2>2. CASE k = conn /\ conn # NoConn
      <3>1. conn \in Connection /\ pc \in {"handle", "dispatch"}
        BY <2>2 DEF Types, TypeOK
      <3>2. CASE Settled(conn, heap[conn.client])
        BY <2>2, <3>1, <3>2, SettledFits
      <3>3. CASE Leaving(conn, heap[conn.client], result)
        BY <2>2, <3>3 DEF Leaving
      <3> QED
        BY <3>1, <3>2, <3>3 DEF Accounts
    <2> QED
      BY <2>1, <2>2 DEF Held
  <1>5. NoStaleMessage
    BY DEF Accounts, Settled, NoStaleMessage
  <1>6. BuffersAccounted
    BY DEF Accounts, Settled, BuffersAccounted
  <1> QED
    BY <1>1, <1>4, <1>5, <1>6
-----------------------------------------------------------------------------
(* start_master_service begins with nothing held. *)

\* A peer that has not connected is a well-formed socket.
LEMMA NewSockType == NewSock \in Sock
  BY ListenerAssumption DEF NewSock, Sock, Replies

\* start_master_service begins with an empty queue and nothing allocated.
LEMMA InitIInv == Init => IInv
  <1> SUFFICES ASSUME Init PROVE IInv
    OBVIOUS
  <1> USE DEF Init
  <1>1. Types
    <2>1. sock \in [Clients -> Sock] /\ heap \in [Clients -> [ssl : Nat, buf : Nat]]
      BY NewSockType
    <2>2. Len(Listeners) \in Nat
      BY ListenerAssumption
    <2>3. at \in 1 .. Len(Listeners) + 1
      BY <2>2
    <2>4. fifo \in Seq(Connection)
      OBVIOUS
    <2>5. intr \in BOOLEAN /\ stop_signal \in BOOLEAN /\ armed \subseteq Signals
      BY Zenon
    <2> QED
      BY <2>1, <2>3, <2>4, <2>5 DEF Types, TypeOK, ConnectionHandlerResult
  <1>2. Holding
    BY DEF Holding, NewSock
  <1>3. Accounts
    BY DEF Accounts, NewSock
  <1>4. Room
    BY QueueAssumption DEF Room, RequeueHasRoom
  <1> QED
    BY <1>1, <1>2, <1>3, <1>4 DEF IInv
-----------------------------------------------------------------------------
(* What the calls return. *)

\* Outcome o of a call on a connection whose sslconn is a.
Sound(o, a) ==
  /\ o.rest \in Seq(Pieces)
  /\ o.len \in 0 .. BufSize
  /\ o.eom \in BOOLEAN
  /\ o.ssl \in SslPointer
  /\ o.ssl # a => a \in Allocated /\ o.ssl \in Allocated

\* A result made from well-formed parts is a well-formed result.
LEMMA OutcomeSound ==
  ASSUME NEW how, NEW rest \in Seq(Pieces), NEW a \in SslPointer,
         NEW ssl \in SslPointer, ssl # a => a \in Allocated /\ ssl \in Allocated
  PROVE  Sound(Outcome(how, rest, ssl), a)
  BY SizeAssumption DEF Outcome, Sound

\* A read that returns data returns at most BufSize bytes.
LEMMA DataSound ==
  ASSUME NEW rx \in Seq(Pieces), NEW k \in Fitting(rx), NEW a \in SslPointer
  PROVE  Sound(Data(rx, k, a), a)
  <1>1. k \in 1 .. Len(rx) /\ Bytes(SubSeq(rx, 1, k)) \in 1 .. BufSize
    BY DEF Fitting
  <1>2. SubSeq(rx, k + 1, Len(rx)) \in Seq(Pieces)
    BY <1>1
  <1>3. Bytes(SubSeq(rx, 1, k)) \in 0 .. BufSize
    BY <1>1, SizeAssumption
  <1> QED
    BY <1>2, <1>3 DEF Data, Sound

\* A read with nothing to return leaves what has arrived alone.
LEMMA IdleSound ==
  ASSUME NEW s \in Sock, NEW a \in SslPointer, NEW o \in Idle(s, a)
  PROVE  /\ Sound(o, a)
         /\ o = Outcome(o.how, <<>>, a)
  <1>1. <<>> \in Seq(Pieces)
    OBVIOUS
  <1>2. PICK how : o = Outcome(how, <<>>, a)
    BY DEF Idle
  <1>3. o.how = how
    BY <1>2, Zenon DEF Outcome
  <1> QED
    BY <1>1, <1>2, <1>3, OutcomeSound, Zenon

\* What read may do, on a socket of any kind.
LEMMA ReadSound ==
  ASSUME NEW s \in Sock, conn.sslconn \in SslPointer, NEW o \in read(s)
  PROVE  Sound(o, conn.sslconn)
  <1>1. s.rx \in Seq(Pieces)
    BY DEF Sock
  <1> QED
    BY <1>1, DataSound, IdleSound DEF read

\* SSL_read never makes an SSL object, only breaks one.
LEMMA SslReadSound ==
  ASSUME NEW s \in Sock, NEW a \in SslPointer, NEW o \in SSL_read(s, a)
  PROVE  Sound(o, a)
  <1>1. s.rx \in Seq(Pieces)
    BY DEF Sock
  <1>2. CASE a # "up"
    BY <1>1, <1>2, OutcomeSound DEF SSL_read
  <1>3. CASE a = "up" /\ o \in Idle(s, a)
    BY <1>3, IdleSound
  <1>4. CASE a = "up" /\ \E k \in Fitting(s.rx) : o = Data(s.rx, k, a)
    BY <1>1, <1>4, DataSound
  <1>5. CASE /\ a = "up" /\ s.rx # <<>>
             /\ \E e : o = Outcome(e, Tail(s.rx), "broken")
    <2>1. Tail(s.rx) \in Seq(Pieces)
      BY <1>1, <1>5
    <2> QED
      BY <1>5, <2>1, OutcomeSound, Zenon DEF Allocated, SslPointer
  <1> QED
    BY <1>2, <1>3, <1>4, <1>5 DEF SSL_read

\* SSL_accept never makes an SSL object either.
LEMMA SslAcceptSound ==
  ASSUME NEW s \in Sock, NEW a \in SslPointer, NEW o \in SSL_accept(s, a)
  PROVE  Sound(o, a)
  <1>1. s.rx \in Seq(Pieces) /\ <<>> \in Seq(Pieces)
    BY DEF Sock
  <1>2. CASE a # "fresh"
    BY <1>1, <1>2, OutcomeSound DEF SSL_accept, SslPointer
  <1>3. CASE a = "fresh" /\ s.rx # <<>>
    <2>1. Tail(s.rx) \in Seq(Pieces)
      BY <1>1, <1>3
    <2>2. \/ o = Outcome("data", Tail(s.rx), "up")
          \/ o = Outcome("error", Tail(s.rx), "broken")
      BY <1>3 DEF SSL_accept
    <2> QED
      BY <1>3, <2>1, <2>2, OutcomeSound, Zenon DEF Allocated, SslPointer
  <1>4. CASE a = "fresh" /\ s.rx = <<>>
    <2>1. PICK p \in Idle(s, a) :
            o \in {Outcome("again", <<>>, a), Outcome("error", <<>>, "broken")}
      BY <1>4 DEF SSL_accept
    <2>2. Sound(Outcome("again", <<>>, a), a)
      BY <1>1, OutcomeSound, Zenon
    <2>3. Sound(Outcome("error", <<>>, "broken"), a)
      BY <1>1, <1>4, OutcomeSound, Zenon DEF Allocated, SslPointer
    <2> QED
      BY <2>1, <2>2, <2>3
  <1> QED
    BY <1>2, <1>3, <1>4
-----------------------------------------------------------------------------
(* What a handler call does. *)

\* A call that reads and writes leaves every connection as open as it was.
Talked ==
  /\ sock' \in [Clients -> Sock]
  /\ \A c \in Clients : sock'[c].phase = sock[c].phase
  /\ proc' \in {"running", "killed", "undefined"}

\* What process_connection relies on when a handler returns, or stops half-way.
Served ==
  /\ Talked
  /\ heap' \in [Clients -> [ssl : Nat, buf : Nat]]
  /\ \A c \in Clients \ {conn.client} : heap'[c] = heap[c]
  /\ conn' \in Connection /\ conn'.client = conn.client
  /\ result' \in ConnectionHandlerResult
  /\ intr' \in BOOLEAN
  /\ \/ pc' = "handle" /\ Settled(conn', heap'[conn.client])
     \/ /\ pc' = "dispatch"
        /\ IF result' = "CONNECTION_CONTINUE"
           THEN Settled(conn', heap'[conn.client])
           ELSE Leaving(conn', heap'[conn.client], result')

\* What holds when a handler is called.
Called ==
  /\ pc = "handle"
  /\ sock \in [Clients -> Sock]
  /\ heap \in [Clients -> [ssl : Nat, buf : Nat]]
  /\ proc \in {"running", "killed", "undefined"}
  /\ conn \in Connection
  /\ result \in ConnectionHandlerResult
  /\ intr \in BOOLEAN
  /\ Settled(conn, heap[conn.client])

\* A handler is called in the state Called describes.
LEMMA InvCalled == ASSUME IInv, pc = "handle" PROVE Called
  BY DEF IInv, Types, TypeOK, Accounts, Called

\* The types a handler relies on.
LEMMA CalledTypes ==
  ASSUME Called
  PROVE  /\ conn.client \in Clients /\ Self \in Sock
         /\ conn.sslconn \in SslPointer /\ conn.state \in ConnectionState
  BY DEF Called, Connection, Self

\* RECEIVE of either kind is sound.
LEMMA ReceiveSound ==
  ASSUME Called, NEW o \in smtp_receive_msg
  PROVE  Sound(o, conn.sslconn)
  BY CalledTypes, ReadSound, SslReadSound DEF smtp_receive_msg

\* A reply changes the socket it is sent on, and leaves it open.
LEMMA SentTalked ==
  ASSUME Called, NEW o, o.rest \in Seq(Pieces), NEW msg \in Replies, Sent(msg, o)
  PROVE  /\ sock' \in [Clients -> Sock]
         /\ \A c \in Clients : sock'[c].phase = sock[c].phase
  <1>1. PICK p \in {"open", "fin", "reset"} :
          sock' = [sock EXCEPT ![conn.client] =
                    [@ EXCEPT !.rx = o.rest, !.said = msg,
                              !.waiting = FALSE, !.peer = p]]
    BY CalledTypes, Zenon DEF Sent, Sock
  <1>2. conn.client \in Clients /\ sock \in [Clients -> Sock]
    BY CalledTypes DEF Called
  <1>3. [sock[conn.client] EXCEPT !.rx = o.rest, !.said = msg,
                                  !.waiting = FALSE, !.peer = p] \in Sock
    BY <1>2, Zenon DEF Sock
  <1>4. sock' \in [Clients -> Sock]
    BY <1>1, <1>2, <1>3
  <1>5. \A c \in Clients : sock'[c].phase = sock[c].phase
    BY <1>1, <1>2 DEF Sock
  <1> QED
    BY <1>4, <1>5

\* A reply is sent, or kills the process; nothing else changes.
LEMMA SayTalked ==
  ASSUME Called, NEW o, o.rest \in Seq(Pieces), NEW msg \in Replies, Say(msg, o)
  PROVE  Talked
  <1>1. proc' \in {"running", "killed", "undefined"}
    BY DEF Say, Sigpipe
  <1> QED
    BY <1>1, SentTalked DEF Say, Talked

\* A path without a reply changes the socket only.
LEMMA QuietTalked ==
  ASSUME Called, NEW o, o.rest \in Seq(Pieces), Quiet(o)
  PROVE  Talked
  <1>1. sock' = [sock EXCEPT ![conn.client] = [@ EXCEPT !.rx = o.rest]]
    BY DEF Quiet
  <1>2. conn.client \in Clients /\ sock \in [Clients -> Sock]
    BY CalledTypes DEF Called
  <1>3. [sock[conn.client] EXCEPT !.rx = o.rest] \in Sock
    BY <1>2, Zenon DEF Sock
  <1>4. sock' \in [Clients -> Sock]
    BY <1>1, <1>2, <1>3
  <1>5. \A c \in Clients : sock'[c].phase = sock[c].phase
    BY <1>1, <1>2 DEF Sock
  <1>6. proc' \in {"running", "killed", "undefined"}
    BY DEF Quiet, Called
  <1> QED
    BY <1>4, <1>5, <1>6 DEF Talked

\* A connection that could go back to the queue can as well be closed.
LEMMA SettledLeaving ==
  ASSUME NEW k \in Connection, NEW h, NEW r, Settled(k, h)
  PROVE  Leaving(k, h, r)
  BY SettledFits DEF Settled, Leaving

\* Every return path that leaves the message alone.
LEMMA AnswerServed ==
  ASSUME Called, Talked, heap' = heap,
         NEW state \in ConnectionState, NEW ssl \in SslPointer,
         NEW r \in ConnectionHandlerResult,
         conn.state = "MAIL_CONNECTION_EXPECT_DATA" => state = conn.state,
         ssl # conn.sslconn => conn.sslconn \in Allocated /\ ssl \in Allocated,
         Return([conn EXCEPT !.state = state, !.sslconn = ssl], r)
  PROVE  Served
  <1> DEFINE k == [conn EXCEPT !.state = state, !.sslconn = ssl]
  <1>1. k \in Connection /\ k.client = conn.client
    BY Zenon DEF Called, Connection
  <1>2. Settled(k, heap[conn.client])
    BY DEF Called, Settled, Connection
  <1>3. conn' = k /\ result' = r /\ pc' = "dispatch" /\ intr' = FALSE
    BY DEF Return
  <1>4. Leaving(k, heap[conn.client], r)
    BY <1>1, <1>2, SettledLeaving
  <1> HIDE DEF k
  <1> QED
    BY <1>1, <1>2, <1>3, <1>4, Zenon DEF Served, Called

\* Assigning only the state, or only sslconn, is assigning both.
LEMMA ConnectionExcept ==
  ASSUME NEW k \in Connection, NEW state, NEW ssl
  PROVE  /\ k = [k EXCEPT !.state = k.state, !.sslconn = k.sslconn]
         /\ [k EXCEPT !.state = state]
              = [k EXCEPT !.state = state, !.sslconn = k.sslconn]
         /\ [k EXCEPT !.sslconn = ssl]
              = [k EXCEPT !.state = k.state, !.sslconn = ssl]
         /\ [k EXCEPT !.sslconn = ssl, !.state = state]
              = [k EXCEPT !.state = state, !.sslconn = ssl]
  BY Zenon DEF Connection

\* The greeting.
LEMMA OpenedServed == ASSUME Called, SmtpOpened PROVE Served
  <1>1. Self.rx \in Seq(Pieces) /\ "220 ESMTP" \in Replies
    BY CalledTypes, Zenon DEF Sock, Replies
  <1>2. Talked
    BY <1>1, SayTalked, Zenon DEF SmtpOpened, Outcome
  <1>3. [conn EXCEPT !.state = "MAIL_CONNECTION_EXPECT_ANY"]
          = [conn EXCEPT !.state = "MAIL_CONNECTION_EXPECT_ANY",
                         !.sslconn = conn.sslconn]
    BY ConnectionExcept, Zenon DEF Called
  <1> QED
    BY <1>2, <1>3, CalledTypes, AnswerServed, Zenon
       DEF SmtpOpened, ConnectionState, ConnectionHandlerResult

\* The handshake after STARTTLS or on an implicit TLS connection.
LEMMA NegotiationServed == ASSUME Called, SmtpTlsNegotiation PROVE Served
  <1>1. PICK o \in SSL_accept(Self, conn.sslconn) :
          /\ Quiet(o)
          /\ Return([conn EXCEPT !.sslconn = o.ssl,
                                 !.state = IF o.how = "data"
                                           THEN "MAIL_CONNECTION_EXPECT_ANY" ELSE @],
                    IF o.how = "error" THEN "CONNECTION_ERROR"
                                       ELSE "CONNECTION_CONTINUE")
    BY Zenon DEF SmtpTlsNegotiation
  <1>2. Sound(o, conn.sslconn)
    BY CalledTypes, SslAcceptSound
  <1>3. Talked
    BY <1>1, <1>2, QuietTalked DEF Sound
  <1> DEFINE state == IF o.how = "data" THEN "MAIL_CONNECTION_EXPECT_ANY"
                                        ELSE conn.state
             r == IF o.how = "error" THEN "CONNECTION_ERROR"
                                     ELSE "CONNECTION_CONTINUE"
  <1>4. [conn EXCEPT !.sslconn = o.ssl,
                     !.state = IF o.how = "data"
                               THEN "MAIL_CONNECTION_EXPECT_ANY" ELSE @]
          = [conn EXCEPT !.state = state, !.sslconn = o.ssl]
    BY Zenon DEF Called, Connection
  <1>5. state \in ConnectionState /\ r \in ConnectionHandlerResult
    BY CalledTypes DEF ConnectionState, ConnectionHandlerResult
  <1>6. conn.state # "MAIL_CONNECTION_EXPECT_DATA" /\ heap' = heap
    BY DEF SmtpTlsNegotiation
  <1>7. Return([conn EXCEPT !.state = state, !.sslconn = o.ssl], r)
    BY <1>1, <1>4
  <1> HIDE DEF state, r
  <1> QED
    BY <1>2, <1>3, <1>5, <1>6, <1>7, AnswerServed, Zenon DEF Sound

\* A failed, empty or idle read.
LEMMA ReadFailsServed == ASSUME Called, SmtpReadFails PROVE Served
  <1>1. PICK o \in smtp_receive_msg :
          /\ Quiet(o)
          /\ Return([conn EXCEPT !.sslconn = o.ssl],
                    IF o.how = "again" THEN "CONNECTION_CONTINUE"
                                       ELSE "CONNECTION_ERROR")
    BY DEF SmtpReadFails
  <1>2. Sound(o, conn.sslconn)
    BY ReceiveSound
  <1>3. Talked
    BY <1>1, <1>2, QuietTalked DEF Sound
  <1> DEFINE r == IF o.how = "again" THEN "CONNECTION_CONTINUE"
                                     ELSE "CONNECTION_ERROR"
  <1>4. r \in ConnectionHandlerResult /\ heap' = heap
    BY DEF ConnectionHandlerResult, SmtpReadFails
  <1>5. Return([conn EXCEPT !.state = conn.state, !.sslconn = o.ssl], r)
    BY <1>1, ConnectionExcept, Zenon DEF Called
  <1> HIDE DEF r
  <1> QED
    BY <1>2, <1>3, <1>4, <1>5, CalledTypes, AnswerServed, Zenon DEF Sound

\* A command line that fills the buffer.
LEMMA LineTooLongServed == ASSUME Called, SmtpLineTooLong PROVE Served
  <1>1. Talked
    BY ReceiveSound, SayTalked, Zenon DEF SmtpLineTooLong, Sound, Replies
  <1>2. Return([conn EXCEPT !.state = conn.state, !.sslconn = conn.sslconn],
               "CONNECTION_ERROR")
    BY ConnectionExcept, Zenon DEF Called, SmtpLineTooLong
  <1> QED
    BY <1>1, <1>2, CalledTypes, AnswerServed, Zenon
       DEF SmtpLineTooLong, ConnectionHandlerResult

\* The commands that answer and at most change the state.
LEMMA CommandServed ==
  ASSUME Called, NEW tok, NEW msg \in Replies, NEW state \in ConnectionState,
         NEW r \in ConnectionHandlerResult, Answer(tok, msg, state, r)
  PROVE  Served
  <1>1. PICK o \in Command(tok) : Say(msg, o)
    BY DEF Answer
  <1>2. o \in smtp_receive_msg /\ conn.state # "MAIL_CONNECTION_EXPECT_DATA"
    BY DEF Command
  <1>3. Talked
    BY <1>1, <1>2, ReceiveSound, SayTalked DEF Sound
  <1>4. Return([conn EXCEPT !.state = state, !.sslconn = conn.sslconn], r)
    BY ConnectionExcept, Zenon DEF Called, Answer
  <1> QED
    BY <1>2, <1>3, <1>4, CalledTypes, AnswerServed, Zenon DEF Answer

\* The commands that only reply and set the state.
LEMMA CommandsServed ==
  ASSUME Called,
         \/ SMTP_QUIT \/ SMTP_RSET \/ SMTP_DATA \/ SMTP_HELP \/ SMTP_HELO
         \/ SMTP_EHLO \/ SMTP_MAIL \/ SMTP_RCPT \/ SMTP_VRFY \/ SMTP_EXPN
  PROVE  Served
  <1> USE CalledTypes, CommandServed
      DEF Replies, ConnectionState, ConnectionHandlerResult
  <1>1. CASE SMTP_QUIT \/ SMTP_RSET \/ SMTP_DATA \/ SMTP_HELP
    BY <1>1, Zenon DEF SMTP_QUIT, SMTP_RSET, SMTP_DATA, SMTP_HELP
  <1>2. CASE SMTP_HELO \/ SMTP_EHLO \/ SMTP_VRFY \/ SMTP_EXPN
    BY <1>2, Zenon DEF SMTP_HELO, SMTP_EHLO, SMTP_VRFY, SMTP_EXPN
  <1>3. CASE SMTP_MAIL \/ SMTP_RCPT
    BY <1>3, Zenon DEF SMTP_MAIL, SMTP_RCPT
  <1> QED
    BY <1>1, <1>2, <1>3, Zenon

\* A line that is no command.
LEMMA UnrecognizedServed == ASSUME Called, Unrecognized PROVE Served
  <1>1. PICK o \in smtp_receive_msg : Say("500 Unrecognized", o)
    BY Zenon DEF Unrecognized, Command
  <1>2. Talked
    BY <1>1, ReceiveSound, SayTalked, Zenon DEF Sound, Replies
  <1>3. Return([conn EXCEPT !.state = conn.state, !.sslconn = conn.sslconn],
               "CONNECTION_CONTINUE")
    BY ConnectionExcept, Zenon DEF Called, Unrecognized
  <1> QED
    BY <1>2, <1>3, CalledTypes, AnswerServed, Zenon
       DEF Unrecognized, ConnectionHandlerResult

\* NOOP, which gets no reply.
LEMMA NoopServed == ASSUME Called, SMTP_NOOP PROVE Served
  <1>1. Talked
    BY ReceiveSound, QuietTalked DEF SMTP_NOOP, Command, Sound
  <1>2. Return([conn EXCEPT !.state = conn.state, !.sslconn = conn.sslconn],
               "CONNECTION_CONTINUE")
    BY ConnectionExcept, Zenon DEF Called, SMTP_NOOP
  <1> QED
    BY <1>1, <1>2, CalledTypes, AnswerServed, Zenon
       DEF SMTP_NOOP, ConnectionHandlerResult

\* A connection whose message fields are replaced.
LEMMA Refilled ==
  ASSUME NEW a \in Nat, NEW b \in Nat, NEW e \in Nat, NEW s \in ConnectionState,
         conn \in Connection
  PROVE  [conn EXCEPT !.alloccount = a, !.messagebuffer = b,
                      !.messagebufferend = e, !.state = s] \in Connection
  BY Zenon DEF Connection

\* A read of message text.
LEMMA BodySound ==
  ASSUME Called, NEW o \in Body
  PROVE  Sound(o, conn.sslconn) /\ conn.state = "MAIL_CONNECTION_EXPECT_DATA"
  BY ReceiveSound DEF Body

\* A message refused with 554.
LEMMA TooLargeServed == ASSUME Called, BodyTooLarge PROVE Served
  <1> DEFINE k == [conn EXCEPT !.alloccount = @ + 1]
  <1>1. Talked
    BY BodySound, SayTalked, Zenon DEF BodyTooLarge, Sound, Replies
  <1>2. /\ conn' = k /\ result' = "CONNECTION_RESET" /\ pc' = "dispatch"
        /\ intr' = FALSE /\ heap' = heap
    BY Zenon DEF BodyTooLarge, Return
  <1>3. k \in Connection /\ k.client = conn.client
    BY DEF Called, Connection
  <1>4. Leaving(conn, heap[conn.client], "CONNECTION_RESET")
    BY SettledLeaving DEF Called
  <1>5. Leaving(k, heap[conn.client], "CONNECTION_RESET")
    BY <1>4 DEF Leaving, Called, Connection
  <1> HIDE DEF k
  <1> QED
    BY <1>1, <1>2, <1>3, <1>5, Zenon DEF Served, Called, ConnectionHandlerResult

\* realloc fails: the old buffer is lost with its only pointer.
LEMMA AllocFailsServed == ASSUME Called, BodyAllocFails PROVE Served
  <1> DEFINE k == [conn EXCEPT !.alloccount = @ + 1, !.messagebuffer = 0]
  <1>1. Talked
    BY BodySound, SayTalked, Zenon DEF BodyAllocFails, Sound, Replies
  <1>2. /\ conn' = k /\ result' = "CONNECTION_ERROR" /\ pc' = "dispatch"
        /\ intr' = FALSE /\ heap' = heap /\ AllocFails
    BY Zenon DEF BodyAllocFails, Return
  <1>3. /\ k.client = conn.client /\ k.sslconn = conn.sslconn
        /\ k.messagebuffer = 0
    BY DEF Called, Connection
  <1>4. k \in Connection
    <2>1. /\ conn.alloccount \in Nat /\ conn.messagebufferend \in Nat
          /\ conn.state \in ConnectionState /\ conn \in Connection
      BY DEF Called, Connection
    <2>2. conn.alloccount + 1 \in Nat /\ 0 \in Nat
      BY <2>1
    <2>3. k = [conn EXCEPT !.alloccount = conn.alloccount + 1,
                           !.messagebuffer = 0,
                           !.messagebufferend = conn.messagebufferend,
                           !.state = conn.state]
      BY <2>1, Zenon DEF Connection
    <2> HIDE DEF k
    <2> QED
      BY <2>1, <2>2, <2>3, Refilled, Zenon
  <1> HIDE DEF k
  <1>5. Leaving(k, heap[conn.client], "CONNECTION_ERROR")
    BY <1>2, <1>3 DEF Leaving, Settled, Called
  <1> QED
    BY <1>1, <1>2, <1>3, <1>4, <1>5, Zenon DEF Served, Called, ConnectionHandlerResult

\* The buffer grows by one read, and so does the most it can hold.
LEMMA GrownBy ==
  ASSUME NEW n \in Nat
  PROVE  /\ n * BufSize \in Nat
         /\ (n + 1) * BufSize = n * BufSize + BufSize
  BY SizeAssumption

\* Text is stored: the buffer grows by a full read, the text by no more.
LEMMA StoredServed == ASSUME Called, BodyStored PROVE Served
  <1>1. PICK o \in Body :
          /\ IF o.eom THEN Say("250 Ok", o) ELSE Quiet(o)
          /\ Return([conn EXCEPT
                       !.alloccount       = @ + 1,
                       !.messagebuffer    = Grown,
                       !.messagebufferend = @ + o.len,
                       !.state = IF o.eom THEN "MAIL_CONNECTION_GREETED" ELSE @],
                    IF o.eom THEN "CONNECTION_RESET" ELSE "CONNECTION_CONTINUE")
    BY Zenon DEF BodyStored
  <1>2. Sound(o, conn.sslconn) /\ conn.state = "MAIL_CONNECTION_EXPECT_DATA"
    BY BodySound
  <1>3. Talked
    BY <1>1, <1>2, SayTalked, QuietTalked, Zenon DEF Sound, Replies
  <1> DEFINE k == [conn EXCEPT
                     !.alloccount       = @ + 1,
                     !.messagebuffer    = Grown,
                     !.messagebufferend = @ + o.len,
                     !.state = IF o.eom THEN "MAIL_CONNECTION_GREETED" ELSE @]
             h == [heap[conn.client] EXCEPT !.buf = 1]
             room == conn.alloccount * BufSize
  <1>4. /\ conn.client \in Clients
        /\ heap[conn.client] \in [ssl : Nat, buf : Nat]
        /\ conn.alloccount \in Nat /\ conn.messagebufferend \in Nat
    BY DEF Called, Connection
  <1>5. /\ room \in Nat /\ (conn.alloccount + 1) * BufSize = room + BufSize
        /\ BufSize \in Nat /\ BufSize > 1
    BY <1>4, GrownBy, SizeAssumption
  <1>6. Grown = room + BufSize + 1 /\ Grown <= ESMTP_SIZE
    BY <1>5, Zenon DEF Grown, BodyStored
  <1>7. Grown \in Nat /\ Grown # 0
    BY <1>5, <1>6
  <1>8. heap' = [heap EXCEPT ![conn.client] = h]
    <2>1. heap[conn.client].buf = IF conn.messagebuffer = 0 THEN 0 ELSE 1
      BY DEF Called, Settled
    <2>2. (IF conn.messagebuffer = 0 THEN heap[conn.client].buf + 1
                                     ELSE heap[conn.client].buf) = 1
      BY <2>1
    <2>3. heap' = [heap EXCEPT ![conn.client] = [heap[conn.client] EXCEPT !.buf =
                     IF conn.messagebuffer = 0 THEN heap[conn.client].buf + 1
                                               ELSE heap[conn.client].buf]]
      BY Zenon DEF BodyStored
    <2> QED
      BY <2>2, <2>3, Zenon
  <1>9. /\ heap' \in [Clients -> [ssl : Nat, buf : Nat]]
        /\ heap'[conn.client] = h
        /\ \A c \in Clients \ {conn.client} : heap'[c] = heap[c]
    BY <1>4, <1>8 DEF Called
  <1>10. /\ k.client = conn.client /\ k.sslconn = conn.sslconn
         /\ k.alloccount = conn.alloccount + 1 /\ k.messagebuffer = Grown
         /\ k.messagebufferend = conn.messagebufferend + o.len
         /\ k.state = IF o.eom THEN "MAIL_CONNECTION_GREETED" ELSE conn.state
    BY DEF Called, Connection
  <1>11. k \in Connection
    <2> DEFINE s == IF o.eom THEN "MAIL_CONNECTION_GREETED" ELSE conn.state
    <2>1. s \in ConnectionState /\ conn \in Connection
      BY <1>2 DEF ConnectionState, Called
    <2>2. conn.alloccount + 1 \in Nat /\ conn.messagebufferend + o.len \in Nat
      <3>1. o.len \in 0 .. BufSize
        BY <1>2 DEF Sound
      <3>2. o.len \in Nat
        BY <1>5, <3>1
      <3> QED
        BY <1>4, <3>2
    <2>3. k = [conn EXCEPT !.alloccount = conn.alloccount + 1,
                           !.messagebuffer = Grown,
                           !.messagebufferend = conn.messagebufferend + o.len,
                           !.state = s]
      BY <2>1 DEF Connection
    <2> HIDE DEF k, s
    <2> QED
      BY <1>7, <2>1, <2>2, <2>3, Refilled, Zenon
  <1> HIDE DEF k
  <1>12. /\ k.messagebufferend <= room + BufSize
         /\ k.messagebufferend + 1 <= Grown
    <2>1. conn.messagebufferend <= room
      BY DEF Called, Settled
    <2>2. o.len \in Nat /\ o.len <= BufSize
      BY <1>2, <1>5 DEF Sound
    <2> HIDE DEF room
    <2> QED
      BY <1>4, <1>5, <1>6, <1>10, <2>1, <2>2
  <1>13. h.buf = 1 /\ (k.sslconn \in Allocated => h.ssl >= 1)
    BY <1>4, <1>10 DEF Called, Settled
  <1>14. /\ conn' = k /\ pc' = "dispatch" /\ intr' = FALSE
         /\ result' = IF o.eom THEN "CONNECTION_RESET" ELSE "CONNECTION_CONTINUE"
    BY <1>1, Zenon DEF Return, k
  <1> HIDE DEF h
  <1>15. CASE o.eom
    <2>1. Leaving(k, h, "CONNECTION_RESET")
      BY <1>6, <1>7, <1>10, <1>12, <1>13 DEF Leaving
    <2> QED
      BY <1>3, <1>9, <1>10, <1>11, <1>14, <1>15, <2>1, Zenon DEF Served, ConnectionHandlerResult
  <1>16. CASE ~o.eom
    <2>1. Settled(k, h)
      BY <1>2, <1>5, <1>6, <1>7, <1>10, <1>12, <1>13, <1>16 DEF Settled
    <2> QED
      BY <1>3, <1>9, <1>10, <1>11, <1>14, <1>16, <2>1, Zenon DEF Served, ConnectionHandlerResult
  <1> QED
    BY <1>15, <1>16

\* STARTTLS gives the connection a new SSL object, whatever it had.
LEMMA StartTlsServed == ASSUME Called, SMTP_STARTTLS PROVE Served
  <1> DEFINE k == [conn EXCEPT !.state = "MAIL_CONNECTION_EXPECT_TLS_NEG",
                               !.sslconn = "fresh"]
             h == [heap[conn.client] EXCEPT !.ssl = @ + 1]
  <1>1. PICK o \in Command("STARTTLS") : Say("220 Go ahead", o)
    BY Zenon DEF SMTP_STARTTLS
  <1>2. o \in smtp_receive_msg /\ conn.state # "MAIL_CONNECTION_EXPECT_DATA"
    BY DEF Command
  <1>3. Talked
    BY <1>1, <1>2, ReceiveSound, SayTalked, Zenon DEF Sound, Replies
  <1>4. /\ conn' = k /\ result' = "CONNECTION_CONTINUE" /\ pc' = "dispatch"
        /\ intr' = FALSE /\ heap' = [heap EXCEPT ![conn.client] = h]
    BY Zenon DEF SMTP_STARTTLS, Return
  <1>5. k \in Connection /\ k.client = conn.client
    BY Zenon DEF Called, Connection, ConnectionState, SslPointer
  <1>6. conn.client \in Clients /\ heap[conn.client] \in [ssl : Nat, buf : Nat]
    BY CalledTypes DEF Called
  <1>7. h \in [ssl : Nat, buf : Nat] /\ h.ssl >= 1 /\ h.buf = heap[conn.client].buf
    BY <1>6
  <1>8. Settled(k, h)
    BY <1>2, <1>7 DEF Called, Settled, Connection
  <1> HIDE DEF k, h
  <1>9. /\ heap' \in [Clients -> [ssl : Nat, buf : Nat]]
        /\ heap'[conn.client] = h
        /\ \A c \in Clients \ {conn.client} : heap'[c] = heap[c]
    BY <1>4, <1>6, <1>7 DEF Called
  <1> QED
    BY <1>3, <1>4, <1>5, <1>8, <1>9, Zenon DEF Served, ConnectionHandlerResult

\* A handler that meets undefined behaviour goes no further.
LEMMA HaltServed ==
  ASSUME Called, Talked, UNCHANGED <<heap, pc, conn, result, intr>>
  PROVE  Served
  BY DEF Called, Served

\* Undefined behaviour ends the process and changes nothing else.
LEMMA UndefinedServed == ASSUME Called, Undefined PROVE Served
  <1>1. Talked
    BY DEF Called, Undefined, Talked
  <1> QED
    BY <1>1, HaltServed DEF Undefined

\* STARTTLS without an SSL context.
LEMMA NoContextServed == ASSUME Called, SMTP_STARTTLS_no_context PROVE Served
  <1>1. PICK o \in Command("STARTTLS") :
          Sent("220 Go ahead", o)
    BY Zenon DEF SMTP_STARTTLS_no_context
  <1>2. o.rest \in Seq(Pieces)
    BY <1>1, ReceiveSound DEF Command, Sound
  <1>3. "220 Go ahead" \in Replies
    BY DEF Replies
  <1>4. proc' \in {"running", "killed", "undefined"}
    BY DEF SMTP_STARTTLS_no_context, Sigpipe
  <1>5. Talked
    BY <1>1, <1>2, <1>3, <1>4, SentTalked, Zenon DEF Talked
  <1> QED
    BY <1>5, HaltServed, Zenon DEF SMTP_STARTTLS_no_context

\* Every path of smtp_handler.
LEMMA SmtpServed == ASSUME Called, smtp_handler PROVE Served
  BY OpenedServed, NegotiationServed, ReadFailsServed, LineTooLongServed,
     TooLargeServed, AllocFailsServed, StoredServed, UnrecognizedServed,
     NoopServed, CommandsServed, StartTlsServed, NoContextServed
     DEF smtp_handler

\* Return paths of the other handlers: only the SSL object may change.
LEMMA SslServed ==
  ASSUME Called, Talked, heap' = heap, NEW o, Sound(o, conn.sslconn),
         NEW r \in ConnectionHandlerResult,
         Return([conn EXCEPT !.sslconn = o.ssl], r)
  PROVE  Served
  <1>1. Return([conn EXCEPT !.state = conn.state, !.sslconn = o.ssl], r)
    BY ConnectionExcept, Zenon DEF Called
  <1> QED
    BY <1>1, CalledTypes, AnswerServed, Zenon DEF Sound

\* Every path of smtps_handler.
LEMMA SmtpsServed == ASSUME Called, smtps_handler PROVE Served
  <1>1. PICK o \in SSL_accept(Self, conn.sslconn) :
          \/ /\ Quiet(o)
             /\ Return([conn EXCEPT !.sslconn = o.ssl], "CONNECTION_ERROR")
          \/ /\ Say("502", o)
             /\ Return([conn EXCEPT !.sslconn = o.ssl], "CONNECTION_DONE")
    BY DEF smtps_handler
  <1>2. Sound(o, conn.sslconn)
    BY CalledTypes, SslAcceptSound
  <1>3. Talked
    BY <1>1, <1>2, SayTalked, QuietTalked, Zenon DEF Sound, Replies
  <1>4. heap' = heap
    BY DEF smtps_handler
  <1> QED
    BY <1>1, <1>2, <1>3, <1>4, SslServed DEF ConnectionHandlerResult

\* Every path of starttls_handler.
LEMMA StarttlsServed == ASSUME Called, starttls_handler PROVE Served
  <1>1. Self.rx \in Seq(Pieces) /\ "523" \in Replies
    BY CalledTypes, Zenon DEF Sock, Replies
  <1>2. Talked
    BY <1>1, SayTalked, Zenon DEF starttls_handler, Outcome
  <1>3. Return([conn EXCEPT !.state = conn.state, !.sslconn = conn.sslconn],
               "CONNECTION_DONE")
    BY ConnectionExcept, Zenon DEF Called, starttls_handler
  <1> QED
    BY <1>2, <1>3, CalledTypes, AnswerServed, Zenon
       DEF starttls_handler, ConnectionHandlerResult

\* The HTTP response is sent, or kills the process.
LEMMA RespondTalked ==
  ASSUME Called, NEW o, o.rest \in Seq(Pieces), NEW msg \in Replies, Respond(o, msg)
  PROVE  Talked
  BY SayTalked, QuietTalked DEF Respond

\* Every path of http_handler.
LEMMA HttpServed == ASSUME Called, http_handler PROVE Served
  <1>1. PICK o \in read(Self) : Respond(o, "301") /\ Return(conn, ReadResult(o))
    BY DEF http_handler
  <1>2. Sound(o, conn.sslconn)
    BY CalledTypes, ReadSound
  <1>3. Talked
    BY <1>1, <1>2, RespondTalked, Zenon DEF Sound, Replies
  <1>4. ReadResult(o) \in ConnectionHandlerResult
    BY DEF ReadResult, ConnectionHandlerResult
  <1>5. Return([conn EXCEPT !.state = conn.state, !.sslconn = conn.sslconn],
               ReadResult(o))
    BY <1>1, ConnectionExcept, Zenon DEF Called
  <1> QED
    BY <1>3, <1>4, <1>5, CalledTypes, AnswerServed, Zenon DEF http_handler

\* Every path of https_handler.
LEMMA HttpsServed == ASSUME Called, https_handler PROVE Served
  <1>1. heap' = heap
    BY DEF https_handler
  <1>2. CASE \E o \in SSL_accept(Self, conn.sslconn) :
               /\ Quiet(o)
               /\ Return([conn EXCEPT !.sslconn = o.ssl], "CONNECTION_ERROR")
    <2>1. PICK o \in SSL_accept(Self, conn.sslconn) :
            /\ Quiet(o)
            /\ Return([conn EXCEPT !.sslconn = o.ssl], "CONNECTION_ERROR")
      BY <1>2
    <2>2. Sound(o, conn.sslconn)
      BY CalledTypes, SslAcceptSound
    <2>3. Talked
      BY <2>1, <2>2, QuietTalked DEF Sound
    <2> QED
      BY <1>1, <2>1, <2>2, <2>3, SslServed DEF ConnectionHandlerResult
  <1>3. CASE \E o \in SSL_accept(Self, conn.sslconn) :
               /\ Quiet(o)
               /\ conn' = [conn EXCEPT !.sslconn = o.ssl]
               /\ intr' = FALSE
               /\ UNCHANGED <<pc, result>>
    <2>1. PICK o \in SSL_accept(Self, conn.sslconn) :
            /\ Quiet(o)
            /\ conn' = [conn EXCEPT !.sslconn = o.ssl]
            /\ intr' = FALSE
            /\ UNCHANGED <<pc, result>>
      BY <1>3
    <2>2. Sound(o, conn.sslconn)
      BY CalledTypes, SslAcceptSound
    <2>3. Talked
      BY <2>1, <2>2, QuietTalked DEF Sound
    <2>4. conn' \in Connection /\ conn'.client = conn.client
      BY <2>1, <2>2, Zenon DEF Called, Connection, Sound
    <2>5. Settled(conn', heap[conn.client])
      BY <2>1, <2>2 DEF Called, Connection, Sound, Settled
    <2> QED
      BY <1>1, <2>1, <2>3, <2>4, <2>5, Zenon DEF Served, Called
  <1>4. CASE /\ conn.sslconn = "up"
             /\ \E o \in SSL_read(Self, "up") :
                  /\ Respond(o, "204")
                  /\ Return([conn EXCEPT !.sslconn = o.ssl], ReadResult(o))
    <2>1. PICK o \in SSL_read(Self, "up") :
            /\ Respond(o, "204")
            /\ Return([conn EXCEPT !.sslconn = o.ssl], ReadResult(o))
      BY <1>4
    <2>2. Sound(o, conn.sslconn)
      BY <1>4, CalledTypes, SslReadSound
    <2>3. Talked
      BY <2>1, <2>2, RespondTalked, Zenon DEF Sound, Replies
    <2>4. ReadResult(o) \in ConnectionHandlerResult
      BY DEF ReadResult, ConnectionHandlerResult
    <2> QED
      BY <1>1, <2>1, <2>2, <2>3, <2>4, SslServed
  <1> QED
    BY <1>2, <1>3, <1>4, Zenon DEF https_handler

\* Whichever handler runs, process_connection gets what it relies on.
LEMMA HandleServed ==
  ASSUME IInv, pc = "handle", Handle
  PROVE  Served /\ UNCHANGED <<at, fifo, stop_signal, armed>>
  <1>1. Called
    BY InvCalled
  <1>2. Served
    BY <1>1, UndefinedServed, SmtpServed, SmtpsServed, StarttlsServed,
       HttpServed, HttpsServed DEF Handle, UseWildSslconn
  <1> QED
    BY <1>2 DEF Handle
-----------------------------------------------------------------------------
(* The steps of the master, the peers and the signals. *)

\* A queued connection belongs to a known peer.
LEMMA QueuedTypes ==
  ASSUME IInv
  PROVE  \A i \in DOMAIN fifo : fifo[i] \in Connection /\ fifo[i].client \in Clients
  <1>1. fifo \in Seq(Connection)
    BY DEF IInv, Types, TypeOK
  <1>2. \A i \in DOMAIN fifo : fifo[i] \in Connection
    BY <1>1
  <1> QED
    BY <1>2 DEF Connection

\* Steps that leave the connections and what is allocated for them alone.
LEMMA FrameIInv ==
  ASSUME IInv, Types', UNCHANGED <<heap, fifo, conn, result>>,
         \A c \in Clients : /\ sock'[c].phase = "open" <=> sock[c].phase = "open"
                            /\ sock'[c].phase = "closed" => sock[c].phase = "closed",
         \/ pc' = pc
         \/ pc' \notin {"handle", "dispatch"}
  PROVE  IInv'
  <1>1. \A i \in DOMAIN fifo : fifo[i].client \in Clients
    BY QueuedTypes
  <1>2. conn # NoConn => conn.client \in Clients
    BY DEF IInv, Types, TypeOK, Connection
  <1>3. Holding'
    BY <1>1, <1>2 DEF IInv, Holding
  <1>4. Accounts'
    BY DEF IInv, Accounts
  <1>5. Room'
    BY DEF IInv, Room, RequeueHasRoom
  <1> QED
    BY <1>3, <1>4, <1>5 DEF IInv

\* A peer connects, talks or leaves: only its own socket changes.
LEMMA PeerTurns ==
  ASSUME IInv, NEW c \in Clients, Peer(c)
  PROVE  \E t \in Sock : /\ sock' = [sock EXCEPT ![c] = t]
                         /\ \/ sock[c].phase = "idle" /\ t.phase = "backlog"
                            \/ t.phase = sock[c].phase
  <1> DEFINE s == sock[c]
  <1>0. s \in Sock /\ sock \in [Clients -> Sock]
    BY DEF IInv, Types, TypeOK
  <1>1. CASE Connect(c)
    <2>1. PICK l \in DOMAIN Listeners :
            sock' = [sock EXCEPT ![c] = [@ EXCEPT !.phase = "backlog", !.at = l]]
      BY <1>1, Zenon DEF Connect
    <2>2. l \in 0 .. Len(Listeners)
      BY ListenerAssumption
    <2>3. [s EXCEPT !.phase = "backlog", !.at = l] \in Sock
      BY <1>0, <2>2, Zenon DEF Sock
    <2>4. s.phase = "idle" /\ [s EXCEPT !.phase = "backlog", !.at = l].phase = "backlog"
      BY <1>0, <1>1 DEF Connect, Sock
    <2> QED
      BY <2>1, <2>3, <2>4, Zenon
  <1>2. CASE Talk(c)
    <2>1. PICK p \in Pieces :
            sock' = [sock EXCEPT
                ![c].rx = Append(@, p),
                ![c].upgrades = IF p.tok = "STARTTLS" THEN @ + 1 ELSE @,
                ![c].waiting = Lockstep /\ p.tok # "TLS"
                                         /\ (sock[c].said = "354" => p.eom)]
      BY <1>2, Zenon DEF Talk
    <2> DEFINE w == Lockstep /\ p.tok # "TLS" /\ (s.said = "354" => p.eom)
               n == IF p.tok = "STARTTLS" THEN s.upgrades + 1 ELSE s.upgrades
               rx == Append(s.rx, p)
               t == [s EXCEPT !.rx = rx, !.upgrades = n, !.waiting = w]
    <2>2. sock' = [sock EXCEPT ![c] = t]
      BY <1>0, <2>1, Zenon DEF Sock
    <2>3. rx \in Seq(Pieces) /\ n \in Nat
      BY <1>0 DEF Sock
    <2>4. w \in BOOLEAN
      OBVIOUS
    <2> HIDE DEF w, n, rx
    <2>5. t \in Sock /\ t.phase = s.phase
      BY <1>0, <2>3, <2>4, Zenon DEF Sock
    <2> QED
      BY <2>2, <2>5, Zenon
  <1>3. CASE Leave(c)
    <2>1. PICK p \in {"fin", "reset"} :
            sock' = [sock EXCEPT ![c] = [@ EXCEPT !.peer = p]]
      BY <1>3 DEF Leave
    <2>2. [s EXCEPT !.peer = p] \in Sock /\ [s EXCEPT !.peer = p].phase = s.phase
      BY <1>0, Zenon DEF Sock
    <2> QED
      BY <2>1, <2>2, Zenon
  <1> QED
    BY <1>1, <1>2, <1>3 DEF Peer

\* A peer's step keeps the invariant.
LEMMA PeerIInv ==
  ASSUME IInv, NEW c \in Clients, Peer(c),
         UNCHANGED <<at, fifo, stop_signal, armed>>
  PROVE  IInv'
  <1>1. sock \in [Clients -> Sock]
    BY DEF IInv, Types, TypeOK
  <1>2. PICK t \in Sock : /\ sock' = [sock EXCEPT ![c] = t]
                          /\ \/ sock[c].phase = "idle" /\ t.phase = "backlog"
                             \/ t.phase = sock[c].phase
    BY PeerTurns
  <1>3. sock' \in [Clients -> Sock]
    BY <1>1, <1>2
  <1>4. Types'
    BY <1>3 DEF IInv, Types, TypeOK, Peer
  <1>5. \A d \in Clients : /\ sock'[d].phase = "open" <=> sock[d].phase = "open"
                           /\ sock'[d].phase = "closed" => sock[d].phase = "closed"
    BY <1>1, <1>2
  <1> QED
    BY <1>4, <1>5, FrameIInv DEF Peer

\* A signal.
LEMMA SignalIInv == ASSUME IInv, NEW s \in Signals, Signal(s) PROVE IInv'
  <1>1. /\ intr' \in BOOLEAN /\ stop_signal' \in BOOLEAN /\ armed' \subseteq Signals
        /\ proc' \in {"running", "killed", "undefined"}
    BY Zenon DEF Signal, IInv, Types, TypeOK
  <1>2. Types'
    BY <1>1 DEF Signal, IInv, Types, TypeOK
  <1> QED
    BY <1>2, FrameIInv DEF Signal

\* The loop condition, and an accept that returns nothing.
LEMMA LoopIInv == ASSUME IInv, Loop \/ AcceptNothing PROVE IInv'
  <1>1. Len(Listeners) \in Nat /\ Len(Listeners) >= 1
    BY ListenerAssumption
  <1>2. at \in 1 .. Len(Listeners) + 1 /\ (pc = "accept" => at <= Len(Listeners))
    BY DEF IInv, Types, TypeOK
  <1>3. /\ pc \in {"loop", "accept"} /\ pc' \in {"accept", "process", "done"}
        /\ at' \in 1 .. Len(Listeners) + 1
        /\ pc' = "accept" => at' <= Len(Listeners)
    <2>1. CASE Loop
      BY <1>1, <2>1 DEF Loop
    <2>2. CASE AcceptNothing
      BY <1>1, <1>2, <2>2 DEF AcceptNothing, NextAccept
    <2> QED
      BY <2>1, <2>2
  <1>4. UNCHANGED <<sock, heap, proc, conn, result, intr, fifo, stop_signal, armed>>
    BY DEF Loop, AcceptNothing
  <1>5. Types'
    BY <1>3, <1>4 DEF IInv, Types, TypeOK
  <1> QED
    BY <1>3, <1>4, <1>5, FrameIInv

\* Handlers run where process_connection calls them.
LEMMA HandleCalled == ASSUME Handle PROVE pc = "handle"
  BY Zenon DEF Handle, UseWildSslconn, smtp_handler, smtps_handler,
     starttls_handler, http_handler, https_handler, Handling, Reading,
     SmtpOpened, SmtpTlsNegotiation, SmtpReadFails, SmtpLineTooLong,
     BodyTooLarge, BodyAllocFails, BodyStored, Unrecognized, Answer,
     SMTP_NOOP, SMTP_QUIT, SMTP_RSET, SMTP_DATA, SMTP_HELP, SMTP_HELO,
     SMTP_EHLO, SMTP_MAIL, SMTP_RCPT, SMTP_VRFY, SMTP_EXPN, SMTP_STARTTLS,
     SMTP_STARTTLS_no_context

\* A handler call.
LEMMA HandleIInv == ASSUME IInv, pc = "handle", Handle PROVE IInv'
  <1>1. Served /\ UNCHANGED <<at, fifo, stop_signal, armed>>
    BY HandleServed
  <1>2. conn \in Connection /\ conn # NoConn /\ conn.client \in Clients
    BY InvCalled, CalledTypes, NoConnAssumption DEF Called
  <1>3. \A i \in DOMAIN fifo : fifo[i].client \in Clients
    BY QueuedTypes
  <1>4. conn' # NoConn /\ conn'.client = conn.client /\ pc' \in {"handle", "dispatch"}
    BY <1>1, NoConnAssumption DEF Served
  <1>5. Types'
    BY <1>1, <1>4 DEF IInv, Types, TypeOK, Served, Talked
  <1>6. Holding'
    BY <1>1, <1>2, <1>3, <1>4 DEF IInv, Holding, Served, Talked
  <1>7. Accounts'
    <2>1. \A i \in DOMAIN fifo : heap'[fifo[i].client] = heap[fifo[i].client]
      BY <1>1, <1>2, <1>3 DEF IInv, Holding, Served
    <2>2. \A c \in Clients : sock[c].phase = "closed" => heap'[c] = heap[c]
      BY <1>1, <1>2 DEF IInv, Holding, Served
    <2> QED
      BY <1>1, <1>4, <2>1, <2>2 DEF IInv, Accounts, Served, Talked
  <1>8. Room'
    BY <1>1, <1>4 DEF IInv, Room, RequeueHasRoom
  <1> QED
    BY <1>5, <1>6, <1>7, <1>8 DEF IInv

\* process_connection takes the oldest connection, or finds none.
LEMMA TakeIInv == ASSUME IInv, Take PROVE IInv'
  <1>1. PICK r \in {0, 1}, k \in {NoConn} \cup {fifo[i] : i \in DOMAIN fifo} :
          /\ Queue!Dequeue(NoConn, k, r)
          /\ conn' = IF r = 0 THEN k ELSE NoConn
          /\ pc' = IF r = 0 THEN "handle" ELSE "loop"
    BY DEF Take
  <1>2. /\ pc = "process" /\ conn = NoConn
        /\ UNCHANGED <<sock, heap, proc, result, intr, at, stop_signal, armed>>
    BY DEF Take, IInv, Types, TypeOK
  <1>3. fifo \in Seq(Connection) /\ Len(fifo) <= CONNECTION_QUEUE_CAPACITY
    BY DEF IInv, Types, TypeOK, Room
  <1>4. CASE r = 1
    <2>1. fifo' = fifo
      BY <1>1, <1>4, MutexAssumption DEF Queue!Dequeue, Queue!UnlockResults
    <2>2. Types'
      BY <1>1, <1>2, <1>4, <2>1 DEF IInv, Types, TypeOK
    <2> QED
      BY <1>1, <1>2, <1>4, <2>1, <2>2, FrameIInv
  <1>5. CASE r = 0
    <2>1. fifo # <<>> /\ k = Head(fifo) /\ fifo' = Tail(fifo)
      BY <1>1, <1>5 DEF Queue!Dequeue
    <2>2. /\ Len(fifo) \in Nat /\ Len(fifo) >= 1 /\ DOMAIN fifo = 1 .. Len(fifo)
          /\ k = fifo[1] /\ 1 \in DOMAIN fifo
      BY <1>3, <2>1
    <2>3. /\ fifo' \in Seq(Connection) /\ Len(fifo') = Len(fifo) - 1
          /\ DOMAIN fifo' = 1 .. Len(fifo) - 1
          /\ \A i \in DOMAIN fifo' : i + 1 \in DOMAIN fifo /\ fifo'[i] = fifo[i + 1]
      BY <1>3, <2>1, <2>2
    <2>4. k \in Connection /\ k.client \in Clients /\ k # NoConn
      BY <2>2, QueuedTypes, NoConnAssumption
    <2>5. conn' = k /\ pc' = "handle"
      BY <1>1, <1>5
    <2>6. Types'
      BY <1>2, <2>3, <2>4, <2>5 DEF IInv, Types, TypeOK
    <2>7. Holding'
      <3>1. \A i \in DOMAIN fifo' : sock[fifo'[i].client].phase = "open"
        BY <2>3 DEF IInv, Holding
      <3>2. \A i, j \in DOMAIN fifo' : fifo'[i].client = fifo'[j].client => i = j
        <4> TAKE i, j \in DOMAIN fifo'
        <4>1. fifo[i + 1].client = fifo[j + 1].client => i + 1 = j + 1
          BY <2>3 DEF IInv, Holding
        <4>2. i \in Nat /\ j \in Nat
          BY <2>2, <2>3
        <4> QED
          BY <2>3, <4>1, <4>2
      <3>3. /\ sock[k.client].phase = "open"
            /\ \A i \in DOMAIN fifo' : fifo'[i].client # k.client
        <4>1. \A i \in DOMAIN fifo' : i + 1 # 1
          BY <2>2, <2>3
        <4> QED
          BY <2>2, <2>3, <4>1 DEF IInv, Holding
      <3>4. ASSUME NEW c \in Clients, sock[c].phase = "open"
            PROVE  (\E i \in DOMAIN fifo' : fifo'[i].client = c) \/ k.client = c
        <4>1. PICK i \in DOMAIN fifo : fifo[i].client = c
          BY <1>2, <3>4 DEF IInv, Holding
        <4>2. CASE i = 1
          BY <2>2, <4>1, <4>2
        <4>3. CASE i # 1
          <5>1. i - 1 \in DOMAIN fifo' /\ (i - 1) + 1 = i
            BY <2>2, <2>3, <4>3
          <5> QED
            BY <2>3, <4>1, <5>1
        <4> QED
          BY <4>2, <4>3
      <3> QED
        BY <1>2, <2>4, <2>5, <3>1, <3>2, <3>3, <3>4 DEF Holding
    <2>8. Accounts'
      <3>1. Settled(k, heap[k.client])
        BY <2>2 DEF IInv, Accounts
      <3>2. \A i \in DOMAIN fifo' : Settled(fifo'[i], heap[fifo'[i].client])
        BY <2>3 DEF IInv, Accounts
      <3> QED
        BY <1>2, <2>5, <3>1, <3>2 DEF IInv, Accounts
    <2>9. Room'
      BY <1>3, <2>2, <2>3, QueueAssumption DEF Room, RequeueHasRoom
    <2> QED
      BY <2>6, <2>7, <2>8, <2>9 DEF IInv
  <1> QED
    BY <1>4, <1>5

\* A connection that nobody holds any more is put at the end of the queue.
LEMMA AppendIInv ==
  ASSUME IInv, NEW k \in Connection, NEW h \in [ssl : Nat, buf : Nat],
         Settled(k, h), Len(fifo) < CONNECTION_QUEUE_CAPACITY,
         \A i \in DOMAIN fifo : fifo[i].client # k.client,
         conn # NoConn => conn.client = k.client,
         fifo' = Append(fifo, k), heap' = [heap EXCEPT ![k.client] = h],
         conn' = NoConn, pc' \notin {"handle", "dispatch"}, Types',
         \A c \in Clients :
           sock'[c].phase = IF c = k.client THEN "open" ELSE sock[c].phase
  PROVE  IInv'
  <1>1. fifo \in Seq(Connection) /\ heap \in [Clients -> [ssl : Nat, buf : Nat]]
    BY DEF IInv, Types, TypeOK
  <1>2. k.client \in Clients
    BY DEF Connection
  <1> DEFINE n == Len(fifo) + 1
  <1>3. /\ n \in Nat /\ DOMAIN fifo = 1 .. n - 1 /\ DOMAIN fifo' = 1 .. n
        /\ n \in DOMAIN fifo' /\ n \notin DOMAIN fifo /\ Len(fifo') = n
        /\ fifo'[n] = k
    BY <1>1
  <1>4. \A i \in DOMAIN fifo : i \in DOMAIN fifo' /\ fifo'[i] = fifo[i]
    BY <1>1, <1>3
  <1>5. \A i \in DOMAIN fifo' : i \in DOMAIN fifo \/ i = n
    BY <1>3
  <1>6. Room'
    BY <1>1, <1>3, QueueAssumption DEF Room, RequeueHasRoom
  <1>7. \A i \in DOMAIN fifo : fifo[i].client \in Clients
    BY QueuedTypes
  <1> HIDE DEF n
  <1>8. Holding'
    <2>1. \A i \in DOMAIN fifo' : sock'[fifo'[i].client].phase = "open"
      BY <1>2, <1>3, <1>4, <1>5, <1>7 DEF IInv, Holding
    <2>2. \A i, j \in DOMAIN fifo' : fifo'[i].client = fifo'[j].client => i = j
      BY <1>3, <1>4, <1>5 DEF IInv, Holding
    <2>3. ASSUME NEW c \in Clients, sock'[c].phase = "open"
          PROVE  \E i \in DOMAIN fifo' : fifo'[i].client = c
      <3>1. CASE c = k.client
        BY <1>3, <3>1
      <3>2. CASE c # k.client
        <4>1. PICK i \in DOMAIN fifo : fifo[i].client = c
          BY <2>3, <3>2 DEF IInv, Holding
        <4> QED
          BY <1>4, <4>1
      <3> QED
        BY <3>1, <3>2
    <2> QED
      BY <2>1, <2>2, <2>3 DEF Holding
  <1>9. Accounts'
    <2>1. heap'[k.client] = h /\ \A c \in Clients \ {k.client} : heap'[c] = heap[c]
      BY <1>1, <1>2
    <2>2. \A i \in DOMAIN fifo' : Settled(fifo'[i], heap'[fifo'[i].client])
      <3> TAKE i \in DOMAIN fifo'
      <3>1. CASE i = n
        BY <1>3, <2>1, <3>1
      <3>2. CASE i \in DOMAIN fifo
        <4>1. heap'[fifo[i].client] = heap[fifo[i].client]
          BY <1>7, <2>1, <3>2
        <4> QED
          BY <1>4, <3>2, <4>1 DEF IInv, Accounts
      <3> QED
        BY <1>5, <3>1, <3>2
    <2>3. \A c \in Clients :
            sock'[c].phase = "closed" => heap'[c].buf <= (IF AllocFails THEN 1 ELSE 0)
      BY <2>1 DEF IInv, Accounts
    <2> QED
      BY <2>2, <2>3 DEF Accounts
  <1> QED
    BY <1>6, <1>8, <1>9 DEF IInv

\* connection_deinit frees what is allocated, once.
LEMMA DeinitTypes ==
  ASSUME IInv, NEW k \in Connection, NEW h \in [ssl : Nat, buf : Nat], NEW r,
         Leaving(k, h, r), k.sslconn # "wild", connection_deinit(k, h)
  PROVE  /\ sock' \in [Clients -> Sock] /\ heap' \in [Clients -> [ssl : Nat, buf : Nat]]
         /\ sock'[k.client].phase = "closed"
         /\ heap'[k.client].buf <= (IF AllocFails THEN 1 ELSE 0)
         /\ \A c \in Clients \ {k.client} : sock'[c] = sock[c] /\ heap'[c] = heap[c]
  <1>1. /\ sock \in [Clients -> Sock] /\ heap \in [Clients -> [ssl : Nat, buf : Nat]]
        /\ k.client \in Clients
    BY DEF IInv, Types, TypeOK, Connection
  <1>2. [NewSock EXCEPT !.phase = "closed"] \in Sock
    BY NewSockType DEF Sock
  <1>3. [NewSock EXCEPT !.phase = "closed"].phase = "closed"
    BY DEF NewSock
  <1> DEFINE ssl == IF k.sslconn = "null" THEN h.ssl ELSE h.ssl - 1
             buf == IF k.messagebuffer = 0 THEN h.buf ELSE h.buf - 1
  <1>4. ssl \in Nat
    BY DEF Leaving, Allocated, Connection, SslPointer
  <1>5. buf \in Nat /\ buf <= (IF AllocFails THEN 1 ELSE 0)
    BY EsmtpAssumption DEF Leaving
  <1>6. /\ heap' = [heap EXCEPT ![k.client] = [ssl |-> ssl, buf |-> buf]]
        /\ sock' = [sock EXCEPT ![k.client] = [NewSock EXCEPT !.phase = "closed"]]
    BY DEF connection_deinit
  <1> HIDE DEF ssl, buf
  <1>7. /\ heap' \in [Clients -> [ssl : Nat, buf : Nat]]
        /\ heap'[k.client] = [ssl |-> ssl, buf |-> buf]
        /\ \A c \in Clients \ {k.client} : heap'[c] = heap[c]
    BY <1>1, <1>4, <1>5, <1>6
  <1>8. /\ sock' \in [Clients -> Sock] /\ sock'[k.client].phase = "closed"
        /\ \A c \in Clients \ {k.client} : sock'[c] = sock[c]
    BY <1>1, <1>2, <1>3, <1>6
  <1> QED
    BY <1>5, <1>7, <1>8

\* A connection that only process_connection, or nobody, holds is closed.
LEMMA DeinitIInv ==
  ASSUME IInv, NEW k \in Connection, NEW h \in [ssl : Nat, buf : Nat], NEW r,
         Leaving(k, h, r), k.sslconn # "wild", connection_deinit(k, h),
         \A i \in DOMAIN fifo : fifo[i].client # k.client,
         conn # NoConn => conn.client = k.client,
         fifo' = fifo, conn' = NoConn, pc' \notin {"handle", "dispatch"}, Types'
  PROVE  IInv'
  <1>1. /\ sock'[k.client].phase = "closed"
        /\ heap'[k.client].buf <= (IF AllocFails THEN 1 ELSE 0)
        /\ \A c \in Clients \ {k.client} : sock'[c] = sock[c] /\ heap'[c] = heap[c]
    BY DeinitTypes
  <1>2. \A i \in DOMAIN fifo : fifo[i].client \in Clients \ {k.client}
    BY QueuedTypes
  <1>3. Holding'
    BY <1>1, <1>2 DEF IInv, Holding
  <1>4. Accounts'
    <2>1. \A i \in DOMAIN fifo : Settled(fifo[i], heap'[fifo[i].client])
      BY <1>1, <1>2 DEF IInv, Accounts
    <2>2. \A c \in Clients :
            sock'[c].phase = "closed" => heap'[c].buf <= (IF AllocFails THEN 1 ELSE 0)
      BY <1>1 DEF IInv, Accounts
    <2> QED
      BY <2>1, <2>2 DEF Accounts
  <1>5. Room'
    BY DEF IInv, Room, RequeueHasRoom
  <1> QED
    BY <1>3, <1>4, <1>5 DEF IInv

\* What holds at the switch of process_connection.
LEMMA AtDispatch ==
  ASSUME IInv, pc = "dispatch"
  PROVE  /\ conn \in Connection /\ conn # NoConn /\ conn.client \in Clients
         /\ heap[conn.client] \in [ssl : Nat, buf : Nat]
         /\ \A i \in DOMAIN fifo : fifo[i].client # conn.client
         /\ sock[conn.client].phase = "open"
         /\ Len(fifo) < CONNECTION_QUEUE_CAPACITY
  <1>1. conn \in Connection /\ conn # NoConn
    BY DEF IInv, Types, TypeOK
  <1>2. conn.client \in Clients
    BY <1>1 DEF Connection
  <1> QED
    BY <1>1, <1>2 DEF IInv, Types, TypeOK, Holding, Room, RequeueHasRoom

\* connection_deinit and close of the connection just handled.
LEMMA CloseIInv ==
  ASSUME IInv, pc = "dispatch", NEW k \in Connection, k.client = conn.client,
         NEW h \in [ssl : Nat, buf : Nat], NEW r, Leaving(k, h, r),
         fifo' = fifo, Close(k, h)
  PROVE  IInv'
  <1>1. CASE k.sslconn = "wild"
    <2>1. /\ UNCHANGED <<sock, heap, pc, conn, result, intr, at, stop_signal, armed>>
          /\ proc' = "undefined"
      BY <1>1 DEF Close, Undefined
    <2>2. Types'
      BY <2>1 DEF IInv, Types, TypeOK
    <2> QED
      BY <2>1, <2>2, FrameIInv
  <1>2. CASE k.sslconn # "wild"
    <2>1. connection_deinit(k, h) /\ proc' = proc /\ Processed
      BY <1>2 DEF Close
    <2>2. sock' \in [Clients -> Sock] /\ heap' \in [Clients -> [ssl : Nat, buf : Nat]]
      BY <1>2, <2>1, DeinitTypes
    <2>3. Types'
      BY <2>1, <2>2 DEF IInv, Types, TypeOK, Processed, ConnectionHandlerResult
    <2>4. conn' = NoConn /\ pc' = "loop"
      BY <2>1 DEF Processed
    <2>5. \A i \in DOMAIN fifo : fifo[i].client # k.client
      BY AtDispatch
    <2> QED
      BY <1>2, <2>1, <2>3, <2>4, <2>5, DeinitIInv
  <1> QED
    BY <1>1, <1>2

\* The connection handled goes back to the queue, or is closed if that fails.
LEMMA RequeueIInv ==
  ASSUME IInv, pc = "dispatch", NEW k \in Connection, k.client = conn.client,
         NEW h \in [ssl : Nat, buf : Nat], Settled(k, h), Requeue(k, h)
  PROVE  IInv'
  <1>1. PICK r \in {0, 1} :
          /\ Queue!Enqueue(k, r)
          /\ \/ /\ r = 0
                /\ heap' = [heap EXCEPT ![k.client] = h]
                /\ UNCHANGED <<sock, proc>>
                /\ Processed
             \/ r # 0 /\ Close(k, h)
    BY DEF Requeue
  <1>2. CASE r = 1
    <2>1. fifo' = fifo
      BY <1>1, <1>2, MutexAssumption DEF Queue!Enqueue, Queue!UnlockResults
    <2>2. Leaving(k, h, result)
      BY SettledLeaving
    <2> QED
      BY <1>1, <1>2, <2>1, <2>2, CloseIInv
  <1>3. CASE r = 0
    <2>1. fifo' = Append(fifo, k)
      BY <1>1, <1>3 DEF Queue!Enqueue
    <2>2. /\ heap' = [heap EXCEPT ![k.client] = h] /\ sock' = sock /\ proc' = proc
          /\ conn' = NoConn /\ pc' = "loop" /\ result' = "CONNECTION_ERROR"
          /\ UNCHANGED <<intr, at, stop_signal, armed>>
      BY <1>1, <1>3, Zenon DEF Processed
    <2>3. fifo' \in Seq(Connection)
      BY <2>1 DEF IInv, Types, TypeOK
    <2>4. heap' \in [Clients -> [ssl : Nat, buf : Nat]]
      BY <2>2, Zenon DEF IInv, Types, TypeOK
    <2>5. Types'
      BY <2>2, <2>3, <2>4 DEF IInv, Types, TypeOK, ConnectionHandlerResult
    <2>6. \A c \in Clients :
            sock'[c].phase = IF c = k.client THEN "open" ELSE sock[c].phase
      BY <2>2, AtDispatch
    <2>7. /\ \A i \in DOMAIN fifo : fifo[i].client # k.client
          /\ Len(fifo) < CONNECTION_QUEUE_CAPACITY
      BY AtDispatch
    <2> QED
      BY <2>1, <2>2, <2>5, <2>6, <2>7, AppendIInv, Zenon
  <1> QED
    BY <1>2, <1>3

\* reset_connection leaves a well-formed connection, its buffer freed.
LEMMA ResetTypes ==
  ASSUME IInv, pc = "dispatch", result = "CONNECTION_RESET"
  PROVE  /\ reset_connection(conn) \in Connection
         /\ [heap[conn.client] EXCEPT
              !.buf = IF conn.messagebuffer = 0 THEN @ ELSE @ - 1]
              \in [ssl : Nat, buf : Nat]
  <1> DEFINE k == reset_connection(conn)
             h == heap[conn.client]
             state == IF conn.state = "MAIL_CONNECTION_GREETED"
                      THEN conn.state ELSE "MAIL_CONNECTION_EXPECT_ANY"
  <1>1. conn \in Connection /\ h \in [ssl : Nat, buf : Nat]
    BY AtDispatch
  <1>2. h.buf = IF conn.messagebuffer = 0 THEN 0 ELSE 1
    BY DEF IInv, Accounts, Leaving
  <1>3. [h EXCEPT !.buf = IF conn.messagebuffer = 0 THEN @ ELSE @ - 1]
          \in [ssl : Nat, buf : Nat]
    BY <1>1, <1>2
  <1>4. state \in ConnectionState
    BY DEF ConnectionState
  <1>5. k = [conn EXCEPT !.live = TRUE, !.state = state, !.alloccount = 0,
                         !.messagebufferend = 0, !.messagebuffer = 0]
    BY <1>1 DEF reset_connection, Connection
  <1> HIDE DEF k, state
  <1>6. k \in Connection
    BY <1>1, <1>4, <1>5, Zenon DEF Connection
  <1> QED
    BY <1>3, <1>6 DEF k

\* The switch on the handler's result.
LEMMA DispatchIInv ==
  ASSUME IInv, DispatchContinue \/ DispatchReset \/ DispatchClose
  PROVE  IInv'
  <1>1. pc = "dispatch"
    BY DEF DispatchContinue, DispatchReset, DispatchClose
  <1> DEFINE h == heap[conn.client]
  <1>2. conn \in Connection /\ h \in [ssl : Nat, buf : Nat]
    BY <1>1, AtDispatch
  <1>3. CASE DispatchContinue
    <2>1. Settled(conn, h) /\ Requeue(conn, h)
      BY <1>1, <1>3 DEF DispatchContinue, IInv, Accounts
    <2> QED
      BY <1>1, <1>2, <2>1, RequeueIInv
  <1>4. CASE DispatchReset
    <2> DEFINE k == reset_connection(conn)
               g == [h EXCEPT !.buf = IF conn.messagebuffer = 0 THEN @ ELSE @ - 1]
    <2>1. Leaving(conn, h, "CONNECTION_RESET") /\ Requeue(k, g)
      BY <1>1, <1>4 DEF DispatchReset, IInv, Accounts
    <2>2. h.buf = IF conn.messagebuffer = 0 THEN 0 ELSE 1
      BY <2>1 DEF Leaving
    <2>3. g \in [ssl : Nat, buf : Nat] /\ g.buf = 0 /\ g.ssl = h.ssl
      BY <1>2, <2>2
    <2>4. /\ k.client = conn.client /\ k.sslconn = conn.sslconn /\ k.alloccount = 0
          /\ k.messagebuffer = 0 /\ k.messagebufferend = 0
      BY <1>2 DEF reset_connection, Connection
    <2>5. k \in Connection
      BY <1>1, <1>4, ResetTypes DEF DispatchReset
    <2> HIDE DEF k, g
    <2>6. Settled(k, g)
      <3>1. 0 * BufSize = 0
        BY SizeAssumption
      <3> QED
        BY <2>1, <2>3, <2>4, <3>1 DEF Settled, Leaving
    <2> QED
      BY <1>1, <2>1, <2>3, <2>4, <2>5, <2>6, RequeueIInv
  <1>5. CASE DispatchClose
    <2>1. Leaving(conn, h, result) /\ Close(conn, h) /\ fifo' = fifo
      BY <1>1, <1>5 DEF DispatchClose, IInv, Accounts
    <2> QED
      BY <1>1, <1>2, <2>1, CloseIInv
  <1> QED
    BY <1>3, <1>4, <1>5

\* connection_init leaves a well-formed connection.
LEMMA InitTypes ==
  ASSUME NEW c \in Clients, NEW type \in ConnectionType,
         NEW sslconn \in InitialSslconn(type)
  PROVE  connection_init(c, type, sslconn) \in Connection
  <1> DEFINE k == connection_init(c, type, sslconn)
             state == IF type \in {"HTTP_CONNECTION", "HTTPS_CONNECTION"}
                      THEN "HTTP_CONNECTION_OPENED" ELSE "MAIL_CONNECTION_OPENED"
  <1>1. Strategy(type) \in SSL_STRATEGY
    BY DEF Strategy, SSL_STRATEGY
  <1>2. state \in ConnectionState
    BY DEF ConnectionState
  <1>3. sslconn \in SslPointer
    BY StackAssumption DEF InitialSslconn, SslPointer
  <1>4. k = [client |-> c, type |-> type, sslstrat |-> Strategy(type),
             live |-> TRUE, state |-> state, sslconn |-> sslconn,
             alloccount |-> 0, messagebuffer |-> 0, messagebufferend |-> 0]
    BY DEF connection_init
  <1> HIDE DEF state, k
  <1>5. k \in Connection
    BY <1>1, <1>2, <1>3, <1>4 DEF Connection
  <1> QED
    BY <1>5 DEF k

\* An accepted connection is queued, or closed when the queue refuses it.
LEMMA AcceptIInv ==
  ASSUME IInv, NEW c \in Clients, handle_connection(c) PROVE IInv'
  <1> DEFINE type == Listeners[at].type
  <1>1. pc = "accept" /\ conn = NoConn /\ at \in 1 .. Len(Listeners)
    BY ListenerAssumption DEF handle_connection, IInv, Types, TypeOK
  <1>2. type \in ConnectionType /\ Len(Listeners) \in Nat
    <2>1. Listeners \in Seq([type : ConnectionType, up : BOOLEAN])
      BY ListenerAssumption
    <2>2. Listeners[at] \in [type : ConnectionType, up : BOOLEAN]
      BY <1>1, <2>1, ElementOfSeq, Zenon
    <2> QED
      BY <2>1, <2>2
  <1>3. PICK sslconn \in InitialSslconn(type), r \in {0, 1} :
          LET k == connection_init(c, type, sslconn)
              h == [ssl |-> IF sslconn = "fresh" THEN 1 ELSE 0, buf |-> 0] IN
          /\ Queue!Enqueue(k, r)
          /\ \/ /\ r = 0
                /\ sock' = [sock EXCEPT ![c].phase = "open"]
                /\ heap' = [heap EXCEPT ![c] = h]
                /\ proc' = proc
                /\ NextAccept
             \/ /\ r # 0 /\ sslconn # "wild"
                /\ connection_deinit(k, h)
                /\ proc' = proc
                /\ NextAccept
             \/ /\ r # 0 /\ sslconn = "wild"
                /\ proc' = "undefined"
                /\ UNCHANGED <<sock, heap, pc, at>>
    BY DEF handle_connection
  <1> DEFINE k == connection_init(c, type, sslconn)
             h == [ssl |-> IF sslconn = "fresh" THEN 1 ELSE 0, buf |-> 0]
  <1>4. sslconn \in {"null", "wild", "fresh"}
    BY <1>3, StackAssumption DEF InitialSslconn
  <1>5. h \in [ssl : Nat, buf : Nat] /\ h.buf = 0 /\ (sslconn = "fresh" => h.ssl = 1)
    OBVIOUS
  <1>6. /\ k.client = c /\ k.sslconn = sslconn /\ k.alloccount = 0
        /\ k.messagebuffer = 0 /\ k.messagebufferend = 0
        /\ k.state # "MAIL_CONNECTION_EXPECT_DATA"
    BY Zenon DEF connection_init
  <1>7. k \in Connection
    BY <1>2, <1>3, InitTypes
  <1>8. UNCHANGED <<conn, result, intr, stop_signal, armed>> /\ sock[c].phase = "backlog"
    BY DEF handle_connection, Pending
  <1>9. \A i \in DOMAIN fifo : fifo[i].client # c
    BY <1>8, Zenon DEF IInv, Holding
  <1>10. NextAccept => /\ pc' \in {"accept", "process"}
                       /\ at' \in 1 .. Len(Listeners) + 1
                       /\ pc' = "accept" => at' <= Len(Listeners)
    BY <1>1, <1>2 DEF NextAccept
  <1>11. /\ fifo \in Seq(Connection) /\ sock \in [Clients -> Sock]
         /\ heap \in [Clients -> [ssl : Nat, buf : Nat]]
    BY DEF IInv, Types, TypeOK
  <1>12. Queue!Enqueue(k, r)
    BY <1>3
  <1>13. Settled(k, h)
    <2>1. 0 * BufSize = 0
      BY SizeAssumption
    <2> HIDE DEF k, h
    <2> QED
      BY <1>4, <1>5, <1>6, <2>1 DEF Settled, Allocated
  <1>14. CASE r = 0
    <2>1. fifo' = Append(fifo, k) /\ Len(fifo) < CONNECTION_QUEUE_CAPACITY
      BY <1>12, <1>14 DEF Queue!Enqueue
    <2>2. /\ sock' = [sock EXCEPT ![c].phase = "open"]
          /\ heap' = [heap EXCEPT ![c] = h] /\ proc' = proc /\ NextAccept
      BY <1>3, <1>14
    <2> HIDE DEF k, h
    <2>3. [sock[c] EXCEPT !.phase = "open"] \in Sock
      BY <1>11, Zenon DEF Sock
    <2>4. sock' \in [Clients -> Sock]
      BY <1>11, <2>2, <2>3
    <2>5. heap' \in [Clients -> [ssl : Nat, buf : Nat]]
      BY <1>5, <1>11, <2>2
    <2>6. fifo' \in Seq(Connection)
      BY <1>7, <1>11, <2>1
    <2>7. Types'
      BY <1>1, <1>8, <1>10, <2>2, <2>4, <2>5, <2>6 DEF IInv, Types, TypeOK
    <2>8. \A d \in Clients :
            sock'[d].phase = IF d = c THEN "open" ELSE sock[d].phase
      BY <1>11, <2>2 DEF Sock
    <2> QED
      BY <1>1, <1>5, <1>6, <1>7, <1>8, <1>9, <1>10, <1>13, <2>1, <2>2, <2>7, <2>8,
         AppendIInv, Zenon, Zenon
  <1>15. CASE r = 1
    <2>1. fifo' = fifo
      BY <1>12, <1>15, MutexAssumption DEF Queue!Enqueue, Queue!UnlockResults
    <2>2. CASE sslconn # "wild"
      <3>1. connection_deinit(k, h) /\ proc' = proc /\ NextAccept
        BY <1>3, <1>15, <2>2
      <3> HIDE DEF k, h
      <3>2. Leaving(k, h, result)
        BY <1>7, <1>13, SettledLeaving
      <3>3. sock' \in [Clients -> Sock] /\ heap' \in [Clients -> [ssl : Nat, buf : Nat]]
        BY <1>5, <1>6, <1>7, <2>2, <3>1, <3>2, DeinitTypes, Zenon
      <3>4. Types'
        BY <1>1, <1>8, <1>10, <2>1, <3>1, <3>3 DEF IInv, Types, TypeOK
      <3> QED
        BY <1>1, <1>5, <1>6, <1>7, <1>8, <1>9, <1>10, <2>1, <2>2, <3>1, <3>2, <3>4,
           DeinitIInv
    <2>3. CASE sslconn = "wild"
      <3>1. proc' = "undefined" /\ UNCHANGED <<sock, heap, pc, at>>
        BY <1>3, <1>15, <2>3
      <3>2. Types'
        BY <1>8, <2>1, <3>1 DEF IInv, Types, TypeOK
      <3> QED
        BY <1>8, <2>1, <3>1, <3>2, FrameIInv
    <2> QED
      BY <2>2, <2>3
  <1> QED
    BY <1>14, <1>15
-----------------------------------------------------------------------------
(* The theorems. *)

\* Every step of the process keeps the invariant.
LEMMA NextIInv == IInv /\ [Next]_vars => IInv'
  <1> SUFFICES ASSUME IInv, [Next]_vars PROVE IInv'
    OBVIOUS
  <1>1. CASE Loop \/ AcceptNothing
    BY <1>1, LoopIInv
  <1>2. CASE \E c \in Clients : handle_connection(c)
    BY <1>2, AcceptIInv
  <1>3. CASE Take
    BY <1>3, TakeIInv
  <1>4. CASE Handle
    BY <1>4, HandleCalled, HandleIInv
  <1>5. CASE DispatchContinue \/ DispatchReset \/ DispatchClose
    BY <1>5, DispatchIInv
  <1>6. CASE \E c \in Clients : Peer(c) /\ UNCHANGED <<at, fifo, stop_signal, armed>>
    BY <1>6, PeerIInv
  <1>7. CASE \E s \in Signals : Signal(s)
    BY <1>7, SignalIInv
  <1>8. CASE UNCHANGED vars
    <2>1. Types'
      BY <1>8 DEF vars, callvars, IInv, Types, TypeOK
    <2> QED
      BY <1>8, <2>1, FrameIInv DEF vars, callvars
  <1> QED
    BY <1>1, <1>2, <1>3, <1>4, <1>5, <1>6, <1>7, <1>8
       DEF Next, MasterStep, process_connection, Ended

\* The invariant holds in every reachable state.
LEMMA Inductive == Spec => []IInv
  BY InitIInv, NextIInv, PTL DEF Spec

\* No buffer or SSL object is freed twice, and process_connection has a
\* connection exactly while it handles one (master.c:58-77, 187-247).
THEOREM TypeCorrect == Spec => []TypeOK
  BY Inductive, IInvImplies, PTL

\* No accepted connection is lost, queued twice or used after it was closed
\* (master.c:162-247).
THEOREM ConnectionsHeldOnce == Spec => []HeldOnce
  BY Inductive, IInvImplies, PTL

\* No session is dropped in the middle for want of a slot (master.c:218-232).
THEOREM RequeueAlwaysHasRoom == Spec => []RequeueHasRoom
  BY Inductive, IInvImplies, PTL

\* However a message is cut into reads, it and its terminating zero stay
\* inside the buffer, and the buffer within ESMTP_SIZE (smtp.c:221-240).
THEOREM MessagesFit == Spec => []MessageFits
  BY Inductive, IInvImplies, PTL

\* Every message starts empty (smtp.c:218-253, master.c:58-70).
THEOREM MessagesStartEmpty == Spec => []NoStaleMessage
  BY Inductive, IInvImplies, PTL

\* Message buffers are freed with their connection; only a failed realloc
\* loses one (smtp.c:228-234, master.c:58-77).
THEOREM BuffersFreed == Spec => []BuffersAccounted
  BY Inductive, IInvImplies, PTL
=============================================================================
