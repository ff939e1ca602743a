------------------------------ MODULE EndProofs ------------------------------
(***************************************************************************)
(* What may end the process: EndsOnlyBy, for every instance.               *)
(***************************************************************************)
EXTENDS MasterProofs

\* An unassigned sslconn is that of a connection without implicit TLS.
Plain(k) == k.sslconn = "wild" => k.sslstrat # "IMPLICIT_TLS"

Plains ==
  /\ \A i \in DOMAIN fifo : Plain(fifo[i])
  /\ conn # NoConn => Plain(conn)

\* A signal's handler has run only if a stop was requested.
Armed == armed = Signals \/ stop_signal

\* The inductive invariant.
EInv == IInv /\ Plains /\ Armed /\ EndsOnlyBy
-----------------------------------------------------------------------------
(* What a handler call does. *)

\* The process goes on; or SIGPIPE ended it, for the peer has reset; or the
\* SSL pointer was used without an object behind it.
Ends ==
  /\ Plain(conn')
  /\ \/ proc' = "running"
     \/ /\ proc' = "killed" /\ pc' \in {"handle", "dispatch"}
        /\ sock'[conn'.client].peer = "reset"
     \/ proc' = "undefined" /\ pc' = "handle" /\ conn'.sslconn = "wild"
     \/ /\ proc' = "undefined" /\ pc' = "handle" /\ conn'.sslconn # "wild"
        /\ ~CtxLoaded /\ sock'[conn'.client].said = "220 Go ahead"

\* A call of a handler by a running process.
Begun == Called /\ proc = "running" /\ Plain(conn)

\* Connection k is conn with nothing done to it that concerns its end.
Same(k) ==
  /\ k.client = conn.client /\ k.sslstrat = conn.sslstrat
  /\ k.sslconn = "wild" => conn.sslconn = "wild"

\* What a reply does to the socket: the peer was told, and one that has reset
\* stays so.
LEMMA SentTells ==
  ASSUME Begun, NEW o, NEW msg, Sent(msg, o)
  PROVE  /\ sock'[conn.client].said = msg
         /\ Self.peer = "reset" => sock'[conn.client].peer = "reset"
  <1>1. conn.client \in Clients /\ sock \in [Clients -> Sock]
    BY CalledTypes DEF Begun, Called
  <1>2. PICK p \in IF Self.peer = "fin" THEN {"fin", "reset"} ELSE {Self.peer} :
          sock' = [sock EXCEPT ![conn.client] =
                     [@ EXCEPT !.rx = o.rest, !.said = msg,
                               !.waiting = FALSE, !.peer = p]]
    BY Zenon DEF Sent
  <1> DEFINE t == [sock[conn.client] EXCEPT !.rx = o.rest, !.said = msg,
                                           !.waiting = FALSE, !.peer = p]
  <1>3. sock'[conn.client] = t
    BY <1>1, <1>2, Zenon
  <1>4. t.peer = p /\ t.said = msg
    BY <1>1, Zenon DEF Sock
  <1>5. Self.peer = "reset" => p = "reset"
    BY <1>2
  <1> HIDE DEF t
  <1> QED
    BY <1>3, <1>4, <1>5, Zenon

\* A path that replies.
LEMMA SayEnds ==
  ASSUME Begun, NEW o, NEW msg, NEW k, NEW r, Say(msg, o), Return(k, r), Same(k)
  PROVE  Ends
  <1>1. proc' = "running" \/ (proc' = "killed" /\ Self.peer = "reset")
    BY DEF Say, Sigpipe
  <1>2. Self.peer = "reset" => sock'[conn.client].peer = "reset"
    BY SentTells DEF Say
  <1>3. conn' = k /\ pc' = "dispatch" /\ k.client = conn.client
    BY DEF Return, Same
  <1>4. Plain(k)
    BY DEF Begun, Same, Plain
  <1> QED
    BY <1>1, <1>2, <1>3, <1>4 DEF Ends

\* A path that does not.
LEMMA QuietEnds ==
  ASSUME Begun, NEW o, NEW k, Quiet(o), conn' = k, Same(k)
  PROVE  Ends
  BY DEF Begun, Same, Plain, Quiet, Ends

\* The connections the paths leave.
LEMMA SameState ==
  ASSUME Begun, NEW state
  PROVE  Same(conn) /\ Same([conn EXCEPT !.state = state])
  BY DEF Begun, Called, Connection, Same

\* A read or a handshake only changes an object that is there.
LEMMA SameSsl ==
  ASSUME Begun, NEW o, Sound(o, conn.sslconn)
  PROVE  Same([conn EXCEPT !.sslconn = o.ssl])
  <1>1. o.ssl = "wild" => conn.sslconn = "wild"
    BY DEF Sound, Allocated
  <1> QED
    BY <1>1 DEF Begun, Called, Connection, Same

\* A command.
LEMMA AnswerEnds ==
  ASSUME Begun, NEW tok, NEW msg, NEW state, NEW r, Answer(tok, msg, state, r)
  PROVE  Ends
  <1>1. PICK o : Say(msg, o)
    BY DEF Answer
  <1>2. Return([conn EXCEPT !.state = state], r)
    BY DEF Answer
  <1> QED
    BY <1>1, <1>2, SameState, SayEnds

\* The commands whose only effects are a reply and perhaps a new state.
LEMMA CommandsEnd ==
  ASSUME Begun,
         \/ SMTP_QUIT \/ SMTP_RSET \/ SMTP_DATA \/ SMTP_HELP \/ SMTP_HELO
         \/ SMTP_EHLO \/ SMTP_MAIL \/ SMTP_RCPT \/ SMTP_VRFY \/ SMTP_EXPN
  PROVE  Ends
  BY AnswerEnds, Zenon DEF SMTP_QUIT, SMTP_RSET, SMTP_DATA, SMTP_HELP, SMTP_HELO,
     SMTP_EHLO, SMTP_MAIL, SMTP_RCPT, SMTP_VRFY, SMTP_EXPN

\* The greeting, a line that is too long, an unknown command and NOOP.
LEMMA PlainEnds ==
  ASSUME Begun, SmtpOpened \/ SmtpLineTooLong \/ Unrecognized \/ SMTP_NOOP
  PROVE  Ends
  <1>1. CASE SmtpOpened
    BY <1>1, SameState, SayEnds, Zenon DEF SmtpOpened
  <1>2. CASE SmtpLineTooLong
    BY <1>2, SameState, SayEnds, Zenon DEF SmtpLineTooLong
  <1>3. CASE Unrecognized
    BY <1>3, SameState, SayEnds, Zenon DEF Unrecognized
  <1>4. CASE SMTP_NOOP
    BY <1>4, SameState, QuietEnds, Zenon DEF SMTP_NOOP, Return
  <1> QED
    BY <1>1, <1>2, <1>3, <1>4

\* The handshake after STARTTLS.
LEMMA NegotiationEnds == ASSUME Begun, SmtpTlsNegotiation PROVE Ends
  <1>1. PICK o \in SSL_accept(Self, conn.sslconn) :
          /\ Quiet(o)
          /\ conn' = [conn EXCEPT !.sslconn = o.ssl,
                                  !.state = IF o.how = "data"
                                            THEN "MAIL_CONNECTION_EXPECT_ANY" ELSE @]
    BY Zenon DEF SmtpTlsNegotiation, Return
  <1>2. Sound(o, conn.sslconn)
    BY CalledTypes, SslAcceptSound DEF Begun
  <1>3. o.ssl = "wild" => conn.sslconn = "wild"
    BY <1>2 DEF Sound, Allocated
  <1>4. conn \in Connection
    BY DEF Begun, Called
  <1>5. /\ conn'.client = conn.client /\ conn'.sslstrat = conn.sslstrat
        /\ conn'.sslconn = o.ssl
    BY <1>1, <1>4 DEF Connection
  <1>6. Same(conn')
    BY <1>3, <1>5 DEF Same
  <1> QED
    BY <1>1, <1>6, QuietEnds

\* A read that fails.
LEMMA ReadFailsEnds == ASSUME Begun, SmtpReadFails PROVE Ends
  <1>1. PICK o \in smtp_receive_msg :
          Quiet(o) /\ conn' = [conn EXCEPT !.sslconn = o.ssl]
    BY DEF SmtpReadFails, Return
  <1>2. Sound(o, conn.sslconn)
    BY ReceiveSound DEF Begun
  <1> QED
    BY <1>1, <1>2, SameSsl, QuietEnds

\* A part of a message.
LEMMA BodyEnds ==
  ASSUME Begun, BodyTooLarge \/ BodyAllocFails \/ BodyStored
  PROVE  Ends
  <1>1. conn \in Connection
    BY DEF Begun, Called
  <1>2. CASE BodyTooLarge
    <2> DEFINE k == [conn EXCEPT !.alloccount = @ + 1]
    <2>1. Same(k)
      BY <1>1 DEF Connection, Same
    <2> QED
      BY <1>2, <2>1, SayEnds, Zenon DEF BodyTooLarge
  <1>3. CASE BodyAllocFails
    <2> DEFINE k == [conn EXCEPT !.alloccount = @ + 1, !.messagebuffer = 0]
    <2>1. Same(k)
      BY <1>1 DEF Connection, Same
    <2> QED
      BY <1>3, <2>1, SayEnds, Zenon DEF BodyAllocFails
  <1>4. CASE BodyStored
    <2>1. PICK o \in Body :
            /\ IF o.eom THEN Say("250 Ok", o) ELSE Quiet(o)
            /\ Return([conn EXCEPT
                    !.alloccount       = @ + 1,
                    !.messagebuffer    = Grown,
                    !.messagebufferend = @ + o.len,
                    !.state = IF o.eom THEN "MAIL_CONNECTION_GREETED" ELSE @],
                 IF o.eom THEN "CONNECTION_RESET" ELSE "CONNECTION_CONTINUE")
      BY <1>4, Zenon DEF BodyStored
    <2> DEFINE k == [conn EXCEPT
                    !.alloccount       = @ + 1,
                    !.messagebuffer    = Grown,
                    !.messagebufferend = @ + o.len,
                    !.state = IF o.eom THEN "MAIL_CONNECTION_GREETED" ELSE @]
    <2>2. Same(k)
      BY <1>1 DEF Connection, Same
    <2>3. PICK r : Return(k, r)
      BY <2>1, Zenon
    <2> HIDE DEF k
    <2>4. conn' = k
      BY <2>3 DEF Return
    <2> QED
      BY <2>1, <2>2, <2>3, <2>4, SayEnds, QuietEnds, Zenon
  <1> QED
    BY <1>2, <1>3, <1>4

\* STARTTLS, with and without an SSL context.
LEMMA StartTlsEnds ==
  ASSUME Begun, SMTP_STARTTLS \/ SMTP_STARTTLS_no_context
  PROVE  Ends
  <1>1. conn \in Connection /\ conn.client \in Clients /\ sock \in [Clients -> Sock]
    BY CalledTypes DEF Begun, Called
  <1>2. CASE SMTP_STARTTLS
    <2> DEFINE k == [conn EXCEPT !.state = "MAIL_CONNECTION_EXPECT_TLS_NEG",
                                 !.sslconn = "fresh"]
    <2>1. Same(k)
      BY <1>1 DEF Connection, Same
    <2> QED
      BY <1>2, <2>1, SayEnds, Zenon DEF SMTP_STARTTLS
  <1>3. CASE SMTP_STARTTLS_no_context
    <2>1. PICK o : Sent("220 Go ahead", o)
      BY <1>3, Zenon DEF SMTP_STARTTLS_no_context
    <2>2. /\ sock'[conn.client].said = "220 Go ahead"
          /\ Self.peer = "reset" => sock'[conn.client].peer = "reset"
      BY <2>1, SentTells, Zenon
    <2>3. /\ ~CtxLoaded /\ UNCHANGED <<pc, conn>>
          /\ pc = "handle" /\ conn.sslconn # "wild"
      BY <1>3, Zenon DEF SMTP_STARTTLS_no_context, Reading, Handling
    <2>4. proc' = "undefined" \/ (proc' = "killed" /\ Self.peer = "reset")
      BY <1>3 DEF SMTP_STARTTLS_no_context, Sigpipe
    <2>5. Plain(conn')
      BY <2>3 DEF Begun
    <2> QED
      BY <2>2, <2>3, <2>4, <2>5 DEF Ends
  <1> QED
    BY <1>2, <1>3

\* The other services' handlers.
LEMMA OthersEnd ==
  ASSUME Begun, smtps_handler \/ starttls_handler \/ http_handler
  PROVE  Ends
  <1>1. CASE smtps_handler
    <2>1. PICK o \in SSL_accept(Self, conn.sslconn) :
            \/ Quiet(o) /\ conn' = [conn EXCEPT !.sslconn = o.ssl]
            \/ /\ Say("502", o)
               /\ Return([conn EXCEPT !.sslconn = o.ssl], "CONNECTION_DONE")
      BY <1>1 DEF smtps_handler, Return
    <2>2. Sound(o, conn.sslconn)
      BY CalledTypes, SslAcceptSound DEF Begun
    <2> QED
      BY <2>1, <2>2, SameSsl, QuietEnds, SayEnds
  <1>2. CASE starttls_handler
    BY <1>2, SameState, SayEnds, Zenon DEF starttls_handler
  <1>3. CASE http_handler
    BY <1>3, SameState, SayEnds, QuietEnds, Zenon DEF http_handler, Respond, Return
  <1> QED
    BY <1>1, <1>2, <1>3

\* The HTTPS handler.
LEMMA HttpsEnds == ASSUME Begun, https_handler PROVE Ends
  <1>1. CASE \E o \in SSL_accept(Self, conn.sslconn) :
               Quiet(o) /\ conn' = [conn EXCEPT !.sslconn = o.ssl]
    <2>1. PICK o \in SSL_accept(Self, conn.sslconn) :
            Quiet(o) /\ conn' = [conn EXCEPT !.sslconn = o.ssl]
      BY <1>1
    <2>2. Sound(o, conn.sslconn)
      BY CalledTypes, SslAcceptSound DEF Begun
    <2> QED
      BY <2>1, <2>2, SameSsl, QuietEnds
  <1>2. CASE /\ conn.sslconn = "up"
             /\ \E o \in SSL_read(Self, "up") :
                  /\ Respond(o, "204")
                  /\ Return([conn EXCEPT !.sslconn = o.ssl], ReadResult(o))
    <2>1. PICK o \in SSL_read(Self, "up") :
            /\ Respond(o, "204")
            /\ Return([conn EXCEPT !.sslconn = o.ssl], ReadResult(o))
      BY <1>2
    <2>2. Sound(o, conn.sslconn)
      BY <1>2, CalledTypes, SslReadSound DEF Begun
    <2>3. Same([conn EXCEPT !.sslconn = o.ssl])
      BY <2>2, SameSsl
    <2>4. Say("204", o) \/ Quiet(o)
      BY <2>1 DEF Respond
    <2>5. conn' = [conn EXCEPT !.sslconn = o.ssl]
      BY <2>1 DEF Return
    <2> QED
      BY <2>1, <2>3, <2>4, <2>5, QuietEnds, SayEnds
  <1> QED
    BY <1>1, <1>2, Zenon DEF https_handler, Return

\* Whichever handler runs.
LEMMA HandleEnds == ASSUME IInv, Plains, proc = "running", Handle PROVE Ends
  <1>1. Called /\ pc = "handle"
    BY HandleCalled, InvCalled
  <1>2. Begun
    BY <1>1, NoConnAssumption DEF Called, Plains, Begun
  <1>3. CASE UseWildSslconn
    BY <1>1, <1>2, <1>3, Zenon DEF UseWildSslconn, Undefined, Begun, Ends
  <1> QED
    BY <1>2, <1>3, CommandsEnd, PlainEnds, NegotiationEnds, ReadFailsEnds, BodyEnds,
       StartTlsEnds, OthersEnd, HttpsEnds DEF Handle, smtp_handler
-----------------------------------------------------------------------------
(* The steps of the process. *)

\* While the process runs there is nothing to explain.
LEMMA RunningOn == ASSUME proc' = "running" PROVE EndsOnlyBy'
  BY DEF EndsOnlyBy

\* A connection put at the end of the queue.
LEMMA AppendPlains ==
  ASSUME IInv, Plains, NEW k, Plain(k), fifo' = Append(fifo, k), conn' = NoConn
  PROVE  Plains'
  <1>1. fifo \in Seq(Connection)
    BY DEF IInv, Types, TypeOK
  <1> DEFINE n == Len(fifo) + 1
  <1>2. /\ fifo'[n] = k
        /\ \A i \in DOMAIN fifo : fifo'[i] = fifo[i]
        /\ \A i \in DOMAIN fifo' : i \in DOMAIN fifo \/ i = n
    BY <1>1
  <1> HIDE DEF n
  <1>3. \A i \in DOMAIN fifo' : Plain(fifo'[i])
    BY <1>2 DEF Plains
  <1> QED
    BY <1>3 DEF Plains, Plain

\* A handler call.
LEMMA HandleStep ==
  ASSUME IInv, Plains, proc = "running", Handle
  PROVE  Plains' /\ EndsOnlyBy'
  <1>1. Ends /\ Served /\ fifo' = fifo
    BY HandleCalled, HandleEnds, HandleServed
  <1>2. Plains'
    BY <1>1, Zenon DEF Plains, Plain, Ends
  <1>3. conn'.sslconn = "wild" => conn'.sslstrat # "IMPLICIT_TLS"
    BY <1>1 DEF Ends, Plain
  <1>4. EndsOnlyBy'
    BY <1>1, <1>3, Zenon DEF Ends, EndsOnlyBy, Self
  <1> QED
    BY <1>2, <1>4

\* process_connection takes a connection, or none.
LEMMA TakeStep ==
  ASSUME IInv, Plains, proc = "running", Take
  PROVE  Plains' /\ EndsOnlyBy'
  <1>1. PICK r \in {0, 1}, k \in {NoConn} \cup {fifo[i] : i \in DOMAIN fifo} :
          /\ Queue!Dequeue(NoConn, k, r)
          /\ conn' = IF r = 0 THEN k ELSE NoConn
    BY DEF Take
  <1>2. fifo \in Seq(Connection) /\ proc' = "running"
    BY DEF Take, IInv, Types, TypeOK
  <1>3. CASE fifo' = fifo
    <2>1. conn' = NoConn \/ \E i \in DOMAIN fifo : conn' = fifo[i]
      BY <1>1
    <2> QED
      BY <1>2, <1>3, <2>1, RunningOn DEF Plains, Plain
  <1>4. CASE fifo # <<>> /\ k = Head(fifo) /\ fifo' = Tail(fifo)
    <2>1. /\ 1 \in DOMAIN fifo /\ k = fifo[1]
          /\ \A i \in DOMAIN fifo' : i + 1 \in DOMAIN fifo /\ fifo'[i] = fifo[i + 1]
      BY <1>2, <1>4
    <2>2. Plain(k) /\ \A i \in DOMAIN fifo' : Plain(fifo'[i])
      BY <2>1 DEF Plains
    <2> QED
      BY <1>1, <1>2, <2>2, RunningOn DEF Plains, Plain
  <1> QED
    BY <1>1, <1>3, <1>4 DEF Queue!Dequeue

\* The connection just handled is closed.
LEMMA CloseStep ==
  ASSUME IInv, Plains, proc = "running", pc = "dispatch",
         NEW k, k.sslconn = conn.sslconn, NEW h, fifo' = fifo, Close(k, h)
  PROVE  Plains' /\ EndsOnlyBy'
  <1>1. conn # NoConn /\ Plain(conn)
    BY AtDispatch DEF Plains
  <1>2. CASE k.sslconn = "wild"
    <2>1. UNCHANGED <<pc, conn>> /\ proc' = "undefined"
      BY <1>2 DEF Close, Undefined
    <2>2. Plains'
      BY <2>1 DEF Plains, Plain
    <2>3. conn.sslconn = "wild" /\ conn.sslstrat # "IMPLICIT_TLS"
      BY <1>1, <1>2 DEF Plain
    <2> QED
      BY <2>1, <2>2, <2>3 DEF EndsOnlyBy
  <1>3. CASE k.sslconn # "wild"
    <2>1. conn' = NoConn /\ proc' = "running"
      BY <1>3 DEF Close, Processed
    <2> QED
      BY <2>1, RunningOn DEF Plains, Plain
  <1> QED
    BY <1>2, <1>3

\* The connection just handled goes back to the queue.
LEMMA RequeueStep ==
  ASSUME IInv, Plains, proc = "running", pc = "dispatch",
         NEW k, k.sslconn = conn.sslconn, k.sslstrat = conn.sslstrat,
         NEW h, Requeue(k, h)
  PROVE  Plains' /\ EndsOnlyBy'
  <1>1. PICK r \in {0, 1} :
          /\ Queue!Enqueue(k, r)
          /\ \/ r = 0 /\ proc' = proc /\ Processed
             \/ r # 0 /\ Close(k, h)
    BY DEF Requeue
  <1>2. CASE r = 1
    <2>1. fifo' = fifo
      BY <1>1, <1>2, MutexAssumption DEF Queue!Enqueue, Queue!UnlockResults
    <2> QED
      BY <1>1, <1>2, <2>1, CloseStep
  <1>3. CASE r = 0
    <2>1. fifo' = Append(fifo, k) /\ conn' = NoConn /\ proc' = "running"
      BY <1>1, <1>3 DEF Queue!Enqueue, Processed
    <2>2. Plain(k)
      BY AtDispatch DEF Plains, Plain
    <2> QED
      BY <2>1, <2>2, AppendPlains, RunningOn
  <1> QED
    BY <1>2, <1>3

\* The switch on the handler's result.
LEMMA DispatchStep ==
  ASSUME IInv, Plains, proc = "running",
         DispatchContinue \/ DispatchReset \/ DispatchClose
  PROVE  Plains' /\ EndsOnlyBy'
  <1>1. pc = "dispatch"
    BY DEF DispatchContinue, DispatchReset, DispatchClose
  <1>2. CASE DispatchContinue
    BY <1>1, <1>2, RequeueStep DEF DispatchContinue
  <1>3. CASE DispatchReset
    <2> DEFINE k == reset_connection(conn)
    <2>1. k.sslconn = conn.sslconn /\ k.sslstrat = conn.sslstrat
      BY <1>1, AtDispatch DEF reset_connection, Connection
    <2>2. PICK h : Requeue(k, h)
      BY <1>3 DEF DispatchReset
    <2> HIDE DEF k
    <2> QED
      BY <1>1, <2>1, <2>2, RequeueStep
  <1>4. CASE DispatchClose
    BY <1>1, <1>4, CloseStep DEF DispatchClose
  <1> QED
    BY <1>2, <1>3, <1>4

\* An accepted connection is queued, or turned away.
LEMMA AcceptStep ==
  ASSUME IInv, Plains, proc = "running", NEW c \in Clients, handle_connection(c)
  PROVE  Plains' /\ EndsOnlyBy'
  <1> DEFINE type == Listeners[at].type
  <1>1. PICK sslconn \in InitialSslconn(type), r \in {0, 1} :
          /\ Queue!Enqueue(connection_init(c, type, sslconn), r)
          /\ \/ proc' = proc
             \/ r # 0 /\ sslconn = "wild" /\ proc' = "undefined" /\ UNCHANGED <<pc, at>>
    BY DEF handle_connection
  <1> DEFINE k == connection_init(c, type, sslconn)
  <1>2. pc = "accept" /\ conn' = NoConn /\ conn = NoConn
    BY DEF handle_connection, IInv, Types, TypeOK
  <1>3. sslconn = "wild" => Strategy(type) # "IMPLICIT_TLS"
    BY <1>1 DEF InitialSslconn
  <1>4. Plain(k)
    <2>1. k.sslconn = sslconn /\ k.sslstrat = Strategy(type)
      BY Zenon DEF connection_init
    <2> QED
      BY <1>3, <2>1 DEF Plain
  <1>5. fifo' = Append(fifo, k) \/ fifo' = fifo
    BY <1>1 DEF Queue!Enqueue
  <1> HIDE DEF k
  <1>6. Plains'
    <2>1. CASE fifo' = Append(fifo, k)
      BY <1>2, <1>4, <2>1, AppendPlains
    <2>2. CASE fifo' = fifo
      BY <1>2, <2>2 DEF Plains, Plain
    <2> QED
      BY <1>5, <2>1, <2>2
  <1>7. EndsOnlyBy'
    <2>1. CASE proc' = proc
      BY <2>1, RunningOn
    <2>2. CASE sslconn = "wild" /\ proc' = "undefined" /\ UNCHANGED <<pc, at>>
      BY <1>2, <1>3, <2>2 DEF EndsOnlyBy
    <2> QED
      BY <1>1, <2>1, <2>2
  <1> QED
    BY <1>6, <1>7

\* Only a signal disarms, and it asks for a stop.
LEMMA MasterArmed ==
  ASSUME Armed, MasterStep PROVE Armed'
  <1>1. UNCHANGED <<stop_signal, armed>>
    BY DEF MasterStep, Loop, AcceptNothing, handle_connection, process_connection,
       Take, Handle, DispatchContinue, DispatchReset, DispatchClose, Requeue, Close,
       Processed
  <1> QED
    BY <1>1 DEF Armed
-----------------------------------------------------------------------------
(* The theorem. *)

\* Every step of the process keeps the invariant.
LEMMA NextEInv == EInv /\ [Next]_vars => EInv'
  <1> SUFFICES ASSUME EInv, [Next]_vars PROVE EInv'
    OBVIOUS
  <1>1. IInv /\ IInv' /\ Plains /\ Armed /\ EndsOnlyBy
    BY NextIInv DEF EInv
  <1>2. CASE MasterStep
    <2>1. Armed' /\ proc = "running"
      BY <1>1, <1>2, MasterArmed DEF MasterStep
    <2>2. CASE Loop \/ AcceptNothing
      <3>1. UNCHANGED <<fifo, conn, proc>>
        BY <2>2 DEF Loop, AcceptNothing
      <3>2. Plains' /\ EndsOnlyBy'
        BY <1>1, <2>1, <3>1, RunningOn DEF Plains, Plain
      <3> QED
        BY <1>1, <2>1, <3>2 DEF EInv
    <2>3. CASE \/ \E c \in Clients : handle_connection(c)
               \/ process_connection
      <3>1. Plains' /\ EndsOnlyBy'
        BY <1>1, <2>1, <2>3, AcceptStep, TakeStep, HandleStep, DispatchStep
           DEF process_connection
      <3> QED
        BY <1>1, <2>1, <3>1 DEF EInv
    <2> QED
      BY <1>2, <2>2, <2>3 DEF MasterStep
  <1>3. CASE \E c \in Clients : Peer(c) /\ UNCHANGED <<at, fifo, stop_signal, armed>>
    <2>1. proc' = "running" /\ UNCHANGED <<conn, fifo, stop_signal, armed>>
      BY <1>3 DEF Peer
    <2> QED
      BY <1>1, <2>1, RunningOn DEF EInv, Plains, Plain, Armed
  <1>4. CASE \E s \in Signals : Signal(s)
    <2>0. PICK s \in Signals :
            /\ UNCHANGED <<conn, fifo>> /\ proc = "running"
            /\ \/ stop_signal' = TRUE /\ proc' = proc
               \/ s \notin armed /\ proc' = "killed" /\ UNCHANGED <<stop_signal, armed>>
      BY <1>4, Zenon DEF Signal
    <2>1. UNCHANGED <<conn, fifo>> /\ Armed'
      BY <1>1, <2>0 DEF Armed
    <2>2. proc' = "running" \/ (proc' = "killed" /\ stop_signal')
      BY <1>1, <2>0 DEF Armed
    <2>3. EndsOnlyBy'
      BY <2>2, Zenon DEF EndsOnlyBy
    <2> QED
      BY <1>1, <2>1, <2>3 DEF EInv, Plains, Plain
  <1>5. CASE UNCHANGED vars
    BY <1>1, <1>5, Zenon DEF vars, callvars, EInv, Plains, Plain, Armed, EndsOnlyBy, Self
  <1> QED
    BY <1>2, <1>3, <1>4, <1>5 DEF Next, Ended

\* Whatever the peers, the services and the failures, the process ends early
\* only for the reasons EndsOnlyBy lists (master.c:21-37, 162-247,
\* smtp.h:28-45).
THEOREM EndsExplained == Spec => []EndsOnlyBy
  <1>1. Init => EInv
    BY InitIInv DEF Init, EInv, Plains, Armed, EndsOnlyBy
  <1>2. EInv => EndsOnlyBy
    BY DEF EInv
  <1> QED
    BY <1>1, <1>2, NextEInv, PTL DEF Spec
=============================================================================
