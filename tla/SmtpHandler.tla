---------------------------- MODULE SmtpHandler ----------------------------
(***************************************************************************)
(* smtp.c: smtp_handler, one action per return path, and smtps_handler and *)
(* starttls_handler.  A handler call is one step: it makes at most one     *)
(* read and one write, and a peer that acts between them is a peer that    *)
(* acted before the read, for data received before a reset stays readable. *)
(***************************************************************************)
EXTENDS Runtime

CONSTANTS
  ESMTP_SIZE,   \* the largest message, as announced in the EHLO reply
  AllocFails    \* realloc may return nullptr

ASSUME EsmtpAssumption == ESMTP_SIZE \in Nat /\ AllocFails \in BOOLEAN

\* The handler runs on a connection of this type.
Handling(type) == pc = "handle" /\ conn.type = type /\ conn.sslconn # "wild"

\* smtp_receive_msg, the TLS or the plain read.
smtp_receive_msg ==
  IF conn.sslconn # "null" THEN SSL_read(Self, conn.sslconn) ELSE read(Self)

\* smtp_handler has come to its read.
Reading ==
  /\ Handling("SMTP_CONNECTION")
  /\ conn.state \notin {"MAIL_CONNECTION_OPENED", "MAIL_CONNECTION_EXPECT_TLS_NEG"}

\* An uninitialised sslconn is not null, so the reply goes to SSL_write.
UseWildSslconn ==
  /\ pc = "handle"
  /\ conn.type \in {"SMTP_CONNECTION", "STARTTLS_CONNECTION"}
  /\ conn.sslconn = "wild"
  /\ Undefined

SmtpOpened ==
  /\ Handling("SMTP_CONNECTION")
  /\ conn.state = "MAIL_CONNECTION_OPENED"
  /\ Say("220 ESMTP", Outcome("data", Self.rx, conn.sslconn))
  /\ Return([conn EXCEPT !.state = "MAIL_CONNECTION_EXPECT_ANY"],
            "CONNECTION_CONTINUE")
  /\ UNCHANGED heap

SmtpTlsNegotiation ==
  /\ Handling("SMTP_CONNECTION")
  /\ conn.state = "MAIL_CONNECTION_EXPECT_TLS_NEG"
  /\ \E o \in SSL_accept(Self, conn.sslconn) :
       /\ Quiet(o)
       /\ Return([conn EXCEPT !.sslconn = o.ssl,
                              !.state = IF o.how = "data"
                                        THEN "MAIL_CONNECTION_EXPECT_ANY" ELSE @],
                 IF o.how = "error" THEN "CONNECTION_ERROR"
                                    ELSE "CONNECTION_CONTINUE")
  /\ UNCHANGED heap

\* Mutant: the end of the stream is taken for nothing to read.
SmtpEofIgnored ==
  /\ Reading
  /\ \E o \in smtp_receive_msg :
       /\ o.how # "data"
       /\ Quiet(o)
       /\ Return([conn EXCEPT !.sslconn = o.ssl],
                 IF o.how = "error" THEN "CONNECTION_ERROR"
                                    ELSE "CONNECTION_CONTINUE")
  /\ UNCHANGED heap

SmtpReadFails ==
  /\ Reading
  /\ \E o \in smtp_receive_msg :
       /\ o.how # "data"
       /\ Quiet(o)
       /\ Return([conn EXCEPT !.sslconn = o.ssl],
                 IF o.how = "again" THEN "CONNECTION_CONTINUE"
                                    ELSE "CONNECTION_ERROR")
  /\ UNCHANGED heap

SmtpLineTooLong ==
  /\ Reading
  /\ conn.state # "MAIL_CONNECTION_EXPECT_DATA"
  /\ \E o \in smtp_receive_msg :
       /\ o.how = "data" /\ o.len >= BufSize - 1
       /\ Say("500 Too long", o)
  /\ Return(conn, "CONNECTION_ERROR")
  /\ UNCHANGED heap
-----------------------------------------------------------------------------
(* Message text. *)

\* What is read of the message in this call.
Body ==
  {o \in smtp_receive_msg : /\ conn.state = "MAIL_CONNECTION_EXPECT_DATA"
                            /\ o.how = "data"}

\* The size the buffer is grown to: one more SMALL_BUFFER_SIZE per read.
Grown == (conn.alloccount + 1) * BufSize + 1

BodyTooLarge ==
  /\ Reading
  /\ Grown > ESMTP_SIZE
  /\ \E o \in Body : Say("554 Too Large", o)
  /\ Return([conn EXCEPT !.alloccount = @ + 1], "CONNECTION_RESET")
  /\ UNCHANGED heap

\* Mutant: a failed allocation does not end the connection.
BodyAllocFailsContinues ==
  /\ Reading
  /\ AllocFails
  /\ Grown <= ESMTP_SIZE
  /\ \E o \in Body : Say("500 Bye", o)
  /\ Return([conn EXCEPT !.alloccount = @ + 1, !.messagebuffer = 0],
            "CONNECTION_CONTINUE")
  /\ UNCHANGED heap

\* realloc fails: the old buffer stays allocated and its address is lost.
BodyAllocFails ==
  /\ Reading
  /\ AllocFails
  /\ Grown <= ESMTP_SIZE
  /\ \E o \in Body : Say("500 Bye", o)
  /\ Return([conn EXCEPT !.alloccount = @ + 1, !.messagebuffer = 0],
            "CONNECTION_ERROR")
  /\ UNCHANGED heap

\* Mutant: a finished message is not followed by a reset.
BodyStoredNoReset ==
  /\ Reading
  /\ Grown <= ESMTP_SIZE
  /\ \E o \in Body :
       /\ IF o.eom THEN Say("250 Ok", o) ELSE Quiet(o)
       /\ Return([conn EXCEPT
                    !.alloccount       = @ + 1,
                    !.messagebuffer    = Grown,
                    !.messagebufferend = @ + o.len,
                    !.state = IF o.eom THEN "MAIL_CONNECTION_GREETED" ELSE @],
                 "CONNECTION_CONTINUE")
  /\ heap' = [heap EXCEPT ![conn.client].buf =
                IF conn.messagebuffer = 0 THEN @ + 1 ELSE @]

BodyStored ==
  /\ Reading
  /\ Grown <= ESMTP_SIZE
  /\ \E o \in Body :
       /\ IF o.eom THEN Say("250 Ok", o) ELSE Quiet(o)
       /\ Return([conn EXCEPT
                    !.alloccount       = @ + 1,
                    !.messagebuffer    = Grown,
                    !.messagebufferend = @ + o.len,
                    !.state = IF o.eom THEN "MAIL_CONNECTION_GREETED" ELSE @],
                 IF o.eom THEN "CONNECTION_RESET" ELSE "CONNECTION_CONTINUE")
  /\ heap' = [heap EXCEPT ![conn.client].buf =
                IF conn.messagebuffer = 0 THEN @ + 1 ELSE @]
-----------------------------------------------------------------------------
(* Commands.  parse_client_command looks at the start of what was read, so  *)
(* of several commands in one read only the first is seen.                  *)

\* Reads that parse_client_command takes for tok.
Command(tok) ==
  {o \in smtp_receive_msg : /\ conn.state # "MAIL_CONNECTION_EXPECT_DATA"
                            /\ o.how = "data"
                            /\ o.len < BufSize - 1
                            /\ o.tok = tok}

Commands ==
  {"NOOP", "QUIT", "RSET", "DATA", "HELP", "HELO", "HELO_LONG", "EHLO",
   "EHLO_LONG", "MAIL", "RCPT", "VRFY", "EXPN", "STARTTLS"}

\* A command whose only effects are a reply and perhaps a new state.
Answer(tok, msg, state, r) ==
  /\ Reading
  /\ \E o \in Command(tok) : Say(msg, o)
  /\ Return([conn EXCEPT !.state = state], r)
  /\ UNCHANGED heap

Unrecognized ==
  /\ Reading
  /\ \E tok \in {p.tok : p \in Pieces} \ Commands : \E o \in Command(tok) :
       Say("500 Unrecognized", o)
  /\ Return(conn, "CONNECTION_CONTINUE")
  /\ UNCHANGED heap

SMTP_NOOP ==
  /\ Reading
  /\ \E o \in Command("NOOP") : Quiet(o)
  /\ Return(conn, "CONNECTION_CONTINUE")
  /\ UNCHANGED heap

SMTP_QUIT == Answer("QUIT", "221", conn.state, "CONNECTION_DONE")
SMTP_RSET == Answer("RSET", "250 Ok", conn.state, "CONNECTION_RESET")
SMTP_HELP == Answer("HELP", "250 Ok", conn.state, "CONNECTION_CONTINUE")
SMTP_VRFY == Answer("VRFY", "502", conn.state, "CONNECTION_CONTINUE")
SMTP_EXPN == Answer("EXPN", "502", conn.state, "CONNECTION_CONTINUE")

SMTP_DATA ==
  Answer("DATA", "354", "MAIL_CONNECTION_EXPECT_DATA", "CONNECTION_CONTINUE")

\* The _LONG commands carry a domain that move_client_mail_domain refuses.
SMTP_HELO ==
  \/ Answer("HELO", "250 Hello", "MAIL_CONNECTION_GREETED", "CONNECTION_CONTINUE")
  \/ Answer("HELO_LONG", "500 Too long", conn.state, "CONNECTION_CONTINUE")

SMTP_EHLO ==
  \/ Answer("EHLO", "250 SIZE", "MAIL_CONNECTION_GREETED", "CONNECTION_CONTINUE")
  \/ Answer("EHLO_LONG", "500 Too long", conn.state, "CONNECTION_CONTINUE")

\* Mutant: MAIL before a greeting is dropped without a reply.
MailDropped ==
  \/ /\ Reading /\ conn.state = "MAIL_CONNECTION_EXPECT_ANY"
     /\ \E o \in Command("MAIL") : Quiet(o)
     /\ Return(conn, "CONNECTION_CONTINUE")
     /\ UNCHANGED heap
  \/ /\ Reading /\ conn.state # "MAIL_CONNECTION_EXPECT_ANY"
     /\ Answer("MAIL", "250 Ok", "MAIL_CONNECTION_MAILING", "CONNECTION_CONTINUE")

SMTP_MAIL ==
  \/ /\ Reading /\ conn.state = "MAIL_CONNECTION_EXPECT_ANY"
     /\ Answer("MAIL", "503", conn.state, "CONNECTION_CONTINUE")
  \/ /\ Reading /\ conn.state # "MAIL_CONNECTION_EXPECT_ANY"
     /\ Answer("MAIL", "250 Ok", "MAIL_CONNECTION_MAILING", "CONNECTION_CONTINUE")

\* MAIL has been accepted, and since then nothing but RCPT.
Mailing == conn.state \in {"MAIL_CONNECTION_MAILING", "MAIL_CONNECTION_RCPT"}

SMTP_RCPT ==
  \/ /\ Reading /\ ~Mailing
     /\ Answer("RCPT", "503", conn.state, "CONNECTION_CONTINUE")
  \/ /\ Reading /\ Mailing
     /\ Answer("RCPT", "250 Ok", "MAIL_CONNECTION_RCPT", "CONNECTION_CONTINUE")

\* Mutant: the handshake is awaited without telling the peer.
StartTlsSilent ==
  /\ Reading
  /\ CtxLoaded
  /\ \E o \in Command("STARTTLS") : Quiet(o)
  /\ Return([conn EXCEPT !.state = "MAIL_CONNECTION_EXPECT_TLS_NEG",
                         !.sslconn = "fresh"], "CONNECTION_CONTINUE")
  /\ heap' = [heap EXCEPT ![conn.client].ssl = @ + 1]

\* STARTTLS replaces conn->sslconn whatever it was.
SMTP_STARTTLS ==
  /\ Reading
  /\ CtxLoaded
  /\ \E o \in Command("STARTTLS") : Say("220 Go ahead", o)
  /\ Return([conn EXCEPT !.state = "MAIL_CONNECTION_EXPECT_TLS_NEG",
                         !.sslconn = "fresh"], "CONNECTION_CONTINUE")
  /\ heap' = [heap EXCEPT ![conn.client].ssl = @ + 1]

\* Without an SSL context the reply is sent all the same; SSL_new then
\* returns NULL and SSL_set_fd is called on it, unless the reply killed the
\* process.
SMTP_STARTTLS_no_context ==
  /\ Reading
  /\ ~CtxLoaded
  /\ \E o \in Command("STARTTLS") : Sent("220 Go ahead", o)
  /\ proc' \in {"undefined"} \cup Sigpipe
  /\ UNCHANGED <<heap, pc, conn, result, intr>>

smtp_handler ==
  \/ SmtpOpened
  \/ SmtpTlsNegotiation
  \/ SmtpReadFails
  \/ SmtpLineTooLong
  \/ BodyTooLarge
  \/ BodyAllocFails
  \/ BodyStored
  \/ Unrecognized
  \/ SMTP_NOOP \/ SMTP_QUIT \/ SMTP_RSET \/ SMTP_DATA \/ SMTP_HELP
  \/ SMTP_HELO \/ SMTP_EHLO \/ SMTP_MAIL \/ SMTP_RCPT \/ SMTP_VRFY
  \/ SMTP_EXPN \/ SMTP_STARTTLS \/ SMTP_STARTTLS_no_context
-----------------------------------------------------------------------------
(* The other two mail services. *)

smtps_handler ==
  /\ Handling("SMTPS_CONNECTION")
  /\ \E o \in SSL_accept(Self, conn.sslconn) :
       \/ /\ o.how # "data"
          /\ Quiet(o)
          /\ Return([conn EXCEPT !.sslconn = o.ssl], "CONNECTION_ERROR")
       \/ /\ o.how = "data"
          /\ Say("502", o)
          /\ Return([conn EXCEPT !.sslconn = o.ssl], "CONNECTION_DONE")
  /\ UNCHANGED heap

starttls_handler ==
  /\ Handling("STARTTLS_CONNECTION")
  /\ Say("523", Outcome("data", Self.rx, conn.sslconn))
  /\ Return(conn, "CONNECTION_DONE")
  /\ UNCHANGED heap
=============================================================================
