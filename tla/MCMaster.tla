------------------------------ MODULE MCMaster ------------------------------
(* Model-checking instances of Master. *)
EXTENDS Master, TLC

Cmd(tok)       == [tok |-> tok, len |-> 1, eom |-> FALSE]
Text(len, eom) == [tok |-> "TEXT", len |-> len, eom |-> eom]

\* One SMTP listener, both families, one of them not up.
SmtpOnly == <<[type |-> "SMTP_CONNECTION", up |-> TRUE],
              [type |-> "SMTP_CONNECTION", up |-> FALSE]>>

\* One SMTP listener, up.
OneListener == <<[type |-> "SMTP_CONNECTION", up |-> TRUE]>>

\* All services, one family each.
AllServices == <<[type |-> "SMTP_CONNECTION",     up |-> TRUE],
                 [type |-> "SMTPS_CONNECTION",    up |-> TRUE],
                 [type |-> "STARTTLS_CONNECTION", up |-> TRUE],
                 [type |-> "HTTP_CONNECTION",     up |-> TRUE],
                 [type |-> "HTTPS_CONNECTION",    up |-> TRUE]>>

\* What is up without an SSL context.
PlainServices == <<[type |-> "SMTP_CONNECTION", up |-> TRUE],
                   [type |-> "HTTP_CONNECTION", up |-> TRUE]>>

\* A service that is upgraded to TLS and one that begins with it.
TlsServices == <<[type |-> "SMTP_CONNECTION",  up |-> TRUE],
                 [type |-> "HTTPS_CONNECTION", up |-> TRUE]>>

\* All that moves an SMTP session, and message text: some that leaves room in the
\* buffer, some that ends the message, some that fills the buffer.
SessionPieces ==
  {Cmd(t) : t \in {"HELO", "MAIL", "RCPT", "DATA", "RSET", "NOOP", "STARTTLS",
                   "TLS", "BADREC"}}
  \cup {Text(1, FALSE), Text(2, TRUE), Text(4, FALSE)}

\* What distinguishes the services: a handshake, a short and a long request.
ServicePieces == {Cmd("TLS"), Cmd("BADREC"), Cmd("QUIT"), Text(3, FALSE)}

\* Messages in small reads.
MessagePieces == {Cmd("DATA"), Text(1, FALSE), Text(2, TRUE), Text(4, FALSE)}

\* Everything that is to be answered: all commands but NOOP, messages of one and
\* of several reads, requests that fit the buffer.
AnsweredPieces ==
  {Cmd(t) : t \in Commands \ {"NOOP"}} \cup {Cmd("JUNK"), Cmd("TLS"), Cmd("BADREC")}
  \cup {Text(1, FALSE), Text(1, TRUE)}

\* Peers that say little.
NoopPieces == {Cmd("NOOP")}

\* A mail session with an upgrade to TLS.
UpgradePieces == {Cmd("STARTTLS"), Cmd("TLS"), Cmd("BADREC")}

Swap == Permutations(Clients)
=============================================================================
