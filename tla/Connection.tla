----------------------------- MODULE Connection -----------------------------
(***************************************************************************)
(* The Connection struct of femail.h and the functions of master.c that    *)
(* fill it in and reset it.  The record keeps the fields control depends   *)
(* on:                                                                     *)
(*   client            clientsocket, named after the peer                  *)
(*   sslconn           the SSL pointer and what it points to: "null",      *)
(*                     "wild" (never assigned), "fresh" (no handshake      *)
(*                     yet), "up" or "broken" (after a fatal TLS error)    *)
(*   messagebuffer     the size of the allocated buffer, 0 for nullptr     *)
(*   messagebufferend  the number of message bytes in it                   *)
(* The time stamps and messagebuffersize are written and never read; the   *)
(* client's domain only shows in replies.                                  *)
(***************************************************************************)
EXTENDS Integers

CONSTANTS
  Clients,        \* peers; each opens one connection
  StackSslconn,   \* what the uninitialised sslconn of handle_connection's
                  \* local variable may hold: a subset of {"null", "wild"}
  CtxLoaded       \* sslctx is not nullptr: certificate and key were loaded

ASSUME StackAssumption == StackSslconn \subseteq {"null", "wild"}
ASSUME CtxAssumption   == CtxLoaded \in BOOLEAN

ConnectionType ==
  {"SMTP_CONNECTION", "SMTPS_CONNECTION", "STARTTLS_CONNECTION",
   "HTTP_CONNECTION", "HTTPS_CONNECTION"}

ConnectionState ==
  {"MAIL_CONNECTION_OPENED", "MAIL_CONNECTION_EXPECT_ANY",
   "MAIL_CONNECTION_GREETED", "MAIL_CONNECTION_MAILING",
   "MAIL_CONNECTION_RCPT", "MAIL_CONNECTION_EXPECT_TLS_NEG",
   "MAIL_CONNECTION_EXPECT_DATA", "HTTP_CONNECTION_OPENED"}

SSL_STRATEGY == {"NO_SSL", "OPPORTUNISTIC_TLS", "IMPLICIT_TLS"}

ConnectionHandlerResult ==
  {"CONNECTION_DONE", "CONNECTION_CONTINUE", "CONNECTION_RESET",
   "CONNECTION_ERROR"}

SslPointer == {"null", "wild", "fresh", "up", "broken"}

Connection ==
  [client : Clients, type : ConnectionType, sslstrat : SSL_STRATEGY,
   live : BOOLEAN, state : ConnectionState, sslconn : SslPointer,
   alloccount : Nat, messagebuffer : Nat, messagebufferend : Nat]

\* The strategy start_master_service passes for each service; smtpctx.starttls
\* is set by start_smtp exactly when there is an SSL context.
Strategy(type) ==
  CASE type = "SMTP_CONNECTION" ->
         IF CtxLoaded THEN "OPPORTUNISTIC_TLS" ELSE "NO_SSL"
    [] type = "STARTTLS_CONNECTION" -> "OPPORTUNISTIC_TLS"
    [] type = "HTTP_CONNECTION"     -> "NO_SSL"
    [] OTHER                        -> "IMPLICIT_TLS"

\* Mutant: no strategy assigns sslconn.
InitialSslconnUnset(type) == StackSslconn

\* The values sslconn may have after connection_init.  Only IMPLICIT_TLS
\* assigns it; otherwise it keeps what the stack held.
InitialSslconn(type) ==
  IF Strategy(type) = "IMPLICIT_TLS" THEN {"fresh"} ELSE StackSslconn

connection_init(client, type, sslconn) ==
  [client           |-> client,
   type             |-> type,
   sslstrat         |-> Strategy(type),
   live             |-> TRUE,
   state            |-> IF type \in {"HTTP_CONNECTION", "HTTPS_CONNECTION"}
                        THEN "HTTP_CONNECTION_OPENED"
                        ELSE "MAIL_CONNECTION_OPENED",
   sslconn          |-> sslconn,
   alloccount       |-> 0,
   messagebuffer    |-> 0,
   messagebufferend |-> 0]

\* Mutant: the end of the message is not reset with the rest.
ResetKeepsEnd(conn) ==
  [conn EXCEPT
     !.live          = TRUE,
     !.state         = IF @ = "MAIL_CONNECTION_GREETED"
                       THEN @ ELSE "MAIL_CONNECTION_EXPECT_ANY",
     !.alloccount    = 0,
     !.messagebuffer = 0]

\* Mutant: the freed buffer's address is kept.
ResetKeepsPointer(conn) ==
  [conn EXCEPT
     !.live             = TRUE,
     !.state            = IF @ = "MAIL_CONNECTION_GREETED"
                          THEN @ ELSE "MAIL_CONNECTION_EXPECT_ANY",
     !.alloccount       = 0,
     !.messagebufferend = 0]

\* Mutant: the SSL object is dropped with the rest.
ResetDropsTls(conn) ==
  [conn EXCEPT
     !.live             = TRUE,
     !.state            = IF @ = "MAIL_CONNECTION_GREETED"
                          THEN @ ELSE "MAIL_CONNECTION_EXPECT_ANY",
     !.sslconn          = "null",
     !.alloccount       = 0,
     !.messagebufferend = 0,
     !.messagebuffer    = 0]

\* reset_connection, apart from the free of the message buffer, which the
\* caller accounts for.
reset_connection(conn) ==
  [conn EXCEPT
     !.live             = TRUE,
     !.state            = IF @ = "MAIL_CONNECTION_GREETED"
                          THEN @ ELSE "MAIL_CONNECTION_EXPECT_ANY",
     !.alloccount       = 0,
     !.messagebufferend = 0,
     !.messagebuffer    = 0]
=============================================================================
