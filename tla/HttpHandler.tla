---------------------------- MODULE HttpHandler ----------------------------
(***************************************************************************)
(* http.c: a request is answered by the read that leaves the buffer short  *)
(* of full; a read that fills it only means there is more to come.         *)
(***************************************************************************)
EXTENDS Runtime

\* The handler's verdict on a read.
ReadResult(o) ==
  CASE o.how = "again"                      -> "CONNECTION_CONTINUE"
    [] o.how = "data" /\ o.len >= BufSize - 1 -> "CONNECTION_CONTINUE"
    [] o.how = "data"                       -> "CONNECTION_DONE"
    [] OTHER                                -> "CONNECTION_ERROR"

\* The reply is sent when the request is complete.
Respond(o, msg) ==
  IF ReadResult(o) = "CONNECTION_DONE" THEN Say(msg, o) ELSE Quiet(o)

http_handler ==
  /\ pc = "handle"
  /\ conn.type = "HTTP_CONNECTION"
  /\ \E o \in read(Self) : Respond(o, "301") /\ Return(conn, ReadResult(o))
  /\ UNCHANGED heap

\* SSL_accept does the handshake, and may block; once it is done, in this call
\* or in an earlier one, the request is read.
https_handler ==
  /\ pc = "handle"
  /\ conn.type = "HTTPS_CONNECTION"
  /\ \/ \E o \in SSL_accept(Self, conn.sslconn) :
          /\ o.how # "data"
          /\ Quiet(o)
          /\ Return([conn EXCEPT !.sslconn = o.ssl], "CONNECTION_ERROR")
     \/ \E o \in SSL_accept(Self, conn.sslconn) :
          /\ o.how = "data" /\ conn.sslconn = "fresh"
          /\ Quiet(o)
          /\ conn' = [conn EXCEPT !.sslconn = o.ssl]
          /\ intr' = FALSE
          /\ UNCHANGED <<pc, result>>
     \/ /\ conn.sslconn = "up"
        /\ \E o \in SSL_read(Self, "up") :
             /\ Respond(o, "204")
             /\ Return([conn EXCEPT !.sslconn = o.ssl], ReadResult(o))
  /\ UNCHANGED heap
=============================================================================
