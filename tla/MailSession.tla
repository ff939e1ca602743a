---------------------------- MODULE MailSession ----------------------------
(***************************************************************************)
(* What the SMTP service promises each client: the order in which a session *)
(* moves, whatever is pipelined, cut, lost or late on the way there.        *)
(*                                                                         *)
(*   phase   "absent", "opened" (not greeted by the server), "any" (the     *)
(*           client has not said hello since the last reset), "greeted",    *)
(*           "mailing", "rcpt", "data", "tls" (negotiating), "gone"         *)
(*   secure  "plain", "pending" (a handshake is due), "tls" or "dead"       *)
(*   size    the bytes of the message received so far                       *)
(***************************************************************************)
EXTENDS Integers

CONSTANTS Clients, Limit

VARIABLE session

Idle == {"any", "greeted", "mailing", "rcpt"}

Absent == [phase |-> "absent", secure |-> "plain", size |-> 0]

Init == session = [c \in Clients |-> Absent]

\* A session that takes commands: no handshake is due and none has failed.
Commanded(c) ==
  session[c].phase \in Idle /\ session[c].secure \in {"plain", "tls"}

To(c, phase) == session' = [session EXCEPT ![c].phase = phase]

\* Accepting a connection, on a plain or on a TLS service.
Open(c) ==
  /\ session[c].phase = "absent"
  /\ \E s \in {"plain", "pending"} :
       session' = [session EXCEPT ![c].phase = "opened", ![c].secure = s]

\* A connection is closed, or turned away.
Close(c) ==
  session' = [session EXCEPT ![c] = [Absent EXCEPT !.phase = "gone"]]

Greet(c) == session[c].phase = "opened" /\ To(c, "any")

Hello(c) == Commanded(c) /\ To(c, "greeted")

\* MAIL needs a greeting, or a message that was accepted, since the last reset.
Mail(c) == Commanded(c) /\ session[c].phase # "any" /\ To(c, "mailing")

\* RCPT needs a MAIL.
Rcpt(c) == Commanded(c) /\ session[c].phase \in {"mailing", "rcpt"} /\ To(c, "rcpt")

\* DATA needs nothing.
Data(c) == Commanded(c) /\ To(c, "data")

\* A reset forgets the mail, and with it, once one was begun, the greeting.
Reset(c) == Commanded(c) /\ session[c].phase # "greeted" /\ To(c, "any")

\* A part of the message that is not its end is stored.
Store(c) ==
  /\ session[c].phase = "data"
  /\ \E n \in session[c].size + 1 .. Limit :
       session' = [session EXCEPT ![c].size = n]

\* The end of the message, or the end of its room.
Accept(c) ==
  /\ session[c].phase = "data"
  /\ session' = [session EXCEPT ![c].phase = "greeted", ![c].size = 0]

Refuse(c) ==
  /\ session[c].phase = "data"
  /\ session' = [session EXCEPT ![c].phase = "any", ![c].size = 0]

StartTls(c) ==
  /\ Commanded(c)
  /\ session' = [session EXCEPT ![c].phase = "tls", ![c].secure = "pending"]

\* The handshake, after which nothing said before it counts; on a TLS service
\* the phase has no meaning.
Negotiate(c) ==
  /\ session[c].secure = "pending"
  /\ session' = [session EXCEPT ![c].secure = "tls",
                                ![c].phase = IF @ = "tls" THEN "any" ELSE @]

Fail(c) ==
  /\ session[c].secure \in {"pending", "tls"}
  /\ session' = [session EXCEPT ![c].secure = "dead"]

Next ==
  \E c \in Clients :
    \/ Open(c) \/ Close(c) \/ Greet(c) \/ Hello(c) \/ Mail(c) \/ Rcpt(c)
    \/ Data(c) \/ Reset(c) \/ Store(c) \/ Accept(c) \/ Refuse(c)
    \/ StartTls(c) \/ Negotiate(c) \/ Fail(c)

Spec == Init /\ [][Next]_session
=============================================================================
