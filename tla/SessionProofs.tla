---------------------------- MODULE SessionProofs ----------------------------
(***************************************************************************)
(* Master implements MailSession: whatever the peers do, however many there *)
(* are, every session moves only as the abstract one allows.                *)
(***************************************************************************)
EXTENDS MasterProofs

\* Connection k as MailSession sees it.
View(k) ==
  [phase |-> PhaseName[k.state], secure |-> SecureName[k.sslconn],
   size |-> k.messagebufferend]

Gone == [Session0 EXCEPT !.phase = "gone"]

\* The connection in hand, as the dispatch will leave it.
Seen ==
  IF pc = "dispatch" /\ result = "CONNECTION_RESET" THEN reset_connection(conn)
                                                    ELSE conn

\* SessionOf without its CHOOSE.
Reads ==
  /\ \A c \in Clients, i \in DOMAIN fifo :
       fifo[i].client = c => SessionOf(c) = View(fifo[i])
  /\ \A c \in Clients :
       conn # NoConn /\ conn.client = c => SessionOf(c) = View(Seen)
  /\ \A c \in Clients :
       sock[c].phase \in {"idle", "backlog"} => SessionOf(c) = Session0
  /\ \A c \in Clients : sock[c].phase = "closed" => SessionOf(c) = Gone

\* Each service's connections keep to its states, and a handshake is due on a
\* connection that waits for one.
Shaped(k) ==
  /\ k.type = "SMTP_CONNECTION" => k.state # "HTTP_CONNECTION_OPENED"
  /\ k.type # "SMTP_CONNECTION" =>
       k.state \in {"MAIL_CONNECTION_OPENED", "HTTP_CONNECTION_OPENED"}
  /\ k.state = "MAIL_CONNECTION_EXPECT_TLS_NEG" => k.sslconn \in {"fresh", "broken"}

Shapes ==
  /\ \A i \in DOMAIN fifo : Shaped(fifo[i])
  /\ conn # NoConn => Shaped(conn)
  /\ pc = "dispatch" /\ result = "CONNECTION_RESET" => conn.type = "SMTP_CONNECTION"

\* The invariant of the refinement.
RInv == IInv /\ Shapes
-----------------------------------------------------------------------------
(* Reading the sessions off the connections. *)

\* A held connection is the only one of its client.
LEMMA OnlyHeld ==
  ASSUME IInv, NEW k \in Held
  PROVE  (CHOOSE h \in Held : h.client = k.client) = k
  <1>1. \A i \in DOMAIN fifo : fifo[i].client \in Clients
    BY QueuedTypes
  <1>2. \A h \in Held : h.client = k.client => h = k
    BY DEF Held, IInv, Holding
  <1> QED
    BY <1>2

\* The queue holds no NoConn.
LEMMA QueuedNotConn ==
  ASSUME IInv, NEW i \in DOMAIN fifo
  PROVE  fifo[i] # conn /\ fifo[i] \in Held
  <1>1. fifo[i] \in Connection
    BY QueuedTypes
  <1> QED
    BY <1>1, NoConnAssumption DEF Held, IInv, Holding

\* What SessionOf says of each client.
LEMMA SessionsRead == IInv => Reads
  <1> SUFFICES ASSUME IInv PROVE Reads
    OBVIOUS
  <1>1. ASSUME NEW i \in DOMAIN fifo
        PROVE  SessionOf(fifo[i].client) = View(fifo[i])
    <2>1. sock[fifo[i].client].phase = "open"
      BY DEF IInv, Holding
    <2>2. fifo[i] # conn /\ fifo[i] \in Held
      BY QueuedNotConn
    <2>3. (CHOOSE h \in Held : h.client = fifo[i].client) = fifo[i]
      BY <2>2, OnlyHeld
    <2> QED
      BY <2>1, <2>2, <2>3, Zenon DEF SessionOf, View
  <1>2. ASSUME conn # NoConn
        PROVE  SessionOf(conn.client) = View(Seen)
    <2>1. sock[conn.client].phase = "open"
      BY <1>2 DEF IInv, Holding
    <2>2. conn \in Held
      BY <1>2 DEF Held
    <2>3. (CHOOSE h \in Held : h.client = conn.client) = conn
      BY <2>2, OnlyHeld
    <2>4. CASE pc = "dispatch" /\ result = "CONNECTION_RESET"
      <3>1. Seen = reset_connection(conn)
        BY <2>4 DEF Seen
      <3> HIDE DEF Seen
      <3> QED
        BY <2>1, <2>3, <2>4, <3>1, Zenon DEF SessionOf, View
    <2>5. CASE ~(pc = "dispatch" /\ result = "CONNECTION_RESET")
      BY <2>1, <2>3, <2>5, Zenon DEF SessionOf, View, Seen
    <2> QED
      BY <2>4, <2>5
  <1>3. \A c \in Clients :
          /\ sock[c].phase \in {"idle", "backlog"} => SessionOf(c) = Session0
          /\ sock[c].phase = "closed" => SessionOf(c) = Gone
    BY DEF SessionOf, Gone
  <1> QED
    BY <1>1, <1>2, <1>3, Zenon DEF Reads

\* The names of the states.
LEMMA Phases ==
  /\ PhaseName["MAIL_CONNECTION_OPENED"] = "opened"
  /\ PhaseName["HTTP_CONNECTION_OPENED"] = "opened"
  /\ PhaseName["MAIL_CONNECTION_EXPECT_ANY"] = "any"
  /\ PhaseName["MAIL_CONNECTION_GREETED"] = "greeted"
  /\ PhaseName["MAIL_CONNECTION_MAILING"] = "mailing"
  /\ PhaseName["MAIL_CONNECTION_RCPT"] = "rcpt"
  /\ PhaseName["MAIL_CONNECTION_EXPECT_TLS_NEG"] = "tls"
  /\ PhaseName["MAIL_CONNECTION_EXPECT_DATA"] = "data"
  BY Zenon DEF PhaseName

\* The names of what sslconn points to.
LEMMA Secures ==
  /\ SecureName["null"] = "plain" /\ SecureName["wild"] = "plain"
  /\ SecureName["fresh"] = "pending" /\ SecureName["up"] = "tls"
  /\ SecureName["broken"] = "dead"
  BY Zenon DEF SecureName
-----------------------------------------------------------------------------
(* Steps of one session. *)

Idling(a) ==
  a.phase \in {"any", "greeted", "mailing", "rcpt"} /\ a.secure \in {"plain", "tls"}

\* A session goes from a to b.
Step(a, b) ==
  \/ b = Gone
  \/ /\ a = Session0
     /\ \E s \in {"plain", "pending"} : b = [a EXCEPT !.phase = "opened", !.secure = s]
  \/ a.phase = "opened" /\ b = [a EXCEPT !.phase = "any"]
  \/ Idling(a) /\ b = [a EXCEPT !.phase = "greeted"]
  \/ Idling(a) /\ a.phase # "any" /\ b = [a EXCEPT !.phase = "mailing"]
  \/ Idling(a) /\ a.phase \in {"mailing", "rcpt"} /\ b = [a EXCEPT !.phase = "rcpt"]
  \/ Idling(a) /\ b = [a EXCEPT !.phase = "data"]
  \/ Idling(a) /\ a.phase # "greeted" /\ b = [a EXCEPT !.phase = "any"]
  \/ /\ a.phase = "data"
     /\ \E n \in a.size + 1 .. ESMTP_SIZE : b = [a EXCEPT !.size = n]
  \/ /\ a.phase = "data"
     /\ \E p \in {"greeted", "any"} : b = [a EXCEPT !.phase = p, !.size = 0]
  \/ Idling(a) /\ b = [a EXCEPT !.phase = "tls", !.secure = "pending"]
  \/ /\ a.secure = "pending"
     /\ b = [a EXCEPT !.secure = "tls",
                     !.phase = IF a.phase = "tls" THEN "any" ELSE a.phase]
  \/ a.secure \in {"pending", "tls"} /\ b = [a EXCEPT !.secure = "dead"]

\* A step of one session is a step of MailSession.
LEMMA StepNext ==
  ASSUME NEW c \in Clients, Step(SessionOf(c), SessionOf(c)'),
         \A d \in Clients \ {c} : SessionOf(d)' = SessionOf(d)
  PROVE  MailService!Next
  <1> DEFINE session == [d \in Clients |-> SessionOf(d)]
  <1>1. session[c] = SessionOf(c)
    BY Zenon
  <1>2. session' = [session EXCEPT ![c] = SessionOf(c)']
    BY Zenon
  <1>3. CASE SessionOf(c)' = Gone
    <2>1. MailService!Close(c)
      BY <1>1, <1>2, <1>3 DEF MailService!Close, MailService!Absent, Gone, Session0
    <2> QED
      BY <2>1, Zenon DEF MailService!Next
  <1>4. CASE /\ SessionOf(c) = Session0
             /\ \E s \in {"plain", "pending"} :
                  SessionOf(c)' = [SessionOf(c) EXCEPT !.phase = "opened",
                                                      !.secure = s]
    <2>1. MailService!Open(c)
      <3>1. PICK s \in {"plain", "pending"} :
              SessionOf(c)' = [SessionOf(c) EXCEPT !.phase = "opened", !.secure = s]
        BY <1>4, Zenon
      <3>2. session' = [session EXCEPT ![c] = [session[c] EXCEPT !.phase = "opened",
                                                                 !.secure = s]]
        BY <1>1, <1>2, <3>1
      <3>3. session[c].phase = "absent"
        BY <1>1, <1>4 DEF Session0
      <3> QED
        BY <3>2, <3>3, Zenon DEF MailService!Open
    <2> QED
      BY <2>1, Zenon DEF MailService!Next
  <1>5. CASE /\ SessionOf(c).phase = "opened"
             /\ SessionOf(c)' = [SessionOf(c) EXCEPT !.phase = "any"]
    <2>1. MailService!Greet(c)
      BY <1>1, <1>2, <1>5 DEF MailService!Greet, MailService!To
    <2> QED
      BY <2>1, Zenon DEF MailService!Next
  <1>6. CASE /\ Idling(SessionOf(c))
             /\ SessionOf(c)' = [SessionOf(c) EXCEPT !.phase = "greeted"]
    <2>1. MailService!Hello(c)
      BY <1>1, <1>2, <1>6
         DEF MailService!Hello, MailService!To, MailService!Commanded,
             MailService!Idle, Idling
    <2> QED
      BY <2>1, Zenon DEF MailService!Next
  <1>7. CASE /\ Idling(SessionOf(c)) /\ SessionOf(c).phase # "any"
             /\ SessionOf(c)' = [SessionOf(c) EXCEPT !.phase = "mailing"]
    <2>1. MailService!Mail(c)
      BY <1>1, <1>2, <1>7
         DEF MailService!Mail, MailService!To, MailService!Commanded,
             MailService!Idle, Idling
    <2> QED
      BY <2>1, Zenon DEF MailService!Next
  <1>8. CASE /\ Idling(SessionOf(c)) /\ SessionOf(c).phase \in {"mailing", "rcpt"}
             /\ SessionOf(c)' = [SessionOf(c) EXCEPT !.phase = "rcpt"]
    <2>1. MailService!Rcpt(c)
      BY <1>1, <1>2, <1>8
         DEF MailService!Rcpt, MailService!To, MailService!Commanded,
             MailService!Idle, Idling
    <2> QED
      BY <2>1, Zenon DEF MailService!Next
  <1>9. CASE /\ Idling(SessionOf(c))
             /\ SessionOf(c)' = [SessionOf(c) EXCEPT !.phase = "data"]
    <2>1. MailService!Data(c)
      BY <1>1, <1>2, <1>9
         DEF MailService!Data, MailService!To, MailService!Commanded,
             MailService!Idle, Idling
    <2> QED
      BY <2>1, Zenon DEF MailService!Next
  <1>10. CASE /\ Idling(SessionOf(c)) /\ SessionOf(c).phase # "greeted"
             /\ SessionOf(c)' = [SessionOf(c) EXCEPT !.phase = "any"]
    <2>1. MailService!Reset(c)
      BY <1>1, <1>2, <1>10
         DEF MailService!Reset, MailService!To, MailService!Commanded,
             MailService!Idle, Idling
    <2> QED
      BY <2>1, Zenon DEF MailService!Next
  <1>11. CASE /\ SessionOf(c).phase = "data"
             /\ \E n \in SessionOf(c).size + 1 .. ESMTP_SIZE :
                  SessionOf(c)' = [SessionOf(c) EXCEPT !.size = n]
    <2>1. MailService!Store(c)
      BY <1>1, <1>2, <1>11, Zenon DEF MailService!Store
    <2> QED
      BY <2>1, Zenon DEF MailService!Next
  <1>12. CASE /\ SessionOf(c).phase = "data"
             /\ SessionOf(c)' = [SessionOf(c) EXCEPT !.phase = "greeted", !.size = 0]
    <2>1. MailService!Accept(c)
      BY <1>1, <1>2, <1>12, Zenon DEF MailService!Accept
    <2> QED
      BY <2>1, Zenon DEF MailService!Next
  <1>13. CASE /\ SessionOf(c).phase = "data"
             /\ SessionOf(c)' = [SessionOf(c) EXCEPT !.phase = "any", !.size = 0]
    <2>1. MailService!Refuse(c)
      BY <1>1, <1>2, <1>13, Zenon DEF MailService!Refuse
    <2> QED
      BY <2>1, Zenon DEF MailService!Next
  <1>14. CASE /\ Idling(SessionOf(c))
             /\ SessionOf(c)' = [SessionOf(c) EXCEPT !.phase = "tls",
                                                     !.secure = "pending"]
    <2>1. MailService!StartTls(c)
      BY <1>1, <1>2, <1>14, Zenon
         DEF MailService!StartTls, MailService!Commanded, MailService!Idle, Idling
    <2> QED
      BY <2>1, Zenon DEF MailService!Next
  <1>15. CASE /\ SessionOf(c).secure = "pending"
             /\ SessionOf(c)' = [SessionOf(c) EXCEPT
                                   !.secure = "tls",
                                   !.phase = IF SessionOf(c).phase = "tls"
                                             THEN "any" ELSE SessionOf(c).phase]
    <2>1. MailService!Negotiate(c)
      BY <1>1, <1>2, <1>15, Zenon DEF MailService!Negotiate
    <2> QED
      BY <2>1, Zenon DEF MailService!Next
  <1>16. CASE /\ SessionOf(c).secure \in {"pending", "tls"}
             /\ SessionOf(c)' = [SessionOf(c) EXCEPT !.secure = "dead"]
    <2>1. MailService!Fail(c)
      BY <1>1, <1>2, <1>16 DEF MailService!Fail
    <2> QED
      BY <2>1, Zenon DEF MailService!Next
  <1> QED
    BY <1>3, <1>4, <1>5, <1>6, <1>7, <1>8, <1>9, <1>10, <1>11, <1>12, <1>13,
       <1>14, <1>15, <1>16
       DEF Step
-----------------------------------------------------------------------------
(* What the calls of the handlers do to their session. *)

\* The session of the connection in hand stays or takes a step.
Moved ==
  /\ Shaped(conn')
  /\ pc' = "dispatch" /\ result' = "CONNECTION_RESET" =>
       conn'.type = "SMTP_CONNECTION"
  /\ View(Seen') = View(conn) \/ Step(View(conn), View(Seen'))

\* A session record.
Rec(p, s, n) == [phase |-> p, secure |-> s, size |-> n]

\* Its fields.
LEMMA RecFields ==
  ASSUME NEW p, NEW s, NEW n
  PROVE  Rec(p, s, n).phase = p /\ Rec(p, s, n).secure = s /\ Rec(p, s, n).size = n
  BY DEF Rec

\* Changing one of its fields.
LEMMA RecExcept ==
  ASSUME NEW p, NEW s, NEW n, NEW x
  PROVE  /\ [Rec(p, s, n) EXCEPT !.phase = x] = Rec(x, s, n)
         /\ [Rec(p, s, n) EXCEPT !.secure = x] = Rec(p, x, n)
         /\ [Rec(p, s, n) EXCEPT !.size = x] = Rec(p, s, x)
  BY DEF Rec

\* The steps of a session, field by field.
LEMMA StepRec ==
  ASSUME NEW p, NEW s, NEW n
  PROVE  /\ p = "opened" => Step(Rec(p, s, n), Rec("any", s, n))
         /\ p \in {"any", "greeted", "mailing", "rcpt"} /\ s \in {"plain", "tls"} =>
              /\ Step(Rec(p, s, n), Rec("greeted", s, n))
              /\ Step(Rec(p, s, n), Rec("data", s, n))
              /\ Step(Rec(p, s, n), Rec("tls", "pending", n))
              /\ p # "any" => Step(Rec(p, s, n), Rec("mailing", s, n))
              /\ p \in {"mailing", "rcpt"} => Step(Rec(p, s, n), Rec("rcpt", s, n))
              /\ p # "greeted" => Step(Rec(p, s, n), Rec("any", s, n))
         /\ p = "data" => /\ Step(Rec(p, s, n), Rec("greeted", s, 0))
                          /\ Step(Rec(p, s, n), Rec("any", s, 0))
                          /\ \A m \in n + 1 .. ESMTP_SIZE :
                               Step(Rec(p, s, n), Rec(p, s, m))
         /\ s = "pending" =>
              Step(Rec(p, s, n), Rec(IF p = "tls" THEN "any" ELSE p, "tls", n))
         /\ s \in {"pending", "tls"} => Step(Rec(p, s, n), Rec(p, "dead", n))
  <1> DEFINE a == Rec(p, s, n)
  <1>1. a.phase = p /\ a.secure = s /\ a.size = n
    BY RecFields
  <1>2. \A x : /\ [a EXCEPT !.phase = x] = Rec(x, s, n)
               /\ [a EXCEPT !.secure = x] = Rec(p, x, n)
               /\ [a EXCEPT !.size = x] = Rec(p, s, x)
    BY RecExcept
  <1> HIDE DEF a
  <1>3. ASSUME NEW x, NEW y
        PROVE  /\ [a EXCEPT !.phase = x, !.secure = y] = Rec(x, y, n)
               /\ [a EXCEPT !.phase = x, !.size = y] = Rec(x, s, y)
               /\ [a EXCEPT !.secure = y, !.phase = x] = Rec(x, y, n)
    <2>1. /\ [Rec(x, s, n) EXCEPT !.secure = y] = Rec(x, y, n)
          /\ [Rec(x, s, n) EXCEPT !.size = y] = Rec(x, s, y)
          /\ [Rec(p, y, n) EXCEPT !.phase = x] = Rec(x, y, n)
      BY DEF Rec
    <2>2. /\ [a EXCEPT !.phase = x, !.secure = y]
               = [[a EXCEPT !.phase = x] EXCEPT !.secure = y]
          /\ [a EXCEPT !.phase = x, !.size = y]
               = [[a EXCEPT !.phase = x] EXCEPT !.size = y]
          /\ [a EXCEPT !.secure = y, !.phase = x]
               = [[a EXCEPT !.secure = y] EXCEPT !.phase = x]
      OBVIOUS
    <2> QED
      BY <1>2, <2>1, <2>2, Zenon
  <1>4. p = "opened" => Step(a, Rec("any", s, n))
    BY <1>1, <1>2, Zenon DEF Step
  <1>5. ASSUME p \in {"any", "greeted", "mailing", "rcpt"}, s \in {"plain", "tls"}
        PROVE  /\ Step(a, Rec("greeted", s, n))
               /\ Step(a, Rec("data", s, n))
               /\ Step(a, Rec("tls", "pending", n))
               /\ p # "any" => Step(a, Rec("mailing", s, n))
               /\ p \in {"mailing", "rcpt"} => Step(a, Rec("rcpt", s, n))
               /\ p # "greeted" => Step(a, Rec("any", s, n))
    <2>1. Idling(a)
      BY <1>1, <1>5 DEF Idling
    <2>2. \A x : [a EXCEPT !.phase = x] = Rec(x, s, n)
      BY <1>2
    <2>3. Step(a, Rec("greeted", s, n)) /\ Step(a, Rec("data", s, n))
      BY <2>1, <2>2, Zenon DEF Step
    <2>4. Step(a, Rec("tls", "pending", n))
      BY <1>3, <2>1, Zenon DEF Step
    <2>5. p # "any" => Step(a, Rec("mailing", s, n))
      BY <1>1, <2>1, <2>2, Zenon DEF Step
    <2>6. p \in {"mailing", "rcpt"} => Step(a, Rec("rcpt", s, n))
      BY <1>1, <2>1, <2>2, Zenon DEF Step
    <2>7. p # "greeted" => Step(a, Rec("any", s, n))
      BY <1>1, <2>1, <2>2, Zenon DEF Step
    <2> QED
      BY <2>3, <2>4, <2>5, <2>6, <2>7
  <1>6. ASSUME p = "data"
        PROVE  /\ Step(a, Rec("greeted", s, 0))
               /\ Step(a, Rec("any", s, 0))
               /\ \A m \in n + 1 .. ESMTP_SIZE : Step(a, Rec(p, s, m))
    <2>1. a.phase = "data"
      BY <1>1, <1>6
    <2>2. Step(a, Rec("greeted", s, 0)) /\ Step(a, Rec("any", s, 0))
      BY <1>3, <2>1, Zenon DEF Step
    <2>3. ASSUME NEW m \in n + 1 .. ESMTP_SIZE PROVE Step(a, Rec(p, s, m))
      <3>1. m \in a.size + 1 .. ESMTP_SIZE /\ Rec(p, s, m) = [a EXCEPT !.size = m]
        BY <1>1, <1>2, Zenon
      <3> QED
        BY <2>1, <3>1, Zenon DEF Step
    <2> QED
      BY <2>2, <2>3
  <1>7. ASSUME s = "pending"
        PROVE  Step(a, Rec(IF p = "tls" THEN "any" ELSE p, "tls", n))
    <2> DEFINE q == IF a.phase = "tls" THEN "any" ELSE a.phase
    <2>1. [a EXCEPT !.secure = "tls", !.phase = q] = Rec(q, "tls", n)
      BY <1>3, Zenon
    <2>2. Step(a, Rec(q, "tls", n))
      BY <1>1, <1>7, <2>1, Zenon DEF Step
    <2> QED
      BY <1>1, <2>2
  <1>8. ASSUME s \in {"pending", "tls"}
        PROVE  Step(a, Rec(p, "dead", n))
    BY <1>1, <1>2, <1>8, Zenon DEF Step
  <1> QED
    BY <1>4, <1>5, <1>6, <1>7, <1>8, Zenon DEF a

\* The view of a connection, and of one with another state and sslconn.
LEMMA Viewed ==
  ASSUME NEW k \in Connection, NEW state, NEW ssl
  PROVE  /\ View(k) = Rec(PhaseName[k.state], SecureName[k.sslconn],
                          k.messagebufferend)
         /\ View([k EXCEPT !.state = state, !.sslconn = ssl])
              = Rec(PhaseName[state], SecureName[ssl], k.messagebufferend)
  <1> DEFINE kk == [k EXCEPT !.state = state, !.sslconn = ssl]
  <1>1. kk.state = state /\ kk.sslconn = ssl
        /\ kk.messagebufferend = k.messagebufferend
    BY DEF Connection
  <1> HIDE DEF kk
  <1>2. View(kk) = Rec(PhaseName[state], SecureName[ssl], k.messagebufferend)
    BY <1>1 DEF View, Rec
  <1> QED
    BY <1>2 DEF View, Rec, kk

\* A path that does not ask for a reset, and assigns a state and an sslconn.
LEMMA AnswerMoved ==
  ASSUME Called, NEW state, NEW ssl, NEW r, r # "CONNECTION_RESET",
         Return([conn EXCEPT !.state = state, !.sslconn = ssl], r),
         Shaped([conn EXCEPT !.state = state, !.sslconn = ssl]),
         NEW b, b = Rec(PhaseName[state], SecureName[ssl], conn.messagebufferend),
         b = View(conn) \/ Step(View(conn), b)
  PROVE  Moved
  <1> DEFINE k == [conn EXCEPT !.state = state, !.sslconn = ssl]
  <1>1. View(k) = b
    BY Viewed, Zenon DEF Called
  <1>2. Seen' = k /\ conn' = k /\ result' = r
    BY DEF Return, Seen
  <1> HIDE DEF k
  <1>3. Shaped(k)
    BY DEF k
  <1> QED
    BY <1>1, <1>2, <1>3 DEF Moved

\* A path that does not ask for a reset, and assigns neither.
LEMMA SameMoved ==
  ASSUME Called, Shaped(conn), NEW r, r # "CONNECTION_RESET", Return(conn, r)
  PROVE  Moved
  BY DEF Return, Moved, Seen

\* The process ends in the handler.
LEMMA HaltMoved ==
  ASSUME Called, Shaped(conn), UNCHANGED <<pc, conn, result>>
  PROVE  Moved
  BY DEF Called, Moved, Seen

\* The fields of the outcome of a call.
LEMMA OutcomeFields ==
  ASSUME NEW how, NEW rest, NEW ssl
  PROVE  Outcome(how, rest, ssl).how = how /\ Outcome(how, rest, ssl).ssl = ssl
  BY DEF Outcome

\* The fields of what a read returns.
LEMMA DataFields ==
  ASSUME NEW rx, NEW k, NEW ssl
  PROVE  Data(rx, k, ssl).how = "data" /\ Data(rx, k, ssl).ssl = ssl
  BY DEF Data

\* The fields of the outcome of a call that finds nothing.
LEMMA IdleFields ==
  ASSUME NEW s, NEW ssl, NEW o \in Idle(s, ssl)
  PROVE  o.ssl = ssl /\ o.how # "data"
  <1>1. PICK how \in {"eof", "error"} : o = Outcome(how, <<>>, ssl)
    BY DEF Idle
  <1> QED
    BY <1>1, OutcomeFields

\* What a handshake does to the SSL object.
LEMMA AcceptTurns ==
  ASSUME NEW s, NEW a, NEW o \in SSL_accept(s, a)
  PROVE  \/ o.ssl = a /\ (o.how = "data" => a = "up")
         \/ a = "fresh" /\ o.how = "data" /\ o.ssl = "up"
         \/ a = "fresh" /\ o.how # "data" /\ o.ssl = "broken"
  <1>1. CASE a # "fresh"
    <2>1. \/ o = Outcome("data", s.rx, "up") /\ a = "up"
          \/ o = Outcome("error", s.rx, a)
      BY <1>1 DEF SSL_accept
    <2> QED
      BY <2>1, OutcomeFields
  <1>2. CASE a = "fresh" /\ s.rx # <<>>
    <2>1. \/ o = Outcome("data", Tail(s.rx), "up")
          \/ o = Outcome("error", Tail(s.rx), "broken")
      BY <1>2 DEF SSL_accept
    <2> QED
      BY <1>2, <2>1, OutcomeFields
  <1>3. CASE a = "fresh" /\ s.rx = <<>>
    <2>1. PICK p \in Idle(s, a) :
            o \in {Outcome("again", <<>>, a), Outcome("error", <<>>, "broken")}
      BY <1>3 DEF SSL_accept
    <2> QED
      BY <1>3, <2>1, OutcomeFields
  <1> QED
    BY <1>1, <1>2, <1>3

\* What a read over TLS does to the SSL object.
LEMMA SslReadTurns ==
  ASSUME NEW s, NEW a, NEW o \in SSL_read(s, a)
  PROVE  /\ o.ssl = a \/ (a = "up" /\ o.how # "data" /\ o.ssl = "broken")
         /\ o.how = "data" => a = "up"
  <1>1. CASE a # "up"
    <2>1. PICK e \in {"again", "error"} : o = Outcome(e, s.rx, a)
      BY <1>1 DEF SSL_read
    <2> QED
      BY <2>1, OutcomeFields
  <1>2. CASE a = "up"
    <2>1. \/ \E e \in {"again", "error"} : o = Outcome(e, Tail(s.rx), "broken")
          \/ \E k : o = Data(s.rx, k, a)
          \/ o \in Idle(s, a)
      BY <1>2 DEF SSL_read
    <2> QED
      BY <1>2, <2>1, OutcomeFields, DataFields, IdleFields
  <1> QED
    BY <1>1, <1>2

\* What a read of the mail service does to it.
LEMMA ReadTurns ==
  ASSUME NEW o \in smtp_receive_msg
  PROVE  /\ \/ o.ssl = conn.sslconn
            \/ conn.sslconn = "up" /\ o.how # "data" /\ o.ssl = "broken"
         /\ o.how = "data" => conn.sslconn \in {"null", "up"}
  <1>1. CASE conn.sslconn # "null"
    BY <1>1, SslReadTurns DEF smtp_receive_msg
  <1>2. CASE conn.sslconn = "null"
    <2>1. \/ \E k : o = Data(Self.rx, k, conn.sslconn)
          \/ o \in Idle(Self, conn.sslconn)
      BY <1>2 DEF smtp_receive_msg, read
    <2> QED
      BY <1>2, <2>1, DataFields, IdleFields
  <1> QED
    BY <1>1, <1>2
-----------------------------------------------------------------------------
(* The paths of smtp_handler. *)

\* The greeting.
LEMMA OpenedMoved == ASSUME Called, Shaped(conn), SmtpOpened PROVE Moved
  <1> DEFINE s == SecureName[conn.sslconn]
             n == conn.messagebufferend
             k == [conn EXCEPT !.state = "MAIL_CONNECTION_EXPECT_ANY",
                               !.sslconn = conn.sslconn]
  <1>1. View(conn) = Rec("opened", s, n)
    BY Viewed, Phases, Zenon DEF SmtpOpened, Called
  <1>2. Step(View(conn), Rec("any", s, n))
    BY <1>1, StepRec
  <1>3. Return(k, "CONNECTION_CONTINUE")
    BY ConnectionExcept, Zenon DEF SmtpOpened, Called
  <1>4. Shaped(k)
    BY Zenon DEF Called, Connection, Shaped, SmtpOpened, Handling
  <1> QED
    BY <1>2, <1>3, <1>4, AnswerMoved, Phases, Zenon

\* A command is only read by a session that takes commands.
LEMMA CommandIdling ==
  ASSUME Called, Shaped(conn), Reading, NEW tok, NEW o \in Command(tok)
  PROVE  /\ PhaseName[conn.state] \in {"any", "greeted", "mailing", "rcpt"}
         /\ SecureName[conn.sslconn] \in {"plain", "tls"}
         /\ conn.messagebufferend = 0
         /\ conn.state # "MAIL_CONNECTION_EXPECT_TLS_NEG"
         /\ conn.type = "SMTP_CONNECTION"
  <1>1. o \in smtp_receive_msg /\ o.how = "data"
        /\ conn.state # "MAIL_CONNECTION_EXPECT_DATA"
    BY DEF Command
  <1>2. conn.sslconn \in {"null", "up"}
    BY <1>1, ReadTurns
  <1>3. conn.type = "SMTP_CONNECTION" /\ conn.state \in ConnectionState
    BY CalledTypes DEF Reading, Handling
  <1>4. conn.state \in {"MAIL_CONNECTION_EXPECT_ANY", "MAIL_CONNECTION_GREETED",
                        "MAIL_CONNECTION_MAILING", "MAIL_CONNECTION_RCPT"}
    BY <1>1, <1>3 DEF Shaped, Reading, ConnectionState
  <1>5. conn.messagebufferend = 0
    BY <1>1 DEF Called, Settled
  <1> QED
    BY <1>2, <1>3, <1>4, <1>5, Phases, Secures

\* Commands that reply and perhaps set the state.
LEMMA AnswersMoved ==
  ASSUME Called, Shaped(conn), NEW tok, NEW msg, NEW state, NEW r,
         Answer(tok, msg, state, r), r # "CONNECTION_RESET",
         \/ state = conn.state
         \/ state \in {"MAIL_CONNECTION_GREETED", "MAIL_CONNECTION_EXPECT_DATA"}
         \/ /\ state = "MAIL_CONNECTION_MAILING"
            /\ conn.state # "MAIL_CONNECTION_EXPECT_ANY"
         \/ state = "MAIL_CONNECTION_RCPT" /\ Mailing
  PROVE  Moved
  <1> DEFINE p == PhaseName[conn.state]
             s == SecureName[conn.sslconn]
             n == conn.messagebufferend
             b == Rec(PhaseName[state], s, n)
             k == [conn EXCEPT !.state = state, !.sslconn = conn.sslconn]
  <1>1. Reading /\ \E o : o \in Command(tok)
    BY Zenon DEF Answer
  <1>2. /\ p \in {"any", "greeted", "mailing", "rcpt"} /\ s \in {"plain", "tls"}
        /\ conn.state # "MAIL_CONNECTION_EXPECT_TLS_NEG"
        /\ conn.type = "SMTP_CONNECTION"
    BY <1>1, CommandIdling
  <1>3. View(conn) = Rec(p, s, n)
    BY Viewed, Zenon DEF Called
  <1>4. conn.state # "MAIL_CONNECTION_EXPECT_ANY" /\ state = "MAIL_CONNECTION_MAILING"
          => p # "any"
    BY <1>2, CalledTypes, Phases DEF ConnectionState
  <1>5. Mailing => p \in {"mailing", "rcpt"}
    BY Phases DEF Mailing
  <1>6. b = View(conn) \/ Step(View(conn), b)
    <2>1. CASE state = conn.state
      BY <1>3, <2>1
    <2>2. CASE state = "MAIL_CONNECTION_GREETED"
      BY <1>2, <1>3, <2>2, StepRec, Phases
    <2>3. CASE state = "MAIL_CONNECTION_EXPECT_DATA"
      BY <1>2, <1>3, <2>3, StepRec, Phases
    <2>4. CASE /\ state = "MAIL_CONNECTION_MAILING"
               /\ conn.state # "MAIL_CONNECTION_EXPECT_ANY"
      BY <1>2, <1>3, <1>4, <2>4, StepRec, Phases
    <2>5. CASE state = "MAIL_CONNECTION_RCPT" /\ Mailing
      BY <1>2, <1>3, <1>5, <2>5, StepRec, Phases
    <2> QED
      BY <2>1, <2>2, <2>3, <2>4, <2>5
  <1>7. Return(k, r)
    BY ConnectionExcept, Zenon DEF Answer, Called
  <1>8. Shaped(k)
    BY <1>2 DEF Called, Connection, Shaped, Mailing
  <1> QED
    BY <1>6, <1>7, <1>8, AnswerMoved, Zenon

\* What a reset leaves of a session.
LEMMA ResetViewed ==
  ASSUME NEW k \in Connection
  PROVE  View(reset_connection(k))
           = Rec(IF k.state = "MAIL_CONNECTION_GREETED" THEN "greeted" ELSE "any",
                 SecureName[k.sslconn], 0)
  <1> DEFINE kk == reset_connection(k)
  <1>1. /\ kk.state = IF k.state = "MAIL_CONNECTION_GREETED"
                      THEN "MAIL_CONNECTION_GREETED" ELSE "MAIL_CONNECTION_EXPECT_ANY"
        /\ kk.sslconn = k.sslconn /\ kk.messagebufferend = 0
    BY DEF Connection, reset_connection
  <1> HIDE DEF kk
  <1>2. PhaseName[kk.state]
          = IF k.state = "MAIL_CONNECTION_GREETED" THEN "greeted" ELSE "any"
    BY <1>1, Phases
  <1>3. View(kk) = Rec(IF k.state = "MAIL_CONNECTION_GREETED" THEN "greeted" ELSE "any",
                       SecureName[k.sslconn], 0)
    BY <1>1, <1>2 DEF View, Rec
  <1> QED
    BY <1>3 DEF kk

\* A path that asks for a reset.
LEMMA ResetMoved ==
  ASSUME NEW k \in Connection, Return(k, "CONNECTION_RESET"), Shaped(k),
         k.type = "SMTP_CONNECTION", NEW b,
         b = Rec(IF k.state = "MAIL_CONNECTION_GREETED" THEN "greeted" ELSE "any",
                 SecureName[k.sslconn], 0),
         b = View(conn) \/ Step(View(conn), b)
  PROVE  Moved
  <1>1. Seen' = reset_connection(k) /\ conn' = k
    BY DEF Return, Seen
  <1>2. View(Seen') = b
    BY <1>1, ResetViewed
  <1> QED
    BY <1>1, <1>2 DEF Moved

\* RSET asks for a reset.
LEMMA RsetMoved == ASSUME Called, Shaped(conn), SMTP_RSET PROVE Moved
  <1> DEFINE p == PhaseName[conn.state]
             s == SecureName[conn.sslconn]
             b == Rec(IF conn.state = "MAIL_CONNECTION_GREETED" THEN "greeted" ELSE "any",
                      s, 0)
  <1>1. Reading /\ \E o : o \in Command("RSET")
    BY Zenon DEF SMTP_RSET, Answer
  <1>2. /\ p \in {"any", "greeted", "mailing", "rcpt"} /\ s \in {"plain", "tls"}
        /\ conn.messagebufferend = 0 /\ conn.type = "SMTP_CONNECTION"
    BY <1>1, CommandIdling
  <1>3. View(conn) = Rec(p, s, 0)
    BY <1>2, Viewed, Zenon DEF Called
  <1>4. Return(conn, "CONNECTION_RESET") /\ conn \in Connection
    BY ConnectionExcept, Zenon DEF SMTP_RSET, Answer, Called
  <1>5. CASE conn.state = "MAIL_CONNECTION_GREETED"
    <2>1. b = View(conn)
      BY <1>3, <1>5, Phases
    <2> QED
      BY <1>2, <1>4, <2>1, ResetMoved
  <1>6. CASE conn.state # "MAIL_CONNECTION_GREETED"
    <2>1. p # "greeted"
      BY <1>6, CalledTypes, Phases DEF ConnectionState
    <2>2. Step(View(conn), b)
      BY <1>2, <1>3, <1>6, <2>1, StepRec
    <2> QED
      BY <1>2, <1>4, <2>2, ResetMoved
  <1> QED
    BY <1>5, <1>6

\* STARTTLS makes a handshake due.
LEMMA StartTlsMoved == ASSUME Called, Shaped(conn), SMTP_STARTTLS PROVE Moved
  <1> DEFINE p == PhaseName[conn.state]
             s == SecureName[conn.sslconn]
             n == conn.messagebufferend
             k == [conn EXCEPT !.state = "MAIL_CONNECTION_EXPECT_TLS_NEG",
                               !.sslconn = "fresh"]
  <1>1. Reading /\ \E o : o \in Command("STARTTLS")
    BY Zenon DEF SMTP_STARTTLS
  <1>2. /\ p \in {"any", "greeted", "mailing", "rcpt"} /\ s \in {"plain", "tls"}
        /\ conn.type = "SMTP_CONNECTION"
    BY <1>1, CommandIdling
  <1>3. View(conn) = Rec(p, s, n)
    BY Viewed, Zenon DEF Called
  <1>4. Step(View(conn), Rec("tls", "pending", n))
    BY <1>2, <1>3, StepRec
  <1>5. Return(k, "CONNECTION_CONTINUE")
    BY Zenon DEF SMTP_STARTTLS
  <1>6. Shaped(k)
    BY <1>2 DEF Called, Connection, Shaped
  <1> QED
    BY <1>4, <1>5, <1>6, AnswerMoved, Phases, Secures, Zenon

\* The handshake after STARTTLS.
LEMMA NegotiationMoved == ASSUME Called, Shaped(conn), SmtpTlsNegotiation PROVE Moved
  <1> DEFINE s == SecureName[conn.sslconn]
             n == conn.messagebufferend
  <1>1. PICK o \in SSL_accept(Self, conn.sslconn) :
          Return([conn EXCEPT !.sslconn = o.ssl,
                              !.state = IF o.how = "data"
                                        THEN "MAIL_CONNECTION_EXPECT_ANY" ELSE @],
                 IF o.how = "error" THEN "CONNECTION_ERROR"
                                    ELSE "CONNECTION_CONTINUE")
    BY Zenon DEF SmtpTlsNegotiation
  <1> DEFINE state == IF o.how = "data" THEN "MAIL_CONNECTION_EXPECT_ANY" ELSE conn.state
             r == IF o.how = "error" THEN "CONNECTION_ERROR" ELSE "CONNECTION_CONTINUE"
             k == [conn EXCEPT !.state = state, !.sslconn = o.ssl]
  <1>2. conn.state = "MAIL_CONNECTION_EXPECT_TLS_NEG" /\ conn.type = "SMTP_CONNECTION"
        /\ conn.sslconn \in {"fresh", "broken"}
    BY DEF SmtpTlsNegotiation, Handling, Shaped
  <1>3. View(conn) = Rec("tls", s, n)
    BY <1>2, Viewed, Phases, Zenon DEF Called
  <1>4. Return(k, r) /\ r # "CONNECTION_RESET"
    <2>1. ASSUME NEW x PROVE [conn EXCEPT !.sslconn = o.ssl, !.state = x]
                              = [conn EXCEPT !.state = x, !.sslconn = o.ssl]
      BY ConnectionExcept, Zenon DEF Called
    <2>2. Return([conn EXCEPT !.sslconn = o.ssl, !.state = state], r)
      BY <1>1, Zenon
    <2> HIDE DEF state
    <2> QED
      BY <2>1, <2>2, Zenon
  <1>5. CASE o.ssl = conn.sslconn /\ o.how # "data"
    <2>1. Shaped(k)
      BY <1>2, <1>5 DEF Called, Connection, Shaped
    <2>2. Rec(PhaseName[state], SecureName[o.ssl], n) = View(conn)
      BY <1>2, <1>3, <1>5, Phases
    <2> HIDE DEF state, r
    <2> QED
      BY <1>4, <2>1, <2>2, AnswerMoved, Zenon
  <1>6. CASE conn.sslconn = "fresh" /\ o.how = "data" /\ o.ssl = "up"
    <2>1. Shaped(k)
      BY <1>2, <1>6 DEF Called, Connection, Shaped
    <2>2. Step(View(conn), Rec("any", "tls", n))
      BY <1>3, <1>6, StepRec, Secures
    <2>3. PhaseName[state] = "any" /\ SecureName[o.ssl] = "tls"
      BY <1>6, Phases, Secures
    <2> HIDE DEF state, r
    <2> QED
      BY <1>4, <2>1, <2>2, <2>3, AnswerMoved, Zenon
  <1>7. CASE conn.sslconn = "fresh" /\ o.how # "data" /\ o.ssl = "broken"
    <2>1. Shaped(k)
      BY <1>2, <1>7 DEF Called, Connection, Shaped
    <2>2. Step(View(conn), Rec("tls", "dead", n))
      BY <1>3, <1>7, StepRec, Secures
    <2>3. PhaseName[state] = "tls" /\ SecureName[o.ssl] = "dead"
      BY <1>2, <1>7, Phases, Secures
    <2> HIDE DEF state, r
    <2> QED
      BY <1>4, <2>1, <2>2, <2>3, AnswerMoved, Zenon
  <1> QED
    BY <1>2, <1>5, <1>6, <1>7, AcceptTurns

\* A read that fails, perhaps with a fatal TLS error.
LEMMA ReadFailsMoved == ASSUME Called, Shaped(conn), SmtpReadFails PROVE Moved
  <1> DEFINE p == PhaseName[conn.state]
             s == SecureName[conn.sslconn]
             n == conn.messagebufferend
  <1>1. PICK o \in smtp_receive_msg :
          /\ o.how # "data"
          /\ Return([conn EXCEPT !.sslconn = o.ssl],
                    IF o.how = "again" THEN "CONNECTION_CONTINUE"
                                       ELSE "CONNECTION_ERROR")
    BY Zenon DEF SmtpReadFails
  <1> DEFINE r == IF o.how = "again" THEN "CONNECTION_CONTINUE" ELSE "CONNECTION_ERROR"
             k == [conn EXCEPT !.state = conn.state, !.sslconn = o.ssl]
  <1>2. conn.state # "MAIL_CONNECTION_EXPECT_TLS_NEG"
    BY DEF SmtpReadFails, Reading
  <1>3. View(conn) = Rec(p, s, n)
    BY Viewed, Zenon DEF Called
  <1>4. Return(k, r) /\ r # "CONNECTION_RESET"
    BY <1>1, ConnectionExcept, Zenon DEF Called
  <1>5. Shaped(k)
    BY <1>2 DEF Called, Connection, Shaped
  <1> HIDE DEF r
  <1>6. CASE o.ssl = conn.sslconn
    <2>1. Rec(p, SecureName[o.ssl], n) = View(conn)
      BY <1>3, <1>6
    <2> QED
      BY <1>4, <1>5, <2>1, AnswerMoved, Zenon
  <1>7. CASE conn.sslconn = "up" /\ o.ssl = "broken"
    <2>1. Step(View(conn), Rec(p, SecureName[o.ssl], n))
      BY <1>3, <1>7, StepRec, Secures
    <2> QED
      BY <1>4, <1>5, <2>1, AnswerMoved, Zenon
  <1> QED
    BY <1>1, <1>6, <1>7, ReadTurns

\* A read that brings something brings a byte, and fits the buffer.
LEMMA DataLength ==
  ASSUME NEW o \in smtp_receive_msg, o.how = "data"
  PROVE  o.len \in 1 .. BufSize
  <1>1. ASSUME NEW rx, NEW k \in Fitting(rx), NEW a, o = Data(rx, k, a)
        PROVE  o.len \in 1 .. BufSize
    BY <1>1 DEF Data, Fitting
  <1>2. CASE conn.sslconn = "null"
    <2>1. \/ \E k \in Fitting(Self.rx) : o = Data(Self.rx, k, conn.sslconn)
          \/ o \in Idle(Self, conn.sslconn)
      BY <1>2 DEF smtp_receive_msg, read
    <2> QED
      BY <1>1, <2>1, IdleFields
  <1>3. CASE conn.sslconn # "null"
    <2>1. conn.sslconn = "up"
      BY <1>3, ReadTurns
    <2>2. \/ \E e \in {"again", "error"} : o = Outcome(e, Tail(Self.rx), "broken")
          \/ \E k \in Fitting(Self.rx) : o = Data(Self.rx, k, conn.sslconn)
          \/ o \in Idle(Self, conn.sslconn)
      BY <2>1 DEF smtp_receive_msg, SSL_read
    <2> QED
      BY <1>1, <2>2, IdleFields, OutcomeFields
  <1> QED
    BY <1>2, <1>3

\* The message text: refused for its size, for want of memory, or stored.
LEMMA DataViewed ==
  ASSUME Called, conn.state = "MAIL_CONNECTION_EXPECT_DATA"
  PROVE  View(conn) = Rec("data", SecureName[conn.sslconn], conn.messagebufferend)
  BY Viewed, Phases, Zenon DEF Called

\* A message that is too large is refused.
LEMMA TooLargeMoved == ASSUME Called, Shaped(conn), BodyTooLarge PROVE Moved
  <1> DEFINE s == SecureName[conn.sslconn]
             k == [conn EXCEPT !.alloccount = @ + 1]
  <1>1. /\ conn.state = "MAIL_CONNECTION_EXPECT_DATA"
        /\ conn.type = "SMTP_CONNECTION" /\ Return(k, "CONNECTION_RESET")
    BY Zenon DEF BodyTooLarge, Body, Reading, Handling
  <1>2. conn \in Connection /\ conn.alloccount + 1 \in Nat
    BY DEF Called, Connection
  <1>3. /\ k \in Connection /\ k.state = conn.state /\ k.type = conn.type
        /\ k.sslconn = conn.sslconn
    BY <1>2 DEF Connection
  <1>4. Step(View(conn), Rec("any", s, 0))
    BY <1>1, DataViewed, StepRec
  <1> HIDE DEF k
  <1> QED
    BY <1>1, <1>3, <1>4, ResetMoved DEF Shaped

\* A buffer that cannot grow ends the session.
LEMMA AllocFailsMoved == ASSUME Called, Shaped(conn), BodyAllocFails PROVE Moved
  <1> DEFINE k == [conn EXCEPT !.alloccount = @ + 1, !.messagebuffer = 0]
  <1>1. Return(k, "CONNECTION_ERROR") /\ conn \in Connection
    BY Zenon DEF BodyAllocFails, Called
  <1>2. /\ k.state = conn.state /\ k.type = conn.type /\ k.sslconn = conn.sslconn
        /\ k.messagebufferend = conn.messagebufferend
    BY <1>1 DEF Connection
  <1> HIDE DEF k
  <1>3. View(k) = View(conn) /\ Shaped(k)
    BY <1>2 DEF View, Shaped
  <1>4. Seen' = k /\ conn' = k /\ result' = "CONNECTION_ERROR"
    BY <1>1 DEF Return, Seen
  <1> QED
    BY <1>3, <1>4 DEF Moved

\* A part of the message is stored, or its end accepted.
LEMMA StoredMoved == ASSUME Called, Shaped(conn), BodyStored PROVE Moved
  <1>1. PICK o \in Body :
          Return([conn EXCEPT
                    !.alloccount       = @ + 1,
                    !.messagebuffer    = Grown,
                    !.messagebufferend = @ + o.len,
                    !.state = IF o.eom THEN "MAIL_CONNECTION_GREETED" ELSE @],
                 IF o.eom THEN "CONNECTION_RESET" ELSE "CONNECTION_CONTINUE")
    BY Zenon DEF BodyStored
  <1> DEFINE k == [conn EXCEPT
                     !.alloccount       = @ + 1,
                     !.messagebuffer    = Grown,
                     !.messagebufferend = @ + o.len,
                     !.state = IF o.eom THEN "MAIL_CONNECTION_GREETED" ELSE @]
             s == SecureName[conn.sslconn]
             n == conn.messagebufferend
             room == conn.alloccount * BufSize
  <1>2. /\ o \in smtp_receive_msg /\ o.how = "data"
        /\ conn.state = "MAIL_CONNECTION_EXPECT_DATA"
        /\ conn.type = "SMTP_CONNECTION"
    BY Zenon DEF Body, BodyStored, Reading, Handling
  <1>3. View(conn) = Rec("data", s, n)
    BY <1>2, DataViewed
  <1>4. /\ k.sslconn = conn.sslconn /\ k.type = conn.type
        /\ k.messagebufferend = n + o.len
        /\ k.state = IF o.eom THEN "MAIL_CONNECTION_GREETED" ELSE conn.state
    BY DEF Called, Connection
  <1>5. CASE o.eom
    <2>1. k \in Connection /\ conn' = k
      BY <1>1, StoredServed DEF Served, Return
    <2>2. Return(k, "CONNECTION_RESET")
      BY <1>1, <1>5
    <2> HIDE DEF k
    <2>3. Shaped(k) /\ k.type = "SMTP_CONNECTION"
          /\ k.state = "MAIL_CONNECTION_GREETED"
      BY <1>2, <1>4, <1>5 DEF Shaped
    <2>4. Step(View(conn), Rec("greeted", s, 0))
      BY <1>3, StepRec
    <2> QED
      BY <1>4, <2>1, <2>2, <2>3, <2>4, ResetMoved
  <1>6. CASE ~o.eom
    <2>1. conn' = k /\ result' = "CONNECTION_CONTINUE"
      BY <1>1, <1>6 DEF Return
    <2> HIDE DEF k
    <2>2. Shaped(k) /\ k.state = "MAIL_CONNECTION_EXPECT_DATA"
      BY <1>2, <1>4, <1>6 DEF Shaped
    <2>3. View(k) = Rec("data", s, n + o.len)
      BY <1>4, <2>2, Phases DEF View, Rec
    <2>4. n + o.len \in n + 1 .. ESMTP_SIZE
      <3>1. conn.alloccount \in Nat /\ n \in Nat /\ n <= room
        BY DEF Called, Settled, Connection
      <3>2. o.len \in 1 .. BufSize /\ BufSize \in Nat
        BY <1>2, DataLength, SizeAssumption
      <3>3. room \in Nat /\ (conn.alloccount + 1) * BufSize = room + BufSize
        BY <3>1, GrownBy
      <3>4. room + BufSize + 1 <= ESMTP_SIZE /\ ESMTP_SIZE \in Nat
        BY <3>3, EsmtpAssumption, Zenon DEF BodyStored, Grown
      <3> HIDE DEF room, n
      <3> QED
        BY <3>1, <3>2, <3>3, <3>4
    <2>5. Step(View(conn), Rec("data", s, n + o.len))
      BY <1>3, <2>4, StepRec
    <2>6. Seen' = k
      BY <2>1 DEF Seen
    <2> QED
      BY <2>1, <2>2, <2>3, <2>5, <2>6 DEF Moved
  <1> QED
    BY <1>5, <1>6

\* The commands that reply and perhaps set the state.
LEMMA CommandsMoved ==
  ASSUME Called, Shaped(conn),
         \/ SMTP_QUIT \/ SMTP_DATA \/ SMTP_HELP \/ SMTP_HELO \/ SMTP_EHLO
         \/ SMTP_MAIL \/ SMTP_RCPT \/ SMTP_VRFY \/ SMTP_EXPN
  PROVE  Moved
  BY AnswersMoved, Zenon
     DEF SMTP_QUIT, SMTP_DATA, SMTP_HELP, SMTP_HELO, SMTP_EHLO, SMTP_MAIL,
         SMTP_RCPT, SMTP_VRFY, SMTP_EXPN

\* Every path of smtp_handler moves the session as MailSession allows.
LEMMA SmtpMoved == ASSUME Called, Shaped(conn), smtp_handler PROVE Moved
  <1>1. CASE SmtpLineTooLong \/ Unrecognized \/ SMTP_NOOP
    BY <1>1, SameMoved, Zenon DEF SmtpLineTooLong, Unrecognized, SMTP_NOOP
  <1>2. CASE SMTP_STARTTLS_no_context
    BY <1>2, HaltMoved, Zenon DEF SMTP_STARTTLS_no_context
  <1> QED
    BY <1>1, <1>2, OpenedMoved, NegotiationMoved, ReadFailsMoved, TooLargeMoved,
       AllocFailsMoved, StoredMoved, CommandsMoved, RsetMoved, StartTlsMoved
       DEF smtp_handler
-----------------------------------------------------------------------------
(* The other handlers. *)

\* Only the SSL object changes: a handshake, or a fatal error.
LEMMA SslMoved ==
  ASSUME Called, Shaped(conn), conn.type # "SMTP_CONNECTION", NEW ssl,
         conn' = [conn EXCEPT !.sslconn = ssl],
         pc' = "handle" \/ result' # "CONNECTION_RESET",
         \/ ssl = conn.sslconn
         \/ conn.sslconn = "fresh" /\ ssl = "up"
         \/ conn.sslconn \in {"fresh", "up"} /\ ssl = "broken"
  PROVE  Moved
  <1> DEFINE k == [conn EXCEPT !.state = conn.state, !.sslconn = ssl]
             n == conn.messagebufferend
  <1>1. conn' = k /\ Seen' = k
    BY ConnectionExcept, Zenon DEF Called, Seen
  <1>2. conn.state \in {"MAIL_CONNECTION_OPENED", "HTTP_CONNECTION_OPENED"}
    BY DEF Shaped
  <1>3. Shaped(k)
    BY <1>2 DEF Called, Connection, Shaped
  <1>4. /\ View(conn) = Rec("opened", SecureName[conn.sslconn], n)
        /\ View(k) = Rec("opened", SecureName[ssl], n)
    <2>1. PhaseName[conn.state] = "opened" /\ conn \in Connection
      BY <1>2, Phases DEF Called
    <2>2. /\ View(conn) = Rec(PhaseName[conn.state], SecureName[conn.sslconn], n)
          /\ View(k) = Rec(PhaseName[conn.state], SecureName[ssl], n)
      BY <2>1, Viewed, Zenon
    <2> QED
      BY <2>1, <2>2, Zenon
  <1>5. View(k) = View(conn) \/ Step(View(conn), View(k))
    <2>1. CASE ssl = conn.sslconn
      BY <1>4, <2>1
    <2>2. CASE conn.sslconn = "fresh" /\ ssl = "up"
      BY <1>4, <2>2, StepRec, Secures
    <2>3. CASE conn.sslconn \in {"fresh", "up"} /\ ssl = "broken"
      BY <1>4, <2>3, StepRec, Secures
    <2> QED
      BY <2>1, <2>2, <2>3
  <1> HIDE DEF k
  <1>6. ~(pc' = "dispatch" /\ result' = "CONNECTION_RESET")
    OBVIOUS
  <1> QED
    BY <1>1, <1>3, <1>5, <1>6 DEF Moved

\* The handshake of smtps_handler.
LEMMA SmtpsMoved == ASSUME Called, Shaped(conn), smtps_handler PROVE Moved
  <1>1. PICK o \in SSL_accept(Self, conn.sslconn) :
          \/ Return([conn EXCEPT !.sslconn = o.ssl], "CONNECTION_ERROR")
          \/ Return([conn EXCEPT !.sslconn = o.ssl], "CONNECTION_DONE")
    BY DEF smtps_handler
  <1>2. /\ conn' = [conn EXCEPT !.sslconn = o.ssl]
        /\ result' # "CONNECTION_RESET"
    BY <1>1 DEF Return
  <1>3. conn.type # "SMTP_CONNECTION"
    BY DEF smtps_handler, Handling
  <1>4. \/ o.ssl = conn.sslconn
        \/ conn.sslconn = "fresh" /\ o.ssl = "up"
        \/ conn.sslconn \in {"fresh", "up"} /\ o.ssl = "broken"
    BY AcceptTurns
  <1> QED
    BY <1>2, <1>3, <1>4, SslMoved

\* The verdict on a read never asks for a reset.
LEMMA NoReset == ASSUME NEW o PROVE ReadResult(o) # "CONNECTION_RESET"
  BY DEF ReadResult

\* The handlers that leave the connection as it is.
LEMMA PlainMoved ==
  ASSUME Called, Shaped(conn), starttls_handler \/ http_handler PROVE Moved
  <1>1. CASE starttls_handler
    BY <1>1, SameMoved DEF starttls_handler
  <1>2. CASE http_handler
    <2>1. PICK o : Return(conn, ReadResult(o))
      BY <1>2 DEF http_handler
    <2> QED
      BY <2>1, NoReset, SameMoved
  <1> QED
    BY <1>1, <1>2

\* The handshake and the read of https_handler.
LEMMA HttpsMoved == ASSUME Called, Shaped(conn), https_handler PROVE Moved
  <1>1. conn.type # "SMTP_CONNECTION"
    BY DEF https_handler
  <1>2. CASE \E o \in SSL_accept(Self, conn.sslconn) :
               Return([conn EXCEPT !.sslconn = o.ssl], "CONNECTION_ERROR")
    <2>1. PICK o \in SSL_accept(Self, conn.sslconn) :
            Return([conn EXCEPT !.sslconn = o.ssl], "CONNECTION_ERROR")
      BY <1>2
    <2>2. /\ conn' = [conn EXCEPT !.sslconn = o.ssl]
          /\ result' # "CONNECTION_RESET"
      BY <2>1 DEF Return
    <2>3. \/ o.ssl = conn.sslconn
          \/ conn.sslconn = "fresh" /\ o.ssl = "up"
          \/ conn.sslconn \in {"fresh", "up"} /\ o.ssl = "broken"
      BY AcceptTurns
    <2> QED
      BY <1>1, <2>2, <2>3, SslMoved
  <1>3. CASE \E o \in SSL_accept(Self, conn.sslconn) :
               conn' = [conn EXCEPT !.sslconn = o.ssl] /\ UNCHANGED <<pc, result>>
    <2>1. PICK o \in SSL_accept(Self, conn.sslconn) :
            conn' = [conn EXCEPT !.sslconn = o.ssl] /\ UNCHANGED <<pc, result>>
      BY <1>3
    <2>2. pc' = "handle"
      BY <2>1 DEF Called
    <2>3. \/ o.ssl = conn.sslconn
          \/ conn.sslconn = "fresh" /\ o.ssl = "up"
          \/ conn.sslconn \in {"fresh", "up"} /\ o.ssl = "broken"
      BY AcceptTurns
    <2> QED
      BY <1>1, <2>1, <2>2, <2>3, SslMoved
  <1>4. CASE /\ conn.sslconn = "up"
             /\ \E o \in SSL_read(Self, "up") :
                  Return([conn EXCEPT !.sslconn = o.ssl], ReadResult(o))
    <2>1. PICK o \in SSL_read(Self, "up") :
            Return([conn EXCEPT !.sslconn = o.ssl], ReadResult(o))
      BY <1>4
    <2>2. /\ conn' = [conn EXCEPT !.sslconn = o.ssl]
          /\ result' # "CONNECTION_RESET"
      BY <2>1, NoReset DEF Return
    <2>3. \/ o.ssl = conn.sslconn
          \/ conn.sslconn \in {"fresh", "up"} /\ o.ssl = "broken"
      BY <1>4, SslReadTurns
    <2> QED
      BY <1>1, <2>2, <2>3, SslMoved
  <1> QED
    BY <1>2, <1>3, <1>4, Zenon DEF https_handler

\* Whichever handler runs, its session stays or takes a step.
LEMMA HandleMoved == ASSUME IInv, Shapes, Handle PROVE Moved
  <1>1. Called /\ pc = "handle"
    BY HandleCalled, InvCalled
  <1>2. Shaped(conn)
    BY <1>1, NoConnAssumption DEF Called, Shapes
  <1>3. CASE UseWildSslconn
    BY <1>1, <1>2, <1>3, HaltMoved DEF UseWildSslconn, Undefined
  <1> QED
    BY <1>1, <1>2, <1>3, SmtpMoved, SmtpsMoved, PlainMoved, HttpsMoved DEF Handle
-----------------------------------------------------------------------------
(* The steps of the process. *)

\* No session changes.
Kept == \A c \in Clients : SessionOf(c)' = SessionOf(c)

\* Where a client can be.
LEMMA Whereabouts ==
  ASSUME IInv, NEW c \in Clients
  PROVE  \/ sock[c].phase \in {"idle", "backlog"}
         \/ sock[c].phase = "closed"
         \/ sock[c].phase = "open" /\ \E i \in DOMAIN fifo : fifo[i].client = c
         \/ sock[c].phase = "open" /\ conn # NoConn /\ conn.client = c
  <1>1. sock[c] \in Sock
    BY DEF IInv, Types, TypeOK
  <1>2. sock[c].phase \in {"idle", "backlog", "open", "closed"}
    BY <1>1 DEF Sock
  <1> QED
    BY <1>2 DEF IInv, Holding

\* The session of a client that is not in hand, and stays where it is.
LEMMA OtherKept ==
  ASSUME IInv, Reads, Reads', NEW c \in Clients,
         \/ sock'[c].phase = sock[c].phase
         \/ /\ sock[c].phase \in {"idle", "backlog"}
            /\ sock'[c].phase \in {"idle", "backlog"},
         conn = NoConn \/ conn.client # c,
         \A i \in DOMAIN fifo : fifo[i].client = c =>
           \E j \in DOMAIN fifo' : fifo'[j] = fifo[i]
  PROVE  SessionOf(c)' = SessionOf(c)
  <1>1. CASE sock[c].phase \in {"idle", "backlog"}
    <2>1. SessionOf(c) = Session0
      BY <1>1, Zenon DEF Reads
    <2>2. sock'[c].phase \in {"idle", "backlog"}
      BY <1>1
    <2>3. SessionOf(c)' = Session0
      BY <2>2, Zenon DEF Reads, Session0
    <2> QED
      BY <2>1, <2>3, Zenon
  <1>2. CASE sock[c].phase = "closed"
    <2>1. SessionOf(c) = Gone
      BY <1>2, Zenon DEF Reads
    <2>2. sock'[c].phase = "closed"
      BY <1>2
    <2>3. SessionOf(c)' = Gone
      BY <2>2, Zenon DEF Reads, Gone, Session0
    <2> QED
      BY <2>1, <2>3, Zenon
  <1>3. CASE \E i \in DOMAIN fifo : fifo[i].client = c
    <2>1. PICK i \in DOMAIN fifo : fifo[i].client = c
      BY <1>3
    <2>2. PICK j \in DOMAIN fifo' : fifo'[j] = fifo[i]
      BY <2>1
    <2>3. SessionOf(c) = View(fifo[i])
      BY <2>1, Zenon DEF Reads
    <2>4. SessionOf(c)' = View(fifo'[j])
      BY <2>1, <2>2, Zenon DEF Reads, View
    <2> QED
      BY <2>2, <2>3, <2>4, Zenon
  <1> QED
    BY <1>1, <1>2, <1>3, Whereabouts

\* Steps that leave the connections alone.
LEMMA FrameStep ==
  ASSUME IInv, Shapes, Reads, Reads', UNCHANGED <<fifo, conn>>,
         \/ UNCHANGED <<pc, result>>
         \/ pc # "dispatch" /\ pc' # "dispatch",
         \A c \in Clients : \/ sock'[c].phase = sock[c].phase
                            \/ /\ sock[c].phase \in {"idle", "backlog"}
                               /\ sock'[c].phase \in {"idle", "backlog"}
  PROVE  Shapes' /\ Kept
  <1>1. Shapes'
    BY DEF Shapes, Shaped
  <1>2. ASSUME NEW c \in Clients PROVE SessionOf(c)' = SessionOf(c)
    <2>1. CASE conn = NoConn \/ conn.client # c
      BY <2>1, OtherKept
    <2>2. CASE conn # NoConn /\ conn.client = c
      <3>1. SessionOf(c) = View(Seen)
        BY <2>2, Zenon DEF Reads
      <3>2. conn' # NoConn /\ conn'.client = c
        BY <2>2
      <3>3. SessionOf(c)' = View(Seen')
        BY <3>2, Zenon DEF Reads, View
      <3>4. Seen' = Seen
        BY DEF Seen
      <3> QED
        BY <3>1, <3>3, <3>4, Zenon
    <2> QED
      BY <2>1, <2>2
  <1> QED
    BY <1>1, <1>2 DEF Kept

\* A handler call.
LEMMA HandleStep ==
  ASSUME IInv, Shapes, Reads, Reads', Handle
  PROVE  Shapes' /\ (Kept \/ MailService!Next)
  <1>1. pc = "handle" /\ Moved /\ Served /\ fifo' = fifo
    BY HandleCalled, HandleMoved, HandleServed
  <1>2. conn # NoConn /\ conn.client \in Clients
    BY <1>1, InvCalled, CalledTypes, NoConnAssumption DEF Called
  <1>3. conn' # NoConn /\ conn'.client = conn.client
    BY <1>1, NoConnAssumption DEF Served
  <1>4. Shapes'
    BY <1>1 DEF Shapes, Shaped, Moved
  <1>5. PICK c \in Clients : conn.client = c
    BY <1>2
  <1>6. SessionOf(c) = View(conn)
    <2>1. SessionOf(c) = View(Seen)
      BY <1>2, <1>5, Zenon DEF Reads
    <2>2. Seen = conn
      BY <1>1 DEF Seen
    <2> QED
      BY <2>1, <2>2, Zenon
  <1>7. SessionOf(c)' = View(Seen')
    BY <1>3, <1>5, Zenon DEF Reads, View
  <1>8. \A d \in Clients \ {c} : SessionOf(d)' = SessionOf(d)
    <2> TAKE d \in Clients \ {c}
    <2>1. sock'[d].phase = sock[d].phase
      BY <1>1 DEF Served, Talked
    <2> QED
      BY <1>1, <1>5, <2>1, OtherKept
  <1>9. View(Seen') = View(conn) \/ Step(View(conn), View(Seen'))
    BY <1>1, Zenon DEF Moved
  <1>10. CASE View(Seen') = View(conn)
    BY <1>4, <1>6, <1>7, <1>8, <1>10, Zenon DEF Kept
  <1>11. CASE Step(View(conn), View(Seen'))
    <2>1. Step(SessionOf(c), SessionOf(c)')
      BY <1>6, <1>7, <1>11, Zenon
    <2> QED
      BY <1>4, <1>8, <2>1, StepNext
  <1> QED
    BY <1>9, <1>10, <1>11

\* process_connection takes a connection, or none.
LEMMA TakeStep ==
  ASSUME IInv, Shapes, Reads, Reads', Take
  PROVE  Shapes' /\ Kept
  <1>1. PICK r \in {0, 1}, k \in {NoConn} \cup {fifo[i] : i \in DOMAIN fifo} :
          /\ Queue!Dequeue(NoConn, k, r)
          /\ conn' = IF r = 0 THEN k ELSE NoConn
          /\ pc' = IF r = 0 THEN "handle" ELSE "loop"
    BY DEF Take
  <1>2. pc = "process" /\ conn = NoConn /\ sock' = sock
    BY DEF Take, IInv, Types, TypeOK
  <1>3. fifo \in Seq(Connection)
    BY DEF IInv, Types, TypeOK
  <1>4. CASE r = 1
    <2>1. fifo' = fifo
      BY <1>1, <1>4, MutexAssumption DEF Queue!Dequeue, Queue!UnlockResults
    <2> QED
      BY <1>1, <1>2, <1>4, <2>1, FrameStep
  <1>5. CASE r = 0
    <2>1. fifo # <<>> /\ k = Head(fifo) /\ fifo' = Tail(fifo)
      BY <1>1, <1>5 DEF Queue!Dequeue
    <2>2. /\ Len(fifo) \in Nat /\ Len(fifo) >= 1 /\ DOMAIN fifo = 1 .. Len(fifo)
          /\ k = fifo[1] /\ 1 \in DOMAIN fifo
      BY <1>3, <2>1
    <2>3. /\ DOMAIN fifo' = 1 .. Len(fifo) - 1
          /\ \A i \in DOMAIN fifo' : i + 1 \in DOMAIN fifo /\ fifo'[i] = fifo[i + 1]
      BY <1>3, <2>1, <2>2
    <2>4. conn' = k /\ pc' = "handle" /\ k # NoConn
      BY <1>1, <1>5, <2>2, QueuedTypes, NoConnAssumption
    <2>5. Shapes'
      <3>1. Shaped(k) /\ \A i \in DOMAIN fifo' : Shaped(fifo'[i])
        BY <2>2, <2>3 DEF Shapes
      <3> QED
        BY <2>4, <3>1 DEF Shapes, Shaped
    <2>6. ASSUME NEW c \in Clients PROVE SessionOf(c)' = SessionOf(c)
      <3>1. CASE k.client = c
        <4>1. SessionOf(c) = View(k)
          BY <2>2, <3>1, Zenon DEF Reads
        <4>2. conn' # NoConn /\ conn'.client = c /\ Seen' = k
          BY <2>4, <3>1 DEF Seen
        <4>3. SessionOf(c)' = View(Seen')
          BY <4>2, Zenon DEF Reads, View
        <4> QED
          BY <4>1, <4>2, <4>3, Zenon
      <3>2. CASE k.client # c
        <4>1. ASSUME NEW i \in DOMAIN fifo, fifo[i].client = c
              PROVE  \E j \in DOMAIN fifo' : fifo'[j] = fifo[i]
          <5>1. i # 1
            BY <2>2, <3>2, <4>1
          <5>2. i - 1 \in DOMAIN fifo' /\ (i - 1) + 1 = i
            BY <2>2, <2>3, <5>1
          <5> QED
            BY <2>3, <5>2
        <4> QED
          BY <1>2, <4>1, OtherKept
      <3> QED
        BY <3>1, <3>2
    <2> QED
      BY <2>5, <2>6 DEF Kept
  <1> QED
    BY <1>4, <1>5

\* A closed connection's session is gone.
LEMMA GoneStep ==
  ASSUME IInv, Reads, Reads', NEW c \in Clients, sock'[c].phase = "closed",
         \A d \in Clients \ {c} : sock'[d] = sock[d],
         conn = NoConn \/ conn.client = c, fifo' = fifo
  PROVE  MailService!Next
  <1>1. SessionOf(c)' = Gone
    BY Zenon DEF Reads, Gone, Session0
  <1>2. \A d \in Clients \ {c} : SessionOf(d)' = SessionOf(d)
    BY OtherKept
  <1>3. Step(SessionOf(c), SessionOf(c)')
    BY <1>1, Zenon DEF Step
  <1> QED
    BY <1>2, <1>3, StepNext

\* connection_deinit on a connection of client c.
LEMMA DeinitStep ==
  ASSUME IInv, Reads, Reads', NEW c \in Clients, NEW k, k.client = c, NEW h,
         connection_deinit(k, h), conn = NoConn \/ conn.client = c, fifo' = fifo
  PROVE  MailService!Next
  <1>1. sock \in [Clients -> Sock]
    BY DEF IInv, Types, TypeOK
  <1>2. sock' = [sock EXCEPT ![c] = [NewSock EXCEPT !.phase = "closed"]]
    BY DEF connection_deinit
  <1>3. [NewSock EXCEPT !.phase = "closed"].phase = "closed"
    BY DEF NewSock
  <1>4. /\ sock'[c].phase = "closed"
        /\ \A d \in Clients \ {c} : sock'[d] = sock[d]
    BY <1>1, <1>2, <1>3
  <1> QED
    BY <1>4, GoneStep

\* The connection just handled is closed.
LEMMA CloseStep ==
  ASSUME IInv, Shapes, Reads, Reads', pc = "dispatch",
         NEW k, k.client = conn.client, NEW h, fifo' = fifo, Close(k, h)
  PROVE  Shapes' /\ (Kept \/ MailService!Next)
  <1>1. CASE k.sslconn = "wild"
    <2>1. UNCHANGED <<sock, pc, conn, result>>
      BY <1>1 DEF Close, Undefined
    <2> QED
      BY <2>1, FrameStep
  <1>2. CASE k.sslconn # "wild"
    <2>1. connection_deinit(k, h) /\ conn' = NoConn /\ pc' = "loop"
      BY <1>2 DEF Close, Processed
    <2>2. Shapes'
      BY <2>1 DEF Shapes, Shaped
    <2>3. PICK c \in Clients : conn.client = c
      BY AtDispatch
    <2> QED
      BY <2>1, <2>2, <2>3, DeinitStep
  <1> QED
    BY <1>1, <1>2

\* The connection just handled goes back to the queue as the dispatch leaves it.
LEMMA RequeueStep ==
  ASSUME IInv, Shapes, Reads, Reads', pc = "dispatch",
         NEW k, k.client = conn.client, k = Seen, Shaped(k), NEW h, Requeue(k, h)
  PROVE  Shapes' /\ (Kept \/ MailService!Next)
  <1>1. PICK r \in {0, 1} :
          /\ Queue!Enqueue(k, r)
          /\ \/ r = 0 /\ sock' = sock /\ Processed
             \/ r # 0 /\ Close(k, h)
    BY DEF Requeue
  <1>2. CASE r = 1
    <2>1. fifo' = fifo
      BY <1>1, <1>2, MutexAssumption DEF Queue!Enqueue, Queue!UnlockResults
    <2> QED
      BY <1>1, <1>2, <2>1, CloseStep
  <1>3. CASE r = 0
    <2>1. fifo' = Append(fifo, k) /\ fifo \in Seq(Connection)
      BY <1>1, <1>3 DEF Queue!Enqueue, IInv, Types, TypeOK
    <2>2. sock' = sock /\ conn' = NoConn /\ pc' = "loop"
      BY <1>1, <1>3 DEF Processed
    <2> DEFINE n == Len(fifo) + 1
    <2>3. /\ n \in DOMAIN fifo' /\ fifo'[n] = k
          /\ \A i \in DOMAIN fifo : i \in DOMAIN fifo' /\ fifo'[i] = fifo[i]
          /\ \A i \in DOMAIN fifo' : i \in DOMAIN fifo \/ i = n
      BY <2>1
    <2> HIDE DEF n
    <2>4. Shapes'
      <3>1. \A i \in DOMAIN fifo' : Shaped(fifo'[i])
        BY <2>3 DEF Shapes
      <3> QED
        BY <2>2, <3>1 DEF Shapes, Shaped
    <2>5. ASSUME NEW c \in Clients PROVE SessionOf(c)' = SessionOf(c)
      <3>1. CASE conn.client = c
        <4>1. SessionOf(c) = View(Seen)
          BY <3>1, AtDispatch, Zenon DEF Reads
        <4>2. fifo'[n].client = c
          BY <2>3, <3>1
        <4>3. SessionOf(c)' = View(fifo'[n])
          BY <2>3, <4>2, Zenon DEF Reads, View
        <4> QED
          BY <2>3, <4>1, <4>3, Zenon
      <3>2. CASE conn.client # c
        BY <2>2, <2>3, <3>2, OtherKept
      <3> QED
        BY <3>1, <3>2
    <2> QED
      BY <2>4, <2>5 DEF Kept
  <1> QED
    BY <1>2, <1>3

\* The switch on the handler's result.
LEMMA DispatchStep ==
  ASSUME IInv, Shapes, Reads, Reads',
         DispatchContinue \/ DispatchReset \/ DispatchClose
  PROVE  Shapes' /\ (Kept \/ MailService!Next)
  <1>1. pc = "dispatch"
    BY DEF DispatchContinue, DispatchReset, DispatchClose
  <1>2. conn \in Connection /\ conn # NoConn /\ Shaped(conn)
    BY <1>1, AtDispatch DEF Shapes
  <1>3. CASE DispatchContinue
    <2>1. conn = Seen
      BY <1>3 DEF DispatchContinue, Seen
    <2>2. PICK h : Requeue(conn, h)
      BY <1>3 DEF DispatchContinue
    <2> QED
      BY <1>1, <1>2, <2>1, <2>2, RequeueStep
  <1>4. CASE DispatchReset
    <2> DEFINE k == reset_connection(conn)
    <2>1. k = Seen /\ conn.type = "SMTP_CONNECTION"
      BY <1>4 DEF DispatchReset, Seen, Shapes
    <2>2. /\ k.client = conn.client /\ k.type = conn.type
          /\ k.state \in {"MAIL_CONNECTION_GREETED", "MAIL_CONNECTION_EXPECT_ANY"}
      BY <1>2 DEF reset_connection, Connection
    <2>3. PICK h : Requeue(k, h)
      BY <1>4 DEF DispatchReset
    <2> HIDE DEF k
    <2>4. Shaped(k)
      BY <2>1, <2>2 DEF Shaped
    <2> QED
      BY <1>1, <2>1, <2>2, <2>3, <2>4, RequeueStep
  <1>5. CASE DispatchClose
    BY <1>1, <1>5, CloseStep DEF DispatchClose
  <1> QED
    BY <1>3, <1>4, <1>5

\* An accepted connection opens a session, or is turned away.
LEMMA AcceptStep ==
  ASSUME IInv, Shapes, Reads, Reads', NEW c \in Clients, handle_connection(c)
  PROVE  Shapes' /\ (Kept \/ MailService!Next)
  <1> DEFINE type == Listeners[at].type
  <1>1. PICK sslconn \in InitialSslconn(type), r \in {0, 1} :
          LET k == connection_init(c, type, sslconn)
              h == [ssl |-> IF sslconn = "fresh" THEN 1 ELSE 0, buf |-> 0] IN
          /\ Queue!Enqueue(k, r)
          /\ \/ /\ r = 0
                /\ sock' = [sock EXCEPT ![c].phase = "open"]
                /\ NextAccept
             \/ r # 0 /\ connection_deinit(k, h) /\ NextAccept
             \/ r # 0 /\ UNCHANGED <<sock, pc>>
    BY DEF handle_connection
  <1> DEFINE k == connection_init(c, type, sslconn)
             h == [ssl |-> IF sslconn = "fresh" THEN 1 ELSE 0, buf |-> 0]
  <1>2. /\ pc = "accept" /\ conn = NoConn /\ sock[c].phase = "backlog"
        /\ UNCHANGED <<conn, result>>
        /\ fifo \in Seq(Connection) /\ sock \in [Clients -> Sock]
    BY DEF handle_connection, Pending, IInv, Types, TypeOK
  <1>3. NextAccept => pc' # "dispatch"
    BY DEF NextAccept
  <1>4. /\ k.client = c /\ k.sslconn = sslconn /\ k.messagebufferend = 0
        /\ k.state \in {"MAIL_CONNECTION_OPENED", "HTTP_CONNECTION_OPENED"}
        /\ k.type = "SMTP_CONNECTION" => k.state = "MAIL_CONNECTION_OPENED"
    BY Zenon DEF connection_init
  <1>5. Queue!Enqueue(k, r)
    BY <1>1
  <1>6. CASE r = 1
    <2>1. fifo' = fifo
      BY <1>5, <1>6, MutexAssumption DEF Queue!Enqueue, Queue!UnlockResults
    <2>2. CASE connection_deinit(k, h) /\ NextAccept
      <3>1. Shapes'
        BY <1>2, <1>3, <2>1, <2>2 DEF Shapes, Shaped
      <3> HIDE DEF k, h
      <3> QED
        <4>1. k.client = c /\ connection_deinit(k, h) /\ conn = NoConn
          BY <1>2, <1>4, <2>2
        <4>2. MailService!Next
          BY <2>1, <4>1, DeinitStep, Zenon
        <4> QED
          BY <3>1, <4>2
    <2>3. CASE UNCHANGED <<sock, pc>>
      BY <1>2, <2>1, <2>3, FrameStep
    <2> QED
      BY <1>1, <1>6, <2>2, <2>3
  <1>7. CASE r = 0
    <2>1. fifo' = Append(fifo, k)
      BY <1>5, <1>7 DEF Queue!Enqueue
    <2>2. sock' = [sock EXCEPT ![c].phase = "open"] /\ pc' # "dispatch"
      BY <1>1, <1>3, <1>7
    <2>3. sslconn \in {"null", "wild", "fresh"}
      BY <1>1, StackAssumption DEF InitialSslconn
    <2> HIDE DEF k, h
    <2> DEFINE n == Len(fifo) + 1
    <2>4. /\ n \in DOMAIN fifo' /\ fifo'[n] = k
          /\ \A i \in DOMAIN fifo : i \in DOMAIN fifo' /\ fifo'[i] = fifo[i]
          /\ \A i \in DOMAIN fifo' : i \in DOMAIN fifo \/ i = n
      BY <1>2, <2>1
    <2> HIDE DEF n
    <2>5. Shapes'
      <3>1. Shaped(k)
        BY <1>4 DEF Shaped
      <3>2. \A i \in DOMAIN fifo' : Shaped(fifo'[i])
        BY <2>4, <3>1 DEF Shapes
      <3> QED
        BY <1>2, <2>2, <3>2 DEF Shapes, Shaped
    <2>6. \A d \in Clients \ {c} : SessionOf(d)' = SessionOf(d)
      <3> TAKE d \in Clients \ {c}
      <3>1. sock'[d].phase = sock[d].phase
        BY <1>2, <2>2
      <3> QED
        BY <1>2, <2>4, <3>1, OtherKept
    <2>7. SessionOf(c) = Session0
      BY <1>2, Zenon DEF Reads
    <2>8. SessionOf(c)' = View(k)
      <3>1. fifo'[n].client = c
        BY <1>4, <2>4
      <3>2. SessionOf(c)' = View(fifo'[n])
        BY <2>4, <3>1, Zenon DEF Reads, View
      <3> QED
        BY <2>4, <3>2
    <2>9. PICK s \in {"plain", "pending"} : View(k) = Rec("opened", s, 0)
      <3>1. PhaseName[k.state] = "opened"
        BY <1>4, Phases
      <3>2. SecureName[sslconn] \in {"plain", "pending"}
        BY <2>3, Secures
      <3>3. View(k) = Rec("opened", SecureName[sslconn], 0)
        BY <1>4, <3>1, Zenon DEF View, Rec
      <3> QED
        BY <3>2, <3>3
    <2>10. Rec("opened", s, 0) = [Session0 EXCEPT !.phase = "opened", !.secure = s]
      <3>1. [Session0 EXCEPT !.phase = "opened", !.secure = s]
              = [[Session0 EXCEPT !.phase = "opened"] EXCEPT !.secure = s]
        OBVIOUS
      <3>2. [Session0 EXCEPT !.phase = "opened"] = Rec("opened", "plain", 0)
        BY DEF Rec, Session0
      <3>3. [Rec("opened", "plain", 0) EXCEPT !.secure = s] = Rec("opened", s, 0)
        BY RecExcept
      <3> QED
        BY <3>1, <3>2, <3>3, Zenon
    <2>11. Step(SessionOf(c), SessionOf(c)')
      BY <2>7, <2>8, <2>9, <2>10, Zenon DEF Step
    <2> QED
      BY <2>5, <2>6, <2>11, StepNext
  <1> QED
    BY <1>6, <1>7
-----------------------------------------------------------------------------
(* The theorem. *)

\* Every step keeps the invariant and is a step of MailSession, or none.
LEMMA NextRefines ==
  ASSUME IInv, IInv', Shapes, Reads, Reads', [Next]_vars
  PROVE  Shapes' /\ (Kept \/ MailService!Next)
  <1>1. CASE Loop \/ AcceptNothing
    <2>1. /\ UNCHANGED <<sock, fifo, conn>>
          /\ pc # "dispatch" /\ pc' # "dispatch"
      BY <1>1 DEF Loop, AcceptNothing, NextAccept
    <2> QED
      BY <2>1, FrameStep
  <1>2. CASE \E c \in Clients : Peer(c) /\ UNCHANGED <<at, fifo, stop_signal, armed>>
    <2>1. PICK c \in Clients : Peer(c) /\ fifo' = fifo
      BY <1>2
    <2>2. PICK t \in Sock : /\ sock' = [sock EXCEPT ![c] = t]
                            /\ \/ sock[c].phase = "idle" /\ t.phase = "backlog"
                               \/ t.phase = sock[c].phase
      BY <2>1, PeerTurns
    <2>3. UNCHANGED <<pc, conn, result>>
      BY <2>1 DEF Peer
    <2>4. \A d \in Clients : \/ sock'[d].phase = sock[d].phase
                             \/ /\ sock[d].phase \in {"idle", "backlog"}
                                /\ sock'[d].phase \in {"idle", "backlog"}
      BY <2>2 DEF IInv, Types, TypeOK
    <2> QED
      BY <2>1, <2>3, <2>4, FrameStep
  <1>3. CASE \E s \in Signals : Signal(s)
    BY <1>3, FrameStep DEF Signal
  <1>4. CASE UNCHANGED vars
    BY <1>4, FrameStep DEF vars, callvars
  <1> QED
    BY <1>1, <1>2, <1>3, <1>4, AcceptStep, TakeStep, HandleStep, DispatchStep
       DEF Next, MasterStep, process_connection, Ended

\* Initially no client has a session.
LEMMA InitRefines == Init => Shapes /\ MailService!Init
  <1> SUFFICES ASSUME Init PROVE Shapes /\ MailService!Init
    OBVIOUS
  <1>1. Shapes
    BY DEF Init, Shapes
  <1>2. \A c \in Clients : sock[c].phase = "idle"
    BY Zenon DEF Init, NewSock
  <1>3. \A c \in Clients : SessionOf(c) = Session0
    BY <1>2, InitIInv, SessionsRead, Zenon DEF Reads
  <1> QED
    BY <1>1, <1>3, Zenon DEF MailService!Init, MailService!Absent, Session0

\* RInv is inductive, and under it every step maps to one of MailSession.
LEMMA RInvStep ==
  RInv /\ [Next]_vars => RInv' /\ [MailService!Next]_[c \in Clients |-> SessionOf(c)]
  <1>1. IInv /\ [Next]_vars => IInv'
    BY NextIInv
  <1>2. IInv' => Reads'
    BY SessionsRead, PTL
  <1> SUFFICES ASSUME RInv, [Next]_vars
               PROVE  RInv' /\ [MailService!Next]_[c \in Clients |-> SessionOf(c)]
    OBVIOUS
  <1>3. IInv /\ IInv' /\ Shapes /\ Reads /\ Reads'
    BY <1>1, <1>2, SessionsRead DEF RInv
  <1>4. Shapes' /\ (Kept \/ MailService!Next)
    BY <1>3, NextRefines
  <1>5. Kept => [c \in Clients |-> SessionOf(c)]' = [c \in Clients |-> SessionOf(c)]
    BY Zenon DEF Kept
  <1> QED
    BY <1>3, <1>4, <1>5, Zenon DEF RInv

\* The program keeps every session to the order MailSession allows, for any
\* number of peers, listeners and queue slots (smtp.c:142-351, master.c:58-70,
\* 187-247).
THEOREM SessionsRefine == Spec => RefinesSession
  <1>1. Init => RInv /\ MailService!Init
    BY InitIInv, InitRefines DEF RInv
  <1> QED
    BY <1>1, RInvStep, PTL DEF Spec, RefinesSession, MailService!Spec
=============================================================================
