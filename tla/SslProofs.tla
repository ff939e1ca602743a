------------------------------ MODULE SslProofs ------------------------------
(***************************************************************************)
(* The SSL objects a connection leaves behind: SslObjectsAccounted, for    *)
(* every instance and every number of STARTTLS commands.                   *)
(***************************************************************************)
EXTENDS MasterProofs, FiniteSetTheorems

\* The STARTTLS commands among the pieces rx that have not been read.
Asked(rx) == {i \in DOMAIN rx : rx[i].tok = "STARTTLS"}

Unread(rx) == Cardinality(Asked(rx))

\* A connection k with h allocated for it, whose socket is s: it has an SSL
\* object exactly if sslconn points to one, and an SMTP connection has had at
\* most one for each STARTTLS that was read.
Counted(k, h, s) ==
  /\ k.sslconn \in Allocated <=> h.ssl # 0
  /\ IF k.type = "SMTP_CONNECTION" THEN h.ssl + Unread(s.rx) <= s.upgrades
                                   ELSE h.ssl <= 1

\* What a peer has sent and was not read is part of what it may send.
Asking ==
  \A c \in Clients : /\ Unread(sock[c].rx) <= sock[c].upgrades
                     /\ sock[c].upgrades <= MaxUpgrades

Counts ==
  /\ \A i \in DOMAIN fifo :
       Counted(fifo[i], heap[fifo[i].client], sock[fifo[i].client])
  /\ conn # NoConn => Counted(conn, heap[conn.client], sock[conn.client])

\* The SSL objects a closed connection may have left.
Spare == IF MaxUpgrades = 0 THEN 0 ELSE MaxUpgrades - 1

Left == \A c \in Clients : sock[c].phase = "closed" => heap[c].ssl <= Spare

\* The inductive invariant.
SInv == IInv /\ Asking /\ Counts /\ Left
-----------------------------------------------------------------------------
(* Counting unread commands. *)

\* Only finitely many have arrived.
LEMMA UnreadNat ==
  ASSUME NEW rx \in Seq(Pieces)
  PROVE  IsFiniteSet(Asked(rx)) /\ Unread(rx) \in Nat
  <1>1. Len(rx) \in Nat /\ DOMAIN rx = 1 .. Len(rx)
    OBVIOUS
  <1>2. IsFiniteSet(1 .. Len(rx))
    BY <1>1, FS_Interval
  <1>3. Asked(rx) \in SUBSET (1 .. Len(rx))
    BY <1>1 DEF Asked
  <1>4. IsFiniteSet(Asked(rx))
    BY <1>2, <1>3, FS_Subset
  <1> QED
    BY <1>4, FS_CardinalityType DEF Unread

\* Nothing arrived, nothing asked.
LEMMA UnreadNone ==
  Unread(<<>>) = 0
  <1>1. Asked(<<>>) = {}
    BY DEF Asked
  <1> QED
    BY <1>1, FS_EmptySet DEF Unread

\* One more piece arrives.
LEMMA UnreadMore ==
  ASSUME NEW rx \in Seq(Pieces), NEW p \in Pieces
  PROVE  Unread(Append(rx, p)) =
           Unread(rx) + (IF p.tok = "STARTTLS" THEN 1 ELSE 0)
  <1> DEFINE n == Len(rx) + 1
             q == Append(rx, p)
  <1>1. /\ DOMAIN rx = 1 .. Len(rx) /\ DOMAIN q = 1 .. n /\ n \in Nat
        /\ q[n] = p /\ n \notin DOMAIN rx
        /\ \A i \in DOMAIN rx : i \in DOMAIN q /\ q[i] = rx[i]
        /\ \A i \in DOMAIN q : i \in DOMAIN rx \/ i = n
        /\ n \in DOMAIN q
    OBVIOUS
  <1>2. IsFiniteSet(Asked(rx)) /\ Unread(rx) \in Nat
    BY UnreadNat
  <1> HIDE DEF n, q
  <1>3. n \notin Asked(rx)
    BY <1>1 DEF Asked
  <1>4. CASE p.tok = "STARTTLS"
    <2>1. Asked(q) = Asked(rx) \cup {n}
      BY <1>1, <1>4 DEF Asked
    <2>2. Cardinality(Asked(rx) \cup {n}) = Cardinality(Asked(rx)) + 1
      BY <1>2, <1>3, FS_AddElement, Zenon
    <2> QED
      BY <1>4, <2>1, <2>2 DEF Unread, q
  <1>5. CASE p.tok # "STARTTLS"
    <2>1. Asked(q) = Asked(rx)
      BY <1>1, <1>5 DEF Asked
    <2> QED
      BY <1>2, <1>5, <2>1 DEF Unread, q
  <1> QED
    BY <1>4, <1>5

\* Reading from the front: what is left is asked no more often, and less
\* often if the first piece read was a STARTTLS.
LEMMA UnreadLess ==
  ASSUME NEW rx \in Seq(Pieces), NEW rest \in Seq(Pieces), NEW d \in Nat,
         Len(rest) + d = Len(rx),
         \A i \in 1 .. Len(rest) : rest[i] = rx[i + d]
  PROVE  /\ Unread(rest) <= Unread(rx)
         /\ d > 0 /\ rx[1].tok = "STARTTLS" => Unread(rest) + 1 <= Unread(rx)
  <1> DEFINE A == Asked(rest)
             f == [i \in A |-> i + d]
  <1>1. IsFiniteSet(Asked(rx)) /\ Unread(rx) \in Nat /\ Unread(rest) \in Nat
    BY UnreadNat
  <1>2. \A i \in A : i \in Nat /\ i > 0 /\ i + d \in Asked(rx)
    BY DEF Asked
  <1> HIDE DEF A
  <1>3. ASSUME NEW T \in SUBSET Asked(rx), \A i \in A : i + d \in T
        PROVE  Cardinality(A) <= Cardinality(T)
    <2>1. f \in [A -> T]
      BY <1>3
    <2>2. \A i, j \in A : f[i] = f[j] => i = j
      BY <1>2
    <2>3. f \in Injection(A, T)
      <3>1. DOMAIN f = A
        OBVIOUS
      <3> HIDE DEF f
      <3> QED
        BY <2>1, <2>2, <3>1 DEF Injection, IsInjective
    <2>4. IsFiniteSet(T)
      BY <1>1, FS_Subset
    <2> HIDE DEF f
    <2> QED
      BY <2>3, <2>4, FS_Injection
  <1>4. Unread(rest) <= Unread(rx)
    BY <1>2, <1>3 DEF Unread, A
  <1>5. ASSUME d > 0, rx[1].tok = "STARTTLS"
        PROVE  Unread(rest) + 1 <= Unread(rx)
    <2> DEFINE T == Asked(rx) \ {1}
    <2>1. 1 \in Asked(rx)
      BY <1>5 DEF Asked
    <2>2. Cardinality(T) = Cardinality(Asked(rx)) - 1
      BY <1>1, <2>1, FS_RemoveElement, Zenon
    <2>3. \A i \in A : i + d \in T
      BY <1>2, <1>5
    <2> HIDE DEF T
    <2>4. Cardinality(A) <= Cardinality(T)
      BY <1>3, <2>3 DEF T
    <2> QED
      BY <1>1, <2>2, <2>4 DEF Unread, A
  <1> QED
    BY <1>4, <1>5
-----------------------------------------------------------------------------
(* What the calls leave unread. *)

\* What is left is a suffix, with no more commands in it.
Fewer(rest, rx) == rest \in Seq(Pieces) /\ Unread(rest) <= Unread(rx)

\* All of it, none of it, and all but the first piece.
LEMMA FewerThan ==
  ASSUME NEW rx \in Seq(Pieces)
  PROVE  /\ Fewer(rx, rx) /\ Fewer(<<>>, rx)
         /\ rx # <<>> => Fewer(Tail(rx), rx)
  <1>1. Unread(rx) \in Nat
    BY UnreadNat
  <1>2. Fewer(rx, rx)
    BY <1>1 DEF Fewer
  <1>3. <<>> \in Seq(Pieces)
    OBVIOUS
  <1>4. Fewer(<<>>, rx)
    BY <1>1, <1>3, UnreadNone DEF Fewer
  <1>5. ASSUME rx # <<>> PROVE Fewer(Tail(rx), rx)
    <2> DEFINE t == Tail(rx)
    <2>1. t \in Seq(Pieces) /\ Len(t) + 1 = Len(rx)
      BY <1>5
    <2>2. \A i \in 1 .. Len(t) : t[i] = rx[i + 1]
      BY <1>5
    <2> HIDE DEF t
    <2>3. Unread(t) <= Unread(rx)
      BY <2>1, <2>2, UnreadLess
    <2> QED
      BY <2>1, <2>3 DEF Fewer, t
  <1> QED
    BY <1>2, <1>4, <1>5

\* A read that returns data.
LEMMA DataFewer ==
  ASSUME NEW rx \in Seq(Pieces), NEW k \in Fitting(rx), NEW a
  PROVE  /\ Fewer(Data(rx, k, a).rest, rx)
         /\ Data(rx, k, a).tok = "STARTTLS" =>
              Unread(Data(rx, k, a).rest) + 1 <= Unread(rx)
  <1>1. k \in 1 .. Len(rx) /\ Len(rx) \in Nat
    BY DEF Fitting
  <1> DEFINE rest == SubSeq(rx, k + 1, Len(rx))
  <1>2. rest \in Seq(Pieces) /\ Len(rest) + k = Len(rx)
    BY <1>1
  <1>3. \A i \in 1 .. Len(rest) : rest[i] = rx[i + k]
    BY <1>1
  <1>4. Data(rx, k, a).rest = rest /\ Data(rx, k, a).tok = rx[1].tok
    BY Zenon DEF Data
  <1> HIDE DEF rest
  <1>5. k \in Nat /\ k > 0
    BY <1>1
  <1>6. /\ Unread(rest) <= Unread(rx)
        /\ rx[1].tok = "STARTTLS" => Unread(rest) + 1 <= Unread(rx)
    BY <1>2, <1>3, <1>5, UnreadLess
  <1> QED
    BY <1>2, <1>4, <1>6 DEF Fewer

\* What an outcome without data left.
LEMMA OutcomeRest ==
  ASSUME NEW how, NEW rest, NEW a
  PROVE  /\ Outcome(how, rest, a).rest = rest
         /\ Outcome(how, rest, a).tok # "STARTTLS"
  BY DEF Outcome

\* An outcome of a call on a socket with rx unread.
Reads(o, rx) ==
  /\ Fewer(o.rest, rx)
  /\ o.tok = "STARTTLS" => Unread(o.rest) + 1 <= Unread(rx)

\* A call that returns no data.
LEMMA OutcomeReads ==
  ASSUME NEW rx \in Seq(Pieces), NEW rest, Fewer(rest, rx), NEW how, NEW a
  PROVE  Reads(Outcome(how, rest, a), rx)
  BY OutcomeRest DEF Reads

\* A call with nothing to return.
LEMMA IdleReads ==
  ASSUME NEW s \in Sock, NEW a \in SslPointer, NEW o \in Idle(s, a)
  PROVE  Reads(o, s.rx)
  <1>1. s.rx \in Seq(Pieces)
    BY DEF Sock
  <1>2. o = Outcome(o.how, <<>>, a)
    BY IdleSound
  <1>3. Reads(Outcome(o.how, <<>>, a), s.rx)
    BY <1>1, FewerThan, OutcomeReads
  <1> QED
    BY <1>2, <1>3, Zenon

\* The plain read.
LEMMA ReadReads ==
  ASSUME NEW s \in Sock, conn.sslconn \in SslPointer, NEW o \in read(s)
  PROVE  Reads(o, s.rx)
  <1>1. s.rx \in Seq(Pieces)
    BY DEF Sock
  <1> QED
    BY <1>1, DataFewer, IdleReads DEF read, Reads

\* The TLS read.
LEMMA SslReadReads ==
  ASSUME NEW s \in Sock, NEW a \in SslPointer, NEW o \in SSL_read(s, a)
  PROVE  Reads(o, s.rx)
  <1>1. s.rx \in Seq(Pieces)
    BY DEF Sock
  <1>2. CASE a # "up"
    <2>1. PICK e : o = Outcome(e, s.rx, a)
      BY <1>2 DEF SSL_read
    <2> QED
      BY <1>1, <2>1, FewerThan, OutcomeReads
  <1>3. CASE a = "up" /\ o \in Idle(s, a)
    BY <1>3, IdleReads
  <1>4. CASE a = "up" /\ \E k \in Fitting(s.rx) : o = Data(s.rx, k, a)
    BY <1>1, <1>4, DataFewer DEF Reads
  <1>5. CASE /\ a = "up" /\ s.rx # <<>>
             /\ \E e : o = Outcome(e, Tail(s.rx), "broken")
    BY <1>1, <1>5, FewerThan, OutcomeReads
  <1> QED
    BY <1>2, <1>3, <1>4, <1>5 DEF SSL_read

\* The handshake.
LEMMA SslAcceptReads ==
  ASSUME NEW s \in Sock, NEW a \in SslPointer, NEW o \in SSL_accept(s, a)
  PROVE  Reads(o, s.rx)
  <1>1. s.rx \in Seq(Pieces)
    BY DEF Sock
  <1>2. CASE a # "fresh"
    <2>1. PICK e, b : o = Outcome(e, s.rx, b)
      BY <1>2 DEF SSL_accept
    <2> QED
      BY <1>1, <2>1, FewerThan, OutcomeReads
  <1>3. CASE a = "fresh" /\ s.rx # <<>>
    <2>1. PICK e, b : o = Outcome(e, Tail(s.rx), b)
      BY <1>3 DEF SSL_accept
    <2> QED
      BY <1>1, <1>3, <2>1, FewerThan, OutcomeReads
  <1>4. CASE a = "fresh" /\ s.rx = <<>>
    <2>1. PICK p \in Idle(s, a) :
            o \in {Outcome("again", <<>>, a), Outcome("error", <<>>, "broken")}
      BY <1>4 DEF SSL_accept
    <2>2. \A e, b : Reads(Outcome(e, <<>>, b), s.rx)
      BY <1>1, FewerThan, OutcomeReads
    <2> QED
      BY <2>1, <2>2
  <1> QED
    BY <1>2, <1>3, <1>4

\* RECEIVE of either kind.
LEMMA ReceiveReads ==
  ASSUME Called, NEW o \in smtp_receive_msg
  PROVE  Reads(o, Self.rx)
  BY CalledTypes, ReadReads, SslReadReads DEF smtp_receive_msg
-----------------------------------------------------------------------------
(* What a handler call does. *)

\* A call of a handler on a connection that is accounted for.
Ready == Called /\ Counted(conn, heap[conn.client], Self)

\* The call took what it read from its own socket and nothing else.
Took(rest) ==
  /\ \A d \in Clients \ {conn.client} : sock'[d] = sock[d]
  /\ sock'[conn.client].rx = rest
  /\ sock'[conn.client].upgrades = Self.upgrades

\* The connection is still accounted for.
Kept ==
  /\ \A d \in Clients \ {conn.client} : sock'[d] = sock[d]
  /\ Unread(sock'[conn.client].rx) <= Unread(Self.rx)
  /\ sock'[conn.client].upgrades = Self.upgrades
  /\ Counted(conn', heap'[conn.client], sock'[conn.client])

\* Connection k is conn with nothing done to it that matters here.
Alike(k) ==
  /\ k.type = conn.type
  /\ k.sslconn \in Allocated <=> conn.sslconn \in Allocated

\* No SSL object was made or freed.
SameObjects == heap'[conn.client].ssl = heap[conn.client].ssl

\* Without a reply only the unread pieces change.
LEMMA QuietTook ==
  ASSUME Called, NEW o, Quiet(o)
  PROVE  Took(o.rest)
  <1>1. conn.client \in Clients /\ sock \in [Clients -> Sock]
    BY CalledTypes DEF Called
  <1> DEFINE t == [sock[conn.client] EXCEPT !.rx = o.rest]
  <1>2. sock' = [sock EXCEPT ![conn.client] = t]
    BY DEF Quiet
  <1>3. t.rx = o.rest /\ t.upgrades = sock[conn.client].upgrades
    BY <1>1 DEF Sock
  <1> HIDE DEF t
  <1> QED
    BY <1>1, <1>2, <1>3 DEF Took, Self

\* With one, what the peer was told as well.
LEMMA SentTook ==
  ASSUME Called, NEW o, NEW msg, Sent(msg, o)
  PROVE  Took(o.rest)
  <1>1. conn.client \in Clients /\ sock \in [Clients -> Sock]
    BY CalledTypes DEF Called
  <1>2. PICK p : sock' = [sock EXCEPT ![conn.client] =
                            [@ EXCEPT !.rx = o.rest, !.said = msg,
                                      !.waiting = FALSE, !.peer = p]]
    BY Zenon DEF Sent
  <1> DEFINE t == [sock[conn.client] EXCEPT !.rx = o.rest, !.said = msg,
                                            !.waiting = FALSE, !.peer = p]
  <1>3. sock' = [sock EXCEPT ![conn.client] = t]
    BY <1>2, Zenon
  <1>4. t.rx = o.rest /\ t.upgrades = sock[conn.client].upgrades
    BY <1>1, Zenon DEF Sock
  <1> HIDE DEF t
  <1> QED
    BY <1>1, <1>3, <1>4 DEF Took, Self

\* A path that neither makes nor frees an SSL object.
LEMMA TookKept ==
  ASSUME Ready, NEW o, Reads(o, Self.rx), Took(o.rest), SameObjects,
         NEW k, conn' = k, Alike(k)
  PROVE  Kept
  <1>1. conn.client \in Clients /\ Self \in Sock
    BY CalledTypes DEF Ready
  <1>2. Self.rx \in Seq(Pieces) /\ Self.upgrades \in Nat
    BY <1>1 DEF Sock
  <1>3. Unread(Self.rx) \in Nat /\ Unread(o.rest) \in Nat
    BY <1>2, UnreadNat DEF Reads, Fewer
  <1>4. heap[conn.client].ssl \in Nat
    BY <1>1 DEF Ready, Called
  <1>5. Unread(o.rest) <= Unread(Self.rx)
    BY DEF Reads, Fewer
  <1>6. Counted(k, heap'[conn.client], sock'[conn.client])
    <2>1. k.sslconn \in Allocated <=> heap'[conn.client].ssl # 0
      BY DEF Ready, Counted, Alike, SameObjects
    <2>2. CASE conn.type = "SMTP_CONNECTION"
      <3>1. heap[conn.client].ssl + Unread(Self.rx) <= Self.upgrades
        BY <2>2 DEF Ready, Counted
      <3>2. heap[conn.client].ssl + Unread(o.rest) <= Self.upgrades
        BY <1>2, <1>3, <1>4, <1>5, <3>1
      <3> QED
        BY <2>1, <2>2, <3>2 DEF Counted, Alike, SameObjects, Took
    <2>3. CASE conn.type # "SMTP_CONNECTION"
      BY <2>1, <2>3 DEF Ready, Counted, Alike, SameObjects
    <2> QED
      BY <2>2, <2>3
  <1> QED
    BY <1>5, <1>6 DEF Kept, Took

\* With a reply, and without.
LEMMA SayKept ==
  ASSUME Ready, NEW o, Reads(o, Self.rx), NEW msg, Say(msg, o), SameObjects,
         NEW k, NEW r, Return(k, r), Alike(k)
  PROVE  Kept
  BY SentTook, TookKept DEF Ready, Return, Say

\* The connection may be left as it was.
LEMMA QuietKept ==
  ASSUME Ready, NEW o, Reads(o, Self.rx), Quiet(o), SameObjects,
         NEW k, conn' = k, Alike(k)
  PROVE  Kept
  BY QuietTook, TookKept DEF Ready

\* A call that reads nothing.
LEMMA NothingRead ==
  ASSUME Ready, NEW how, NEW a
  PROVE  Reads(Outcome(how, Self.rx, a), Self.rx)
  <1>1. Self.rx \in Seq(Pieces)
    BY CalledTypes DEF Ready, Sock
  <1> QED
    BY <1>1, FewerThan, OutcomeReads

\* The connections the paths leave.
LEMMA AlikeState ==
  ASSUME Ready, NEW state
  PROVE  Alike(conn) /\ Alike([conn EXCEPT !.state = state])
  BY DEF Ready, Called, Connection, Alike

\* A read or a handshake neither makes nor loses an SSL object.
LEMMA AlikeSsl ==
  ASSUME Ready, NEW o, Sound(o, conn.sslconn)
  PROVE  Alike([conn EXCEPT !.sslconn = o.ssl])
  <1>1. o.ssl \in Allocated <=> conn.sslconn \in Allocated
    BY DEF Sound
  <1> QED
    BY <1>1 DEF Ready, Called, Connection, Alike

\* UNCHANGED heap leaves the objects alone.
LEMMA HeapKept == ASSUME UNCHANGED heap PROVE SameObjects
  BY DEF SameObjects

\* A command.
LEMMA AnswerKept ==
  ASSUME Ready, NEW tok, NEW msg, NEW state, NEW r, Answer(tok, msg, state, r)
  PROVE  Kept
  <1>1. PICK o \in smtp_receive_msg : Say(msg, o)
    BY DEF Answer, Command
  <1>2. Reads(o, Self.rx)
    BY ReceiveReads DEF Ready
  <1>3. Return([conn EXCEPT !.state = state], r) /\ SameObjects
    BY HeapKept DEF Answer
  <1> QED
    BY <1>1, <1>2, <1>3, AlikeState, SayKept

\* The commands whose only effects are a reply and perhaps a new state.
LEMMA CommandsKept ==
  ASSUME Ready,
         \/ SMTP_QUIT \/ SMTP_RSET \/ SMTP_DATA \/ SMTP_HELP \/ SMTP_HELO
         \/ SMTP_EHLO \/ SMTP_MAIL \/ SMTP_RCPT \/ SMTP_VRFY \/ SMTP_EXPN
  PROVE  Kept
  BY AnswerKept, Zenon DEF SMTP_QUIT, SMTP_RSET, SMTP_DATA, SMTP_HELP, SMTP_HELO,
     SMTP_EHLO, SMTP_MAIL, SMTP_RCPT, SMTP_VRFY, SMTP_EXPN

\* The greeting, a line that is too long, an unknown command and NOOP.
LEMMA PlainKept ==
  ASSUME Ready, SmtpOpened \/ SmtpLineTooLong \/ Unrecognized \/ SMTP_NOOP
  PROVE  Kept
  <1>0. SameObjects
    BY HeapKept, Zenon DEF SmtpOpened, SmtpLineTooLong, Unrecognized, SMTP_NOOP
  <1>1. \A o \in smtp_receive_msg : Reads(o, Self.rx)
    BY ReceiveReads DEF Ready
  <1>2. CASE SmtpOpened
    <2> DEFINE k == [conn EXCEPT !.state = "MAIL_CONNECTION_EXPECT_ANY"]
               o == Outcome("data", Self.rx, conn.sslconn)
    <2>1. Say("220 ESMTP", o) /\ Return(k, "CONNECTION_CONTINUE")
      BY <1>2, Zenon DEF SmtpOpened
    <2>2. Alike(k) /\ Reads(o, Self.rx)
      BY AlikeState, NothingRead
    <2> HIDE DEF k, o
    <2> QED
      BY <1>0, <2>1, <2>2, SayKept, Zenon
  <1>3. CASE SmtpLineTooLong
    <2>1. PICK o \in smtp_receive_msg : Say("500 Too long", o)
      BY <1>3, Zenon DEF SmtpLineTooLong
    <2>2. Return(conn, "CONNECTION_ERROR")
      BY <1>3, Zenon DEF SmtpLineTooLong
    <2> QED
      BY <1>0, <1>1, <2>1, <2>2, AlikeState, SayKept, Zenon
  <1>4. CASE Unrecognized
    <2>1. PICK o \in smtp_receive_msg : Say("500 Unrecognized", o)
      BY <1>4, Zenon DEF Unrecognized, Command
    <2>2. Return(conn, "CONNECTION_CONTINUE")
      BY <1>4, Zenon DEF Unrecognized
    <2> QED
      BY <1>0, <1>1, <2>1, <2>2, AlikeState, SayKept, Zenon
  <1>5. CASE SMTP_NOOP
    <2>1. PICK o \in smtp_receive_msg : Quiet(o)
      BY <1>5 DEF SMTP_NOOP, Command
    <2>2. conn' = conn
      BY <1>5 DEF SMTP_NOOP, Return
    <2> QED
      BY <1>0, <1>1, <2>1, <2>2, AlikeState, QuietKept, Zenon
  <1> QED
    BY <1>2, <1>3, <1>4, <1>5

\* The handshake after STARTTLS.
LEMMA NegotiationKept == ASSUME Ready, SmtpTlsNegotiation PROVE Kept
  <1>1. PICK o \in SSL_accept(Self, conn.sslconn) :
          /\ Quiet(o)
          /\ conn' = [conn EXCEPT !.sslconn = o.ssl,
                                  !.state = IF o.how = "data"
                                            THEN "MAIL_CONNECTION_EXPECT_ANY" ELSE @]
    BY Zenon DEF SmtpTlsNegotiation, Return
  <1>2. Sound(o, conn.sslconn) /\ Reads(o, Self.rx)
    BY CalledTypes, SslAcceptSound, SslAcceptReads DEF Ready
  <1>3. o.ssl \in Allocated <=> conn.sslconn \in Allocated
    BY <1>2 DEF Sound
  <1>4. conn \in Connection
    BY DEF Ready, Called
  <1>5. conn'.type = conn.type /\ conn'.sslconn = o.ssl
    BY <1>1, <1>4 DEF Connection
  <1>6. Alike(conn') /\ SameObjects
    BY <1>3, <1>5, HeapKept DEF Alike, SmtpTlsNegotiation
  <1> QED
    BY <1>1, <1>2, <1>6, QuietKept

\* A read that fails.
LEMMA ReadFailsKept == ASSUME Ready, SmtpReadFails PROVE Kept
  <1>1. PICK o \in smtp_receive_msg :
          Quiet(o) /\ conn' = [conn EXCEPT !.sslconn = o.ssl]
    BY DEF SmtpReadFails, Return
  <1>2. Sound(o, conn.sslconn) /\ Reads(o, Self.rx) /\ SameObjects
    BY ReceiveSound, ReceiveReads, HeapKept DEF Ready, SmtpReadFails
  <1> QED
    BY <1>1, <1>2, AlikeSsl, QuietKept

\* A part of a message.
LEMMA BodyKept ==
  ASSUME Ready, BodyTooLarge \/ BodyAllocFails \/ BodyStored
  PROVE  Kept
  <1>1. conn \in Connection /\ conn.client \in Clients
        /\ heap \in [Clients -> [ssl : Nat, buf : Nat]]
    BY CalledTypes DEF Ready, Called
  <1>2. \A o \in Body : Reads(o, Self.rx)
    BY ReceiveReads DEF Ready, Body
  <1>3. CASE BodyTooLarge
    <2> DEFINE k == [conn EXCEPT !.alloccount = @ + 1]
    <2>1. Alike(k) /\ SameObjects
      BY <1>1, <1>3, HeapKept, Zenon DEF Connection, Alike, BodyTooLarge
    <2>2. PICK o \in Body : Say("554 Too Large", o)
      BY <1>3, Zenon DEF BodyTooLarge
    <2>3. Return(k, "CONNECTION_RESET")
      BY <1>3, Zenon DEF BodyTooLarge
    <2> HIDE DEF k
    <2> QED
      BY <1>2, <2>1, <2>2, <2>3, SayKept, Zenon
  <1>4. CASE BodyAllocFails
    <2> DEFINE k == [conn EXCEPT !.alloccount = @ + 1, !.messagebuffer = 0]
    <2>1. Alike(k) /\ SameObjects
      BY <1>1, <1>4, HeapKept, Zenon DEF Connection, Alike, BodyAllocFails
    <2>2. PICK o \in Body : Say("500 Bye", o)
      BY <1>4, Zenon DEF BodyAllocFails
    <2>3. Return(k, "CONNECTION_ERROR")
      BY <1>4, Zenon DEF BodyAllocFails
    <2> HIDE DEF k
    <2> QED
      BY <1>2, <2>1, <2>2, <2>3, SayKept, Zenon
  <1>5. CASE BodyStored
    <2>1. PICK o \in Body :
            /\ IF o.eom THEN Say("250 Ok", o) ELSE Quiet(o)
            /\ Return([conn EXCEPT
                    !.alloccount       = @ + 1,
                    !.messagebuffer    = Grown,
                    !.messagebufferend = @ + o.len,
                    !.state = IF o.eom THEN "MAIL_CONNECTION_GREETED" ELSE @],
                 IF o.eom THEN "CONNECTION_RESET" ELSE "CONNECTION_CONTINUE")
      BY <1>5, Zenon DEF BodyStored
    <2> DEFINE k == [conn EXCEPT
                    !.alloccount       = @ + 1,
                    !.messagebuffer    = Grown,
                    !.messagebufferend = @ + o.len,
                    !.state = IF o.eom THEN "MAIL_CONNECTION_GREETED" ELSE @]
    <2>2. Alike(k)
      BY <1>1 DEF Connection, Alike
    <2>3. PICK r : Return(k, r)
      BY <2>1, Zenon
    <2> HIDE DEF k
    <2>4. conn' = k
      BY <2>3 DEF Return
    <2>5. heap' = [heap EXCEPT ![conn.client].buf =
                     IF conn.messagebuffer = 0 THEN @ + 1 ELSE @]
      BY <1>5, Zenon DEF BodyStored
    <2>6. SameObjects
      BY <1>1, <2>5 DEF SameObjects
    <2>7. Say("250 Ok", o) \/ Quiet(o)
      BY <2>1, Zenon
    <2> QED
      BY <1>2, <2>2, <2>3, <2>4, <2>6, <2>7, SayKept, QuietKept, Zenon
  <1> QED
    BY <1>3, <1>4, <1>5

\* STARTTLS: one command less is unread, one SSL object more is allocated.
LEMMA StartTlsKept == ASSUME Ready, SMTP_STARTTLS PROVE Kept
  <1>1. /\ conn \in Connection /\ conn.client \in Clients /\ Self \in Sock
        /\ heap \in [Clients -> [ssl : Nat, buf : Nat]]
        /\ conn.type = "SMTP_CONNECTION"
    BY CalledTypes, Zenon DEF Ready, Called, SMTP_STARTTLS, Reading, Handling
  <1>2. PICK o \in smtp_receive_msg : o.tok = "STARTTLS" /\ Say("220 Go ahead", o)
    BY Zenon DEF SMTP_STARTTLS, Command
  <1>3. Reads(o, Self.rx) /\ Took(o.rest)
    BY <1>2, ReceiveReads, SentTook, Zenon DEF Ready, Say
  <1>4. conn' = [conn EXCEPT !.state = "MAIL_CONNECTION_EXPECT_TLS_NEG",
                             !.sslconn = "fresh"]
    BY Zenon DEF SMTP_STARTTLS, Return
  <1>5. conn'.type = conn.type /\ conn'.sslconn \in Allocated
    BY <1>1, <1>4 DEF Connection, Allocated
  <1>6. heap' = [heap EXCEPT ![conn.client].ssl = @ + 1]
    BY Zenon DEF SMTP_STARTTLS
  <1>7. /\ heap[conn.client].ssl \in Nat
        /\ heap'[conn.client].ssl = heap[conn.client].ssl + 1
    BY <1>1, <1>6
  <1>8. Self.rx \in Seq(Pieces) /\ Self.upgrades \in Nat
    BY <1>1 DEF Sock
  <1>9. Unread(Self.rx) \in Nat /\ Unread(o.rest) \in Nat
    BY <1>3, <1>8, UnreadNat DEF Reads, Fewer
  <1>10. Unread(o.rest) + 1 <= Unread(Self.rx)
    BY <1>2, <1>3, Zenon DEF Reads
  <1>11. heap[conn.client].ssl + Unread(Self.rx) <= Self.upgrades
    BY <1>1 DEF Ready, Counted
  <1>12. /\ heap'[conn.client].ssl + Unread(o.rest) <= Self.upgrades
         /\ heap'[conn.client].ssl # 0 /\ Unread(o.rest) <= Unread(Self.rx)
    BY <1>7, <1>8, <1>9, <1>10, <1>11
  <1> QED
    BY <1>1, <1>3, <1>5, <1>12 DEF Kept, Took, Counted

\* STARTTLS without an SSL context: the process ends.
LEMMA NoContextKept == ASSUME Ready, SMTP_STARTTLS_no_context PROVE Kept
  <1>1. PICK o \in smtp_receive_msg : Sent("220 Go ahead", o)
    BY Zenon DEF SMTP_STARTTLS_no_context, Command
  <1>2. Took(o.rest)
    BY <1>1, SentTook, Zenon DEF Ready
  <1>3. Reads(o, Self.rx) /\ conn' = conn /\ SameObjects
    BY ReceiveReads, HeapKept, Zenon DEF Ready, SMTP_STARTTLS_no_context
  <1> QED
    BY <1>2, <1>3, AlikeState, TookKept, Zenon

\* The pointer that was never assigned: the process ends.
LEMMA WildKept == ASSUME Ready, UseWildSslconn PROVE Kept
  <1>1. UNCHANGED <<sock, heap, conn>>
    BY DEF UseWildSslconn, Undefined
  <1> DEFINE o == Outcome("data", Self.rx, conn.sslconn)
  <1>2. Reads(o, Self.rx) /\ o.rest = Self.rx
    BY NothingRead, OutcomeRest
  <1> HIDE DEF o
  <1>3. Took(o.rest) /\ SameObjects
    BY <1>1, <1>2, HeapKept DEF Took, Self
  <1> QED
    BY <1>1, <1>2, <1>3, AlikeState, TookKept, Zenon

\* The other services' handlers.
LEMMA OthersKept ==
  ASSUME Ready, smtps_handler \/ starttls_handler \/ http_handler
  PROVE  Kept
  <1>0. SameObjects
    BY HeapKept DEF smtps_handler, starttls_handler, http_handler
  <1>1. CASE smtps_handler
    <2>1. PICK o \in SSL_accept(Self, conn.sslconn) :
            \/ Quiet(o) /\ conn' = [conn EXCEPT !.sslconn = o.ssl]
            \/ /\ Say("502", o)
               /\ Return([conn EXCEPT !.sslconn = o.ssl], "CONNECTION_DONE")
      BY <1>1 DEF smtps_handler, Return
    <2>2. Sound(o, conn.sslconn) /\ Reads(o, Self.rx)
      BY CalledTypes, SslAcceptSound, SslAcceptReads DEF Ready
    <2> QED
      BY <1>0, <2>1, <2>2, AlikeSsl, QuietKept, SayKept
  <1>2. CASE starttls_handler
    <2> DEFINE o == Outcome("data", Self.rx, conn.sslconn)
    <2>1. Say("523", o) /\ Return(conn, "CONNECTION_DONE")
      BY <1>2 DEF starttls_handler
    <2>2. Reads(o, Self.rx)
      BY NothingRead
    <2> HIDE DEF o
    <2> QED
      BY <1>0, <2>1, <2>2, AlikeState, SayKept, Zenon
  <1>3. CASE http_handler
    <2>1. PICK o \in read(Self) : Respond(o, "301") /\ Return(conn, ReadResult(o))
      BY <1>3 DEF http_handler
    <2>2. Reads(o, Self.rx)
      BY CalledTypes, ReadReads DEF Ready
    <2>3. Say("301", o) \/ Quiet(o)
      BY <2>1 DEF Respond
    <2>4. conn' = conn
      BY <2>1 DEF Return
    <2> QED
      BY <1>0, <2>1, <2>2, <2>3, <2>4, AlikeState, SayKept, QuietKept, Zenon
  <1> QED
    BY <1>1, <1>2, <1>3

\* The HTTPS handler.
LEMMA HttpsKept == ASSUME Ready, https_handler PROVE Kept
  <1>0. SameObjects
    BY HeapKept DEF https_handler
  <1>1. CASE \E o \in SSL_accept(Self, conn.sslconn) :
               Quiet(o) /\ conn' = [conn EXCEPT !.sslconn = o.ssl]
    <2>1. PICK o \in SSL_accept(Self, conn.sslconn) :
            Quiet(o) /\ conn' = [conn EXCEPT !.sslconn = o.ssl]
      BY <1>1
    <2>2. Sound(o, conn.sslconn) /\ Reads(o, Self.rx)
      BY CalledTypes, SslAcceptSound, SslAcceptReads DEF Ready
    <2> QED
      BY <1>0, <2>1, <2>2, AlikeSsl, QuietKept
  <1>2. CASE /\ conn.sslconn = "up"
             /\ \E o \in SSL_read(Self, "up") :
                  /\ Respond(o, "204")
                  /\ Return([conn EXCEPT !.sslconn = o.ssl], ReadResult(o))
    <2>1. PICK o \in SSL_read(Self, "up") :
            /\ Respond(o, "204")
            /\ Return([conn EXCEPT !.sslconn = o.ssl], ReadResult(o))
      BY <1>2
    <2>2. Sound(o, conn.sslconn) /\ Reads(o, Self.rx)
      BY <1>2, CalledTypes, SslReadSound, SslReadReads DEF Ready
    <2>3. Alike([conn EXCEPT !.sslconn = o.ssl])
      BY <2>2, AlikeSsl
    <2>4. Say("204", o) \/ Quiet(o)
      BY <2>1 DEF Respond
    <2>5. conn' = [conn EXCEPT !.sslconn = o.ssl]
      BY <2>1 DEF Return
    <2> QED
      BY <1>0, <2>1, <2>2, <2>3, <2>4, <2>5, QuietKept, SayKept
  <1> QED
    BY <1>1, <1>2, Zenon DEF https_handler, Return

\* Whichever handler runs.
LEMMA HandleKept == ASSUME IInv, Counts, Handle PROVE Kept
  <1>1. Called
    BY HandleCalled, InvCalled
  <1>2. Ready
    BY <1>1, NoConnAssumption DEF Called, Counts, Ready, Self
  <1> QED
    BY <1>2, CommandsKept, PlainKept, NegotiationKept, ReadFailsKept, BodyKept,
       StartTlsKept, NoContextKept, WildKept, OthersKept, HttpsKept
       DEF Handle, smtp_handler
-----------------------------------------------------------------------------
(* The steps of the process. *)

Books == Asking /\ Counts /\ Left

\* The types the steps rely on.
LEMMA BookTypes ==
  ASSUME IInv
  PROVE  /\ sock \in [Clients -> Sock]
         /\ heap \in [Clients -> [ssl : Nat, buf : Nat]]
         /\ fifo \in Seq(Connection)
         /\ \A i \in DOMAIN fifo : fifo[i].client \in Clients
         /\ conn # NoConn => conn \in Connection /\ conn.client \in Clients
         /\ \A c \in Clients : Unread(sock[c].rx) \in Nat /\ sock[c].upgrades \in Nat
  <1>1. /\ sock \in [Clients -> Sock]
        /\ heap \in [Clients -> [ssl : Nat, buf : Nat]]
        /\ fifo \in Seq(Connection) /\ conn \in Connection \cup {NoConn}
    BY DEF IInv, Types, TypeOK
  <1>2. conn # NoConn => conn \in Connection /\ conn.client \in Clients
    BY <1>1 DEF Connection
  <1>3. \A c \in Clients : sock[c].rx \in Seq(Pieces) /\ sock[c].upgrades \in Nat
    BY <1>1 DEF Sock
  <1> QED
    BY <1>1, <1>2, <1>3, QueuedTypes, UnreadNat

\* A handler call.
LEMMA HandleBooks == ASSUME IInv, Books, Handle PROVE Books'
  <1>1. Kept /\ Served /\ fifo' = fifo
    BY HandleCalled, HandleKept, HandleServed DEF Books
  <1>2. conn \in Connection /\ conn # NoConn /\ conn.client \in Clients
    BY HandleCalled, InvCalled, CalledTypes, NoConnAssumption DEF Called
  <1>3. \A i \in DOMAIN fifo : fifo[i].client \in Clients \ {conn.client}
    BY <1>2, BookTypes DEF IInv, Holding
  <1>4. \A d \in Clients \ {conn.client} : sock'[d] = sock[d] /\ heap'[d] = heap[d]
    BY <1>1 DEF Kept, Served
  <1>5. /\ Unread(sock'[conn.client].rx) <= Unread(sock[conn.client].rx)
        /\ sock'[conn.client].upgrades = sock[conn.client].upgrades
        /\ conn'.client = conn.client /\ conn' \in Connection
        /\ Counted(conn', heap'[conn.client], sock'[conn.client])
    BY <1>1 DEF Kept, Self, Served
  <1>6. sock'[conn.client].rx \in Seq(Pieces)
    BY <1>1, <1>2 DEF Served, Talked, Sock
  <1>7. Asking'
    <2>1. /\ Unread(sock'[conn.client].rx) <= sock'[conn.client].upgrades
          /\ sock'[conn.client].upgrades <= MaxUpgrades
      BY <1>2, <1>5, <1>6, BookTypes, UnreadNat DEF Books, Asking
    <2>2. \A d \in Clients \ {conn.client} :
            /\ Unread(sock'[d].rx) <= sock'[d].upgrades
            /\ sock'[d].upgrades <= MaxUpgrades
      BY <1>4 DEF Books, Asking
    <2> QED
      BY <2>1, <2>2 DEF Asking
  <1>8. Counts'
    <2>1. \A i \in DOMAIN fifo :
            Counted(fifo[i], heap'[fifo[i].client], sock'[fifo[i].client])
      BY <1>3, <1>4 DEF Books, Counts
    <2> QED
      BY <1>1, <1>5, <2>1 DEF Counts
  <1>9. Left'
    <2>1. \A c \in Clients : sock'[c].phase = sock[c].phase
      BY <1>1 DEF Served, Talked
    <2>2. sock[conn.client].phase = "open"
      BY <1>2 DEF IInv, Holding
    <2> QED
      BY <1>2, <1>4, <2>1, <2>2 DEF Books, Left, Spare
  <1> QED
    BY <1>7, <1>8, <1>9 DEF Books

\* process_connection takes a connection, or none.
LEMMA TakeBooks == ASSUME IInv, Books, Take PROVE Books'
  <1>1. PICK r \in {0, 1}, k \in {NoConn} \cup {fifo[i] : i \in DOMAIN fifo} :
          /\ Queue!Dequeue(NoConn, k, r)
          /\ conn' = IF r = 0 THEN k ELSE NoConn
    BY DEF Take
  <1>2. fifo \in Seq(Connection) /\ UNCHANGED <<sock, heap>>
    BY DEF Take, IInv, Types, TypeOK
  <1>3. Asking' /\ Left'
    BY <1>2 DEF Books, Asking, Left, Spare
  <1>4. CASE fifo' = fifo
    <2>1. conn' = NoConn \/ \E i \in DOMAIN fifo : conn' = fifo[i]
      BY <1>1
    <2> QED
      BY <1>2, <1>3, <1>4, <2>1 DEF Books, Counts
  <1>5. CASE fifo # <<>> /\ k = Head(fifo) /\ fifo' = Tail(fifo)
    <2>1. /\ 1 \in DOMAIN fifo /\ k = fifo[1]
          /\ \A i \in DOMAIN fifo' : i + 1 \in DOMAIN fifo /\ fifo'[i] = fifo[i + 1]
      BY <1>2, <1>5
    <2>2. /\ Counted(k, heap[k.client], sock[k.client])
          /\ \A i \in DOMAIN fifo' :
               Counted(fifo'[i], heap[fifo'[i].client], sock[fifo'[i].client])
      BY <2>1 DEF Books, Counts
    <2>3. conn' = k \/ conn' = NoConn
      BY <1>1
    <2>4. Counts'
      BY <1>2, <2>2, <2>3 DEF Counts
    <2> QED
      BY <1>3, <2>4 DEF Books
  <1> QED
    BY <1>1, <1>4, <1>5 DEF Queue!Dequeue

\* A connection that nobody holds any more is put at the end of the queue.
LEMMA AppendBooks ==
  ASSUME IInv, Books, NEW k, k.client \in Clients,
         \A i \in DOMAIN fifo : fifo[i].client # k.client,
         fifo' = Append(fifo, k), conn' = NoConn,
         \A d \in Clients \ {k.client} : sock'[d] = sock[d] /\ heap'[d] = heap[d],
         sock'[k.client].rx = sock[k.client].rx,
         sock'[k.client].upgrades = sock[k.client].upgrades,
         sock'[k.client].phase = "open",
         Counted(k, heap'[k.client], sock[k.client])
  PROVE  Books'
  <1>1. fifo \in Seq(Connection)
    BY BookTypes
  <1> DEFINE n == Len(fifo) + 1
  <1>2. /\ fifo'[n] = k
        /\ \A i \in DOMAIN fifo : fifo'[i] = fifo[i]
        /\ \A i \in DOMAIN fifo' : i \in DOMAIN fifo \/ i = n
    BY <1>1
  <1> HIDE DEF n
  <1>3. \A i \in DOMAIN fifo : fifo[i].client \in Clients \ {k.client}
    BY BookTypes
  <1>4. Counted(k, heap'[k.client], sock'[k.client])
    BY DEF Counted
  <1>5. \A i \in DOMAIN fifo :
          Counted(fifo[i], heap'[fifo[i].client], sock'[fifo[i].client])
    BY <1>3 DEF Books, Counts
  <1>6. Counts'
    BY <1>2, <1>4, <1>5 DEF Counts
  <1>7. Asking'
    BY DEF Books, Asking
  <1>8. Left'
    BY DEF Books, Left, Spare
  <1> QED
    BY <1>6, <1>7, <1>8 DEF Books

\* A connection is closed: of the objects it had one is freed.
LEMMA DeinitBooks ==
  ASSUME IInv, Books, NEW k \in Connection, NEW h \in [ssl : Nat, buf : Nat],
         Counted(k, h, sock[k.client]), k.sslconn # "wild",
         \A i \in DOMAIN fifo : fifo[i].client # k.client,
         connection_deinit(k, h), fifo' = fifo, conn' = NoConn
  PROVE  Books'
  <1>1. /\ sock \in [Clients -> Sock] /\ heap \in [Clients -> [ssl : Nat, buf : Nat]]
        /\ k.client \in Clients
    BY BookTypes DEF Connection
  <1> DEFINE ssl == IF k.sslconn = "null" THEN h.ssl ELSE h.ssl - 1
             buf == IF k.messagebuffer = 0 THEN h.buf ELSE h.buf - 1
             new == [NewSock EXCEPT !.phase = "closed"]
  <1>2. /\ heap' = [heap EXCEPT ![k.client] = [ssl |-> ssl, buf |-> buf]]
        /\ sock' = [sock EXCEPT ![k.client] = new]
    BY DEF connection_deinit
  <1>3. new.rx = <<>> /\ new.upgrades = 0
    BY DEF NewSock
  <1>4. ssl <= Spare
    <2>1. k.sslconn \in SslPointer /\ h.ssl \in Nat
      BY DEF Connection
    <2>2. CASE k.sslconn = "null"
      BY <2>1, <2>2, BoundAssumption DEF Counted, Allocated, Spare
    <2>3. CASE k.sslconn # "null"
      <3>1. h.ssl # 0
        BY <2>1, <2>3 DEF Counted, Allocated, SslPointer
      <3>2. CASE k.type = "SMTP_CONNECTION"
        <4>1. h.ssl + Unread(sock[k.client].rx) <= sock[k.client].upgrades
          BY <3>2 DEF Counted
        <4>2. sock[k.client].upgrades <= MaxUpgrades
          BY <1>1 DEF Books, Asking
        <4>3. Unread(sock[k.client].rx) \in Nat /\ sock[k.client].upgrades \in Nat
          BY <1>1, BookTypes
        <4>4. h.ssl <= MaxUpgrades
          BY <2>1, <4>1, <4>2, <4>3, BoundAssumption
        <4> QED
          BY <2>1, <2>3, <3>1, <4>4, BoundAssumption DEF Spare
      <3>3. CASE k.type # "SMTP_CONNECTION"
        <4>1. h.ssl <= 1
          BY <3>3 DEF Counted
        <4> QED
          BY <2>1, <2>3, <3>1, <4>1, BoundAssumption DEF Spare
      <3> QED
        BY <3>2, <3>3
    <2> QED
      BY <2>2, <2>3
  <1> HIDE DEF ssl, buf, new
  <1>5. /\ sock'[k.client] = new /\ heap'[k.client].ssl = ssl
        /\ \A d \in Clients \ {k.client} : sock'[d] = sock[d] /\ heap'[d] = heap[d]
    BY <1>1, <1>2
  <1>6. Asking'
    <2>1. Unread(new.rx) <= new.upgrades /\ new.upgrades <= MaxUpgrades
      BY <1>3, UnreadNone, BoundAssumption
    <2> QED
      BY <1>5, <2>1 DEF Books, Asking
  <1>7. \A i \in DOMAIN fifo : fifo[i].client \in Clients \ {k.client}
    BY BookTypes
  <1>8. Counts'
    BY <1>5, <1>7 DEF Books, Counts
  <1>9. Left'
    BY <1>4, <1>5 DEF Books, Left, Spare
  <1> QED
    BY <1>6, <1>8, <1>9 DEF Books

\* The connection just handled is closed.
LEMMA CloseBooks ==
  ASSUME IInv, Books, pc = "dispatch",
         NEW k \in Connection, k.client = conn.client,
         NEW h \in [ssl : Nat, buf : Nat], Counted(k, h, sock[conn.client]),
         fifo' = fifo, Close(k, h)
  PROVE  Books'
  <1>1. CASE k.sslconn = "wild"
    <2>1. UNCHANGED <<sock, heap, conn>>
      BY <1>1 DEF Close, Undefined
    <2> QED
      BY <2>1 DEF Books, Asking, Counts, Left, Spare
  <1>2. CASE k.sslconn # "wild"
    <2>1. connection_deinit(k, h) /\ conn' = NoConn
      BY <1>2 DEF Close, Processed
    <2> QED
      BY <1>2, <2>1, AtDispatch, DeinitBooks
  <1> QED
    BY <1>1, <1>2

\* The connection just handled goes back to the queue.
LEMMA RequeueBooks ==
  ASSUME IInv, Books, pc = "dispatch",
         NEW k \in Connection, k.client = conn.client,
         NEW h \in [ssl : Nat, buf : Nat], Counted(k, h, sock[conn.client]),
         Requeue(k, h)
  PROVE  Books'
  <1>1. PICK r \in {0, 1} :
          /\ Queue!Enqueue(k, r)
          /\ \/ /\ r = 0 /\ heap' = [heap EXCEPT ![k.client] = h]
                /\ sock' = sock /\ Processed
             \/ r # 0 /\ Close(k, h)
    BY DEF Requeue
  <1>2. CASE r = 1
    <2>1. fifo' = fifo
      BY <1>1, <1>2, MutexAssumption DEF Queue!Enqueue, Queue!UnlockResults
    <2> QED
      BY <1>1, <1>2, <2>1, CloseBooks
  <1>3. CASE r = 0
    <2>1. /\ fifo' = Append(fifo, k) /\ conn' = NoConn /\ sock' = sock
          /\ heap' = [heap EXCEPT ![k.client] = h]
      BY <1>1, <1>3 DEF Queue!Enqueue, Processed
    <2>2. /\ k.client \in Clients /\ sock[k.client].phase = "open"
          /\ \A i \in DOMAIN fifo : fifo[i].client # k.client
      BY AtDispatch
    <2>3. /\ heap'[k.client] = h
          /\ \A d \in Clients \ {k.client} : heap'[d] = heap[d]
      BY <2>1, <2>2, BookTypes
    <2> QED
      BY <2>1, <2>2, <2>3, AppendBooks
  <1> QED
    BY <1>2, <1>3

\* The switch on the handler's result.
LEMMA DispatchBooks ==
  ASSUME IInv, Books, DispatchContinue \/ DispatchReset \/ DispatchClose
  PROVE  Books'
  <1> DEFINE h == heap[conn.client]
  <1>1. pc = "dispatch"
    BY DEF DispatchContinue, DispatchReset, DispatchClose
  <1>2. conn \in Connection /\ conn # NoConn /\ h \in [ssl : Nat, buf : Nat]
    BY <1>1, AtDispatch
  <1>3. Counted(conn, h, sock[conn.client])
    BY <1>2 DEF Books, Counts
  <1>4. CASE DispatchContinue
    BY <1>1, <1>2, <1>3, <1>4, RequeueBooks DEF DispatchContinue
  <1>5. CASE DispatchReset
    <2> DEFINE k == reset_connection(conn)
               g == [h EXCEPT !.buf = IF conn.messagebuffer = 0 THEN @ ELSE @ - 1]
    <2>1. Requeue(k, g)
      BY <1>5 DEF DispatchReset
    <2>2. k \in Connection /\ g \in [ssl : Nat, buf : Nat]
      BY <1>1, <1>2, <1>5, ResetTypes DEF DispatchReset
    <2>3. k.client = conn.client /\ k.type = conn.type /\ k.sslconn = conn.sslconn
      BY <1>2 DEF reset_connection, Connection
    <2>4. g.ssl = h.ssl
      BY <1>2
    <2> HIDE DEF k, g, h
    <2>5. Counted(k, g, sock[conn.client])
      BY <1>3, <2>3, <2>4 DEF Counted
    <2> QED
      BY <1>1, <2>1, <2>2, <2>3, <2>5, RequeueBooks
  <1>6. CASE DispatchClose
    BY <1>1, <1>2, <1>3, <1>6, CloseBooks DEF DispatchClose
  <1> QED
    BY <1>4, <1>5, <1>6

\* An accepted connection is queued, or turned away.
LEMMA AcceptBooks ==
  ASSUME IInv, Books, NEW c \in Clients, handle_connection(c)
  PROVE  Books'
  <1> DEFINE type == Listeners[at].type
  <1>1. /\ pc = "accept" /\ conn = NoConn /\ at \in 1 .. Len(Listeners)
        /\ conn' = conn /\ sock[c].phase = "backlog"
    BY ListenerAssumption DEF handle_connection, Pending, IInv, Types, TypeOK
  <1>2. type \in ConnectionType
    <2>1. Listeners \in Seq([type : ConnectionType, up : BOOLEAN])
      BY ListenerAssumption
    <2>2. Listeners[at] \in [type : ConnectionType, up : BOOLEAN]
      BY <1>1, <2>1, ElementOfSeq, Zenon
    <2> QED
      BY <2>2
  <1>3. PICK sslconn \in InitialSslconn(type), r \in {0, 1} :
          LET k == connection_init(c, type, sslconn)
              h == [ssl |-> IF sslconn = "fresh" THEN 1 ELSE 0, buf |-> 0] IN
          /\ Queue!Enqueue(k, r)
          /\ \/ /\ r = 0
                /\ sock' = [sock EXCEPT ![c].phase = "open"]
                /\ heap' = [heap EXCEPT ![c] = h]
             \/ r # 0 /\ sslconn # "wild" /\ connection_deinit(k, h)
             \/ r # 0 /\ sslconn = "wild" /\ UNCHANGED <<sock, heap>>
    BY DEF handle_connection
  <1> DEFINE k == connection_init(c, type, sslconn)
             h == [ssl |-> IF sslconn = "fresh" THEN 1 ELSE 0, buf |-> 0]
  <1>4. k \in Connection /\ h \in [ssl : Nat, buf : Nat]
    BY <1>2, InitTypes
  <1>5. k.client = c /\ k.sslconn = sslconn /\ k.type = type
    BY Zenon DEF connection_init
  <1>6. h.ssl = IF sslconn = "fresh" THEN 1 ELSE 0
    OBVIOUS
  <1>7. sslconn \in {"null", "wild", "fresh"}
    BY StackAssumption DEF InitialSslconn
  <1>8. type = "SMTP_CONNECTION" => sslconn # "fresh"
    BY StackAssumption DEF InitialSslconn, Strategy
  <1>9. \A i \in DOMAIN fifo : fifo[i].client # c
    BY <1>1, Zenon DEF IInv, Holding
  <1>10. fifo' = Append(fifo, k) \/ fifo' = fifo
    BY <1>3 DEF Queue!Enqueue
  <1>11. r = 1 => fifo' = fifo
    BY <1>3, MutexAssumption DEF Queue!Enqueue, Queue!UnlockResults
  <1>12. r = 0 => fifo' = Append(fifo, k)
    BY <1>3 DEF Queue!Enqueue
  <1> HIDE DEF k, h, type
  <1>13. Counted(k, h, sock[c])
    <2>1. k.sslconn \in Allocated <=> h.ssl # 0
      BY <1>5, <1>6, <1>7 DEF Allocated
    <2>2. Unread(sock[c].rx) \in Nat /\ Unread(sock[c].rx) <= sock[c].upgrades
      BY BookTypes DEF Books, Asking
    <2>3. k.type = "SMTP_CONNECTION" => h.ssl + Unread(sock[c].rx) <= sock[c].upgrades
      BY <1>5, <1>6, <1>8, <2>2
    <2>4. h.ssl <= 1
      BY <1>6
    <2> QED
      BY <2>1, <2>3, <2>4 DEF Counted
  <1>14. CASE r = 0
    <2>1. /\ sock' = [sock EXCEPT ![c].phase = "open"]
          /\ heap' = [heap EXCEPT ![c] = h]
      BY <1>3, <1>14 DEF h
    <2>2. /\ heap'[c] = h /\ sock'[c].rx = sock[c].rx
          /\ sock'[c].upgrades = sock[c].upgrades /\ sock'[c].phase = "open"
          /\ \A d \in Clients \ {c} : sock'[d] = sock[d] /\ heap'[d] = heap[d]
      BY <2>1, BookTypes DEF Sock
    <2> QED
      BY <1>1, <1>5, <1>9, <1>12, <1>13, <1>14, <2>2, AppendBooks
  <1>15. CASE r = 1 /\ sslconn # "wild"
    <2>1. connection_deinit(k, h)
      BY <1>3, <1>15 DEF k, h
    <2> QED
      BY <1>1, <1>4, <1>5, <1>9, <1>11, <1>13, <1>15, <2>1, DeinitBooks
  <1>16. CASE r = 1 /\ sslconn = "wild"
    <2>1. UNCHANGED <<sock, heap, fifo, conn>>
      BY <1>1, <1>3, <1>11, <1>16
    <2> QED
      BY <2>1 DEF Books, Asking, Counts, Left, Spare
  <1> QED
    BY <1>14, <1>15, <1>16

\* A peer connects, talks or leaves: it asks at most once more, and no more
\* often than the bound allows.
LEMMA PeerAsks ==
  ASSUME IInv, Asking, NEW c \in Clients, Peer(c)
  PROVE  \E t \in Sock, e \in {0, 1} :
           /\ sock' = [sock EXCEPT ![c] = t]
           /\ Unread(t.rx) = Unread(sock[c].rx) + e
           /\ t.upgrades = sock[c].upgrades + e /\ t.upgrades <= MaxUpgrades
           /\ t.phase = "closed" => sock[c].phase = "closed"
  <1> DEFINE s == sock[c]
  <1>0. /\ s \in Sock /\ sock \in [Clients -> Sock]
        /\ Unread(s.rx) \in Nat /\ s.upgrades \in Nat /\ s.upgrades <= MaxUpgrades
    BY BookTypes DEF Asking
  <1>1. PICK t \in Sock : /\ sock' = [sock EXCEPT ![c] = t]
                          /\ \/ sock[c].phase = "idle" /\ t.phase = "backlog"
                             \/ t.phase = sock[c].phase
    BY PeerTurns
  <1>2. sock'[c] = t /\ (t.phase = "closed" => s.phase = "closed")
    BY <1>0, <1>1
  <1>3. CASE Connect(c)
    <2>1. PICK l : sock' = [sock EXCEPT ![c] = [@ EXCEPT !.phase = "backlog", !.at = l]]
      BY <1>3, Zenon DEF Connect
    <2>2. sock'[c].rx = s.rx /\ sock'[c].upgrades = s.upgrades
      BY <1>0, <2>1 DEF Sock
    <2>3. 0 \in {0, 1} /\ Unread(t.rx) = Unread(s.rx) + 0
          /\ t.upgrades = s.upgrades + 0 /\ t.upgrades <= MaxUpgrades
      BY <1>0, <1>2, <2>2
    <2> QED
      BY <1>1, <1>2, <2>3, Zenon
  <1>4. CASE Leave(c)
    <2>1. PICK p : sock' = [sock EXCEPT ![c] = [@ EXCEPT !.peer = p]]
      BY <1>4 DEF Leave
    <2>2. sock'[c].rx = s.rx /\ sock'[c].upgrades = s.upgrades
      BY <1>0, <2>1 DEF Sock
    <2>3. 0 \in {0, 1} /\ Unread(t.rx) = Unread(s.rx) + 0
          /\ t.upgrades = s.upgrades + 0 /\ t.upgrades <= MaxUpgrades
      BY <1>0, <1>2, <2>2
    <2> QED
      BY <1>1, <1>2, <2>3, Zenon
  <1>5. CASE Talk(c)
    <2>1. PICK p \in Pieces :
            /\ p.tok = "STARTTLS" => s.upgrades < MaxUpgrades
            /\ sock' = [sock EXCEPT
                ![c].rx = Append(@, p),
                ![c].upgrades = IF p.tok = "STARTTLS" THEN @ + 1 ELSE @,
                ![c].waiting = Lockstep /\ p.tok # "TLS"
                                         /\ (sock[c].said = "354" => p.eom)]
      BY <1>5, Zenon DEF Talk
    <2> DEFINE e == IF p.tok = "STARTTLS" THEN 1 ELSE 0
               n == IF p.tok = "STARTTLS" THEN s.upgrades + 1 ELSE s.upgrades
               w == Lockstep /\ p.tok # "TLS" /\ (s.said = "354" => p.eom)
               q == Append(s.rx, p)
               u == [s EXCEPT !.rx = q, !.upgrades = n, !.waiting = w]
    <2>2. sock' = [sock EXCEPT ![c] = u]
      BY <1>0, <2>1, Zenon DEF Sock
    <2>3. u.rx = q /\ u.upgrades = n
      <3> HIDE DEF q, n, w
      <3> QED
        BY <1>0, Zenon DEF Sock
    <2>4. t = u
      <3> HIDE DEF u
      <3> QED
        BY <1>0, <1>2, <2>2
    <2>5. Unread(q) = Unread(s.rx) + e
      <3>1. s.rx \in Seq(Pieces)
        BY <1>0 DEF Sock
      <3> QED
        BY <3>1, UnreadMore
    <2>6. e \in {0, 1} /\ n = s.upgrades + e /\ n <= MaxUpgrades
      BY <1>0, <2>1, BoundAssumption
    <2> HIDE DEF q, n, w, u, e
    <2> QED
      BY <1>1, <1>2, <2>3, <2>4, <2>5, <2>6, Zenon
  <1> QED
    BY <1>3, <1>4, <1>5 DEF Peer

\* A peer's step.
LEMMA PeerBooks ==
  ASSUME IInv, Books, NEW c \in Clients, Peer(c), UNCHANGED fifo
  PROVE  Books'
  <1>1. PICK t \in Sock, e \in {0, 1} :
           /\ sock' = [sock EXCEPT ![c] = t]
           /\ Unread(t.rx) = Unread(sock[c].rx) + e
           /\ t.upgrades = sock[c].upgrades + e /\ t.upgrades <= MaxUpgrades
           /\ t.phase = "closed" => sock[c].phase = "closed"
    BY PeerAsks DEF Books
  <1>2. /\ sock'[c] = t /\ UNCHANGED <<heap, conn, fifo>>
        /\ \A d \in Clients \ {c} : sock'[d] = sock[d]
    BY <1>1, BookTypes DEF Peer
  <1>3. Unread(sock[c].rx) \in Nat /\ sock[c].upgrades \in Nat /\ heap[c].ssl \in Nat
    BY BookTypes
  <1>4. Asking'
    <2>1. Unread(t.rx) <= t.upgrades
      BY <1>1, <1>3 DEF Books, Asking
    <2> QED
      BY <1>1, <1>2, <2>1 DEF Books, Asking
  <1>5. ASSUME NEW k, k.client \in Clients,
               Counted(k, heap[k.client], sock[k.client])
        PROVE  Counted(k, heap[k.client], sock'[k.client])
    <2>1. CASE k.client # c
      BY <1>2, <1>5, <2>1
    <2>2. CASE k.client = c
      <3>1. /\ k.sslconn \in Allocated <=> heap[c].ssl # 0
            /\ IF k.type = "SMTP_CONNECTION"
               THEN heap[c].ssl + Unread(sock[c].rx) <= sock[c].upgrades
               ELSE heap[c].ssl <= 1
        BY <1>5, <2>2 DEF Counted
      <3>2. k.type = "SMTP_CONNECTION" => heap[c].ssl + Unread(t.rx) <= t.upgrades
        BY <1>1, <1>3, <3>1
      <3> QED
        BY <1>2, <2>2, <3>1, <3>2 DEF Counted
    <2> QED
      BY <2>1, <2>2
  <1>6. Counts'
    BY <1>2, <1>5, BookTypes DEF Books, Counts
  <1>7. Left'
    BY <1>1, <1>2 DEF Books, Left, Spare
  <1> QED
    BY <1>4, <1>6, <1>7 DEF Books
-----------------------------------------------------------------------------
(* The theorem. *)

\* Every step of the process keeps the invariant.
LEMMA NextSInv == SInv /\ [Next]_vars => SInv'
  <1> SUFFICES ASSUME SInv, [Next]_vars PROVE SInv'
    OBVIOUS
  <1>1. IInv /\ IInv' /\ Books
    BY NextIInv DEF SInv, Books
  <1>2. ASSUME UNCHANGED <<sock, heap, fifo, conn>> PROVE Books'
    BY <1>1, <1>2 DEF Books, Asking, Counts, Left, Spare
  <1>3. CASE MasterStep
    <2>1. CASE Loop \/ AcceptNothing
      BY <1>1, <1>2, <2>1 DEF Loop, AcceptNothing, SInv, Books
    <2> QED
      BY <1>1, <1>3, <2>1, AcceptBooks, TakeBooks, HandleBooks, DispatchBooks
         DEF MasterStep, process_connection, SInv, Books
  <1>4. CASE \E c \in Clients : Peer(c) /\ UNCHANGED <<at, fifo, stop_signal, armed>>
    BY <1>1, <1>4, PeerBooks DEF SInv, Books
  <1>5. CASE \E s \in Signals : Signal(s)
    BY <1>1, <1>2, <1>5 DEF Signal, SInv, Books
  <1>6. CASE UNCHANGED vars
    BY <1>1, <1>2, <1>6 DEF vars, callvars, SInv, Books
  <1> QED
    BY <1>3, <1>4, <1>5, <1>6 DEF Next, Ended

\* Nobody has asked for anything.
LEMMA InitSInv == Init => SInv
  <1> SUFFICES ASSUME Init PROVE SInv
    OBVIOUS
  <1>1. IInv
    BY InitIInv
  <1>2. \A c \in Clients : sock[c] = NewSock
    BY Zenon DEF Init
  <1>3. NewSock.rx = <<>> /\ NewSock.upgrades = 0 /\ NewSock.phase = "idle"
    BY DEF NewSock
  <1>4. Asking
    <2>1. Unread(NewSock.rx) <= NewSock.upgrades /\ NewSock.upgrades <= MaxUpgrades
      BY <1>3, UnreadNone, BoundAssumption
    <2> QED
      BY <1>2, <2>1, Zenon DEF Asking
  <1>5. Counts
    BY DEF Init, Counts
  <1>6. Left
    BY <1>2, <1>3 DEF Left
  <1> QED
    BY <1>1, <1>4, <1>5, <1>6 DEF SInv

\* Whatever the peers send and however often they ask for TLS, a connection
\* has an SSL object exactly if its sslconn points to one, and when it is
\* closed only those are left that a repeated STARTTLS has replaced: none, as
\* long as no peer sends more than one (smtp.c:338-344, master.c:21-37, 72-77).
THEOREM SslObjectsCounted == Spec => []SslObjectsAccounted
  <1>1. SInv => SslObjectsAccounted
    <2> SUFFICES ASSUME SInv PROVE SslObjectsAccounted
      OBVIOUS
    <2>1. \A i \in DOMAIN fifo :
            heap[fifo[i].client].ssl = 0 <=> fifo[i].sslconn \in {"null", "wild"}
      <3> TAKE i \in DOMAIN fifo
      <3>1. fifo[i].sslconn \in SslPointer
        BY QueuedTypes DEF SInv, Connection
      <3>2. fifo[i].sslconn \in Allocated <=> heap[fifo[i].client].ssl # 0
        BY DEF SInv, Counts, Counted
      <3> QED
        BY <3>1, <3>2 DEF SslPointer, Allocated
    <2> QED
      BY <2>1 DEF SInv, Left, Spare, SslObjectsAccounted
  <1> QED
    BY <1>1, InitSInv, NextSInv, PTL DEF Spec
=============================================================================
