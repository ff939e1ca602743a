-------------------------------- MODULE Text --------------------------------
(***************************************************************************)
(* The text functions, on the bytes and lengths the other modules abstract *)
(* from: the mail domain and the paths made of it, the client's domain and *)
(* the replies that name it, and the end of a message.                     *)
(*                                                                         *)
(* A domain is its length.  An array is the set of positions that hold a   *)
(* zero, as far as they matter: printing it stops at the first of them.    *)
(* Names and messages share no state, so a behaviour is about one of them. *)
(***************************************************************************)
EXTENDS Integers, Sequences, FiniteSetsExt

CONSTANTS
  MailDomains,   \* lengths of the environment variable MAIL_DOMAIN
  Domains,       \* lengths of the domain a HELO or EHLO carries
  Bytes,         \* the bytes a message is made of
  MaxRead,       \* bound on the bytes of one read of message text
  MaxText        \* bound on the bytes of one message

ASSUME TextAssumption ==
  /\ MailDomains \subseteq Nat /\ Domains \subseteq Nat
  /\ MaxRead \in Nat \ {0} /\ MaxText \in Nat

DOMAIN_MAX_SIZE   == 255
SMALL_BUFFER_SIZE == 1024
PathSize          == 256   \* certfile, privfile
MsgbufSize        == 256   \* msgbuf of smtp_send_msg

VARIABLES
  part,         \* what the behaviour is about: "names" or "message"
  maildomain,   \* its length; -1 before dns_init, 0 when main has returned
  path,         \* the characters sprintf stored in certfile, its zero included
  domain,       \* mailclientdomain: the positions that hold a zero
  tls,          \* conn->sslconn is not nullptr
  reply,        \* the last greeting: the domain it was given and the one it
                \* named, its length, how many of its characters were sent, and
                \* how many bytes of msgbuf were read for that
  text,         \* the message text stored so far
  accepted      \* the end of the message was found

names == <<maildomain, path, domain, tls, reply>>
message == <<text, accepted>>
vars == <<part, names, message>>

NoReply == [given |-> 0, named |-> 0, length |-> 0, sent |-> 0, read |-> 0]

\* connection_init assigns no part of mailclientdomain.
Init ==
  /\ part \in {"names", "message"}
  /\ maildomain = -1
  /\ path = 0
  /\ domain \in IF part = "names" THEN {{}, {0}} ELSE {{}}
  /\ tls = FALSE
  /\ reply = NoReply
  /\ text = <<>>
  /\ accepted = FALSE
-----------------------------------------------------------------------------
(* The mail domain. *)

\* dns_init accepts MAIL_DOMAIN, or main returns.
dns_init(m) ==
  /\ part = "names" /\ maildomain = -1
  /\ maildomain' = IF m \in 1 .. DOMAIN_MAX_SIZE - 1 THEN m ELSE 0
  /\ UNCHANGED <<part, path, domain, tls, reply, message>>

\* "/usr/local/share/ca-certificates/%s.crt", and likewise for the key.
format_paths ==
  /\ maildomain > 0 /\ path = 0
  /\ path' = 33 + maildomain + 4 + 1
  /\ UNCHANGED <<part, maildomain, domain, tls, reply, message>>
-----------------------------------------------------------------------------
(* Greetings. *)

\* Mutant: the copy is not terminated.
CopyUnterminated(d, max) ==
  IF d > max THEN [ok |-> FALSE, zeros |-> domain \ (0 .. max - 1)]
             ELSE [ok |-> TRUE, zeros |-> domain \ (0 .. d - 1)]

\* The array after move_client_mail_domain of a word of d characters: what
\* was copied before the limit stays, without a zero after it.
move_client_mail_domain(d, max) ==
  IF d > max THEN [ok |-> FALSE, zeros |-> domain \ (0 .. max - 1)]
             ELSE [ok |-> TRUE, zeros |-> (domain \ (0 .. d)) \cup {d}]

\* What %s prints of the array: up to its first zero, if there is one within
\* it or in the byte that follows it.
Printed(zeros) ==
  IF zeros = {} THEN DOMAIN_MAX_SIZE + 1 ELSE Min(zeros)

\* How many of the n characters of a reply smtp_send_msg sends, and how many
\* bytes of msgbuf it reads.  Over TLS msgbuf holds at most 255 of them and a
\* zero, and SSL_write takes n bytes from it all the same: what follows the 255
\* on the wire is that zero and whatever is behind msgbuf.
smtp_send_msg(n) ==
  [sent |-> IF tls /\ n >= MsgbufSize THEN MsgbufSize - 1 ELSE n,
   read |-> IF tls THEN n ELSE 0]

\* A HELO or EHLO line that fits the buffer, with d characters of domain:
\* "HELO " and CRLF around it, and the reply's own characters plus the names.
Greeting(d, chars) ==
  LET copy == move_client_mail_domain(d, DOMAIN_MAX_SIZE)
      length == chars + Printed(copy.zeros) IN
  /\ path # 0
  /\ 5 + d + 2 < SMALL_BUFFER_SIZE - 1
  /\ domain' = copy.zeros
  /\ reply' = IF copy.ok
              THEN [given |-> d, named |-> Printed(copy.zeros), length |-> length,
                    sent |-> smtp_send_msg(length).sent,
                    read |-> smtp_send_msg(length).read]
              ELSE NoReply
  /\ UNCHANGED <<part, maildomain, path, tls, message>>

SMTP_HELO(d) == Greeting(d, 12)

SMTP_EHLO(d) == Greeting(d, 53 + maildomain)

\* STARTTLS and its handshake.
Upgrade ==
  /\ path # 0 /\ ~tls
  /\ tls' = TRUE
  /\ UNCHANGED <<part, maildomain, path, domain, reply, message>>
-----------------------------------------------------------------------------
(* The end of a message. *)

End == <<"CR", "LF", ".", "CR", "LF">>

\* s holds e, starting at i.
At(s, i, e) == i + Len(e) - 1 <= Len(s) /\ SubSeq(s, i, i + Len(e) - 1) = e

\* The loop of found_crlf_end, from each offset on.
found_crlf_end(str) ==
  LET scan[i \in 1 .. Len(str) + 1] ==
        IF i > Len(str) \/ str[i] = "NUL" THEN FALSE
        ELSE IF str[i] = "CR" /\ At(str, i, End) THEN TRUE
        ELSE scan[i + 1]
  IN scan[1]

\* Mutant: only what this read brought is searched for the end.
ReadTextScanNew(buffer) ==
  /\ part = "message" /\ ~accepted
  /\ Len(text) + Len(buffer) <= MaxText
  /\ text' = text \o buffer
  /\ accepted' = found_crlf_end(buffer)
  /\ UNCHANGED <<part, names>>

\* One read of message text: appended, and the whole message searched.
ReadText(buffer) ==
  /\ part = "message" /\ ~accepted
  /\ Len(text) + Len(buffer) <= MaxText
  /\ text' = text \o buffer
  /\ accepted' = found_crlf_end(text')
  /\ UNCHANGED <<part, names>>

\* After the end, reset_connection and the next DATA.
NextMessage ==
  /\ accepted
  /\ text' = <<>> /\ accepted' = FALSE
  /\ UNCHANGED <<part, names>>

Buffers == UNION {[1 .. n -> Bytes] : n \in 1 .. MaxRead}

Next ==
  \/ \E m \in MailDomains : dns_init(m)
  \/ format_paths
  \/ \E d \in Domains : SMTP_HELO(d) \/ SMTP_EHLO(d)
  \/ Upgrade
  \/ \E b \in Buffers : ReadText(b)
  \/ NextMessage

Spec == Init /\ [][Next]_vars
-----------------------------------------------------------------------------
\* The client's domain and its zero stay within mailclientdomain.  They do not:
\* a domain of 255 characters passes the check, and its zero is written one
\* past the array (smtp.c:109-124, femail.h:78).
DomainInArray == \A z \in domain : z < DOMAIN_MAX_SIZE

\* The certificate and key paths fit the arrays they are formatted into.  They
\* do not: dns_init accepts up to 254 characters, of which the arrays have room
\* for 218 (femail.c:87-98, dns.c:21-33).
PathsInArrays == path <= PathSize

\* A reply over TLS is sent from within msgbuf.  It is not: snprintf returns
\* the length it would have written, and SSL_write is given that length
\* (smtp.h:28-45).
ReplyInMsgbuf == reply.read <= MsgbufSize

\* No array is written or read outside its bounds, which is what the debug build,
\* with -fsanitize=address,undefined, holds the code to (Makefile:14-16).  The code
\* keeps to none of the three.
WithinArrays == DomainInArray /\ PathsInArrays /\ ReplyInMsgbuf
-----------------------------------------------------------------------------
\* A greeting names exactly the domain its command carried, whatever earlier
\* commands, refused ones included, left in the array, and if both domains
\* together have at most 202 characters the peer gets all of it.  Beyond that
\* a reply over TLS may lose its end (smtp.c:286-309, smtp.h:28-57).
GreetingWhole ==
  /\ reply.named = reply.given
  /\ reply.given + maildomain <= 202 => reply.sent = reply.length

\* The text before its first zero byte.
Visible(t) ==
  SubSeq(t, 1, Min({i \in DOMAIN t : t[i] = "NUL"} \cup {Len(t) + 1}) - 1)

\* The text has a line that is just a dot.  What ends the line before its
\* first one is the end of the DATA command.
DotLine(t) == \E i \in 1 .. Len(t) + 2 : At(<<"CR", "LF">> \o t, i, End)

\* A message is accepted by the very read that completes its dot line, however
\* it was cut into reads: not without one, and not later.  There are two
\* exceptions, and only these: a zero byte hides all that follows it, and the
\* dot line of an empty message, which is the first, is not recognised
\* (smtp.c:94-107, 236-250).
EndOnTime ==
  /\ accepted => DotLine(Visible(text))
  /\ DotLine(Visible(text)) => accepted \/ At(text, 1, <<".", "CR", "LF">>)
=============================================================================
