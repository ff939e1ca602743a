----------------------------- MODULE TextProofs -----------------------------
(***************************************************************************)
(* Machine-checked proofs about the text functions, for domains of every   *)
(* length and messages of every length, cut into reads in every way.       *)
(***************************************************************************)
EXTENDS Text, NaturalFacts, SequenceTheorems

\* The values the lengths and arrays take.
Lengths ==
  /\ maildomain \in -1 .. DOMAIN_MAX_SIZE - 1
  /\ path = 0 \/ (maildomain > 0 /\ path = maildomain + 38)
  /\ domain \subseteq 0 .. DOMAIN_MAX_SIZE

\* The last greeting named the domain it was given, and was sent whole unless it
\* exceeds msgbuf.
Greeted ==
  /\ reply.given \in Nat /\ reply.named = reply.given
  /\ \/ reply.given = 0 /\ reply.length = 0
     \/ maildomain > 0 /\ reply.length = reply.given + 12
     \/ maildomain > 0 /\ reply.length = reply.given + 53 + maildomain
  /\ reply.sent = reply.length \/ reply.length >= MsgbufSize

\* The inductive invariant of the names.
NInv == Lengths /\ Greeted
-----------------------------------------------------------------------------
(* The names. *)

\* A copied domain is printed whole: its zero is the first one.
LEMMA CopyPrinted ==
  ASSUME NEW d \in Nat, domain \subseteq 0 .. DOMAIN_MAX_SIZE,
         NEW copy, copy = move_client_mail_domain(d, DOMAIN_MAX_SIZE)
  PROVE  /\ copy.zeros \subseteq 0 .. DOMAIN_MAX_SIZE
         /\ copy.ok => Printed(copy.zeros) = d
  <1>1. CASE d > DOMAIN_MAX_SIZE
    <2>1. copy = [ok |-> FALSE, zeros |-> domain \ (0 .. DOMAIN_MAX_SIZE - 1)]
      BY <1>1 DEF move_client_mail_domain
    <2>2. ~copy.ok
      BY <2>1
    <2>3. copy.zeros = domain \ (0 .. DOMAIN_MAX_SIZE - 1)
      BY <2>1
    <2> QED
      BY <2>2, <2>3, Zenon
  <1>2. CASE ~(d > DOMAIN_MAX_SIZE)
    <2> DEFINE zeros == (domain \ (0 .. d)) \cup {d}
    <2>1. copy = [ok |-> TRUE, zeros |-> zeros]
      BY <1>2 DEF move_client_mail_domain
    <2>2. zeros \subseteq 0 .. DOMAIN_MAX_SIZE
      BY <1>2 DEF DOMAIN_MAX_SIZE
    <2>3. d \in zeros /\ \A z \in zeros : z \in Nat /\ d <= z
      BY DEF DOMAIN_MAX_SIZE
    <2> HIDE DEF zeros
    <2>4. Min(zeros) \in zeros /\ \A z \in zeros : Min(zeros) <= z
      BY <2>3, LeastNatural
    <2>5. Min(zeros) \in Nat /\ Min(zeros) <= d /\ d <= Min(zeros)
      BY <2>3, <2>4, Zenon
    <2>6. Min(zeros) = d
      BY <2>5
    <2>7. copy.zeros = zeros
      BY <2>1
    <2> QED
      BY <2>2, <2>3, <2>6, <2>7 DEF Printed
  <1> QED
    BY <1>1, <1>2

\* A greeting of either kind.
LEMMA GreetingNInv ==
  ASSUME NInv, NEW d \in Nat, NEW chars \in {12, 53 + maildomain},
         Greeting(d, chars)
  PROVE  NInv'
  <1> DEFINE copy == move_client_mail_domain(d, DOMAIN_MAX_SIZE)
             length == chars + Printed(copy.zeros)
  <1>1. /\ path # 0 /\ domain' = copy.zeros /\ UNCHANGED <<maildomain, path, tls>>
        /\ reply' = IF copy.ok
                    THEN [given |-> d, named |-> Printed(copy.zeros),
                          length |-> length,
                          sent |-> smtp_send_msg(length).sent,
                          read |-> smtp_send_msg(length).read]
                    ELSE NoReply
    BY DEF Greeting
  <1>2. /\ copy.zeros \subseteq 0 .. DOMAIN_MAX_SIZE
        /\ copy.ok => Printed(copy.zeros) = d
    BY CopyPrinted DEF NInv, Lengths
  <1> HIDE DEF copy
  <1>3. Lengths' /\ maildomain > 0 /\ maildomain \in Int
    BY <1>1, <1>2 DEF NInv, Lengths
  <1>4. Greeted'
    <2>1. CASE ~copy.ok
      BY <1>1, <2>1 DEF Greeted, NoReply
    <2>2. CASE copy.ok
      <3>1. Printed(copy.zeros) = d
        BY <1>2, <2>2
      <3>2. /\ reply'.given = d /\ reply'.named = d
            /\ reply'.length = chars + d /\ reply'.sent = smtp_send_msg(chars + d).sent
        BY <1>1, <2>2, <3>1
      <3>3. smtp_send_msg(chars + d).sent = chars + d \/ chars + d >= MsgbufSize
        BY DEF smtp_send_msg
      <3>4. chars + d = d + 12 \/ chars + d = d + 53 + maildomain
        BY <1>3
      <3> QED
        BY <1>1, <1>3, <3>2, <3>3, <3>4 DEF Greeted
    <2> QED
      BY <2>1, <2>2
  <1> QED
    BY <1>3, <1>4 DEF NInv

\* No name is known, and no greeting was sent.
LEMMA InitNInv ==
  Init => NInv
  <1> SUFFICES ASSUME Init PROVE NInv
    OBVIOUS
  <1>1. /\ maildomain = -1 /\ path = 0 /\ tls = FALSE /\ reply = NoReply
        /\ domain \in {{}, {0}}
    BY DEF Init
  <1>2. Lengths
    BY <1>1 DEF Lengths, DOMAIN_MAX_SIZE
  <1>3. Greeted
    BY <1>1 DEF Greeted, NoReply
  <1> QED
    BY <1>2, <1>3 DEF NInv

\* Every step keeps the invariant of the names.
LEMMA NextNInv ==
  NInv /\ [Next]_vars => NInv'
  <1> SUFFICES ASSUME NInv, [Next]_vars PROVE NInv'
    OBVIOUS
  <1>1. ASSUME NEW m \in MailDomains, dns_init(m) PROVE NInv'
    <2>1. /\ maildomain = -1 /\ UNCHANGED <<path, domain, tls, reply>>
          /\ maildomain' \in 0 .. DOMAIN_MAX_SIZE - 1
      BY <1>1 DEF dns_init, DOMAIN_MAX_SIZE
    <2>2. path = 0 /\ reply.given = 0 /\ reply.length = 0
      BY <2>1 DEF NInv, Lengths, Greeted
    <2>3. Lengths'
      BY <2>1, <2>2 DEF NInv, Lengths, DOMAIN_MAX_SIZE
    <2>4. Greeted'
      BY <2>1, <2>2 DEF NInv, Greeted
    <2> QED
      BY <2>3, <2>4 DEF NInv
  <1>2. ASSUME format_paths PROVE NInv'
    <2>1. /\ maildomain > 0 /\ path' = 33 + maildomain + 4 + 1
          /\ UNCHANGED <<maildomain, domain, tls, reply>>
      BY <1>2 DEF format_paths
    <2>2. path' = maildomain + 38
      BY <2>1 DEF NInv, Lengths
    <2>3. Lengths'
      BY <2>1, <2>2 DEF NInv, Lengths
    <2>4. Greeted'
      BY <2>1 DEF NInv, Greeted
    <2> QED
      BY <2>3, <2>4 DEF NInv
  <1>3. ASSUME NEW d \in Domains, SMTP_HELO(d) \/ SMTP_EHLO(d) PROVE NInv'
    <2>1. d \in Nat
      BY TextAssumption
    <2> QED
      BY <1>3, <2>1, GreetingNInv DEF SMTP_HELO, SMTP_EHLO
  <1>4. ASSUME Upgrade PROVE NInv'
    BY <1>4 DEF Upgrade, NInv, Lengths, Greeted
  <1>5. ASSUME UNCHANGED names PROVE NInv'
    BY <1>5 DEF names, NInv, Lengths, Greeted
  <1>6. ASSUME NEW b \in Buffers, ReadText(b) PROVE NInv'
    BY <1>5, <1>6 DEF ReadText
  <1>7. ASSUME NextMessage PROVE NInv'
    BY <1>5, <1>7 DEF NextMessage
  <1>8. ASSUME UNCHANGED vars PROVE NInv'
    BY <1>5, <1>8 DEF vars
  <1> QED
    BY <1>1, <1>2, <1>3, <1>4, <1>6, <1>7, <1>8 DEF Next

\* NInv is an invariant.
LEMMA NamesInductive ==
  Spec => []NInv
  BY InitNInv, NextNInv, PTL DEF Spec

\* For domains of every length, in every order of refused and accepted
\* greetings: a reply names the domain just given, and reaches the peer whole
\* if both domains together have at most 202 characters.
THEOREM GreetingsWhole ==
  Spec => []GreetingWhole
  <1>1. NInv => GreetingWhole
    BY DEF NInv, Lengths, Greeted, GreetingWhole, MsgbufSize
  <1> QED
    BY <1>1, NamesInductive, PTL
-----------------------------------------------------------------------------
(* The end of a message. *)

\* The five bytes of End, from position i of s on.
EndAt(s, i) ==
  /\ i + 4 <= Len(s)
  /\ s[i] = "CR" /\ s[i + 1] = "LF" /\ s[i + 2] = "."
  /\ s[i + 3] = "CR" /\ s[i + 4] = "LF"

\* n elements of a sequence, from i on.
LEMMA Window ==
  ASSUME NEW B, NEW s \in Seq(B), NEW i \in Nat \ {0}, NEW n \in Nat,
         i + n - 1 <= Len(s)
  PROVE  /\ SubSeq(s, i, i + n - 1) \in Seq(B)
         /\ Len(SubSeq(s, i, i + n - 1)) = n
         /\ \A j \in 1 .. n : SubSeq(s, i, i + n - 1)[j] = s[i + j - 1]
  <1> DEFINE m == i + n - 1
  <1>1. i \in Int /\ m \in Int /\ m - i + 1 = n /\ (~(i <= m) => n = 0)
    OBVIOUS
  <1>2. \A k \in i .. m : s[k] \in B
    OBVIOUS
  <1> HIDE DEF m
  <1>3. SubSeq(s, i, m) \in Seq(B)
    BY <1>1, <1>2, SubSeqProperties, Zenon
  <1>4. Len(SubSeq(s, i, m)) = IF i <= m THEN m - i + 1 ELSE 0
    BY <1>1, <1>2, SubSeqProperties
  <1>5. \A j \in 1 .. m - i + 1 : SubSeq(s, i, m)[j] = s[i + j - 1]
    BY <1>1, <1>2, SubSeqProperties
  <1>6. Len(SubSeq(s, i, m)) = n
    BY <1>1, <1>4
  <1> QED
    BY <1>1, <1>3, <1>5, <1>6, Zenon DEF m

\* What At means for the end of a message.
LEMMA AtEnd ==
  ASSUME NEW B, NEW s \in Seq(B), NEW i \in Nat \ {0}
  PROVE  At(s, i, End) <=> EndAt(s, i)
  <1>1. Len(End) = 5 /\ End[1] = "CR" /\ End[2] = "LF" /\ End[3] = "."
        /\ End[4] = "CR" /\ End[5] = "LF"
    BY DEF End
  <1>2. CASE i + 4 <= Len(s)
    <2> DEFINE u == SubSeq(s, i, i + 4)
    <2>1. /\ u \in Seq(B) /\ Len(u) = 5
          /\ \A j \in 1 .. 5 : u[j] = s[i + j - 1]
      <3>1. /\ 5 \in Nat /\ i + 5 - 1 = i + 4
        OBVIOUS
      <3> HIDE DEF u
      <3>2. i + 5 - 1 <= Len(s) /\ u = SubSeq(s, i, i + 5 - 1)
        BY <1>2, <3>1 DEF u
      <3> QED
        BY <3>1, <3>2, Window
    <2>2. /\ u[1] = s[i] /\ u[2] = s[i + 1] /\ u[3] = s[i + 2]
          /\ u[4] = s[i + 3] /\ u[5] = s[i + 4]
      BY <2>1
    <2>3. u = End <=> EndAt(s, i)
      <3>1. ASSUME u = End PROVE EndAt(s, i)
        BY <1>1, <1>2, <2>2, <3>1 DEF EndAt
      <3>2. ASSUME EndAt(s, i) PROVE u = End
        <4> HIDE DEF u
        <4>1. /\ u[1] = End[1] /\ u[2] = End[2] /\ u[3] = End[3]
              /\ u[4] = End[4] /\ u[5] = End[5]
          BY <1>1, <2>2, <3>2 DEF EndAt
        <4>2. \A j \in 1 .. Len(u) : u[j] = End[j]
          BY <2>1, <4>1
        <4>3. End \in Seq({"CR", "LF", "."})
          BY DEF End
        <4>4. /\ u \in Seq(B \cup {"CR", "LF", "."})
              /\ End \in Seq(B \cup {"CR", "LF", "."})
          BY <2>1, <4>3, SeqMonotonic
        <4> QED
          <5> DEFINE t == End
                     A == B \cup {"CR", "LF", "."}
          <5>1. u \in Seq(A) /\ t \in Seq(A) /\ Len(u) = Len(t)
            BY <1>1, <2>1, <4>4
          <5>2. \A j \in 1 .. Len(u) : u[j] = t[j]
            BY <4>2
          <5> HIDE DEF t, A
          <5>3. u = t
            BY <5>1, <5>2, SeqEqual
          <5> QED
            BY <5>3 DEF t
      <3> QED
        BY <3>1, <3>2
    <2>4. At(s, i, End) <=> u = End
      BY <1>1, <1>2 DEF At
    <2> QED
      BY <2>3, <2>4
  <1>3. CASE ~(i + 4 <= Len(s))
    BY <1>1, <1>3 DEF At, EndAt
  <1> QED
    BY <1>2, <1>3

\* From offset i on there is an end, and no zero byte up to it.
Ends(s, i) ==
  \E j \in i .. Len(s) : EndAt(s, j) /\ \A k \in i .. j : s[k] # "NUL"

\* found_crlf_end finds an end exactly if there is one before any zero byte.
LEMMA ScanFinds ==
  ASSUME NEW B, NEW s \in Seq(B)
  PROVE  found_crlf_end(s) <=> Ends(s, 1)
  <1> DEFINE D == 1 .. Len(s) + 1
             Step(f) == [i \in D |->
               IF i > Len(s) \/ s[i] = "NUL" THEN FALSE
               ELSE IF s[i] = "CR" /\ At(s, i, End) THEN TRUE
               ELSE f[i + 1]]
             scan == CHOOSE f : f = Step(f)
             g == [i \in D |-> Ends(s, i)]
  <1>1. found_crlf_end(s) = scan[1]
    BY DEF found_crlf_end
  <1>2. Len(s) \in Nat /\ 1 \in D
    OBVIOUS
  <1>3. \A i \in 1 .. Len(s) : At(s, i, End) <=> EndAt(s, i)
    BY AtEnd
  <1>4. \A i \in D : i > Len(s) => ~Ends(s, i)
    BY <1>2 DEF Ends
  <1>5. \A i \in D : ~(i > Len(s)) /\ s[i] = "NUL" => ~Ends(s, i)
    BY <1>2 DEF Ends
  <1>6. \A i \in D : ~(i > Len(s)) /\ s[i] # "NUL" /\ s[i] = "CR" /\ At(s, i, End)
                       => Ends(s, i)
    BY <1>2, <1>3 DEF Ends
  <1>7. \A i \in D : ~(i > Len(s)) /\ s[i] # "NUL" /\ ~(s[i] = "CR" /\ At(s, i, End))
                       => i + 1 \in D /\ (Ends(s, i) <=> Ends(s, i + 1))
    <2> SUFFICES ASSUME NEW i \in D, ~(i > Len(s)), s[i] # "NUL",
                        ~(s[i] = "CR" /\ At(s, i, End))
                 PROVE  i + 1 \in D /\ (Ends(s, i) <=> Ends(s, i + 1))
      OBVIOUS
    <2>1. ~EndAt(s, i) /\ i \in 1 .. Len(s)
      BY <1>2, <1>3 DEF EndAt
    <2>2. ASSUME Ends(s, i) PROVE Ends(s, i + 1)
      BY <2>1, <2>2 DEF Ends
    <2>3. ASSUME Ends(s, i + 1) PROVE Ends(s, i)
      BY <2>1, <2>3 DEF Ends
    <2> QED
      BY <2>1, <2>2, <2>3
  <1> HIDE DEF D
  <1>8. g = Step(g)
    <2>1. \A i \in D : Ends(s, i) = (IF i > Len(s) \/ s[i] = "NUL" THEN FALSE
                                   ELSE IF s[i] = "CR" /\ At(s, i, End) THEN TRUE
                                   ELSE g[i + 1])
      <3> SUFFICES ASSUME NEW i \in D
                   PROVE  Ends(s, i) = (IF i > Len(s) \/ s[i] = "NUL" THEN FALSE
                                        ELSE IF s[i] = "CR" /\ At(s, i, End) THEN TRUE
                                        ELSE g[i + 1])
        BY Zenon
      <3>1. Ends(s, i) \in BOOLEAN
        BY DEF Ends
      <3>2. i + 1 \in D => g[i + 1] = Ends(s, i + 1)
        OBVIOUS
      <3> HIDE DEF g
      <3>3. CASE i > Len(s) \/ s[i] = "NUL"
        BY <1>4, <1>5, <3>1, <3>3, Zenon
      <3>4. CASE ~(i > Len(s) \/ s[i] = "NUL") /\ s[i] = "CR" /\ At(s, i, End)
        BY <1>6, <3>1, <3>4, Zenon
      <3>5. CASE ~(i > Len(s) \/ s[i] = "NUL") /\ ~(s[i] = "CR" /\ At(s, i, End))
        <4>1. i + 1 \in D /\ (Ends(s, i) <=> Ends(s, i + 1))
          BY <1>7, <3>5, Zenon
        <4>2. Ends(s, i + 1) \in BOOLEAN
          BY DEF Ends
        <4> QED
          BY <3>1, <3>2, <3>5, <4>1, <4>2, Zenon
      <3> QED
        BY <3>3, <3>4, <3>5, Zenon
    <2> QED
      BY <2>1, Zenon
  <1>9. scan = Step(scan)
    <2> HIDE DEF g, Step
    <2> QED
      BY <1>8
  <1> DEFINE S == {i \in D : ~(scan[i] <=> Ends(s, i))}
  <1>10. S = {}
    <2> SUFFICES ASSUME S # {} PROVE FALSE
      BY Zenon
    <2>1. S \in SUBSET (0 .. Len(s) + 1) /\ Len(s) + 1 \in Nat
      <3> HIDE DEF scan
      <3> QED
        BY <1>2 DEF D
    <2>2. PICK m \in S : \A n \in S : n <= m
      <3> HIDE DEF S
      <3> QED
        BY <2>1, GreatestNatural, Zenon
    <2>3. m \in D /\ m + 1 \notin S /\ ~(scan[m] <=> Ends(s, m))
      <3> HIDE DEF scan
      <3> QED
        BY <1>2, <2>2 DEF D
    <2>4. scan[m] = IF m > Len(s) \/ s[m] = "NUL" THEN FALSE
                    ELSE IF s[m] = "CR" /\ At(s, m, End) THEN TRUE
                    ELSE scan[m + 1]
      <3> HIDE DEF scan
      <3> QED
        BY <1>9, <2>3, Zenon
    <2> HIDE DEF scan
    <2> QED
      BY <1>4, <1>5, <1>6, <1>7, <2>3, <2>4
  <1> HIDE DEF scan
  <1> QED
    BY <1>1, <1>2, <1>10

\* What is visible of a text: its bytes up to the first zero byte.
LEMMA VisibleText ==
  ASSUME NEW B, NEW t \in Seq(B)
  PROVE  \E n \in 0 .. Len(t) :
           /\ Visible(t) \in Seq(B) /\ Len(Visible(t)) = n
           /\ \A k \in 1 .. n : Visible(t)[k] = t[k] /\ t[k] # "NUL"
           /\ n < Len(t) => t[n + 1] = "NUL"
  <1> DEFINE Z == {i \in DOMAIN t : t[i] = "NUL"} \cup {Len(t) + 1}
             n == Min(Z) - 1
  <1>1. Len(t) \in Nat /\ DOMAIN t = 1 .. Len(t)
    OBVIOUS
  <1>2. Z \in SUBSET Nat /\ Z # {} /\ Len(t) + 1 \in Z
    BY <1>1
  <1>3. Min(Z) \in Z /\ \A z \in Z : Min(Z) <= z
    <2> HIDE DEF Z
    <2> QED
      BY <1>2, LeastNatural
  <1>4. Min(Z) \in 1 .. Len(t) + 1
    <2> DEFINE m == Min(Z)
    <2>1. m \in Z
      BY <1>3
    <2> HIDE DEF m
    <2>2. m \in 1 .. Len(t) + 1
      BY <1>1, <2>1
    <2> QED
      BY <2>2 DEF m
  <1>5. \A k \in 1 .. Len(t) : t[k] = "NUL" => k \in Z
    BY <1>1
  <1>6. \A k \in Z : k <= Len(t) => t[k] = "NUL"
    BY <1>1
  <1>7. Visible(t) = SubSeq(t, 1, n)
    BY DEF Visible
  <1> HIDE DEF Z
  <1>8. n \in 0 .. Len(t) /\ n \in Nat /\ 1 + n - 1 = n /\ n + 1 = Min(Z)
    BY <1>1, <1>4
  <1>9. n < Len(t) => t[n + 1] = "NUL"
    BY <1>1, <1>3, <1>6, <1>8
  <1>10. \A k \in 1 .. n : t[k] # "NUL"
    BY <1>1, <1>3, <1>5, <1>8
  <1> HIDE DEF n
  <1>11. /\ SubSeq(t, 1, 1 + n - 1) \in Seq(B)
         /\ Len(SubSeq(t, 1, 1 + n - 1)) = n
         /\ \A k \in 1 .. n : SubSeq(t, 1, 1 + n - 1)[k] = t[1 + k - 1]
    BY <1>1, <1>8, Window
  <1>12. /\ Visible(t) \in Seq(B) /\ Len(Visible(t)) = n
         /\ \A k \in 1 .. n : Visible(t)[k] = t[1 + k - 1]
    BY <1>7, <1>8, <1>11, Zenon
  <1>13. \A k \in 1 .. n : Visible(t)[k] = t[k]
    BY <1>8, <1>12
  <1> QED
    BY <1>8, <1>9, <1>10, <1>12, <1>13

\* The scan stops at the first zero byte, so it sees what is visible.
LEMMA EndsVisible ==
  ASSUME NEW B, NEW t \in Seq(B)
  PROVE  Ends(t, 1) <=> \E j \in 1 .. Len(Visible(t)) : EndAt(Visible(t), j)
  <1> DEFINE v == Visible(t)
  <1>1. PICK n \in 0 .. Len(t) :
           /\ v \in Seq(B) /\ Len(v) = n
           /\ \A k \in 1 .. n : v[k] = t[k] /\ t[k] # "NUL"
           /\ n < Len(t) => t[n + 1] = "NUL"
    BY VisibleText
  <1> HIDE DEF v
  <1>2. Len(t) \in Nat
    OBVIOUS
  <1>3. ASSUME Ends(t, 1) PROVE \E j \in 1 .. Len(v) : EndAt(v, j)
    <2>1. PICK j \in 1 .. Len(t) : EndAt(t, j) /\ \A k \in 1 .. j : t[k] # "NUL"
      BY <1>3 DEF Ends
    <2>2. \A k \in 1 .. j + 4 : t[k] # "NUL"
      <3> SUFFICES ASSUME NEW k \in 1 .. j + 4 PROVE t[k] # "NUL"
        OBVIOUS
      <3>1. k \in 1 .. j \/ k = j + 1 \/ k = j + 2 \/ k = j + 3 \/ k = j + 4
        OBVIOUS
      <3> QED
        BY <2>1, <3>1 DEF EndAt
    <2>3. j + 4 <= n
      <3>1. j + 4 <= Len(t)
        BY <2>1 DEF EndAt
      <3> QED
        BY <1>1, <1>2, <2>2, <3>1
    <2>4. EndAt(v, j)
      BY <1>1, <2>1, <2>3 DEF EndAt
    <2> QED
      BY <1>1, <2>3, <2>4
  <1>4. ASSUME NEW j \in 1 .. Len(v), EndAt(v, j) PROVE Ends(t, 1)
    <2>1. j + 4 <= n
      BY <1>1, <1>4 DEF EndAt
    <2>2. EndAt(t, j)
      BY <1>1, <1>2, <1>4, <2>1 DEF EndAt
    <2>3. \A k \in 1 .. j : t[k] # "NUL"
      BY <1>1, <2>1
    <2>4. j \in 1 .. Len(t)
      BY <1>1, <1>2, <2>1
    <2> QED
      BY <2>2, <2>3, <2>4 DEF Ends
  <1> QED
    BY <1>3, <1>4 DEF v

\* A line that is just a dot is an end within the text, or the text begins
\* with it.
LEMMA DotLines ==
  ASSUME NEW B, NEW v \in Seq(B)
  PROVE  /\ (\E j \in 1 .. Len(v) : EndAt(v, j)) => DotLine(v)
         /\ DotLine(v) => \/ \E j \in 1 .. Len(v) : EndAt(v, j)
                          \/ /\ Len(v) >= 3
                             /\ v[1] = "." /\ v[2] = "CR" /\ v[3] = "LF"
  <1> DEFINE A == B \cup {"CR", "LF"}
             h == <<"CR", "LF">>
             w == h \o v
  <1>1. h \in Seq(A) /\ Len(h) = 2 /\ h[1] = "CR" /\ h[2] = "LF"
    OBVIOUS
  <1>2. v \in Seq(A) /\ Len(v) \in Nat
    BY SeqMonotonic
  <1> HIDE DEF A, h
  <1>3. /\ w \in Seq(A) /\ Len(w) = Len(h) + Len(v)
        /\ \A i \in 1 .. Len(h) + Len(v) :
             w[i] = IF i <= Len(h) THEN h[i] ELSE v[i - Len(h)]
    BY <1>1, <1>2, ConcatProperties, Zenon
  <1> HIDE DEF w
  <1>4. /\ Len(w) = Len(v) + 2 /\ w[1] = "CR" /\ w[2] = "LF"
        /\ \A k \in 1 .. Len(v) : w[k + 2] = v[k]
    BY <1>1, <1>2, <1>3
  <1>5. \A i \in 1 .. Len(v) + 2 : At(w, i, End) <=> EndAt(w, i)
    BY <1>2, <1>3, AtEnd
  <1>6. DotLine(v) <=> \E i \in 1 .. Len(v) + 2 : EndAt(w, i)
    BY <1>5 DEF DotLine, w, h
  <1>7. ASSUME NEW j \in 1 .. Len(v), EndAt(v, j) PROVE DotLine(v)
    <2>1. /\ j + 4 <= Len(v) /\ j + 2 \in 1 .. Len(v) + 2
          /\ (j + 2) + 1 = (j + 1) + 2 /\ (j + 2) + 2 = (j + 2) + 2
          /\ (j + 2) + 3 = (j + 3) + 2 /\ (j + 2) + 4 = (j + 4) + 2
      BY <1>2, <1>7 DEF EndAt
    <2>2. /\ w[j + 2] = v[j] /\ w[(j + 2) + 1] = v[j + 1]
          /\ w[(j + 2) + 2] = v[j + 2] /\ w[(j + 2) + 3] = v[j + 3]
          /\ w[(j + 2) + 4] = v[j + 4]
      <3>1. j \in 1 .. Len(v) /\ j + 1 \in 1 .. Len(v) /\ j + 2 \in 1 .. Len(v)
            /\ j + 3 \in 1 .. Len(v) /\ j + 4 \in 1 .. Len(v)
        BY <1>2, <2>1
      <3>2. /\ w[j + 2] = v[j] /\ w[(j + 1) + 2] = v[j + 1]
            /\ w[(j + 2) + 2] = v[j + 2] /\ w[(j + 3) + 2] = v[j + 3]
            /\ w[(j + 4) + 2] = v[j + 4]
        BY <1>4, <3>1, Zenon
      <3> QED
        BY <2>1, <3>2, Zenon
    <2>3. EndAt(w, j + 2)
      BY <1>2, <1>4, <1>7, <2>1, <2>2 DEF EndAt
    <2> QED
      BY <1>6, <2>1, <2>3
  <1>8. ASSUME DotLine(v)
        PROVE  \/ \E j \in 1 .. Len(v) : EndAt(v, j)
               \/ /\ Len(v) >= 3
                  /\ v[1] = "." /\ v[2] = "CR" /\ v[3] = "LF"
    <2>1. PICK i \in 1 .. Len(v) + 2 : EndAt(w, i)
      BY <1>6, <1>8
    <2>2. CASE i = 1
      BY <1>2, <1>4, <2>1, <2>2 DEF EndAt
    <2>3. CASE i = 2
      BY <1>4, <2>1, <2>3 DEF EndAt
    <2>4. CASE i > 2
      <3> DEFINE j == i - 2
      <3>1. j \in 1 .. Len(v) /\ i = j + 2 /\ j + 4 <= Len(v)
        BY <1>2, <1>4, <2>1, <2>4 DEF EndAt
      <3> HIDE DEF j
      <3>2. EndAt(v, j)
        BY <1>2, <1>4, <2>1, <3>1 DEF EndAt
      <3> QED
        BY <3>1, <3>2
    <2> QED
      BY <2>2, <2>3, <2>4
  <1> QED
    BY <1>7, <1>8

\* A buffer that is read is a sequence of bytes.
LEMMA BuffersSeq ==
  ASSUME NEW b \in Buffers
  PROVE  b \in Seq(Bytes)
  <1>1. PICK n \in 1 .. MaxRead : b \in [1 .. n -> Bytes]
    BY DEF Buffers
  <1>2. n \in Nat
    BY TextAssumption
  <1> QED
    BY <1>1, <1>2, SeqDef

\* The inductive invariant of a message: it is accepted exactly if the scan
\* of all of it finds an end.
TInv ==
  /\ text \in Seq(Bytes)
  /\ accepted <=> Ends(text, 1)

\* An empty text has no end.
LEMMA EmptyTInv ==
  ASSUME text = <<>>, accepted = FALSE
  PROVE  TInv
  <1>1. text \in Seq(Bytes) /\ Len(text) = 0
    OBVIOUS
  <1>2. ~Ends(text, 1)
    BY <1>1 DEF Ends
  <1> QED
    BY <1>1, <1>2 DEF TInv

\* Every step keeps the invariant of a message.
LEMMA NextTInv ==
  TInv /\ [Next]_vars => TInv'
  <1> SUFFICES ASSUME TInv, [Next]_vars PROVE TInv'
    OBVIOUS
  <1>1. ASSUME UNCHANGED message PROVE TInv'
    BY <1>1 DEF message, TInv
  <1>2. ASSUME NEW m \in MailDomains, dns_init(m) PROVE TInv'
    BY <1>1, <1>2 DEF dns_init
  <1>3. ASSUME format_paths PROVE TInv'
    BY <1>1, <1>3 DEF format_paths
  <1>4. ASSUME NEW d \in Domains, SMTP_HELO(d) \/ SMTP_EHLO(d) PROVE TInv'
    BY <1>1, <1>4 DEF SMTP_HELO, SMTP_EHLO, Greeting
  <1>5. ASSUME Upgrade PROVE TInv'
    BY <1>1, <1>5 DEF Upgrade
  <1>6. ASSUME NEW b \in Buffers, ReadText(b) PROVE TInv'
    <2>1. text' = text \o b /\ accepted' = found_crlf_end(text')
      BY <1>6 DEF ReadText
    <2>2. text' \in Seq(Bytes)
      BY <2>1, BuffersSeq DEF TInv
    <2>3. found_crlf_end(text') <=> Ends(text', 1)
      BY <2>2, ScanFinds
    <2> QED
      BY <2>1, <2>2, <2>3 DEF TInv
  <1>7. ASSUME NextMessage PROVE TInv'
    <2>1. text' = <<>> /\ accepted' = FALSE
      BY <1>7 DEF NextMessage
    <2>2. text' \in Seq(Bytes) /\ Len(text') = 0
      BY <2>1
    <2>3. ~Ends(text', 1)
      BY <2>2 DEF Ends
    <2> QED
      BY <2>1, <2>2, <2>3 DEF TInv
  <1>8. ASSUME UNCHANGED vars PROVE TInv'
    BY <1>1, <1>8 DEF vars
  <1> QED
    BY <1>2, <1>3, <1>4, <1>5, <1>6, <1>7, <1>8 DEF Next

\* What the invariant says of the dot line.
LEMMA TInvOnTime ==
  TInv => EndOnTime
  <1> SUFFICES ASSUME TInv PROVE EndOnTime
    OBVIOUS
  <1> DEFINE v == Visible(text)
  <1>1. PICK n \in 0 .. Len(text) :
           /\ v \in Seq(Bytes) /\ Len(v) = n
           /\ \A k \in 1 .. n : v[k] = text[k] /\ text[k] # "NUL"
           /\ n < Len(text) => text[n + 1] = "NUL"
    BY VisibleText DEF TInv
  <1>2. accepted <=> \E j \in 1 .. Len(v) : EndAt(v, j)
    BY EndsVisible DEF TInv
  <1> HIDE DEF v
  <1>3. /\ (\E j \in 1 .. Len(v) : EndAt(v, j)) => DotLine(v)
        /\ DotLine(v) => \/ \E j \in 1 .. Len(v) : EndAt(v, j)
                         \/ /\ Len(v) >= 3
                            /\ v[1] = "." /\ v[2] = "CR" /\ v[3] = "LF"
    BY <1>1, DotLines
  <1>4. ASSUME Len(v) >= 3, v[1] = ".", v[2] = "CR", v[3] = "LF"
        PROVE  At(text, 1, <<".", "CR", "LF">>)
    <2> DEFINE e == <<".", "CR", "LF">>
               A == Bytes \cup {".", "CR", "LF"}
               u == SubSeq(text, 1, 1 + 3 - 1)
    <2>1. text \in Seq(Bytes) /\ Len(text) \in Nat /\ 1 + 3 - 1 <= Len(text)
      BY <1>1, <1>4 DEF TInv
    <2>2. /\ u \in Seq(Bytes) /\ Len(u) = 3
          /\ \A j \in 1 .. 3 : u[j] = text[1 + j - 1]
      BY <2>1, Window
    <2>3. /\ e \in Seq(A) /\ Len(e) = 3
          /\ e[1] = "." /\ e[2] = "CR" /\ e[3] = "LF"
      OBVIOUS
    <2>4. At(text, 1, e) <=> u = e
      <3>1. 1 + Len(e) - 1 = 3 /\ 1 + 3 - 1 = 3
        BY <2>3
      <3> HIDE DEF e
      <3> QED
        BY <2>1, <3>1, Zenon DEF At
    <2>5. u \in Seq(A)
      BY <2>2, SeqMonotonic
    <2> HIDE DEF u, e, A
    <2>6. text[1] = "." /\ text[2] = "CR" /\ text[3] = "LF"
      BY <1>1, <1>4
    <2>7. \A j \in 1 .. Len(u) : u[j] = e[j]
      BY <2>2, <2>3, <2>6
    <2>8. u = e
      BY <2>2, <2>3, <2>5, <2>7, SeqEqual
    <2> QED
      BY <2>4, <2>8 DEF e
  <1> QED
    BY <1>2, <1>3, <1>4 DEF EndOnTime, v

\* For messages of every length, over every set of bytes, cut into reads in
\* every way: a message is accepted by the very read that completes its dot
\* line, but for a dot line hidden by a zero byte and the one that opens the
\* message (smtp.c:94-107, 236-250).
THEOREM EndAlwaysOnTime ==
  Spec => []EndOnTime
  <1>1. Init => TInv
    BY EmptyTInv, Zenon DEF Init
  <1> QED
    BY <1>1, NextTInv, TInvOnTime, PTL DEF Spec
=============================================================================
