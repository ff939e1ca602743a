----------------------------- MODULE CommProofs -----------------------------
(***************************************************************************)
(* Machine-checked proofs about start-up and shut-down, for every number   *)
(* of descriptors and whichever calls fail.                                *)
(***************************************************************************)
EXTENDS Comm, NaturalFacts

\* The steps at which the start_ function of service s is still to be called.
Ahead(s) ==
  CASE s = "smtp"     -> {"dns_init", "load_tls", "start_smtp"}
    [] s = "smtps"    -> {"dns_init", "load_tls", "start_smtp", "start_smtps"}
    [] s = "starttls" -> {"dns_init", "load_tls", "start_smtp", "start_smtps",
                          "start_starttls"}
    [] s = "http"     -> {"dns_init", "load_tls", "start_smtp", "start_smtps",
                          "start_starttls", "start_http"}
    [] s = "https"    -> {"dns_init", "load_tls", "start_smtp", "start_smtps",
                          "start_starttls", "start_http", "start_https"}

\* The steps at which the stop_ function of service s has been called.
Behind(s) ==
  CASE s = "smtp"     -> {"stop_smtps", "stop_starttls", "stop_http",
                          "stop_https", "free_context", "exited"}
    [] s = "smtps"    -> {"stop_starttls", "stop_http", "stop_https",
                          "free_context", "exited"}
    [] s = "starttls" -> {"stop_http", "stop_https", "free_context", "exited"}
    [] s = "http"     -> {"stop_https", "free_context", "exited"}
    [] s = "https"    -> {"free_context", "exited"}

\* The steps that come before the first stop_ function.
Up ==
  {"dns_init", "load_tls", "start_smtp", "start_smtps", "start_starttls",
   "start_http", "start_https", "check_communications", "running", "stop_smtp"}

Sockets(k) == {k.socket4, k.socket6}

\* A context is as it was loaded until its service is started, and has no
\* socket once it is stopped.
Untouched ==
  \A s \in Services : step \in Ahead(s) => ctx[s] = Zeroed
Cleared ==
  \A s \in Services : step \in Behind(s) => ~ctx[s].active /\ Sockets(ctx[s]) = {-1}

\* Every listening socket is in the context of the active service it is of.
Owned ==
  \A i \in Fds : owner[i] \in Services =>
    ctx[owner[i]].active /\ i \in Sockets(ctx[owner[i]])

\* An active service has a socket; and what it has is its own, until the
\* services are stopped (a service without a context then closes descriptor 0).
Listening ==
  \A s \in Services : ctx[s].active =>
    /\ Sockets(ctx[s]) # {-1}
    /\ step \in Up => \A i \in Sockets(ctx[s]) \ {-1} : owner[i] = s

\* TLS needs the context, and STARTTLS is offered exactly with it.
WithContext ==
  /\ \A s \in {"smtps", "starttls", "https"} : ctx[s].active => sslctx = "loaded"
  /\ step \in Up \ Ahead("smtp") => (ctx["smtp"].starttls <=> sslctx = "loaded")

\* What a started service will close is not foreign, descriptor 0 apart.
Harmless ==
  \A s \in Services : step \notin Ahead(s) =>
    \A i \in Sockets(ctx[s]) \ {-1} :
      owner[i] = "foreign" => i = 0 /\ sslctx # "loaded"

\* The context is not loaded before load_tls.
Early == step \in {"dns_init", "load_tls"} => sslctx = "null"

\* The inductive invariant.
CInv ==
  /\ TypeOK /\ Untouched /\ Cleared /\ Owned /\ Listening /\ WithContext
  /\ Harmless /\ Early
  /\ step = "running" => \E s \in {"smtp", "smtps", "starttls"} : ctx[s].active
-----------------------------------------------------------------------------
(* The lowest free descriptor. *)

\* What OpenFamily returns: no socket, and nothing is changed, or a socket that
\* was free, and nothing else is changed.
Opened(v, own, s) ==
  \/ v.fd = -1 /\ v.own = own
  \/ /\ v.fd \in Fds /\ own[v.fd] = "free"
     /\ v.own = [own EXCEPT ![v.fd] = s]

\* The socket of one family.
LEMMA FamilyOpened ==
  ASSUME NEW own, NEW s, NEW how
  PROVE  Opened(OpenFamily(own, s, how), own, s)
  <1> DEFINE free == {i \in Fds : own[i] = "free"}
  <1>1. CASE free = {} \/ how # "ok"
    BY <1>1, Zenon DEF OpenFamily, Opened
  <1>2. CASE free # {} /\ how = "ok"
    <2>1. free \in SUBSET Nat
      BY DEF Fds
    <2>2. Min(free) \in free
      <3> HIDE DEF free
      <3> QED
        BY <1>2, <2>1, LeastNatural
    <2>3. OpenFamily(own, s, how)
            = [fd |-> Min(free), own |-> [own EXCEPT ![Min(free)] = s]]
      BY <1>2, Zenon DEF OpenFamily
    <2> DEFINE v == OpenFamily(own, s, how)
    <2>4. Min(free) \in Fds /\ own[Min(free)] = "free"
      BY <2>2
    <2> HIDE DEF free
    <2>5. v.fd = Min(free) /\ v.own = [own EXCEPT ![Min(free)] = s]
      BY <2>3
    <2> HIDE DEF v
    <2>6. Opened(v, own, s)
      BY <2>4, <2>5 DEF Opened
    <2> QED
      BY <2>6 DEF v
  <1> QED
    BY <1>1, <1>2

Record(a, b, flag) ==
  [active |-> a # -1 \/ b # -1, starttls |-> flag, socket4 |-> a, socket6 |-> b]

\* Sockets a and b, if not -1, were free and are now of service s.
Gains(s, a, b) ==
  \A i \in Fds : IF i \in {a, b} THEN owner[i] = "free" /\ owner'[i] = s
                                 ELSE owner'[i] = owner[i]

\* Both families of a service.
LEMMA BothOpened ==
  ASSUME TypeOK, NEW s \in Services, NEW flag, OpenBoth(s, flag)
  PROVE  \E a, b \in Fds \cup {-1} :
           /\ ctx' = [ctx EXCEPT ![s] = Record(a, b, flag)]
           /\ owner' \in [Fds -> Services \cup {"free", "foreign"}]
           /\ Gains(s, a, b)
  <1>1. PICK how4, how6 :
          LET v4 == OpenFamily(owner, s, how4)
              v6 == OpenFamily(v4.own, s, how6) IN
          /\ owner' = v6.own
          /\ ctx' = [ctx EXCEPT ![s] = Record(v4.fd, v6.fd, flag)]
    BY Zenon DEF OpenBoth, Record
  <1> DEFINE v4 == OpenFamily(owner, s, how4)
             v6 == OpenFamily(v4.own, s, how6)
  <1>2. Opened(v4, owner, s) /\ Opened(v6, v4.own, s)
    BY FamilyOpened
  <1>3. owner' = v6.own /\ ctx' = [ctx EXCEPT ![s] = Record(v4.fd, v6.fd, flag)]
    BY <1>1
  <1> HIDE DEF v4, v6
  <1>4. s # "free" /\ owner \in [Fds -> Services \cup {"free", "foreign"}]
        /\ -1 \notin Fds
    BY DEF TypeOK, Services, Fds
  <1>5. v4.fd \in Fds \cup {-1} /\ v6.fd \in Fds \cup {-1}
    BY <1>2 DEF Opened
  <1>6. /\ v4.own \in [Fds -> Services \cup {"free", "foreign"}]
        /\ \A i \in Fds : IF i = v4.fd THEN owner[i] = "free" /\ v4.own[i] = s
                                       ELSE v4.own[i] = owner[i]
    BY <1>2, <1>4, Zenon DEF Opened
  <1>7. /\ v6.own \in [Fds -> Services \cup {"free", "foreign"}]
        /\ \A i \in Fds : IF i = v6.fd THEN v4.own[i] = "free" /\ v6.own[i] = s
                                       ELSE v6.own[i] = v4.own[i]
    BY <1>2, <1>4, <1>6 DEF Opened
  <1>8. Gains(s, v4.fd, v6.fd)
    BY <1>3, <1>4, <1>6, <1>7 DEF Gains
  <1> QED
    BY <1>3, <1>5, <1>7, <1>8, Zenon
-----------------------------------------------------------------------------
(* Starting. *)

\* The step goes from the start of s to the next one.
StartsNext(s) ==
  /\ step \in Up /\ step' \in Up \ {"dns_init", "load_tls", "running"}
  /\ \A t \in Services : /\ step \notin Behind(t) /\ step' \notin Behind(t)
                         /\ t # s => (step' \in Ahead(t) <=> step \in Ahead(t))
  /\ step \in Ahead(s) /\ step' \notin Ahead(s)

\* A service is started.
LEMMA StartedCInv ==
  ASSUME CInv, NEW s \in Services, NEW flag \in BOOLEAN, OpenBoth(s, flag),
         StartsNext(s), UNCHANGED sslctx,
         s \in {"smtps", "starttls", "https"} => sslctx = "loaded",
         s = "smtp" => (flag <=> sslctx = "loaded"),
         sslctx # "freed"
  PROVE  CInv'
  <1>1. PICK a, b \in Fds \cup {-1} :
           /\ ctx' = [ctx EXCEPT ![s] = Record(a, b, flag)]
           /\ owner' \in [Fds -> Services \cup {"free", "foreign"}]
           /\ Gains(s, a, b)
    BY BothOpened DEF CInv
  <1>2. TypeOK /\ ctx[s] = Zeroed /\ -1 \notin Fds
    BY DEF CInv, Untouched, StartsNext, Fds
  <1>3. Record(a, b, flag) \in [active : BOOLEAN, starttls : BOOLEAN,
                           socket4 : Fds \cup {-1}, socket6 : Fds \cup {-1}]
    <2>1. (a # -1 \/ b # -1) \in BOOLEAN
      BY Zenon
    <2> QED
      BY <1>1, <2>1, Zenon DEF Record
  <1>4. TypeOK'
    <2>1. step' \in Up
      BY DEF StartsNext
    <2> QED
      BY <1>1, <1>2, <1>3, <2>1 DEF TypeOK, Up
  <1>5. /\ ctx'[s] = Record(a, b, flag)
        /\ \A t \in Services : t # s => ctx'[t] = ctx[t]
    BY <1>1, <1>2 DEF TypeOK
  <1>6. /\ ctx'[s].active = (a # -1 \/ b # -1)
        /\ ctx'[s].starttls = flag
        /\ Sockets(ctx'[s]) = {a, b}
        /\ \A t \in Services : t # s => Sockets(ctx'[t]) = Sockets(ctx[t])
    <2>1. /\ Record(a, b, flag).active = (a # -1 \/ b # -1)
          /\ Record(a, b, flag).starttls = flag
      BY Zenon DEF Record
    <2>2. Record(a, b, flag).socket4 = a /\ Record(a, b, flag).socket6 = b
      BY Zenon DEF Record
    <2>3. Sockets(Record(a, b, flag)) = {a, b}
      BY <2>2 DEF Sockets
    <2> QED
      BY <1>5, <2>1, <2>3, Zenon
  <1>7. \A i \in Fds : owner[i] # s
    BY <1>2 DEF CInv, Owned, Zeroed
  <1>8. Untouched' /\ Cleared'
    BY <1>5 DEF CInv, Untouched, StartsNext, Cleared
  <1>9. Owned'
    <2> SUFFICES ASSUME NEW i \in Fds, owner'[i] \in Services
                 PROVE  ctx'[owner'[i]].active /\ i \in Sockets(ctx'[owner'[i]])
      BY DEF Owned
    <2>1. CASE i \in {a, b}
      BY <1>1, <1>2, <1>6, <2>1, Zenon DEF Gains
    <2>2. CASE i \notin {a, b}
      <3>1. owner'[i] = owner[i] /\ owner[i] # s
        BY <1>1, <1>7, <2>2 DEF Gains
      <3>2. ctx[owner[i]].active /\ i \in Sockets(ctx[owner[i]])
        BY <3>1 DEF CInv, Owned
      <3> QED
        BY <1>5, <1>6, <3>1, <3>2
    <2> QED
      BY <2>1, <2>2
  <1>10. Listening'
    <2> SUFFICES ASSUME NEW t \in Services, ctx'[t].active
                 PROVE  /\ Sockets(ctx'[t]) # {-1}
                        /\ \A i \in Sockets(ctx'[t]) \ {-1} : owner'[i] = t
      BY DEF Listening
    <2>1. CASE t = s
      BY <1>1, <1>6, <2>1, Zenon DEF Gains
    <2>2. CASE t # s
      <3>1. ctx[t].active /\ Sockets(ctx'[t]) = Sockets(ctx[t])
        BY <1>5, <1>6, <2>2
      <3>2. /\ Sockets(ctx[t]) # {-1}
            /\ \A i \in Sockets(ctx[t]) \ {-1} : owner[i] = t
        BY <3>1 DEF CInv, Listening, StartsNext
      <3>3. \A i \in Sockets(ctx[t]) \ {-1} : i \in Fds
        BY <1>2 DEF TypeOK, Sockets
      <3>4. t # "free"
        BY DEF Services
      <3> QED
        BY <1>1, <3>1, <3>2, <3>3, <3>4 DEF Gains
    <2> QED
      BY <2>1, <2>2
  <1>11. WithContext'
    <2>1. \A t \in {"smtps", "starttls", "https"} : ctx'[t].active => sslctx' = "loaded"
      BY <1>5 DEF CInv, WithContext, Services
    <2>2. CASE s = "smtp"
      BY <1>6, <2>1, <2>2 DEF WithContext
    <2>3. CASE s # "smtp"
      <3>1. "smtp" \in Services /\ ctx'["smtp"] = ctx["smtp"]
        BY <1>5, <2>3 DEF Services
      <3>2. step' \in Up \ Ahead("smtp") => step \in Up \ Ahead("smtp")
        BY <2>3, <3>1 DEF StartsNext
      <3> QED
        BY <2>1, <3>1, <3>2 DEF CInv, WithContext
    <2> QED
      BY <2>2, <2>3
  <1>12. Harmless'
    <2> SUFFICES ASSUME NEW t \in Services, step' \notin Ahead(t),
                        NEW i \in Sockets(ctx'[t]) \ {-1}, owner'[i] = "foreign"
                 PROVE  i = 0 /\ sslctx' # "loaded"
      BY DEF Harmless
    <2>1. s # "foreign"
      BY DEF Services
    <2>2. t # s
      BY <1>1, <1>6, <2>1 DEF Gains
    <2>3. i \in Sockets(ctx[t]) \ {-1} /\ step \notin Ahead(t)
      BY <1>6, <2>2 DEF StartsNext
    <2>4. i \in Fds
      BY <1>2, <2>3 DEF TypeOK, Sockets
    <2>5. owner[i] = "foreign"
      BY <1>1, <2>1, <2>4 DEF Gains
    <2> QED
      BY <2>3, <2>5 DEF CInv, Harmless
  <1> QED
    BY <1>4, <1>8, <1>9, <1>10, <1>11, <1>12 DEF CInv, StartsNext, Early

\* A service that needs a context is not started, for there is none.
LEMMA SkippedCInv ==
  ASSUME CInv, NEW s \in {"smtps", "starttls", "https"}, StartsNext(s),
         sslctx # "loaded", UNCHANGED <<sslctx, ctx, owner>>
  PROVE  CInv'
  <1>1. TypeOK' /\ s \in Services /\ s # "smtp" /\ "smtp" \in Services
    BY DEF CInv, TypeOK, StartsNext, Up, Services
  <1>2. Untouched' /\ Cleared' /\ Owned'
    BY DEF CInv, Untouched, Cleared, Owned, StartsNext
  <1>3. Listening'
    BY DEF CInv, Listening, StartsNext
  <1>4. WithContext'
    BY <1>1 DEF CInv, WithContext, StartsNext
  <1>5. Harmless'
    <2>1. Sockets(ctx[s]) = {0}
      BY <1>1 DEF CInv, Untouched, StartsNext, Zeroed, Sockets
    <2> QED
      BY <2>1 DEF CInv, Harmless, StartsNext
  <1> QED
    BY <1>1, <1>2, <1>3, <1>4, <1>5 DEF CInv, StartsNext, Early

\* The start_ functions.
LEMMA StartCInv ==
  ASSUME CInv, \/ start_smtp \/ start_smtps \/ start_starttls
               \/ start_http \/ start_https
  PROVE  CInv'
  <1> USE DEF Services
  <1>0. (sslctx = "loaded") \in BOOLEAN /\ FALSE \in BOOLEAN
    BY Zenon
  <1>1. step \in {"start_smtp", "start_smtps", "start_starttls", "start_http",
                  "start_https"} => sslctx # "freed"
    BY DEF CInv, TypeOK
  <1>2. CASE start_smtp
    <2>1. StartsNext("smtp")
      BY <1>2 DEF start_smtp, StartsNext, Up, Ahead, Behind
    <2> QED
      BY <1>0, <1>1, <1>2, <2>1, StartedCInv, Zenon DEF start_smtp
  <1>3. CASE start_smtps
    <2>1. StartsNext("smtps")
      BY <1>3 DEF start_smtps, StartsNext, Up, Ahead, Behind
    <2> QED
      BY <1>0, <1>1, <1>3, <2>1, StartedCInv, SkippedCInv, Zenon
         DEF start_smtps, OpenIfContext
  <1>4. CASE start_starttls
    <2>1. StartsNext("starttls")
      BY <1>4 DEF start_starttls, StartsNext, Up, Ahead, Behind
    <2> QED
      BY <1>0, <1>1, <1>4, <2>1, StartedCInv, SkippedCInv, Zenon
         DEF start_starttls, OpenIfContext
  <1>5. CASE start_http
    <2>1. StartsNext("http")
      BY <1>5 DEF start_http, StartsNext, Up, Ahead, Behind
    <2> QED
      BY <1>0, <1>1, <1>5, <2>1, StartedCInv, Zenon DEF start_http
  <1>6. CASE start_https
    <2>1. StartsNext("https")
      BY <1>6 DEF start_https, StartsNext, Up, Ahead, Behind
    <2> QED
      BY <1>0, <1>1, <1>6, <2>1, StartedCInv, SkippedCInv, Zenon
         DEF start_https, OpenIfContext
  <1> QED
    BY <1>2, <1>3, <1>4, <1>5, <1>6
-----------------------------------------------------------------------------
(* Stopping. *)

\* The step goes from the stop of s to the next one.
StopsNext(s) ==
  /\ step' \in {"stop_smtps", "stop_starttls", "stop_http", "stop_https",
                "free_context"}
  /\ sslctx # "freed"
  /\ \A t \in Services : /\ step \notin Ahead(t) /\ step' \notin Ahead(t)
                         /\ t # s => (step' \in Behind(t) <=> step \in Behind(t))

\* A service is stopped.
LEMMA StoppedCInv ==
  ASSUME CInv, NEW s \in Services, CloseBoth(s), StopsNext(s)
  PROVE  CInv'
  <1> DEFINE k == [active |-> FALSE, starttls |-> FALSE,
                   socket4 |-> -1, socket6 |-> -1]
  <1>1. /\ owner' = [i \in Fds |-> IF i \in Sockets(ctx[s]) THEN "free" ELSE owner[i]]
        /\ ctx' = [ctx EXCEPT ![s] = k] /\ sslctx' = sslctx
    BY DEF CloseBoth, Sockets
  <1>2. TypeOK /\ -1 \notin Fds
    BY DEF CInv, Fds
  <1>3. k \in [active : BOOLEAN, starttls : BOOLEAN,
               socket4 : Fds \cup {-1}, socket6 : Fds \cup {-1}]
    BY Zenon
  <1>4. ~k.active /\ Sockets(k) = {-1}
    BY DEF Sockets
  <1> HIDE DEF k
  <1>5. TypeOK'
    BY <1>1, <1>2, <1>3 DEF TypeOK, StopsNext
  <1>6. ctx'[s] = k /\ \A t \in Services : t # s => ctx'[t] = ctx[t]
    BY <1>1, <1>2 DEF TypeOK
  <1>7. \A i \in Fds : /\ i \in Sockets(ctx[s]) => owner'[i] = "free"
                       /\ owner'[i] # "free" => owner'[i] = owner[i]
    BY <1>1
  <1>8. Untouched' /\ Cleared'
    BY <1>4, <1>6 DEF CInv, Untouched, Cleared, StopsNext
  <1>9. Owned'
    <2> SUFFICES ASSUME NEW i \in Fds, owner'[i] \in Services
                 PROVE  ctx'[owner'[i]].active /\ i \in Sockets(ctx'[owner'[i]])
      BY DEF Owned
    <2>1. owner'[i] # "free"
      BY DEF Services
    <2>2. owner'[i] = owner[i] /\ i \notin Sockets(ctx[s])
      BY <1>7, <2>1
    <2>3. ctx[owner[i]].active /\ i \in Sockets(ctx[owner[i]])
      BY <2>2 DEF CInv, Owned
    <2> QED
      BY <1>6, <2>2, <2>3
  <1>10. step' \notin Up /\ step' # "running"
    BY DEF StopsNext, Up
  <1>11. Listening'
    BY <1>4, <1>6, <1>10 DEF CInv, Listening
  <1>12. WithContext'
    BY <1>1, <1>4, <1>6, <1>10 DEF CInv, WithContext, Services
  <1>13. Harmless'
    <2> SUFFICES ASSUME NEW t \in Services,
                        NEW i \in Sockets(ctx'[t]) \ {-1}, owner'[i] = "foreign"
                 PROVE  i = 0 /\ sslctx' # "loaded"
      BY DEF Harmless
    <2>1. t # s /\ i \in Sockets(ctx[t]) \ {-1}
      BY <1>4, <1>6
    <2>2. i \in Fds
      BY <1>2, <2>1 DEF TypeOK, Sockets
    <2>3. owner[i] = "foreign"
      BY <1>7, <2>2
    <2> QED
      BY <1>1, <2>1, <2>3 DEF CInv, Harmless, StopsNext
  <1> QED
    BY <1>5, <1>8, <1>9, <1>10, <1>11, <1>12, <1>13 DEF CInv, StopsNext, Early

\* The stop_ functions.
LEMMA StopCInv ==
  ASSUME CInv, NEW s \in Services,
         \/ s = "smtp" /\ stop_smtp
         \/ s = "smtps" /\ stop_smtps
         \/ s = "starttls" /\ stop_starttls
         \/ s = "http" /\ stop_http
         \/ s = "https" /\ stop_https
  PROVE  CloseBoth(s) /\ StopsNext(s) /\ CInv'
  <1>1. step \in {"stop_smtp", "stop_smtps", "stop_starttls", "stop_http",
                  "stop_https"} /\ sslctx # "freed"
    BY DEF stop_smtp, stop_smtps, stop_starttls, stop_http, stop_https, CInv, TypeOK
  <1>2. CloseBoth(s)
    BY DEF stop_smtp, stop_smtps, stop_starttls, stop_http, stop_https
  <1>3. StopsNext(s)
    <2>1. CASE s = "smtp" /\ stop_smtp
      BY <1>1, <2>1 DEF stop_smtp, StopsNext, Services, Ahead, Behind
    <2>2. CASE s = "smtps" /\ stop_smtps
      BY <1>1, <2>2 DEF stop_smtps, StopsNext, Services, Ahead, Behind
    <2>3. CASE s = "starttls" /\ stop_starttls
      BY <1>1, <2>3 DEF stop_starttls, StopsNext, Services, Ahead, Behind
    <2>4. CASE s = "http" /\ stop_http
      BY <1>1, <2>4 DEF stop_http, StopsNext, Services, Ahead, Behind
    <2>5. CASE s = "https" /\ stop_https
      BY <1>1, <2>5 DEF stop_https, StopsNext, Services, Ahead, Behind
    <2> QED
      BY <2>1, <2>2, <2>3, <2>4, <2>5
  <1> QED
    BY <1>2, <1>3, StoppedCInv
-----------------------------------------------------------------------------
(* The other steps of main, and the theorems. *)

\* main begins with its contexts zeroed and no socket.
LEMMA InitCInv == Init => CInv
  <1> SUFFICES ASSUME Init PROVE CInv
    OBVIOUS
  <1>1. /\ step = "dns_init" /\ sslctx = "null"
        /\ ctx = [s \in Services |-> Zeroed]
    BY DEF Init
  <1>2. PICK std \in {{0, 1, 2}, {1, 2}}, log \in BOOLEAN :
          owner = [i \in Fds |->
                     IF i \in (IF log THEN std \cup {Min(Fds \ std)} ELSE std)
                     THEN "foreign" ELSE "free"]
    BY DEF Init
  <1>3. owner \in [Fds -> {"free", "foreign"}]
    BY <1>2
  <1>4. 0 \in Fds
    BY MaxFdAssumption DEF Fds
  <1>5. Zeroed \in [active : BOOLEAN, starttls : BOOLEAN,
                    socket4 : Fds \cup {-1}, socket6 : Fds \cup {-1}]
    BY <1>4, Zenon DEF Zeroed
  <1>6. TypeOK
    BY <1>1, <1>3, <1>5 DEF TypeOK
  <1>7. Untouched /\ Owned /\ ~Zeroed.active
    BY <1>1, <1>3 DEF Untouched, Owned, Services, Zeroed
  <1>8. Listening /\ WithContext
    BY <1>1, <1>7 DEF Listening, WithContext, Ahead, Services
  <1>9. Cleared /\ Harmless
    BY <1>1 DEF Cleared, Harmless, Services, Ahead, Behind
  <1> QED
    BY <1>1, <1>6, <1>7, <1>8, <1>9 DEF CInv, Early

\* The steps that leave contexts and descriptors alone.
LEMMA OtherCInv ==
  ASSUME CInv, dns_init \/ load_tls \/ check_communications \/ run_master
               \/ free_context \/ UNCHANGED vars
  PROVE  CInv'
  <1> USE DEF CInv
  <1>1. CASE dns_init
    <2>1. /\ step = "dns_init" /\ step' \in {"load_tls", "exited_early"}
          /\ UNCHANGED <<sslctx, ctx, owner>>
      BY <1>1 DEF dns_init
    <2>2. TypeOK' /\ Owned'
      BY <2>1 DEF TypeOK, Owned
    <2>3. \A s \in Services : ctx[s] = Zeroed /\ ctx'[s] = Zeroed
      BY <2>1 DEF Untouched, Services, Ahead
    <2>4. Untouched' /\ Cleared'
      BY <2>1, <2>3 DEF Untouched, Cleared, Services, Behind
    <2>5. Listening' /\ WithContext'
      BY <2>1, <2>3 DEF Listening, WithContext, Zeroed, Services, Ahead, Up
    <2>6. sslctx # "loaded"
      BY <2>1 DEF Early
    <2>7. Harmless'
      BY <2>1, <2>3, <2>6 DEF Harmless, Zeroed, Sockets
    <2> QED
      BY <2>1, <2>2, <2>4, <2>5, <2>6, <2>7 DEF Early
  <1>2. CASE load_tls
    <2>1. /\ step = "load_tls" /\ step' \in {"undefined", "start_smtp"}
          /\ sslctx' \in {"loaded", "null"} /\ UNCHANGED <<ctx, owner>>
      BY <1>2, Zenon DEF load_tls
    <2>2. TypeOK' /\ Owned'
      BY <2>1 DEF TypeOK, Owned
    <2>3. \A s \in Services : ctx[s] = Zeroed /\ ctx'[s] = Zeroed
      BY <2>1 DEF Untouched, Services, Ahead
    <2>4. Untouched' /\ Cleared'
      BY <2>1, <2>3 DEF Untouched, Cleared, Services, Behind
    <2>5. Listening' /\ WithContext'
      BY <2>1, <2>3 DEF Listening, WithContext, Zeroed, Services, Ahead, Up
    <2>6. Harmless'
      <3> SUFFICES ASSUME step' = "undefined" PROVE Harmless'
        BY <2>1 DEF Harmless, Services, Ahead
      <3>1. sslctx' = "null"
        BY <1>2, Zenon DEF load_tls
      <3> QED
        BY <2>3, <3>1 DEF Harmless, Zeroed, Sockets
    <2> QED
      BY <2>1, <2>2, <2>4, <2>5, <2>6 DEF Early
  <1>3. CASE check_communications
    BY <1>3 DEF check_communications, TypeOK, Untouched, Cleared, Owned, Listening,
       WithContext, Harmless, Services, Ahead, Behind, Up, Early
  <1>4. CASE run_master
    BY <1>4 DEF run_master, TypeOK, Untouched, Cleared, Owned, Listening, WithContext,
       Harmless, Services, Ahead, Behind, Up, Early
  <1>5. CASE free_context
    <2>1. /\ step = "free_context" /\ step' = "exited" /\ UNCHANGED <<ctx, owner>>
          /\ sslctx' = IF sslctx = "loaded" THEN "freed" ELSE sslctx
      BY <1>5 DEF free_context
    <2>2. TypeOK' /\ Owned' /\ Untouched'
      BY <2>1 DEF TypeOK, Owned, Untouched, Services, Ahead
    <2>3. \A s \in Services : ~ctx[s].active /\ Sockets(ctx[s]) = {-1}
      BY <2>1 DEF Cleared, Services, Behind
    <2>4. Cleared' /\ Listening' /\ WithContext' /\ Harmless'
      BY <2>1, <2>3 DEF Cleared, Listening, WithContext, Harmless, Services, Up
    <2> QED
      BY <2>1, <2>2, <2>4 DEF Early
  <1>6. CASE UNCHANGED vars
    BY <1>6 DEF vars, TypeOK, Untouched, Cleared, Owned, Listening, WithContext, Harmless,
       Early
  <1> QED
    BY <1>1, <1>2, <1>3, <1>4, <1>5, <1>6

\* Every step of main keeps the invariant.
LEMMA NextCInv == CInv /\ [Next]_vars => CInv'
  BY StartCInv, StopCInv, OtherCInv DEF Next, Ended, Services

\* Start-up and shut-down keep the invariant.
LEMMA CommInductive == Spec => []CInv
  BY InitCInv, NextCInv, PTL DEF Spec

\* The types hold, and the SSL context is not freed before every service is
\* stopped (femail.c:104-180).
THEOREM CommTypeCorrect == Spec => []TypeOK
  <1>1. CInv => TypeOK
    BY DEF CInv
  <1> QED
    BY <1>1, CommInductive, PTL

\* However many descriptors there are and whichever calls fail, the master
\* service accepts on the services' own sockets and on all of them
\* (comm.c:43-577, master.c:258-352).
THEOREM AcceptsOwn == Spec => []AcceptsOwnSockets
  <1>1. CInv => AcceptsOwnSockets
    BY DEF CInv, Owned, Listening, Sockets, Up, AcceptsOwnSockets
  <1> QED
    BY <1>1, CommInductive, PTL

\* The master service only runs with a mail service that listens, and TLS is
\* offered exactly with an SSL context (comm.c:43-52, 580-587).
THEOREM ServicesReady == Spec => []ServiceReady
  <1>1. CInv => ServiceReady
    <2> SUFFICES ASSUME CInv, step = "running" PROVE ServiceReady
      BY DEF ServiceReady
    <2>1. PICK s \in {"smtp", "smtps", "starttls"} : ctx[s].active
      BY DEF CInv
    <2>2. s \in Services /\ step \in Up \ Ahead("smtp")
      BY DEF Services, Up, Ahead
    <2>3. PICK i \in Sockets(ctx[s]) : i # -1
      BY <2>1, <2>2 DEF CInv, Listening, Sockets
    <2>4. owner[i] = s
      BY <2>1, <2>2, <2>3 DEF CInv, Listening
    <2>5. i \in Fds
      BY <2>2, <2>3 DEF CInv, TypeOK, Sockets
    <2> QED
      BY <2>2, <2>4, <2>5 DEF CInv, WithContext, ServiceReady
  <1> QED
    BY <1>1, CommInductive, PTL

\* A normal exit leaves no socket open (comm.c:589-648).
THEOREM SocketsReleased == Spec => []AllReleased
  <1>1. CInv => AllReleased
    BY DEF CInv, Owned, Cleared, Services, Behind, AllReleased
  <1> QED
    BY <1>1, CommInductive, PTL

\* No descriptor the program did not open is closed, but 0 and only when there
\* is no SSL context (comm.c:589-648).
THEOREM ForeignNeverClosed == Spec => ForeignKept
  <1> DEFINE Kept == \A i \in Fds : owner[i] = "foreign" /\ owner'[i] # "foreign"
                                      => i = 0 /\ sslctx # "loaded"
  <1>1. CInv /\ [Next]_vars => [Kept]_vars
    <2> SUFFICES ASSUME CInv, Next PROVE Kept
      OBVIOUS
    <2>1. ASSUME NEW s \in Services, CloseBoth(s), StopsNext(s)
          PROVE  Kept
      <3> SUFFICES ASSUME NEW i \in Fds, owner[i] = "foreign", owner'[i] # "foreign"
                   PROVE  i = 0 /\ sslctx # "loaded"
        OBVIOUS
      <3>1. i \in Sockets(ctx[s])
        BY <2>1 DEF CloseBoth, Sockets
      <3>2. i # -1
        BY DEF Fds
      <3> QED
        BY <2>1, <3>1, <3>2 DEF CInv, Harmless, StopsNext
    <2>2. ASSUME NEW s \in Services, NEW flag, OpenBoth(s, flag)
          PROVE  Kept
      BY <2>2, BothOpened DEF CInv, Gains
    <2>3. CASE UNCHANGED owner
      BY <2>3
    <2> HIDE DEF Kept
    <2>4. CASE \/ start_smtp \/ start_smtps \/ start_starttls
               \/ start_http \/ start_https
      BY <2>2, <2>3, <2>4, Zenon DEF start_smtp, start_smtps, start_starttls, start_http,
         start_https, OpenIfContext, Services
    <2>5. CASE stop_smtp \/ stop_smtps \/ stop_starttls \/ stop_http \/ stop_https
      BY <2>1, <2>5, StopCInv DEF Services
    <2> QED
      BY <2>3, <2>4, <2>5 DEF Next, dns_init, load_tls, check_communications,
         run_master, free_context, Ended, vars
  <1> HIDE DEF Kept
  <1>2. Spec => [][Kept]_vars
    BY <1>1, CommInductive, PTL DEF Spec
  <1> QED
    BY <1>2 DEF ForeignKept, Kept
=============================================================================
