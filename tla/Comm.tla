-------------------------------- MODULE Comm --------------------------------
(***************************************************************************)
(* Start-up and shut-down: main of femail.c with the start_ and stop_      *)
(* functions of comm.c.  The contexts are zero-initialised globals (the    *)
(* init_ functions of comm.c are never called), so a service that is not   *)
(* started has sockets 0, not -1.  Descriptors are numbered as the kernel  *)
(* numbers them: socket() returns the lowest free one.                     *)
(***************************************************************************)
EXTENDS Integers, FiniteSetsExt

CONSTANT MaxFd   \* the highest descriptor the process may have

ASSUME MaxFdAssumption == MaxFd \in Nat /\ MaxFd >= 3

Services == {"smtp", "smtps", "starttls", "http", "https"}
Fds      == 0 .. MaxFd

VARIABLES
  step,     \* the call main is about to make, or how it ended
  sslctx,   \* "loaded", "null", or "freed" (main does not clear it at the end)
  ctx,      \* per service: active, starttls, socket4, socket6
  owner     \* per descriptor: the service it is a socket of, or "free", or
            \* "foreign" for stdin, stdout, stderr and the log

vars == <<step, sslctx, ctx, owner>>

Zeroed == [active |-> FALSE, starttls |-> FALSE, socket4 |-> 0, socket6 |-> 0]

\* The process may be started with stdin closed.  openlog (LOG_NDELAY) takes
\* the lowest free descriptor, if there is a log to connect to.
Init ==
  /\ step = "dns_init"
  /\ sslctx = "null"
  /\ ctx = [s \in Services |-> Zeroed]
  /\ \E std \in {{0, 1, 2}, {1, 2}}, log \in BOOLEAN :
       LET open == IF log THEN std \cup {Min(Fds \ std)} ELSE std IN
       owner = [i \in Fds |-> IF i \in open THEN "foreign" ELSE "free"]
-----------------------------------------------------------------------------
\* Without a MAIL_DOMAIN of 1 to DOMAIN_MAX_SIZE - 1 bytes main returns 1.
dns_init ==
  /\ step = "dns_init"
  /\ step' \in {"load_tls", "exited_early"}
  /\ UNCHANGED <<sslctx, ctx, owner>>

\* Mutant: the context is freed and the pointer kept.
LoadTlsDangling ==
  /\ step = "load_tls"
  /\ step' = "start_smtp"
  /\ sslctx' \in {"loaded", "freed"}
  /\ UNCHANGED <<ctx, owner>>

\* The certificate and then the key are loaded; when the certificate cannot
\* be, a key that can be read is parsed into a null context.
load_tls ==
  /\ step = "load_tls"
  /\ \E cert, key \in BOOLEAN :
       /\ step' = IF ~cert /\ key THEN "undefined" ELSE "start_smtp"
       /\ sslctx' = IF cert /\ key THEN "loaded" ELSE "null"
  /\ UNCHANGED <<ctx, owner>>

\* Mutant: the socket of a failed bind is not closed.
OpenLeaky(own, s, how) ==
  LET free == {i \in Fds : own[i] = "free"} IN
  IF free = {} \/ how = "socket" THEN [fd |-> -1, own |-> own]
  ELSE [fd |-> IF how = "bind" THEN -1 ELSE Min(free),
        own |-> [own EXCEPT ![Min(free)] = s]]

\* Mutant: the number of a socket that could not be bound is kept.
OpenStale(own, s, how) ==
  LET free == {i \in Fds : own[i] = "free"} IN
  IF free = {} \/ how = "socket" THEN [fd |-> -1, own |-> own]
  ELSE IF how # "ok" THEN [fd |-> Min(free), own |-> own]
  ELSE [fd |-> Min(free), own |-> [own EXCEPT ![Min(free)] = s]]

\* Mutant: a socket that could not be made is left at its initial 0.
OpenZero(own, s, how) ==
  LET free == {i \in Fds : own[i] = "free"} IN
  IF free = {} \/ how # "ok" THEN [fd |-> 0, own |-> own]
  ELSE [fd |-> Min(free), own |-> [own EXCEPT ![Min(free)] = s]]

\* socket, bind and listen for one address family of service s: how is the
\* call that fails, or "ok".  A socket that cannot listen is closed again.
OpenFamily(own, s, how) ==
  LET free == {i \in Fds : own[i] = "free"} IN
  IF free = {} \/ how # "ok" THEN [fd |-> -1, own |-> own]
  ELSE [fd |-> Min(free), own |-> [own EXCEPT ![Min(free)] = s]]

\* Both families of service s; it is active when one of them listens.
OpenBoth(s, starttls) ==
  \E how4, how6 \in {"socket", "bind", "listen", "ok"} :
    LET v4 == OpenFamily(owner, s, how4)
        v6 == OpenFamily(v4.own, s, how6) IN
    /\ owner' = v6.own
    /\ ctx' = [ctx EXCEPT ![s] = [active   |-> v4.fd # -1 \/ v6.fd # -1,
                                  starttls |-> starttls,
                                  socket4  |-> v4.fd,
                                  socket6  |-> v6.fd]]

\* A service that needs the SSL context does not start without one.
OpenIfContext(s) ==
  \/ sslctx = "loaded" /\ OpenBoth(s, FALSE)
  \/ sslctx # "loaded" /\ UNCHANGED <<ctx, owner>>

start_smtp ==
  /\ step = "start_smtp" /\ step' = "start_smtps"
  /\ OpenBoth("smtp", sslctx = "loaded")
  /\ UNCHANGED sslctx

start_smtps ==
  /\ step = "start_smtps" /\ step' = "start_starttls"
  /\ OpenIfContext("smtps")
  /\ UNCHANGED sslctx

start_starttls ==
  /\ step = "start_starttls" /\ step' = "start_http"
  /\ OpenIfContext("starttls")
  /\ UNCHANGED sslctx

start_http ==
  /\ step = "start_http" /\ step' = "start_https"
  /\ OpenBoth("http", FALSE)
  /\ UNCHANGED sslctx

start_https ==
  /\ step = "start_https" /\ step' = "check_communications"
  /\ OpenIfContext("https")
  /\ UNCHANGED sslctx

\* Mutant: any active service will do.
CheckAnyService ==
  /\ step = "check_communications"
  /\ step' = IF \E s \in Services : ctx[s].active THEN "running" ELSE "aborted"
  /\ UNCHANGED <<sslctx, ctx, owner>>

\* Abort when no mail service is active.
check_communications ==
  /\ step = "check_communications"
  /\ step' = IF \E s \in {"smtp", "smtps", "starttls"} : ctx[s].active
             THEN "running" ELSE "aborted"
  /\ UNCHANGED <<sslctx, ctx, owner>>

\* The master thread (module Master) cannot be created, or runs until it is
\* told to stop and is joined.
run_master ==
  /\ step = "running"
  /\ step' \in {"aborted", "stop_smtp"}
  /\ UNCHANGED <<sslctx, ctx, owner>>

\* Both sockets of s, unless -1, are closed, whoever owns their numbers.
CloseBoth(s) ==
  LET sockets == {ctx[s].socket4, ctx[s].socket6} IN
  /\ owner' = [i \in Fds |-> IF i \in sockets THEN "free" ELSE owner[i]]
  /\ ctx' = [ctx EXCEPT ![s] = [active |-> FALSE, starttls |-> FALSE,
                                socket4 |-> -1, socket6 |-> -1]]
  /\ UNCHANGED sslctx

stop_smtp     == step = "stop_smtp"     /\ step' = "stop_smtps"    /\ CloseBoth("smtp")
stop_smtps    == step = "stop_smtps"    /\ step' = "stop_starttls" /\ CloseBoth("smtps")
stop_starttls == step = "stop_starttls" /\ step' = "stop_http"     /\ CloseBoth("starttls")
stop_http     == step = "stop_http"     /\ step' = "stop_https"    /\ CloseBoth("http")
stop_https    == step = "stop_https"    /\ step' = "free_context"  /\ CloseBoth("https")

\* SSL_CTX_free, and main returns 0.
free_context ==
  /\ step = "free_context" /\ step' = "exited"
  /\ sslctx' = IF sslctx = "loaded" THEN "freed" ELSE sslctx
  /\ UNCHANGED <<ctx, owner>>

Ended ==
  /\ step \in {"exited", "exited_early", "aborted", "undefined"}
  /\ UNCHANGED vars

Next ==
  \/ dns_init \/ load_tls
  \/ start_smtp \/ start_smtps \/ start_starttls \/ start_http \/ start_https
  \/ check_communications \/ run_master
  \/ stop_smtp \/ stop_smtps \/ stop_starttls \/ stop_http \/ stop_https
  \/ free_context \/ Ended

Spec == Init /\ [][Next]_vars
-----------------------------------------------------------------------------
(* Properties. *)

\* Types: every socket number is -1 or a descriptor, and the SSL context that
\* main frees (femail.c:104, 111, 180) is not left dangling while any service
\* may still use it.
TypeOK ==
  /\ step \in {"dns_init", "load_tls", "start_smtp", "start_smtps",
               "start_starttls", "start_http", "start_https",
               "check_communications", "running", "stop_smtp", "stop_smtps",
               "stop_starttls", "stop_http", "stop_https", "free_context",
               "exited", "exited_early", "aborted", "undefined"}
  /\ sslctx \in {"loaded", "null", "freed"}
  /\ sslctx = "freed" => step = "exited"
  /\ ctx \in [Services -> [active : BOOLEAN, starttls : BOOLEAN,
                           socket4 : Fds \cup {-1}, socket6 : Fds \cup {-1}]]
  /\ owner \in [Fds -> Services \cup {"free", "foreign"}]

\* While the master service runs, the sockets it accepts on (those of active
\* services, master.c:258-352) are -1 or listening sockets of that service,
\* and every listening socket is accepted on.
AcceptsOwnSockets ==
  step = "running" =>
    /\ \A s \in Services : ctx[s].active =>
         \A i \in {ctx[s].socket4, ctx[s].socket6} \ {-1} : owner[i] = s
    /\ \A i \in Fds : owner[i] \in Services =>
         /\ ctx[owner[i]].active
         /\ i \in {ctx[owner[i]].socket4, ctx[owner[i]].socket6}

\* The master service finds what it takes for granted: a mail service that
\* really listens (comm.c:580-587), TLS services only with a context that has
\* both certificate and key, and the STARTTLS flag that decides the strategy of
\* plain connections set exactly with it (comm.c:43-52, master.c:258-352,
\* ListenerAssumption of Runtime).
ServiceReady ==
  step = "running" =>
    /\ \E i \in Fds : owner[i] \in {"smtp", "smtps", "starttls"}
    /\ \A s \in {"smtps", "starttls", "https"} :
         ctx[s].active => sslctx = "loaded"
    /\ ctx["smtp"].starttls <=> sslctx = "loaded"

\* A normal exit leaves no socket open, whichever bind or listen calls failed
\* at start-up (comm.c:589-648).
AllReleased ==
  step = "exited" => \A i \in Fds : owner[i] \notin Services

\* Closing only touches the program's own sockets: the one descriptor it may
\* close without having opened it is 0, and only when there was no SSL context
\* (a TLS service that never started still has socket number 0).
ForeignKept ==
  [][\A i \in Fds :
       owner[i] = "foreign" /\ owner'[i] # "foreign"
         => i = 0 /\ sslctx # "loaded"]_vars
=============================================================================
