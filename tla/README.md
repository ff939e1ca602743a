# A TLA+ model of Femail

Femail (`src/src`) is a mail server in C. One process, started by `main`, opens
listening sockets for five services and runs one *master* thread. The thread
accepts connections, keeps them in a ring of 512, and repeatedly takes the
oldest one, runs its protocol handler for one read, and puts it back or closes
it. A signal asks it to stop. This directory models that program.

## Inventory

| Part | Source | State | Operations | What is hard |
|---|---|---|---|---|
| Connection queue | `master.c` 79-148 | count, head, tail, data | init, count, enqueue, dequeue | wrap-around, full and empty, failing mutex calls |
| Connections | `femail.h`, `master.c` 14-77 | the `Connection` struct | init, reset, deinit | fields not assigned, buffers freed once |
| Master service | `master.c` 150-360 | the thread's position, the queue, `stop_signal` | accept, take, dispatch, re-queue, close | a full queue, one thread for all peers, stopping |
| SMTP, SMTPS, STARTTLS | `smtp.c`, `smtp.h` | state, message buffer, SSL object | one path per command and per failure | messages cut into reads, TLS upgrade in mid-session, vanishing peers |
| HTTP, HTTPS | `http.c`, `http.h` | none of their own | one handler each | partial requests, handshakes |
| Text functions | `smtp.c` 10-124, `dns.c` | none | parse, find the end, copy a domain | boundaries of fixed buffers |
| Communications | `comm.c`, `comm.h` | five contexts of two sockets | start, check, stop | one call of several failing |
| Start-up and shut-down | `femail.c` | SSL context, signal handlers | `main`, `request_stop` | order, failures, one-shot handlers |
| Logging | `femail.h` 21-35 | none | macros | not modelled: output only |
| WebAssembly runtime | `src/wamr` | | | not modelled (below) |

The hazards at their lines are listed in `PROJECT.json`.

## Modules

* `QueueOps` - enqueue, dequeue and count of a bounded FIFO queue with their
  Results. `BoundedFifo` makes them a state machine: what the queue promises.
* `ConnQueue` - the ring, one action per function; the mutex makes each call
  atomic. `ConnQueueProofs` holds its theorems.
* `Connection` - the struct and the functions that fill and reset it.
* `Runtime` - peers, sockets, `read`, OpenSSL's calls and the heap as the
  handlers see them. All external except the sending of replies.
* `SmtpHandler`, `HttpHandler` - one action per return path of the handlers.
* `Master` - composes these with the accept loop, the dispatch on a handler's
  result, signals and the end of the process. It calls the queue through
  `QueueOps`, which `ConnQueue` is proved to implement.
  `MasterProofs`, `EndProofs` and `SslProofs` hold its theorems.
* `MailSession` - what the mail service promises each client: the order in which
  a session moves, with nothing of sockets, queues or buffers. `Master`
  implements it (`RefinesSession`); `SessionProofs` proves that it does.
* `Comm` - `main` with `comm.c`: descriptors numbered as the kernel does.
  `CommProofs` holds its theorems.
* `Text` - the text functions on bytes and lengths, which the handlers' module
  abstracts from: `found_crlf_end` against a definition of the end of a message,
  the domain copied from a HELO, the replies and paths formatted into fixed
  arrays. `TextProofs` holds its theorems.
* `NaturalFacts` - two facts both of these proofs use: a set of naturals has a
  least element, a bounded one a greatest.
* `MCConnQueue`, `MCMaster` - instances for TLC.

A handler call is one step (the HTTPS handshake is a step of its own). It makes
at most one read and one write, and data a peer sent before resetting stays
readable, so a peer acting between the two is covered by one acting before.
Bytes are *pieces*: a token a read starting there parses as, a length, and
whether it completes the end of a message. A read returns any run of arrived
pieces that fits. `live` is always true of a queued connection, so the handlers'
early return for dead ones is not an action.

Details that come from the platform: on Linux an accepted socket does not
inherit `SOCK_NONBLOCK` from the listening one, so reads wait; under `-std=c23` `signal` is
one-shot and does not restart calls; after a fatal error `SSL_read` returns -1
and leaves `errno` as it was; writing to a reset peer may raise SIGPIPE.
Using a pointer never assigned, or a null SSL object, ends a behaviour with
`proc = "undefined"`. `EndsOnlyBy` lists the ways a behaviour may end early and
what must be true then.

The session of a client, as `MailSession` sees it, is read from the connection's
`state`, `sslconn` and `messagebufferend`. Between a handler's request for a reset
and the dispatch that carries it out it is the connection as the dispatch will
leave it, so that the two steps are one step of the session.

`Comm` and `Master` meet in what the thread is given: `ServiceReady` shows that
whenever the loop starts some mail service has a socket of its own, that TLS
services are up only with a loaded context, and that STARTTLS is offered exactly
then. `Master` takes its listeners and the context as constants and its theorems
hold for all of them.

## Runs

| Run | Shows |
|---|---|
| `conn_queue` | a ring of 3 with failing locks and unlocks is well-formed and is a FIFO queue |
| `session` | one SMTP peer, commands, text and TLS traffic in any order, two pieces in flight: message buffers bounded, reset and freed, SSL objects accounted for, and the session keeps to `MailSession` |
| `services` | two peers, five services, one slot: each open connection held exactly once; re-queueing always finds room; no end but the known ones |
| `blocking` | two lockstep peers, on SMTP and HTTPS: every connection gets its turn, every command its reply, departed peers are cleared away, if no peer leaves the thread waiting for ever |
| `progress` | one lockstep peer, on SMTP and HTTP without an SSL context, every command but NOOP, failing `realloc`: whatever it sends is answered or it is disconnected, no more than the one buffer is lost, and a stop request ends the loop, if the peer does not leave the thread waiting for ever |
| `startup` | every combination of failures: own sockets accepted on, what runs is ready, all released, foreign descriptors kept |
| `text` | names of every boundary length, before and after TLS and after refused ones; every message of up to seven bytes of five kinds, cut into reads in every way |
| `wild_pointer`, `no_context`, `small_reads`, `silent_peer`, `arrays` | what the code does otherwise than the repository says (below) |

Bounds. `BufSize = 4` is the smallest buffer with a short, a nearly full and a
full read; `ESMTP_SIZE = 12` lets a message take two reads and fail on the
third. A queue of one slot with two peers makes it full, two slots make order
matter. Two pieces in flight (`session`) are read together or apart.
`MaxRx` bounds pieces in flight, `MaxUpgrades` the STARTTLS commands of a peer; sessions
are otherwise unbounded. Each peer connects once. `MaxFd = 13` has room for all
ten sockets; running out is the failure of `socket`. In `Text` the arrays have the
sizes of the code; the lengths are those at which a comparison changes, and one
on each side; seven bytes hold an end of message with a byte before and after
it, and reads of up to three cut it everywhere. Symmetry of the peers is
used in `services` only, which checks invariants.

Fairness. `FairSpec` is weak fairness of the master thread: the kernel schedules
it. `FairPeersSpec` adds `PeersAct`: a peer that the thread is blocked on, and that
is not itself waiting for a reply, sends something or leaves sooner or later. The
code does not see to that, having no idle timeout, and progress rests on it: the
run `silent_peer` shows what happens without it. `PeersAct` asks nothing of a
peer that waits for a reply, nor of one the thread is not blocked on, so a peer and
the thread waiting for each other is a counterexample to `EveryCommandAnswered`
and not excluded by the assumption.

`PeerGoneReaped` and `EveryCommandAnswered` except connections after a fatal TLS
error, which a left-over `EWOULDBLOCK` keeps queued. `EveryCommandAnswered` is
about peers that wait for each reply: pipelined commands that arrive in one read
are lost. The peers of its runs do not send NOOP, which gets no reply, nor HTTP
requests that fill the read buffer, after which the server reads on: in both cases
peer and thread do wait for each other. No text of the repository says otherwise,
so these are noted here and are no runs of their own.

## Disagreements with what the repository says

* `SslconnAssigned`: `master.c:18` leaves two fields to be set elsewhere;
  `sslconn` is a third, assigned by nobody on a plain connection.
* `StartTlsOnlyIfEnabled`: "StartTLS disabled." (`comm.c:49`), yet STARTTLS is
  answered 220 and a null context used (`smtp.c:338-344`).
* `TooLargeOnlyIfTooLarge`: SIZE is announced in bytes (`smtp.h:52`), and
  enforced in reads (`smtp.c:221-223`).
* `StopHonoured` under `FairSpec`: "Stop requested on master service."
  (`femail.c:49`), but the sockets of clients are blocking. When the kernel runs the
  signal handler on the main thread, the master thread's read is not interrupted,
  and while its peer is silent the request is not seen.
* `WithinArrays`: the debug build holds the code to
  the bounds of its arrays (`-fsanitize=address,undefined,leak`, `Makefile:15`). A
  client domain of 255 characters has its zero written one past the array
  (`smtp.c:122`); a mail domain of 219 to 254 characters makes the certificate and key
  paths longer than theirs (`femail.c:89`); and a reply over TLS of more than 256
  characters is sent with bytes from behind `msgbuf` (`smtp.h:37`). `Text` goes on
  after each of the first two as if the bytes behind the array were free. The run
  stops at the first it meets, a path; `DomainInArray`, `PathsInArrays` and
  `ReplyInMsgbuf` are violated each by itself as well.

Some properties hold only with an exception, which their definitions state: SSL
objects replaced by a repeated STARTTLS are never freed (`SslObjectsAccounted`);
a greeting over TLS is whole if both domains together have at most 202 characters
(`GreetingWhole`); the end of an empty message, and one after a zero
byte, is not seen (`EndOnTime`).

## Proofs

`ConnQueueProofs`, for every capacity above 0, every set of connections and
every set of mutex failures:

* `TypeCorrect`, `RingIsConsistent`: the inductive invariant is `TypeOK /\
  RingConsistent`. Neither is enough alone: the index equation needs the bounds
  to know that a modulus wraps at most once.
* `RingRefinesFifo`: under `Contents`, which reads the ring from its tail, each
  call is the same call of `BoundedFifo`. `StoreAppends` and `RemoveTakesHead`
  are the two facts behind it: a store at the head appends and disturbs no queued
  slot; moving the tail removes the first element.

Assumptions: `CapacityAssumption`, `FaultsAssumption`.

`MasterProofs`, for every set of peers, services, pieces and signals, every
capacity, buffer size and size limit, with and without
failing locks and allocations: `TypeCorrect`, `ConnectionsHeldOnce`,
`RequeueAlwaysHasRoom`, `MessagesFit`, `MessagesStartEmpty` and `BuffersFreed`.
All follow from one inductive invariant, `IInv`, of four parts:

* `Types` - `TypeOK`, and the thread is never past the last listener;
* `Holding` - `HeldOnce` spelled out over the queue, the connection in hand and
  the phases of the sockets. It is needed by the third part, which speaks of
  what is allocated for a queued connection: a step on one connection must not
  be a step on another;
* `Accounts` - for a queued connection `Settled`: the buffer has room for one
  full read per stored read, and the text is no longer than that. `MessageFits`
  alone is not inductive: it does not say that the next read, whatever its
  length, still fits the buffer the code is going to allocate. For a connection
  whose handler has asked for a reset or a close the weaker `Leaving`, since
  the buffer may already be lost by a failed `realloc`;
* `Room` - the queue is within its capacity, and has a free slot while a
  connection is in hand, since the thread takes one before it puts one back.

The handlers' paths are proved one lemma each to lead from `Called` to `Served`,
which says what `process_connection` relies on; the steps of the loop, the
peers and the signals follow. Assumptions: `QueueAssumption`, `MutexAssumption`
(unlocking a mutex the caller holds does not fail), `SizeAssumption`,
`EsmtpAssumption`, `ListenerAssumption`, `NoConnAssumption` and the other typing
assumptions of `Runtime` and `Connection`.

`SessionProofs`, under the same assumptions: `SessionsRefine`, that `Master`
implements `MailSession`, whatever the peers send and however their sessions are
interleaved. The argument:

* `SessionsRead` - by `Holding` no client has two connections, so the `CHOOSE` in
  `SessionOf` has one candidate and the session is the `View` of that connection;
* `Shapes` - what `IInv` does not say: only SMTP connections leave the opened
  state or ask for a reset, and one that waits for a handshake has an SSL object
  that is fresh or broken. Without it a handshake on a TLS service could find the
  session in a phase that `MailSession` leaves when it succeeds, and one after
  STARTTLS could succeed where `MailSession` has none due.
  `RInv == IInv /\ Shapes` is the inductive invariant;
* one lemma for each path of the handlers shows that its session stays or takes
  one `Step` (`Moved`), and `StepNext` that a `Step` of one session, the others
  staying, is a step of `MailSession`;
* taking a connection, re-queueing one and carrying out a reset change no
  session; accepting opens one or turns it away; closing ends one.

`EndProofs`, under the same assumptions: `EndsExplained`, that `EndsOnlyBy` always
holds. The invariant `EInv` adds to `IInv` and `EndsOnlyBy` that an unassigned
`sslconn` is only ever that of a connection without implicit TLS (`Plains`),
which has to be carried from `connection_init` through queue and handlers to the
use or the free of the pointer, and that a handler is uninstalled only once a
stop was requested (`Armed`).

`SslProofs`, under the same assumptions and `BoundAssumption`:
`SslObjectsCounted`, that `SslObjectsAccounted` always holds. The property bounds
what a closed connection leaves by the number of STARTTLS commands its peer may
send, while an object is allocated when such a command is *read*. The invariant
`SInv` adds to `IInv` what connects the two:

* `Asking` - the STARTTLS commands a peer has sent and the server not read are
  among those it may send;
* `Counts` - for a connection in the queue or in hand, an object exists exactly if
  `sslconn` points to one; an SMTP connection has had at most one for each
  STARTTLS that was read, any other connection at most one;
* `Left` - the bound on closed connections. It follows at the close from `Counts`,
  since `connection_deinit` frees one object exactly if there is one.

The unread commands are counted as the cardinality of a set of positions:
a read shifts the rest into the positions before it (`UnreadLess`), and a
STARTTLS is always the first piece of the read that answers it. Each path of the
handlers is shown to keep the count (`Kept`), and each step of the loop the
`Books` of all connections.

`CommProofs`, for every number of descriptors (`MaxFdAssumption`) and whichever
calls fail: `CommTypeCorrect`, `AcceptsOwn`, `ServicesReady`, `SocketsReleased` and
`ForeignNeverClosed`, from one inductive invariant `CInv`. It says of each
service, by how far `main` has come, what the properties say only of the end or
of the running loop: not yet started, its context is as loaded (`Untouched`);
stopped, it has no socket (`Cleared`); in between, each listening socket is in the
context of its owner (`Owned`), an active service has a socket, its own
(`Listening`), and what will be closed is not foreign (`Harmless`). The last has an
exception the code really has: a TLS service that was skipped for want of a
context keeps zeros for its sockets, and its stop function closes descriptor 0.
`BothOpened` is the fact about descriptors: `socket` returns one that was free, and
the two families never share one.

`TextProofs`, for names and messages of every length and every cutting of a
message into reads (`TextAssumption`):

* `GreetingsWhole`: the invariant `NInv` gives the length of the last reply in terms
  of the two domains, from which the limit 202 comes.
  `CopyPrinted` shows that a copied domain is printed whole: the zero written
  after it comes before any an earlier, longer or refused, domain has left;
* `EndAlwaysOnTime`: the invariant `TInv` is that a message is accepted exactly if
  `found_crlf_end` finds an end in its text. That the scan finds one exactly if
  there is one before the first zero byte is `ScanFinds`. The scan is a recursive
  function, and the provers have no induction over it; the lemma writes
  down what it returns, shows that this satisfies the equation of the scan, and
  that two solutions agree: else there is a greatest position at which they
  differ, and the equation there refers only to the position after it.
  `DotLines` relates the five-byte end the scan looks for to a line that is
  just a dot.

Model-checked only: the liveness properties `TurnComes`, `PeerGoneReaped`,
`EveryCommandAnswered` and `StopHonoured`. They rest on weak fairness, that is on
`ENABLED`, which the proof system does not support. The disagreements
above are counterexamples and have no theorem. Every other property of a run
has one.

## Not modelled

`accept` failing while a connection is pending (the queue's 512 connections stay
below the usual descriptor limit); `SSL_CTX_new`, `SSL_new` running out of memory;
unlock failures in the master; the log reconnecting after start-up; time stamps
(written, never read); message contents; log output.

`parse_client_command` is a table of prefixes, none a prefix of another, and is
represented by the command it returns. The functions `init_smtp` and its
siblings in `comm.c` are never called.

`src/wamr` is a vendored copy of the WebAssembly Micro Runtime, some hundred
times the size of the program. It is linked, but no function of it is called
from `src/src` and no state of it is reached, so it has no behaviour here that a
property of the mail server could be about.

## Open

* `Comm` and `Master` in one specification: the listeners of `Master` would
  have to be variables.
