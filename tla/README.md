# Verification of RootHelper

RootHelper is the privileged, long-running helper process of a file manager (`src/RootHelper`).
A Java front end connects to it over a Unix-domain socket and asks for file operations,
searches, archives, downloads, and for a connection to, or the start of, a remote server
("xre") that offers the same operations over TLS. This directory holds TLA+ models of the parts
of it where threads, processes, machines, failing calls and clients that leave can meet in an order
no test runs, the TLC runs that check them, and TLAPS proofs: of the path every remote byte takes,
of transfers, downloads and searches, and of the server process.

The rest of the repository (`CPP`, `C`, `Asm`, `botanAm`) is vendored third-party code.

## The system

| Component | Source | State | Hard part | Here |
|---|---|---|---|---|
| Local sessions | `r.cpp` 385-418, 1324-1538, `desc/PosixDescriptor.h`, `desc/IDescriptor.h` | descriptor numbers, one detached thread per client | numbers closed twice and reused | `ClientSessions` |
| Find | `r.cpp` 215-382 | the global `currentSearchInOutDesc` and its mutex | cancelled by another client's thread, tested without the mutex | `FindSearch` |
| Child processes | `r.cpp` 1001-1148, `xre.h` 347-516 | `rhss_pid`, children, the listening socket and its copies | `wait()` of several threads, fork copies descriptors | `ChildProcesses` |
| Ring buffer | `ReliableRingBuffer.h` | array, two indices, `closed`, mutex, two condition variables | `close()` runs without the mutex; waits with `if` | `RingBuffer`, `ByteChannel` |
| TLS session | `tls/botan_rh_tls_descriptor.h`, `xre.h` 187-250, 414-450, `r.cpp` 1150-1236, `tls/basic_https_client.h` 406-501 | TLS channel, two threads, the ring buffer, the socket | ends of the stream, exceptions across threads, the join in the destructor | `TlsSession` |
| File copier | `FileCopier.h`, `Utils.h` 210-217, 392-410, 612-645, 849-911 | stack of pairs, permanent decisions, the file system | re-pushed pairs, partial deletions, a user asked half-way | `FileCopier` |
| Remote request proxies | `r.cpp` 626-867, `xre.h` 187-250, handlers in `Utils.h` and `r.cpp` | none; three parties whose conversations must stay in step | which field is read from which side; answers after errors | `RemoteRequests`, `LocalSession` |
| Progress hook | `progressHook.h` | `curSize` shared with a sampling thread | the thread writes to the socket the session answers on | in `RemoteRequests` (what it says) and `TlsSession` (what its exceptions do) |
| Remote transfers | `Utils.h` 438-572, 919-1168, `r.cpp` 874-981 | sizes and totals announced first, content later | sources that change in between, destinations that exist | `Transfer` |
| HTTPS download and upload | `tls/basic_https_client.h`, `r.cpp` 1238-1291 | headers, redirects, one ring buffer for all hops | a broken download must not pass for a complete one | `HttpsDownload` |
| File creation, links, stats, hashing, listing | `Utils.h` 1201-1600 | none | their conversations through a proxy | in `RemoteRequests` |
| File I/O, attributes | `r.cpp` 127-157, 440-620 | none | sequential conversations | left out |
| Directory iterators | `diriterator/` | stack of open directories | traversal order | left out |

How they interact: `rhMain` accepts and starts session threads (`ClientSessions`); a session runs one
request handler at a time (`FindSearch`, `ChildProcesses`, `FileCopier`, ...). The request "connect"
makes the session thread the owner of a TLS descriptor (`TlsSession`), whose incoming thread decrypts
into the ring buffer (`RingBuffer`) the session thread reads from. The request "start server" forks a
process whose `selectLoop` accepts TLS connections and gives each its own `TlsSession` in the role
"server". Over such a session go the requests of `RemoteRequests` and the files of `Transfer`; a
download owns a `TlsSession` in the role "https" per hop, which `HttpsDownload` sees as a ring buffer,
an incoming thread and a connection that ends. Shared state between threads is the table of descriptor
numbers, the search global, the children of the process and, within one TLS descriptor, the ring buffer,
the channel and the socket.

`PROJECT.json` lists every component, also the ones not modelled and why, and under `hazards` the
places where something can go wrong that a test would hardly reach, with the properties that
watch them.

## Modules

```
ByteChannel  <-- implemented by --  RingBuffer  <-- extended by --  TlsSession
                                        ^                               ^
                                 RingBufferProofs <-- extended by --  TlsSessionProofs
ClientSessions  <-- extended by --  FindSearch, ChildProcesses
     ^                                  ^             ^
ClientSessionsProofs  <-----  FindSearchProofs, ChildProcessesProofs
LocalSession  <-- implemented by --  RemoteRequests
Transfer       <-- TransferProofs
HttpsDownload  <-- HttpsDownloadProofs
FileCopier     <-- FileCopierProofs
```

* **RingBuffer**: class `RingBuffer`. `read()` and `write()` hold the mutex, so each is one action
  wherever nothing can interleave; `close()` does not hold it, so there is a step boundary at each
  point where it can fall: between the test of `closed` and the wait, between the test and the
  copy, between the test and the read of `brokenConnection`, and inside `close()` itself. A byte
  is its position in the stream. The copies (`CopyIn`, `CopyOut`) are split at the end of the array
  as the two `memcpy` calls are. `_Exit(n)` sets `exit` to n, after which nothing moves.
* **ByteChannel**: what a user of the class may assume: a bounded pipe with an end.
* **TlsSession**: one TLS descriptor and its two threads, over the operations of RingBuffer. `role`
  selects the owner: the three owners run different incoming loops, catch different exceptions
  and treat the socket differently before the destructor. The constructor of a client's channel already
  sends, and may throw. A server session that creates a file has a third thread, the sampler of its
  progress hook, which sends through the same channel. An item of the network is a TLS record;
  decryption, alerts and exceptions of the library are actions.
* **ClientSessions**: the accept loop, the request loop and the table that maps a descriptor number
  to the connection it names. A session holds a number, never a connection; closing is by number;
  a new connection gets the lowest free one. A blocked `read()` keeps the connection it began on.
* **FindSearch**: `findNamesAndContent`, its cancellation and the exception handlers, on top of
  ClientSessions. The search is one visit per directory entry; whether an entry matches is free.
* **ChildProcesses**: fork and wait of p7zip operations, start, stop and status of the xre server,
  the process table (running, zombie, reaped, given to another program) and every copy of the listening
  socket. A stop reads `rhss_pid` twice without a lock (`StopKnown`, `Kill`): which value `kill()` gets
  when another stop resets it in between is the compiler's choice, and -1 there means every process.
* **FileCopier**: `maincopy` with all decisions of a client, permanent or not, over a file system
  that maps paths to directories and contents. `told`, `outer` and `granted` are history: what
  the client was told of each file, what it counts, and what it allowed to be overwritten. A name is a
  string with the numbers that automatic renames append to it, and a path is a sequence of names, so that
  there are as many names as a file system may need; the list the client sends is free. A directory that
  cannot be opened, and a decision no branch handles, drop the pair (`DropPair`).
* **RemoteRequests**: a handler is the set of conversations it can hold, sequences of gets and puts;
  the local client, the forwarders, the server's loop and the sampling thread of a creation walk
  through them over bounded channels. What a get finds decides whether a party is `Lost`: the
  code has no framing, so one field is taken for another. Requests that the two sides understand
  differently are named in `Diverged`; from such a request on the properties promise nothing.
* **LocalSession**: what the local client may expect: a sequence of conversations that a handler of
  its own machine could have held with it. No proxy and no channel appears.
* **Transfer**: both ends of a transfer. The side that has the files visits a tree whose nodes
  change under it, in whatever order the iterator of a directory finds its entries; the other stores;
  `marks` is what the local client was told, from whichever side it is attached to. A size is a number
  of pieces (whole chunks and a remainder). `Below`, what the recursion of the count leads to, is
  the least set closed under the entries of its directories, so that no operator recurses.
* **HttpsDownload**: the redirect loop, one connection per hop, the ring buffer the hops share and its
  incoming thread, the destination, and the number of the local connection as an object that may be
  closed and come to name another client. The two stores of `close()` are two steps, an exception of the
  library ends the thread with `close(false)`, and a close may be missed by a reader about to wait. An
  answer is a head and numbered pieces, each marked with the hop that asked for it.

Each MC module instantiates one of them; each `.cfg` is one question. Operators preceded by
"Mutant:" are faulty variants of the next definition; nothing uses them in a specification, and
`PROJECT.json` names for each property a variant that breaks it.

## Runs

| Run | Result | What it shows | Bounds |
|---|---|---|---|
| `rb_safety` | pass | order, completeness, justified waits, final end, a close reaches a reader that waits; refinement of ByteChannel | capacity 4, reads and writes of 0, 1, 3, stream of 7: two wraps, every split of a copy, empty calls, spurious wakeups |
| `rb_wait` | violated | a wait that returns without a notification makes the only reader exit with 119, against the comment that one reader needs no loop | capacity 3, stream of 4 |
| `tls_safety` | pass | nothing skipped, a clean end is complete, server sessions contain failures but for two ends of the sampling thread, the destructor ends but in two named situations | ring of 2 bytes against records of 3; reads of 0 and 2; 4 records; all owners and ends; spurious wakeups |
| `find_safety` | pass | a cancelled search sends nothing, the slot is given back, no connection leaks | 3 clients (one refused), 2 numbers, 3 requests, 1 entry |
| `find_cancel` | violated | a cancelled search goes on under the next search's pointer | 2 clients |
| `children_safety` | pass | waits return, none lacks a child, never two servers, a stop interrupts only servers but for two named races | 3 clients, 3 forks, 3 requests |
| `children_wait` | violated | `wait()` of one operation is ended by another's child | same |
| `copier_safety` | pass | nothing lost unasked, no file forgotten but with a dropped pair, the stack is worked off | a directory onto a directory, files onto files, a file onto itself; 3 free decisions, then skip or cancel |
| `remote_safety` | pass | nobody misreads a field, nothing is left over, the client hears what a local handler could say (refinement of LocalSession), every request is answered | every pair of the eleven kinds of request in one session; lists and samples of 0 and 1; sockets of 2 |
| `remote_hash` | violated | a remote creation with a hash never ends: the forwarder waits for the hash from its own client | one such request |
| `transfer_safety` | pass | sender and receiver in step, nothing overwritten, the end of a file or of a download means it is stored, the outer progress adds up, both sides end unless a close is missed | a directory with a file and a link, a file twice, overlapping lists; sizes 0 to 2; 2 items under way; one change of the source, one occupied destination |
| `https_safety` | pass | no hop sees another's bytes, the end mark means a complete file, no verdict is taken back, every request ends unless it hangs in one of two named waits | 3 hops, bodies of 0 to 2 pieces, reads of 1 and 2, ring of 2; with and without TLS; lengths right, wrong or missing |

Why the bounds are enough: the ring buffer's cases are told apart by the position of the indices
relative to each other and to the end of the array, all of which occur at capacity 3 and 4 (and
the proofs cover every capacity); two trusted clients are what every race in `r.cpp` needs, a
third is refused to exercise that path, and there are fewer numbers than clients so that reuse
happens at once; three requests allow one to be in progress, one to interfere and one to follow;
three forks are a p7zip child, another and a server. In the copier a decision after the third
can only skip or cancel, so the run covers every sequence of three decisions, including permanent
ones that go on acting after that. Two requests in a session show whatever the first leaves behind
for the second; a list of one entry and one of none differ by the end mark, which is what a
forwarder can misread. In a transfer one change of the source falls at every point, of every kind
(gone, locked, shorter, longer), on every node; the tree has the three kinds of node and a list
names one twice. A download with three hops has a first, a middle and a last redirect; a body of
two pieces is longer than what comes with the headers, and together with them longer than the ring
buffer, so that the incoming thread blocks. The proofs of TransferProofs and HttpsDownloadProofs
need none of these bounds.

The violated runs are disagreements between the code and what its comments say; `findings`
quotes the line. They are kept as regression runs for the day the code changes. Disagreements of
smaller weight are part of the models and excused by name in the property they would break:

* `Jammed`, `ClosedFirst` (TlsSession), `Stuck` (HttpsDownload): `close()` of the ring buffer does not
  wake a blocked writer, and the xre client closes its descriptor before the destructor uses it
  (`r.cpp` 1234); either makes the join of the destructor wait for the peer, or for ever.
* `deaf` (HttpsDownload, in `Stuck`) and `Deaf` (Transfer): a `close()` between a reader's test and its
  wait (`ReliableRingBuffer.h` 94 to 96) is not noticed, and no later call notifies, so the reader waits
  for ever; only a spurious wakeup frees it. `CloseWakesWaiter` promises the wake-up only to a reader
  that already waits.
* `SampledTooLate` (TlsSession): the sampling thread catches `threadExitThrowable` only
  (`progressHook.h` 69). When the client has closed the channel, the library's exception ends the
  server process; so does the call of the virtual function after the derived part of the hook is gone.
* `spoilt` (TlsSession), `flaw` (HttpsDownload): after a damaged record or a fatal alert the stream ends
  as if it were complete (`botan_rh_tls_descriptor.h` 37-42), so a download without a length is reported
  as complete; the same happens to a reader between the stores of `closed` and `brokenConnection`.
* `Raced` and a stranger's process (ChildProcesses): `kill(-1)` and a reused id are the
  only ways in which a stop reaches anything but a server.
* `dropped` (FileCopier): the files below a directory whose iterator cannot be opened
  (`FileCopier.h` 88) are left out without a word, as are those of a pair for which the client answers
  CD_MERGE_RECURSIVE (0x14), which no branch handles.
* `Diverged` (RemoteRequests): besides the hash, the answer for several paths is dropped by the
  forwarder, an invalid creation strategy is answered with a size that the forwarder takes for an
  error (`Utils.h` 1425-1432), and two kinds of request leave a part of their answer unread when they fail.
* `StatSize` (Transfer): the size of a symbolic link is the length of its text, its content that of
  its target, so a link is copied truncated or ends the transfer.
* `Broken`, `Reuse` (HttpsDownload): a broken download closes its local number and then writes to
  it; another client that has got the number receives the error.

### Fairness

Violated runs of states assume none. `rb_safety` and `tls_safety` assume that a thread inside a call
keeps being scheduled (weak fairness per thread), nothing about when a caller calls and nothing about
spurious wakeups; the peer of a TLS session is never forced to act. `find_safety` assumes weak fairness
of each session thread and strong fairness of a thread that repeatedly finds the search mutex free:
`std::mutex` gives no order, but a thread is not passed over for ever. `children_safety` assumes that
session threads run, that a p7zip operation ends, and that a server reacts to SIGINT and to its client.
`copier_safety` assumes that the thread runs and that the user answers or leaves. `remote_safety`
assumes that each party's thread runs, that a local client goes on with a request it has begun, and that
the proxy notices when its client has gone. `transfer_safety` assumes the threads of both ends, and not
that a receiver notices the end of the session: `MissesEnd` may always come first. `https_safety`
assumes the session and the incoming thread, and that the remote server ends its connection at last: the
code has no time limit of its own for an answer. Clients are never obliged to send, to leave or to
connect.

## Proofs

`RingBufferProofs` proves, for every capacity of at least two, every set of call sizes, every
stream length, with spurious wakeups in both waits:

* `TypeCorrect`, `StreamIsReliable` (Fifo), `NothingIsLost`, `NoLostNotification` and
  `EndOfStreamIsFinal`.

The inductive invariant `IInv` adds to the checked invariants who holds the mutex at which program
counter (`MutexInv`: without it a `close()` or the other thread could act inside a critical
section) and that a reader about to report the end saw an empty, closed buffer while no writer is
past its test (`EofInv`: without it `EofFinal` is not inductive, as `closed` flips without the
mutex). The arithmetic is isolated in three lemmas (`DistanceValue`, `AdvanceValue`,
`AppendNumbered`), the bodies of `read()` and `write()` in `DeliverStep` and `WriteCopyStep`. That
no read aborts (exit 119) is not among the results: it is false, as `rb_wait` shows.

`RingBufferProofs` ends with the refinement, `Spec => ImplementsChannel`: every step maps to a step of
ByteChannel or to none. `StepRefines` has one case per action; `IInv` supplies the two facts the steps
lack (the distance is what is in the pipe; nobody writes after the end was reported).

`ChildProcessesProofs` proves, for any set of clients, descriptor numbers and processes (finite or
not, except that there are finitely many numbers):

* `ChildTypesCorrect`, `NeverTwoServers`, `NobodyWaitsInVain` and `StopsHitServers` (CTypeOK, OneServer,
  WaitersHaveChildren, StopHitsServer).

`CInv` strengthens them with `PortInv` (at most one thread has the listening socket open, a thread
between bind and close is that thread, every running server has a copy, and none runs while a thread
is about to fork one: without it `OneServer` says nothing of the server that is coming),
`WaitInv` (the two sets compared are finite) and `SessionInv` (a thread reads requests of a
client; a client that was not accepted has no thread). Steps that touch neither the children nor the
socket are handled once, in `QuietKeepsAll`; `LowestFreeIsFree` shows that `accept` has a number to
give, from the well-foundedness of the natural numbers. `SignalInv`, for the last theorem, says that an
id kept for a stop was forked as a server and that a thread calls `kill()` only after it saw one.

`TlsSessionProofs` proves, for every capacity, every set of records and read sizes and all three
owners of a descriptor, with empty reads and spurious wakeups, `RecordsArriveWhole` (NothingSkipped),
`OnlySamplersEscape` (ServerContained), `CleanEndTellsAll` (CleanEndIsComplete) and `ConnectionTypes`
(TlsTypeOK). A step of a session is a step of the ring buffer
or leaves it alone (`StepOfBuffer`, `BufferStep`), so `IInv` of RingBufferProofs comes for nothing;
`SessionInv` adds where each thread is while it is inside a call of the buffer (`AskedInv`), that the
rest of a record and what was written of it make up the record (`RecordInv`), and that a sampling thread
exists exactly while a creation runs (`SamplerInv`).

`CleanEndTellsAll` needs the whole path from the peer, `PathInv`. The bytes that are under way are a sum
over the records on the network; instead of computing it, `Carries(s, lo, hi)` says that partial sums
exist that lead from lo to hi, and `CarriesMore` and `CarriesLess` are a record more at the one end and
one less at the other (`SumInv`). `HandshakeInv` and `NotifyInv` keep the order of the handshake, the
records and the close_notify; `ShutInv` says who can have shut the socket down; `EndInv`, that whatever
ends the stream of a session that was not disturbed (`Undisturbed`) comes after the last byte.
`ConnectionTypes` is last because the ranges of the counts follow from it all: what was decrypted
stays within what was sent (`SumInv`), and the exits are those of the code that runs: a short write
(127), a write of nothing (91), a woken reader that finds nothing (119), a refused certificate and an
exception nobody catches.

`FindSearchProofs` proves, for any number of clients, numbers and entries, `FindTypes` and
`CancelIsForGood`. `NumberInv` is what makes the latter inductive: a connection has one number, the one
its thread was given, and gets it once, when it is accepted; with `CutInv` (a cleared search was one of
an accepted client) a number that is given away again never leads back to the cancelled thread.

`TransferProofs` proves, for every tree, selection, size and capacity of the session, and whatever
changes, breaks or leaves, `AlwaysInStep`, `NothingIsOverwritten`, `EndOfFileMeansStored`
(EofMeansStored), `EndMeansAllStored` (EndMeansMirror) and `OuterProgressAddsUp` (OuterProgress). The
invariant `SyncInv` gives each end a stage (before the totals, between items, k pieces of a file
missing, after the end) and says that the items under way lead from the receiver's stage to the sender's
(`Leads`); `LeadsFurther` and `LeadsOn` are one item more at the one end and one less at the other. A
sender that has gone leaves a sequence that leads somewhere, which is all the receiver needs.

`SourceInv` says what the sender works on and that an end mark under way is the sender's last word;
`MarkInv`, that of the open file the size announced is what is stored and what is still to come, and
that a file is announced once, because a second item of its name finds the destination occupied: without
that `EofMeansStored` is not inductive. `MirrorInv` is the progress of a file through the whole system:
in a download from an unchanged source every file that is wanted is below a node still to visit, in
an item under way, in the open file, or stored (`Coming`). A directory hands its files over to its
entries (`FilesOfEntries`, from the least closed set, and `OrdersValue`, whatever the order), a node
that is skipped takes none with it (`LeafIsItself`), and when the end mark arrives nothing else can be under
way (`EndComesLast`, from the stages). TLC checked `MirrorInv` on the instance of `transfer_safety`
(2,685,493 states) before it was proved.

`OuterProgressAddsUp` counts where the others follow single files. A file counts once for each name of the
selection it is below (`Counted`, pairs of a place in the list and a file), so `Tally` is the size of
a set and no sum over the list is needed: `TallyJoin` and `TallyDisjoint` add, and `DirTally` says
that a directory counts as much as its entries in any order. That needs `TreeAssumption`: an
entry belongs to one directory and lies deeper, as paths do (`SiblingsApart`: two entries of a directory
have no file in common). `UploadInv` says that the ends told and the files still to visit are the total;
`DownloadInv` has one place more for each stage between (`Balance`: ends told, the open file, the files
under way and the readable ones still to visit are the readable files of the list); `CountInv` ties
the announced number to the list. TLC checked the three on the instance of `transfer_safety`.

`HttpsDownloadProofs` proves, for every redirect limit, length of an answer, capacity and size of the
reads, `DownloadTypes`, `OnlyOwnAnswer`, `TheVerdictIsLast` and `TheEndMeansComplete`. `StreamInv` says
that what was read, the ring buffer and the socket are, in this order, the numbered parts of this hop's
answer (`ReadInv`, `UnderWayInv`), all that was sent unless the connection was reset, and what the end
of the ring buffer says of the connection (`ThreadInv`: without it a `closed` buffer would not mean that
everything arrived), where `flaw` accounts for the ends that are not what they seem:
`TheEndMeansComplete` holds for every answer whose end was not damaged or half stored. `VerdictInv` says
where the session can be once an error or the end mark was sent. `SoundIsComplete` is the heart of the
last theorem.

`FileCopierProofs` proves, for every file system, list of pairs, sequence of decisions and failing call:

* `NothingLostUndecided` (NothingOverwrittenUnasked), from two invariants. `WorkInv`: every entry is
  reached through directories (`Rooted`), the two sides of a conflict are still there when the
  decision is applied, and the open destination holds what this copy has written. Without `Rooted`
  a rename or a partial deletion could leave contents nobody reaches; each file operation
  preserves it (`MkpathRooted`, `RemainsRooted`, `RenameFacts`). `GrantInv`: behind every permanent
  decision is a permission for its own type of conflict. That an automatic rename destroys nothing
  rests on `FreeNameIsFree`: the loop over name0, name1, ... finds a free name, because the names it
  tries are more than the files there are.
* `NothingForgottenApart` (NothingForgotten), for lists that are `Apart`: no source is above another,
  and none is above or below a directory that is copied into. Otherwise a copy can bring new files among
  its own sources, and what "every file" means changes under way. `CoverInv`: a wanted file of which the
  client was told nothing is below exactly one of the pair in hand and the pairs on the stack (`Fine`:
  none of their sources is above another, which `FineChildren` keeps when a directory gives way to its
  children; `DropCover` is the pair that is dropped), and the number the client counts is the number of
  files it was told of. No operation touches a source (`MkpathSources`, `RestrictSources`,
  `RenameSources`). TLC checked the three invariants on lists with overlapping names before they were
  proved.

The assumptions are the named ASSUMEs on the constants, which TLC evaluates in every run, and `Apart` in
`NothingForgottenApart`. Only model-checked remain:

* liveness (`CloseWakesWaiter`, `CleanupTerminates`, `SearchSlotFreed`, `NoDescriptorLeak`,
  `WaitReturns`, `ConversationEnds`, `Answered`, `TransferEnds`, `RequestEnds`), which the prover
  cannot express;
* `NothingForgotten` for lists that are not `Apart` (a file onto itself, in `copier_safety`);
* `InStep` and `Drained` of RemoteRequests, whose conversations are finite sets that TLC enumerates: a proof
  would be the same enumeration by hand.

## Abstractions and what is not modelled

* TLS records are delivered whole: a record that arrives over several socket reads is one step. Records
  without content and the fragmentation of what is sent are left out. The sampling thread waits 250 ms
  between samples; in the model it may sample at any moment after the hook is constructed.
  Both threads use the library's channel without synchronisation; the model gives each call
  the outcome of some serial order.
* One file search visits a bounded number of entries; a client sends a request whole or leaves
  after its header. A client that stalls for ever in the middle would hold the search mutex.
* The copies of client sockets that children inherit are left out of ChildProcesses, and what a signal to
  every process does to the programs of others.
* The copier sees no other program but one that removes a source between two items, and lists with
  disjoint trees except for one file copied onto itself. A directory that cannot be listed when the
  pairs are counted is left out; one that cannot be opened when its turn comes is in the model.
* RemoteRequests leaves out rename, delete, exists and exit; the combinations of the options of a
  creation are one, and a strategy is valid or not (one with both bits set, which creates zeros and may
  still answer with a hash, is left out). The sampling thread ends with its creation there; how it may
  end the process is in TlsSession.
* In Transfer the `lstat` and the `open` of a node are one step: a change between the two is the same as
  one before or after both. Besides, the list of path pairs arrives at once, the total size beside the
  number of files is left out, and so is the progress hook of the console client.
* In HttpsDownload the headers are one item, parsing is a free choice of the outcomes, and
  a download to memory has no end mark, so `EndMeansComplete` is about files. A local client that never
  reads is not modelled. The descriptor object of each hop is leaked (`basic_https_client.h` 419).
* Progress values, wording and byte formats are left out throughout. Windows code is left out.
* The archive operations are p7zip behind a COM-like interface; the xre announcer, the command line,
  the JNI wrapper and the graphical views keep no state that another thread shares. The lock-free
  ring buffers and `GenericFileCopier` are not used by the program.

The repository carries several copies of Botan (eleven amalgamations of about 105,000 lines) and of
p7zip, some 1.8 million lines. RootHelper itself is a few thousand lines, of which the map covers the
parts that keep state or talk to a second party; measured against the whole repository that share
is small, and modelling vendored code would not make it more telling.

## What is left

1. **LocalRequests**: reading and writing files, attributes, links and moves as conversations of
   ClientSessions (`r.cpp` 127-157, 440-620).
2. **DirIterator**: the traversals of `diriterator/` against a reference set of paths.
3. The remaining remote requests (rename, delete, exists) and the combinations of creation options.
