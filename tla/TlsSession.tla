------------------------------ MODULE TlsSession ------------------------------
(***************************************************************************)
(* One TLS connection: TLSDescriptor of tls/botan_rh_tls_descriptor.h with *)
(* its two threads.  The session thread sets the connection up, serves     *)
(* requests and destroys the descriptor (cleanup); the incoming thread     *)
(* reads the socket, lets the TLS library decrypt and writes the plaintext *)
(* into the ring buffer, whose operations this module composes.            *)
(*                                                                         *)
(* The role says who owns the descriptor: "server" is tlsServerSession     *)
(* (xre.h), "xreclient" is tlsClientSession (r.cpp), "https" is            *)
(* httpsUrlDownload_internal (tls/basic_https_client.h).  They differ in   *)
(* the loop the incoming thread runs, in the exceptions that are caught    *)
(* and in what is done to the socket before the descriptor is destroyed.   *)
(* A server session that creates a file has a third thread, the sampler of *)
(* progressHook.h, which sends the progress over the same connection.      *)
(*                                                                         *)
(* An item of the network is one TLS record: a positive number is          *)
(* application data of that many bytes, HS the peer's part of the          *)
(* handshake, NOTIFY a close_notify alert, FATAL a fatal alert, BAD a      *)
(* record that fails authentication.                                       *)
(***************************************************************************)
EXTENDS RingBuffer

CONSTANTS
    Roles,       \* the owners considered
    MaxItems,    \* bound: records the peer sends
    PeerEnds,    \* how the peer may leave: a subset of {"fin", "rst"}
    PeerItems    \* the records it may send after the handshake

ASSUME RolesAssumption == Roles \subseteq {"server", "xreclient", "https"}
ASSUME RecordsAssumption == PeerItems \subseteq Int
ASSUME PeerEndsAssumption == PeerEnds \subseteq {"fin", "rst"}

VARIABLES
    role,         \* who owns this descriptor, fixed when it is built
    spc,          \* session thread
    srem,         \* bytes missing in the readAllOrExit under way
    ipc,          \* incoming thread
    irem,         \* bytes of the current record not yet in the ring buffer
    readBytes,    \* sign of the last netsock.read of the incoming thread
    sampler,      \* sampling thread of a file creation
    hash,         \* callbacks->sharedHash is set: the handshake completed
    chanClosed,   \* m_has_been_closed of the TLS channel
    setupAborted, \* certificate verification failed
    fdOpen,       \* the descriptor number of netsock is open
    sockShut,     \* shutdown(SHUT_RDWR) was applied to the socket
    net,          \* records sent by the peer and not yet read
    peer,         \* "open", or how the peer left
    items,        \* records sent so far
    sentBytes,    \* history: application bytes sent by the peer
    taken,        \* history: application bytes the incoming thread decrypted
    spoilt        \* history: a corrupted record was received, or the sampler
                  \* closed the socket after a failed write

sessionVars == <<role, spc, srem>>
incomingVars == <<ipc, irem, readBytes>>
threadVars == <<incomingVars, sampler>>
channelVars == <<hash, chanClosed, setupAborted, spoilt, taken>>
socketVars == <<fdOpen, sockShut>>
peerVars == <<net, peer, items, sentBytes>>
vars == <<rbVars, sessionVars, threadVars, channelVars, socketVars, peerVars>>

TInit ==
    /\ Init
    /\ role \in Roles
    /\ spc = (IF role = "server" THEN "setup" ELSE "construct") /\ srem = 0
    /\ ipc = "none" /\ irem = 0 /\ readBytes = 0 /\ sampler = "none"
    /\ hash = FALSE /\ chanClosed = FALSE /\ setupAborted = FALSE
    /\ spoilt = FALSE /\ taken = 0
    /\ fdOpen = TRUE /\ sockShut = FALSE
    /\ net = << >> /\ peer = "open" /\ items = 0 /\ sentBytes = 0

HS == 0
NOTIFY == -1
FATAL == -2
BAD == -3

SIGABRT == 134   \* std::terminate after an exception no handler catches


\* The outcomes of writing to the socket (tls_emit_data).  After the peer's
\* FIN a write may still succeed or meet its reset.
EmitOutcomes ==
    IF ~fdOpen \/ sockShut \/ peer = "rst" THEN {FALSE}
    ELSE IF peer = "fin" THEN BOOLEAN ELSE {TRUE}

\* writeAllOrExit on the socket: a failed write closes the descriptor before
\* it throws threadExitThrowable.
Emit(ok) == ok \in EmitOutcomes /\ fdOpen' = (fdOpen /\ ok)

-----------------------------------------------------------------------------
(***************************************************************************)
(* The peer and the network.                                               *)
(***************************************************************************)
\* A server answers the ClientHello; after its handshake messages the peer
\* waits for the reply to them.
PeerSends(i) ==
    /\ Alive /\ peer = "open" /\ items < MaxItems
    /\ IF items = 0 THEN i = HS /\ spc # "construct" ELSE i # HS /\ hash
    /\ net' = Append(net, i) /\ items' = items + 1
    /\ peer' = (IF i = NOTIFY THEN "notified" ELSE "open")
    /\ sentBytes' = (IF i > 0 THEN sentBytes + i ELSE sentBytes)
    /\ UNCHANGED <<rbVars, sessionVars, threadVars, channelVars, socketVars>>

PeerLeaves(how) ==
    /\ Alive /\ peer \in {"open", "notified"} /\ peer' = how
    /\ UNCHANGED <<rbVars, sessionVars, threadVars, channelVars, socketVars,
                   net, items, sentBytes>>

-----------------------------------------------------------------------------
(***************************************************************************)
(* The incoming thread: incomingRbMemberFnServer, incomingRbMemberFnClient *)
(* and the callbacks the TLS library makes from received_data.             *)
(***************************************************************************)
IncomingGoes(pc) == ipc' = pc /\ UNCHANGED irem

\* The loop condition of the server, and the call of netsock.read.
LoopTop ==
    /\ Alive /\ ipc = "loop"
    /\ \/ /\ role = "server" /\ chanClosed
          /\ IncomingGoes("end") /\ UNCHANGED readBytes
       \/ /\ ~(role = "server" /\ chanClosed) /\ fdOpen
          /\ IncomingGoes("recv") /\ UNCHANGED readBytes
       \/ /\ ~(role = "server" /\ chanClosed) /\ ~fdOpen
          /\ IncomingGoes("end") /\ readBytes' = -1
    /\ UNCHANGED <<rbVars, sessionVars, sampler, channelVars, socketVars, peerVars>>

\* Mutant: the end of the connection overtakes the records still unread.
RecvEndEarly ==
    /\ Alive /\ ipc = "recv"
    /\ \/ (peer = "fin" \/ sockShut) /\ readBytes' = 0
       \/ peer = "rst" /\ readBytes' = -1
    /\ IncomingGoes("end")
    /\ UNCHANGED <<rbVars, sessionVars, sampler, channelVars, socketVars, peerVars>>

\* netsock.read returns 0 or -1.  A read that is blocked is not woken by
\* ::close of the descriptor, only by shutdown or by the peer.
RecvEnd ==
    /\ Alive /\ ipc = "recv"
    /\ \/ net = << >> /\ (peer = "fin" \/ sockShut) /\ readBytes' = 0
       \/ peer = "rst" /\ readBytes' = -1
    /\ IncomingGoes("end")
    /\ UNCHANGED <<rbVars, sessionVars, sampler, channelVars, socketVars, peerVars>>

\* Mutant: a record of application data is decrypted again.
ReceiveTwice(i) ==
    /\ Alive /\ ipc = "recv" /\ peer # "rst"
    /\ net # << >> /\ i = Head(net) /\ readBytes' = 1
    /\ net' = (IF i > 0 THEN net ELSE Tail(net))
    /\ UNCHANGED <<rbVars, sessionVars, sampler, peer, items, sentBytes>>

\* netsock.read returns the next record.
Receive(i) ==
    /\ Alive /\ ipc = "recv" /\ peer # "rst"
    /\ net # << >> /\ i = Head(net) /\ net' = Tail(net) /\ readBytes' = 1
    /\ UNCHANGED <<rbVars, sessionVars, sampler, peer, items, sentBytes>>

\* A TLS or decoding exception: the library sends a fatal alert, marks the
\* channel closed and rethrows; both loops catch it and end.
LibraryThrows ==
    /\ IncomingGoes("end")
    /\ chanClosed' = TRUE
    /\ IF chanClosed THEN UNCHANGED fdOpen ELSE \E ok \in BOOLEAN : Emit(ok)
    /\ UNCHANGED <<hash, setupAborted, sockShut, taken>>

\* Application data: tls_record_received starts inRb.writeAll.
RecvData(n) ==
    /\ Receive(n) /\ n > 0
    /\ IF chanClosed
       THEN LibraryThrows /\ UNCHANGED spoilt
       ELSE /\ ipc' = "write" /\ irem' = n /\ taken' = taken + n
            /\ UNCHANGED <<hash, chanClosed, setupAborted, spoilt, socketVars>>

\* The peer's handshake messages.  An https client that rejects the chain
\* (tls_verify_cert_chain) shuts the socket down and goes on.
RecvHandshake ==
    /\ Receive(HS)
    /\ \/ chanClosed /\ LibraryThrows /\ UNCHANGED spoilt
       \/ /\ ~chanClosed /\ IncomingGoes("hsreply")
          /\ UNCHANGED <<channelVars, socketVars>>
       \/ /\ ~chanClosed /\ role = "https" /\ IncomingGoes("badcert")
          /\ sockShut' = (sockShut \/ fdOpen)
          /\ UNCHANGED <<channelVars, fdOpen>>

BadCertClose ==
    /\ ipc = "badcert" /\ CloseCas(Writer, TRUE)
    /\ IncomingGoes("badcert2") /\ UNCHANGED readBytes
    /\ UNCHANGED <<sessionVars, sampler, channelVars, socketVars, peerVars>>

BadCertAbort ==
    /\ Alive /\ ipc = "badcert2" /\ closing[Writer] = "no"
    /\ setupAborted' = TRUE
    /\ IncomingGoes("hsreply") /\ UNCHANGED readBytes
    /\ UNCHANGED <<rbVars, sessionVars, sampler, hash, chanClosed, spoilt, taken,
                   socketVars, peerVars>>

\* Mutant: neither loop catches the exception of a failed write.
HandshakeReplyUncaught ==
    /\ Alive /\ ipc = "hsreply"
    /\ \E ok \in BOOLEAN :
          /\ Emit(ok)
          /\ hash' = (hash \/ ok)
          /\ ipc' = (IF ok THEN "loop" ELSE "end")
          /\ exit' = (IF ok THEN 0 ELSE SIGABRT)
          /\ chanClosed' = (chanClosed \/ ~ok)
    /\ UNCHANGED <<shared, readerVars, writerVars, closeVars, history,
                   sessionVars, sampler, irem, readBytes, setupAborted, spoilt, taken,
                   sockShut, peerVars>>

\* The reply to the handshake, after which the session is established.  The
\* client loop has no handler for the threadExitThrowable of a failed write; a
\* server exits when it has written a part only of the connect information to
\* its parent (tls_session_established).
HandshakeReply ==
    /\ Alive /\ ipc = "hsreply"
    /\ \E ok \in BOOLEAN :
          /\ Emit(ok)
          /\ hash' = (hash \/ ok)
          /\ ipc' = (IF ok THEN "loop" ELSE "end")
          /\ \/ exit' = (IF ok \/ role = "server" THEN 0 ELSE SIGABRT)
             \/ role = "server" /\ exit' = 127
          /\ chanClosed' = (chanClosed \/ ~ok)
    /\ UNCHANGED <<shared, readerVars, writerVars, closeVars, history,
                   sessionVars, sampler, irem, readBytes, setupAborted, spoilt, taken,
                   sockShut, peerVars>>

\* close_notify: tls_alert closes the ring buffer, the library answers in kind
\* and marks the channel closed.
RecvNotify ==
    /\ Receive(NOTIFY) /\ IncomingGoes("notify")
    /\ UNCHANGED <<channelVars, socketVars>>

NotifyClose ==
    /\ ipc = "notify" /\ CloseCas(Writer, FALSE)
    /\ IncomingGoes("notified") /\ UNCHANGED readBytes
    /\ UNCHANGED <<sessionVars, sampler, channelVars, socketVars, peerVars>>

NotifyReply ==
    /\ Alive /\ ipc = "notified" /\ closing[Writer] = "no"
    /\ IF chanClosed THEN UNCHANGED fdOpen ELSE \E ok \in BOOLEAN : Emit(ok)
    /\ chanClosed' = TRUE
    /\ IncomingGoes("loop") /\ UNCHANGED readBytes
    /\ UNCHANGED <<rbVars, sessionVars, sampler, hash, setupAborted, spoilt, taken,
                   sockShut, peerVars>>

RecvFatal ==
    /\ Receive(FATAL) /\ IncomingGoes("loop")
    /\ chanClosed' = TRUE /\ spoilt' = TRUE
    /\ UNCHANGED <<hash, setupAborted, taken, socketVars>>

RecvBad == Receive(BAD) /\ LibraryThrows /\ spoilt' = TRUE

\* One iteration of writeAll: call write() ...
WriteCall ==
    /\ ipc = "write" /\ (WriteClosed(irem) \/ WriteOpen(irem))
    /\ IncomingGoes("writing") /\ UNCHANGED readBytes
    /\ UNCHANGED <<sessionVars, sampler, channelVars, socketVars, peerVars>>

\* Mutant: a partial write counts as the whole record.
WriteResultPartial ==
    /\ Alive /\ ipc = "writing" /\ wpc = "idle"
    /\ IncomingGoes("loop")
    /\ UNCHANGED <<rbVars, readBytes, sessionVars, sampler, channelVars, socketVars,
                   peerVars>>

\* ... and look at its result.  -1 compared with an unsigned size passes for
\* success, so a record refused by a closed buffer is dropped silently.
WriteResult ==
    /\ Alive /\ ipc = "writing" /\ wpc = "idle"
    /\ IF wret = 0 THEN exit' = 91 /\ UNCHANGED <<ipc, irem>>
       ELSE /\ irem' = (IF wret < 0 THEN 0 ELSE irem - wret)
            /\ ipc' = (IF irem' = 0 THEN "loop" ELSE "write")
            /\ UNCHANGED exit
    /\ UNCHANGED <<shared, readerVars, writerVars, closeVars, history,
                   readBytes, sessionVars, sampler, channelVars, socketVars, peerVars>>

\* The end of the thread function: inRb.close(readBytes < 0).
LoopEnd ==
    /\ ipc = "end" /\ CloseCas(Writer, readBytes < 0)
    /\ IncomingGoes("ending") /\ UNCHANGED readBytes
    /\ UNCHANGED <<sessionVars, sampler, channelVars, socketVars, peerVars>>

ThreadReturns ==
    /\ Alive /\ ipc = "ending" /\ closing[Writer] = "no"
    /\ IncomingGoes("done") /\ UNCHANGED readBytes
    /\ UNCHANGED <<rbVars, sessionVars, sampler, channelVars, socketVars, peerVars>>

-----------------------------------------------------------------------------
(***************************************************************************)
(* The session thread.                                                     *)
(***************************************************************************)
SessionGoes(pc) == spc' = pc /\ UNCHANGED <<role, srem>>

\* The constructor of a client's channel emits the ClientHello.  When that
\* fails there is no descriptor to destroy: the exception leaves the request.
Construct ==
    /\ Alive /\ spc = "construct"
    /\ \E ok \in BOOLEAN : Emit(ok) /\ SessionGoes(IF ok THEN "setup" ELSE "done")
    /\ UNCHANGED <<rbVars, threadVars, channelVars, sockShut, peerVars>>

\* setup(): start the incoming thread; a server does not wait.
Setup ==
    /\ Alive /\ spc = "setup" /\ ipc' = "loop"
    /\ SessionGoes(IF role = "server" THEN "serve" ELSE "poll")
    /\ UNCHANGED <<rbVars, irem, readBytes, sampler, channelVars, socketVars, peerVars>>

\* A client polls is_active until it holds, verification failed or the polls
\* run out; then an empty hash means failure.
Poll ==
    /\ Alive /\ spc = "poll"
    /\ SessionGoes(IF hash THEN "serve" ELSE "destroy")
    /\ UNCHANGED <<rbVars, threadVars, channelVars, socketVars, peerVars>>

\* The handler asks for n bytes: readAllOrExit of the ring buffer.  The length
\* of an empty string makes it ask for none (readPairOfStringsWithPairOfLens).
Ask(n) ==
    /\ Alive /\ spc = "serve" /\ spc' = "read" /\ srem' = n
    /\ n > 0 \/ role # "https"
    /\ UNCHANGED <<role, rbVars, threadVars, channelVars, socketVars, peerVars>>

ReadCall ==
    /\ spc = "read"
    /\ ReadAvailable(srem) \/ ReadEmptyClosed(srem) \/ ReadEmptyOpen(srem)
    /\ SessionGoes("reading")
    /\ UNCHANGED <<threadVars, channelVars, socketVars, peerVars>>

\* A short readAll closes the ring buffer and exits the thread, where 0 of 0
\* bytes is not short; the download loop of https just ends.
ReadResult ==
    /\ Alive /\ spc = "reading" /\ rpc = "idle"
    /\ srem' = (IF rret > 0 THEN srem - rret ELSE srem)
    /\ spc' = (IF rret >= 0 /\ srem' = 0 THEN "serve"
              ELSE IF rret > 0 THEN "read"
              ELSE IF role = "https" THEN "destroy" ELSE "failclose")
    /\ UNCHANGED <<role, rbVars, threadVars, channelVars, socketVars, peerVars>>

FailClose ==
    /\ spc = "failclose" /\ CloseCas(Reader, FALSE) /\ SessionGoes("failed")
    /\ UNCHANGED <<threadVars, channelVars, socketVars, peerVars>>

FailExit ==
    /\ Alive /\ spc = "failed" /\ closing[Reader] = "no" /\ SessionGoes("leave")
    /\ UNCHANGED <<rbVars, threadVars, channelVars, socketVars, peerVars>>

\* The handler answers: channel->send throws Invalid_State on an inactive
\* channel.  The event loop of the xre client catches threadExitThrowable
\* only, and so does clientSession above it.
Send ==
    /\ Alive /\ spc = "serve"
    /\ IF hash /\ ~chanClosed
       THEN /\ \E ok \in BOOLEAN :
                 Emit(ok) /\ SessionGoes(IF ok THEN "serve" ELSE "leave")
            /\ UNCHANGED exit
       ELSE /\ exit' = (IF role = "xreclient" THEN SIGABRT ELSE 0)
            /\ SessionGoes("leave") /\ UNCHANGED fdOpen
    /\ UNCHANGED <<shared, readerVars, writerVars, closeVars, history,
                   threadVars, channelVars, sockShut, peerVars>>

\* The handler ends the session: unexpected request, local client gone.
Quit ==
    /\ Alive /\ spc = "serve" /\ SessionGoes("leave")
    /\ UNCHANGED <<rbVars, threadVars, channelVars, socketVars, peerVars>>

\* What is done to the socket before the destructor runs: nothing by the
\* server, remoteCl.close() by the xre client, remoteCl->shutdown() by the
\* error path of https.
Leave ==
    /\ Alive /\ spc = "leave" /\ SessionGoes("destroy")
    /\ \/ role = "server" /\ UNCHANGED socketVars
       \/ role = "xreclient" /\ fdOpen' = FALSE /\ UNCHANGED sockShut
       \/ /\ role = "https" /\ UNCHANGED fdOpen
          /\ sockShut' \in {sockShut, sockShut \/ fdOpen}
    /\ UNCHANGED <<rbVars, threadVars, channelVars, peerVars>>

\* cleanup(): inRb.close() ...
CleanupRing ==
    /\ spc = "destroy" /\ CloseCas(Reader, FALSE) /\ SessionGoes("channel")
    /\ UNCHANGED <<threadVars, channelVars, socketVars, peerVars>>

\* ... channel->close(): a close_notify whose failure is swallowed; the channel
\* counts as closed at once, so the wait for it ends immediately ...
CleanupChannel ==
    /\ Alive /\ spc = "channel" /\ closing[Reader] = "no"
    /\ IF chanClosed THEN UNCHANGED fdOpen ELSE \E ok \in BOOLEAN : Emit(ok)
    /\ chanClosed' = TRUE /\ SessionGoes("shutdown")
    /\ UNCHANGED <<rbVars, threadVars, hash, setupAborted, spoilt, taken,
                   sockShut, peerVars>>

\* Mutant: the socket is not shut down before the join.
CleanupShutdownMissing ==
    /\ Alive /\ spc = "shutdown" /\ SessionGoes("join")
    /\ UNCHANGED <<rbVars, threadVars, channelVars, socketVars, peerVars>>

\* ... netsock.shutdown(), without effect on a closed descriptor ...
CleanupShutdown ==
    /\ Alive /\ spc = "shutdown" /\ SessionGoes("join")
    /\ sockShut' = (sockShut \/ fdOpen)
    /\ UNCHANGED <<rbVars, threadVars, channelVars, fdOpen, peerVars>>

\* ... incomingRbThread.join().  A server then tells its parent that the client
\* has left and exits when only a part of that could be written.
CleanupJoin ==
    /\ Alive /\ spc = "join" /\ ipc = "done" /\ SessionGoes("done")
    /\ exit' = 0 \/ (role = "server" /\ exit' = 23)
    /\ UNCHANGED <<shared, readerVars, writerVars, closeVars, history,
                   threadVars, channelVars, socketVars, peerVars>>

(***************************************************************************)
(* The sampling thread of createRandomFile and createEmptyFile: ProgressHook. *)
(***************************************************************************)
\* A server's handler that has read a creation request builds the hook, whose
\* constructor starts the thread.
StartHook ==
    /\ Alive /\ spc = "serve" /\ role = "server" /\ hash /\ received # << >>
    /\ SessionGoes("creating") /\ sampler' = "asleep"
    /\ UNCHANGED <<rbVars, incomingVars, channelVars, socketVars, peerVars>>

\* The file is written, or a write of it failed: the hook is destroyed.  Of its
\* object the derived part, and with it doPublish, is gone at this point.
EndHook ==
    /\ Alive /\ spc = "creating" /\ SessionGoes("joining")
    /\ UNCHANGED <<rbVars, threadVars, channelVars, socketVars, peerVars>>

\* ~ProgressHook joins the thread.
JoinHook ==
    /\ Alive /\ spc = "joining" /\ sampler = "ended" /\ sampler' = "none"
    /\ (SessionGoes("serve") \/ SessionGoes("leave"))
    /\ UNCHANGED <<rbVars, incomingVars, channelVars, socketVars, peerVars>>

SamplerGoes(pc) ==
    /\ sampler' = pc
    /\ UNCHANGED <<sessionVars, incomingVars, hash, chanClosed, setupAborted, taken,
                   sockShut, peerVars>>

\* After each period the thread reads curSize, -1 once the hook is destroyed.
Sample ==
    /\ Alive /\ sampler = "asleep"
    /\ SamplerGoes(IF spc = "joining" THEN "ended" ELSE "sampled")
    /\ UNCHANGED <<rbVars, fdOpen, spoilt>>

\* It calls the virtual doPublish, which may be gone by now.
Publish ==
    /\ Alive /\ sampler = "sampled"
    /\ \/ spc = "creating" /\ SamplerGoes("sending") /\ UNCHANGED exit
       \/ spc = "joining" /\ SamplerGoes("sampled") /\ exit' = SIGABRT
    /\ UNCHANGED <<shared, readerVars, writerVars, closeVars, history, fdOpen, spoilt>>

\* doPublish sends like a handler does (Send); of what that may throw, tfn
\* catches threadExitThrowable only.
PublishSends ==
    /\ Alive /\ sampler = "sending"
    /\ IF hash /\ ~chanClosed
       THEN /\ \E ok \in BOOLEAN :
                 /\ Emit(ok) /\ SamplerGoes(IF ok THEN "asleep" ELSE "ended")
                 /\ spoilt' = (spoilt \/ ~ok)
            /\ UNCHANGED exit
       ELSE SamplerGoes("sending") /\ exit' = SIGABRT /\ UNCHANGED <<fdOpen, spoilt>>
    /\ UNCHANGED <<shared, readerVars, writerVars, closeVars, history>>

\* The ring buffer's own steps, taken by the thread inside the call.
InRingBuffer ==
    /\ ReaderStep \/ WriterStep \/ CloseStep \/ SpuriousWakeup
    /\ UNCHANGED <<sessionVars, threadVars, channelVars, socketVars, peerVars>>

-----------------------------------------------------------------------------
Incoming ==
    \/ LoopTop \/ RecvEnd \/ (\E n \in PeerItems : RecvData(n))
    \/ RecvHandshake \/ BadCertClose \/ BadCertAbort \/ HandshakeReply
    \/ RecvNotify \/ NotifyClose \/ NotifyReply \/ RecvFatal \/ RecvBad
    \/ WriteCall \/ WriteResult \/ LoopEnd \/ ThreadReturns

Cleanup ==
    \/ CleanupRing \/ CleanupChannel \/ CleanupShutdown \/ CleanupJoin

Session ==
    \/ Construct \/ Setup \/ Poll \/ (\E n \in ReadSizes : Ask(n)) \/ ReadCall \/ ReadResult
    \/ FailClose \/ FailExit \/ Send \/ Quit \/ Leave \/ Cleanup
    \/ StartHook \/ EndHook \/ JoinHook

Sampler == Sample \/ Publish \/ PublishSends

Peer == (\E i \in PeerItems \cup {HS} : PeerSends(i))
        \/ (\E how \in PeerEnds : PeerLeaves(how))

TNext == Incoming \/ Session \/ Sampler \/ InRingBuffer \/ Peer

TSpec == TInit /\ [][TNext]_vars

\* The threads are scheduled; nothing is assumed of the peer.
TFairSpec ==
    /\ TSpec
    /\ WF_vars(Incoming) /\ WF_vars(Session) /\ WF_vars(Sampler)
    /\ WF_vars(ReaderStep /\ InRingBuffer)
    /\ WF_vars(WriterStep /\ InRingBuffer)
    /\ WF_vars(CloseStep /\ InRingBuffer)

-----------------------------------------------------------------------------
(***************************************************************************)
(* Properties.                                                             *)
(***************************************************************************)

\* Every variable of the session stays in its range.
TlsTypeOK ==
    /\ role \in Roles
    /\ spc \in {"construct", "setup", "poll", "serve", "read", "reading",
               "creating", "joining", "failclose", "failed", "leave", "destroy",
               "channel", "shutdown", "join", "done"}
    /\ ipc \in {"none", "loop", "recv", "badcert", "badcert2", "hsreply", "notify",
               "notified", "write", "writing", "end", "ending", "done"}
    /\ srem \in Nat /\ irem \in Nat /\ readBytes \in {-1, 0, 1}
    /\ {hash, chanClosed, setupAborted, spoilt, fdOpen, sockShut} \subseteq BOOLEAN
    /\ peer \in {"open", "notified", "fin", "rst"}
    /\ sentBytes \in Nat /\ taken \in 0 .. sentBytes
    /\ sampler \in {"none", "asleep", "sampled", "sending", "ended"}
    /\ (sampler = "none") = (spc \notin {"creating", "joining"})
    /\ exit \in {0, 23, 91, 119, 127, SIGABRT}

\* Bytes of the current record whose fate in the ring buffer is open.
Pending ==
    IF ipc = "writing" /\ wpc = "idle" /\ wret > 0 THEN irem - wret
    ELSE IF ipc \in {"write", "writing"} THEN irem ELSE 0

\* While the ring buffer is open, what the incoming thread decrypted is in it,
\* byte for byte, through every partial write; so nothing is skipped in the
\* middle of the stream (tls_record_received compares a signed -1 with an
\* unsigned size and cannot see a refused write).
NothingSkipped == ~closed => written + Pending = taken

\* A session told that the stream ended cleanly has received every byte the
\* peer sent, when the peer closed its side, no record was damaged and no write
\* of the sampling thread failed.
CleanEndIsComplete ==
    (spc = "reading" /\ rpc = "idle" /\ eof /\ rret = 0
       /\ peer # "rst" /\ ~spoilt /\ exit = 0)
        => Len(received) = sentBytes

\* The sampling thread ends the process: the hook's virtual function was gone, or
\* the client had closed the channel.
SampledTooLate ==
    \/ sampler = "sampled" /\ spc = "joining"
    \/ sampler = "sending" /\ chanClosed

\* No exception leaves the session thread or the incoming thread of a server, so
\* a session that fails takes down its own threads and not the process that
\* serves all the others; the one thread that can is the sampler of a creation,
\* in the two ways named above.  (A client that sends over a closed channel does
\* end its process: Send.)
ServerContained == role = "server" /\ exit = SIGABRT => SampledTooLate

\* The incoming thread waits for room in a ring buffer that is closed: close()
\* wakes only the reader, and nobody reads any more.
Jammed == ipc = "writing" /\ wpc = "waiting" /\ closed

\* tlsClientSession closes the socket's descriptor number before the destructor
\* can shut it down: a read that is already blocked is not woken.
ClosedFirst == role = "xreclient" /\ ~fdOpen

\* The destructor of the descriptor ends, the incoming thread is joined
\* (cleanup): in every other state, whatever that thread is doing.
CleanupTerminates ==
    spc = "destroy" ~> (spc = "done" \/ exit # 0 \/ Jammed \/ ClosedFirst)

=============================================================================
