--------------------------- MODULE TlsSessionProofs ---------------------------
(***************************************************************************)
(* Proofs about a TLS connection for every capacity of the ring buffer,    *)
(* every size of the records and of the reads, and any number of records.  *)
(* The invariant of the ring buffer (module RingBufferProofs) is carried   *)
(* over: a step of the session is a step of the buffer, leaves it alone or *)
(* ends the process.                                                       *)
(***************************************************************************)
EXTENDS TlsSession, RingBufferProofs

(***************************************************************************)
(* What a step of the session does to the ring buffer.                     *)
(***************************************************************************)

\* A call that starts, with what the reader still asks for or with what is left
\* of the record in hand.
ReadStarts == ReadAvailable(srem) \/ ReadEmptyClosed(srem) \/ ReadEmptyOpen(srem)
WriteStarts == ipc = "write" /\ (WriteClosed(irem) \/ WriteOpen(irem))

\* The exceptions and the exits of the session's own code: of the buffer's
\* variables only exit changes.
Aborts ==
    /\ exit' \in {23, 91, 127, SIGABRT}
    /\ exit' = SIGABRT => role # "server" \/ SampledTooLate'
    /\ UNCHANGED <<shared, readerVars, writerVars, closeVars, history>>

\* The process that has exited takes no step.
LEMMA StepIsAlive == TNext => exit = 0
BY DEF TNext, Incoming, Session, Sampler, Sample, Publish, PublishSends, StartHook,
   EndHook, JoinHook, Construct, SpuriousWakeup, InRingBuffer, Peer, Cleanup, ReaderStep,
   WriterStep, CloseStep, LoopTop, RecvEnd, RecvData, RecvHandshake, Receive,
   BadCertClose, BadCertAbort, HandshakeReply, RecvNotify, NotifyClose,
   NotifyReply, RecvFatal, RecvBad, WriteCall, WriteResult, LoopEnd,
   ThreadReturns, Setup, Poll, Ask, ReadCall, ReadResult, FailClose, FailExit,
   Send, Quit, Leave, CleanupRing, CleanupChannel, CleanupShutdown, CleanupJoin,
   PeerSends, PeerLeaves, CloseCas, WriteClosed, WriteOpen, ReadAvailable,
   ReadEmptyClosed, ReadEmptyOpen, ReadWait, ReadWoken, ReadEof, WriteWait,
   WriteWoken, WriteCopy, CloseStore, CloseNotify, CanCall, Alive

\* Every step is one of the ring buffer, leaves it alone or aborts.
LEMMA StepOfBuffer ==
    ASSUME TNext, srem \in Nat, irem \in Nat, sampler # "none" => hash
    PROVE  \/ ReadStarts \/ WriteStarts
           \/ \E t \in Threads, b \in BOOLEAN : CloseCas(t, b)
           \/ ReaderStep \/ WriterStep \/ CloseStep \/ SpuriousWakeup
           \/ UNCHANGED rbVars
           \/ Aborts
<1>1. CASE Incoming
  <2>1. CASE WriteCall
    BY <2>1 DEF WriteCall, WriteStarts
  <2>2. CASE BadCertClose \/ NotifyClose \/ LoopEnd
    <3>1. Writer \in Threads /\ FALSE \in BOOLEAN /\ (readBytes < 0) \in BOOLEAN
      BY DEF Threads
    <3> QED
      BY <2>2, <3>1 DEF BadCertClose, NotifyClose, LoopEnd
  <2>3. CASE HandshakeReply \/ WriteResult
    BY <2>3 DEF HandshakeReply, WriteResult, Aborts, Alive, rbVars, shared,
                readerVars, writerVars, closeVars, history, SIGABRT
  <2>4. CASE \/ LoopTop \/ RecvEnd \/ (\E n \in PeerItems : RecvData(n))
             \/ RecvHandshake \/ BadCertAbort \/ RecvNotify \/ NotifyReply
             \/ RecvFatal \/ RecvBad \/ ThreadReturns
    BY <2>4 DEF LoopTop, RecvEnd, RecvData, RecvHandshake, BadCertAbort,
                RecvNotify, NotifyReply, RecvFatal, RecvBad, ThreadReturns, Receive
  <2> QED
    BY <1>1, <2>1, <2>2, <2>3, <2>4 DEF Incoming
<1>2. CASE Session
  <2>1. CASE ReadCall
    BY <2>1 DEF ReadCall, ReadStarts
  <2>2. CASE FailClose \/ CleanupRing
    <3>1. Reader \in Threads /\ FALSE \in BOOLEAN
      BY DEF Threads
    <3> QED
      BY <2>2, <3>1 DEF FailClose, CleanupRing
  <2>3. CASE Send \/ CleanupJoin
    BY <2>3 DEF Send, CleanupJoin, Aborts, Alive, rbVars, shared,
                readerVars, writerVars, closeVars, history, SIGABRT
  <2>4. CASE \/ Construct \/ Setup \/ Poll \/ (\E n \in ReadSizes : Ask(n)) \/ ReadResult
             \/ FailExit \/ Quit \/ Leave \/ CleanupChannel \/ CleanupShutdown
             \/ StartHook \/ EndHook \/ JoinHook
    BY <2>4 DEF Construct, Setup, Poll, Ask, ReadResult, FailExit, Quit, Leave,
                CleanupChannel, CleanupShutdown, StartHook, EndHook, JoinHook
  <2> QED
    BY <1>2, <2>1, <2>2, <2>3, <2>4 DEF Session, Cleanup
<1>3. CASE InRingBuffer
  BY <1>3 DEF InRingBuffer
<1>4. CASE Peer
  BY <1>4 DEF Peer, PeerSends, PeerLeaves
<1>5. CASE Sampler
  <2>1. CASE Sample
    BY <2>1 DEF Sample
  <2>2. CASE Publish
    BY <2>2 DEF Publish, SamplerGoes, sessionVars, Aborts, SampledTooLate, Alive, rbVars,
                shared, readerVars, writerVars, closeVars, history, SIGABRT
  <2>3. CASE PublishSends
    <3>1. CASE hash /\ ~chanClosed
      BY <2>3, <3>1, Zenon DEF PublishSends, SamplerGoes, sessionVars, rbVars, shared,
                  readerVars, writerVars, closeVars, history
    <3>2. CASE ~(hash /\ ~chanClosed)
      <4>1. /\ exit' = SIGABRT /\ sampler = "sending" /\ sampler' = "sending"
            /\ role' = role /\ chanClosed' = chanClosed
        BY <2>3, <3>2, Zenon DEF PublishSends, SamplerGoes, sessionVars
      <4>2. hash
        BY <4>1
      <4>3. chanClosed'
        BY <3>2, <4>1, <4>2, Zenon
      <4> QED
        BY <2>3, <3>2, <4>1, <4>3 DEF PublishSends, Aborts, SampledTooLate, Alive, SIGABRT
    <3> QED
      BY <3>1, <3>2
  <2> QED
    BY <1>5, <2>1, <2>2, <2>3 DEF Sampler
<1> QED
  BY <1>1, <1>2, <1>3, <1>4, <1>5 DEF TNext

\* The buffer's invariant outlasts every step that leaves the process alive.
LEMMA BufferStep ==
    ASSUME IInv, TNext, srem \in Nat, irem \in Nat, sampler # "none" => hash
    PROVE  IInv' \/ Aborts
<1>1. CASE ReadStarts \/ WriteStarts
  BY <1>1, CallIInv DEF ReadStarts, WriteStarts
<1>2. CASE SpuriousWakeup \/ \E t \in Threads, b \in BOOLEAN : CloseCas(t, b)
  <2>1. Reader \in Threads /\ TRUE \in BOOLEAN
    BY DEF Threads
  <2> QED
    BY <1>2, <2>1, CloseStepIInv
<1>3. CASE ReaderStep \/ WriterStep \/ CloseStep
  BY <1>3, InnerIInv
<1>4. CASE UNCHANGED rbVars
  BY <1>4, StutterIInv
<1> QED
  BY <1>1, <1>2, <1>3, <1>4, StepOfBuffer

(***************************************************************************)
(* What the operations of the buffer do to the side that does not call.    *)
(***************************************************************************)

\* The reader at most gets woken.
ReaderRests ==
    UNCHANGED <<rcount, rret>> /\ (rpc' = rpc \/ (rpc = "waiting" /\ rpc' = "woken"))

\* The writer at most gets woken.
WriterRests ==
    /\ UNCHANGED <<wcount, wret, written>>
    /\ wpc' = wpc \/ (wpc = "waiting" /\ wpc' = "woken")

LEMMA ReadCallEffect ==
    ASSUME IInv, NEW n \in Nat,
           ReadAvailable(n) \/ ReadEmptyClosed(n) \/ ReadEmptyOpen(n)
    PROVE  /\ WriterRests /\ closed' = closed /\ rpc = "idle"
           /\ \/ rpc' = "idle" /\ rret' <= n
              \/ rpc' # "idle" /\ rcount' = n
<1>1. CASE ReadAvailable(n)
  <2>1. oneDirCircularDistance \in Int
    BY DistanceValue DEF oneDirCircularDistance, IInv, TypeOK
  <2>2. Smaller(n, oneDirCircularDistance) <= n
    BY <2>1 DEF Smaller
  <2> QED
    BY <1>1, <2>2 DEF ReadAvailable, Deliver, CanCall, NotifyRead, WriterRests
<1>2. CASE ReadEmptyClosed(n) \/ ReadEmptyOpen(n)
  BY <1>2 DEF ReadEmptyClosed, ReadEmptyOpen, CanCall, writerVars, history, WriterRests
<1> QED
  BY <1>1, <1>2

LEMMA ReaderStepEffect ==
    ASSUME IInv, ReaderStep
    PROVE  /\ WriterRests /\ closed' = closed /\ rpc # "idle" /\ rcount' = rcount
           /\ rpc' = "idle" => rret' <= rcount
<1>1. CASE ReadWait \/ ReadEof
  BY <1>1 DEF ReadWait, ReadEof, writerVars, history, WriterRests, IInv, TypeOK
<1>2. CASE ReadWoken
  <2>1. CASE closed /\ readIdx = writeIdx
    BY <1>2, <2>1 DEF ReadWoken, writerVars, history, WriterRests
  <2>2. CASE Deliver(rcount)
    <3>1. oneDirCircularDistance \in Int /\ rcount \in Nat
      BY DistanceValue DEF oneDirCircularDistance, IInv, TypeOK
    <3>2. Smaller(rcount, oneDirCircularDistance) <= rcount
      BY <3>1 DEF Smaller
    <3> QED
      BY <1>2, <2>2, <3>2
      DEF ReadWoken, Deliver, NotifyRead, WriterRests, shared, readerVars, writerVars,
          history
  <2> QED
    BY <1>2, <2>1, <2>2 DEF ReadWoken
<1> QED
  BY <1>1, <1>2 DEF ReaderStep

LEMMA WriteCallEffect ==
    ASSUME NEW n \in Nat, WriteClosed(n) \/ WriteOpen(n)
    PROVE  /\ ReaderRests /\ closed' = closed /\ written' = written /\ wpc = "idle"
           /\ \/ wpc' = "idle" /\ wret' = -1 /\ closed
              \/ wpc' # "idle" /\ wcount' = n
BY ThreadsAssumption
DEF WriteClosed, WriteOpen, WriteReturn, CanCall, shared, readerVars, history,
    ReaderRests

LEMMA WriterStepEffect ==
    ASSUME IInv, WriterStep
    PROVE  /\ ReaderRests /\ closed' = closed /\ wpc # "idle" /\ wcount' = wcount
           /\ \/ wpc' = "idle" /\ wret' \in 0 .. wcount /\ written' = written + wret'
              \/ wpc' = "idle" /\ wret' = -1 /\ closed /\ written' = written
              \/ wpc' # "idle" /\ written' = written
<1>1. CASE WriteWait \/ WriteWoken
  BY <1>1 DEF WriteWait, WriteWoken, WriteReturn, readerVars, history, ReaderRests
<1>2. CASE WriteCopy
  <2> DEFINE k == Smaller(wcount, Capacity - 1 - oneDirCircularDistance)
  <2>1. oneDirCircularDistance \in 0 .. Capacity - 1
    BY DistanceValue DEF oneDirCircularDistance, IInv, TypeOK
  <2>2. wcount \in Nat /\ writeIdx \in 0 .. Capacity
    BY CapacityAssumption DEF IInv, TypeOK, Slots
  <2>3. k \in 0 .. wcount
    BY <2>1, <2>2, CapacityAssumption DEF Smaller
  <2>4. /\ written' = written + k /\ NotifyWritten /\ WriteReturn(k)
        /\ UNCHANGED <<closed, rcount, rret, wcount>>
    BY <1>2, <2>1, <2>2, CapacityAssumption DEF WriteCopy
  <2> QED
    BY <1>2, <2>3, <2>4 DEF WriteCopy, NotifyWritten, WriteReturn, ReaderRests
<1> QED
  BY <1>1, <1>2 DEF WriterStep

LEMMA CloseEffect ==
    ASSUME CloseStep \/ \E t \in Threads, b \in BOOLEAN : CloseCas(t, b)
    PROVE  /\ ReaderRests /\ UNCHANGED <<wpc, wcount, wret, written>>
           /\ closed => closed'
BY DEF CloseStep, CloseCas, CloseStore, CloseNotify, NotifyWritten, shared,
       readerVars, writerVars, history, ReaderRests

(***************************************************************************)
(* Nothing is skipped: the record in hand, the call of write() under way   *)
(* and what the buffer has accepted add up to what was decrypted.          *)
(***************************************************************************)

\* The counts of the session thread: what readAllOrExit still asks for.
AskedInv ==
    /\ srem \in Nat
    /\ rpc # "idle" => spc = "reading" /\ rcount = srem
    /\ spc = "reading" /\ rpc = "idle" => rret <= srem

\* The counts of the incoming thread: the record and the call of write().
RecordInv ==
    /\ irem \in Nat /\ taken \in Nat
    /\ wpc # "idle" => ipc = "writing" /\ wcount = irem
    /\ ipc = "writing" /\ wpc = "idle" => wret <= irem /\ (wret < 0 => closed)
    /\ spc \in {"construct", "setup"} => ipc = "none"

\* A sampling thread belongs to a server session whose handshake is complete.
SamplerInv ==
    /\ sampler # "none" => hash
    /\ spc \in {"creating", "joining"} => role = "server"
    /\ (sampler = "none") = (spc \notin {"creating", "joining"})

\* The invariant of the buffer is needed, and kept, while the process lives.
SessionInv ==
    /\ exit = 0 => IInv
    /\ AskedInv /\ RecordInv /\ SamplerInv /\ NothingSkipped /\ ServerContained
    /\ exit \in {0, 23, 91, 119, 127, SIGABRT}

LEMMA InitSessionInv == TInit => SessionInv
<1> SUFFICES ASSUME TInit PROVE SessionInv
  OBVIOUS
<1>1. IInv
  BY InitIInv DEF TInit
<1>2. AskedInv /\ RecordInv
  BY DEF TInit, Init, AskedInv, RecordInv
<1>3. NothingSkipped /\ ServerContained /\ SamplerInv /\ exit = 0
  BY DEF TInit, Init, NothingSkipped, Pending, ServerContained, SamplerInv, SIGABRT
<1> QED
  BY <1>1, <1>2, <1>3 DEF SessionInv

\* The steps of the session thread.
LEMMA SessionSteps ==
    ASSUME SessionInv, IInv, Session
    PROVE  AskedInv' /\ RecordInv' /\ NothingSkipped'
<1>0. /\ srem \in Nat /\ irem \in Nat /\ taken \in Nat
      /\ wret \in Int /\ rret \in Int /\ wcount \in Nat /\ rcount \in Nat
      /\ written \in Nat
  BY DEF SessionInv, AskedInv, RecordInv, IInv, TypeOK
<1>1. CASE ReadCall
  <2>1. /\ spc' = "reading" /\ srem' = srem /\ UNCHANGED <<ipc, irem, taken>>
        /\ ReadAvailable(srem) \/ ReadEmptyClosed(srem) \/ ReadEmptyOpen(srem)
    BY <1>1 DEF ReadCall, SessionGoes, incomingVars, threadVars, channelVars
  <2>2. /\ WriterRests /\ closed' = closed
        /\ \/ rpc' = "idle" /\ rret' <= srem
           \/ rpc' # "idle" /\ rcount' = srem
    BY <1>0, <2>1, ReadCallEffect
  <2> QED
    BY <1>0, <2>1, <2>2
    DEF SessionInv, AskedInv, RecordInv, NothingSkipped, Pending, WriterRests
<1>2. CASE ReadResult
  <2>1. /\ spc = "reading" /\ rpc = "idle" /\ spc' \notin {"reading", "construct", "setup"}
        /\ srem' = (IF rret > 0 THEN srem - rret ELSE srem)
        /\ UNCHANGED <<ipc, irem, taken, rbVars>>
    BY <1>2 DEF ReadResult, incomingVars, threadVars, channelVars
  <2> QED
    BY <1>0, <2>1
    DEF SessionInv, AskedInv, RecordInv, NothingSkipped, Pending, rbVars
<1>3. CASE FailClose \/ CleanupRing
  <2>1. /\ spc # "reading" /\ spc' \notin {"reading", "construct", "setup"} /\ srem' = srem
        /\ UNCHANGED <<ipc, irem, taken>> /\ CloseCas(Reader, FALSE)
    BY <1>3 DEF FailClose, CleanupRing, SessionGoes, incomingVars, threadVars, channelVars
  <2>2. /\ UNCHANGED <<wpc, wcount, wret, written, rpc, rcount, rret>>
        /\ closed => closed'
    BY <2>1 DEF CloseCas, readerVars, writerVars, history
  <2> QED
    BY <1>0, <2>1, <2>2 DEF SessionInv, AskedInv, RecordInv, NothingSkipped, Pending
<1>4. CASE Construct
  <2>1. /\ spc = "construct" /\ spc' \notin {"reading", "construct"} /\ srem' = srem
        /\ UNCHANGED <<ipc, irem, taken, rbVars>>
    BY <1>4 DEF Construct, SessionGoes, incomingVars, threadVars, channelVars
  <2> QED
    BY <1>0, <2>1
    DEF SessionInv, AskedInv, RecordInv, NothingSkipped, Pending, rbVars
<1>6. CASE Setup
  BY <1>0, <1>6
  DEF Setup, SessionGoes, channelVars, rbVars, SessionInv, AskedInv, RecordInv,
      NothingSkipped, Pending
<1>5. CASE \/ Poll \/ (\E n \in ReadSizes : Ask(n)) \/ FailExit
           \/ Send \/ Quit \/ Leave \/ CleanupChannel \/ CleanupShutdown \/ CleanupJoin
           \/ StartHook \/ EndHook \/ JoinHook
  <2>1. /\ spc # "reading" /\ spc' \notin {"reading", "construct", "setup"} /\ srem' \in Nat
        /\ UNCHANGED <<ipc, irem, taken, wpc, wcount, wret, written, closed,
                       rpc, rcount, rret>>
    BY <1>0, <1>5, SizesAssumption
    DEF Poll, Ask, FailExit, Send, Quit, Leave, CleanupChannel, CleanupShutdown,
        CleanupJoin, StartHook, EndHook, JoinHook, SessionGoes, incomingVars, threadVars,
        channelVars, rbVars, shared, readerVars, writerVars, history
  <2> QED
    BY <1>0, <2>1 DEF SessionInv, AskedInv, RecordInv, NothingSkipped, Pending
<1> QED
  BY <1>1, <1>2, <1>3, <1>4, <1>5, <1>6 DEF Session, Cleanup

\* The steps of the incoming thread.
LEMMA IncomingSteps ==
    ASSUME SessionInv, IInv, Incoming
    PROVE  AskedInv' /\ RecordInv' /\ NothingSkipped'
<1>0. /\ srem \in Nat /\ irem \in Nat /\ taken \in Nat
      /\ wret \in Int /\ rret \in Int /\ wcount \in Nat /\ rcount \in Nat
      /\ written \in Nat /\ closed \in BOOLEAN
  BY DEF SessionInv, AskedInv, RecordInv, IInv, TypeOK
<1>1. CASE WriteCall
  <2>1. /\ ipc = "write" /\ ipc' = "writing"
        /\ UNCHANGED <<irem, taken, spc, srem>>
        /\ WriteClosed(irem) \/ WriteOpen(irem)
    BY <1>1 DEF WriteCall, IncomingGoes, sessionVars, channelVars
  <2>2. /\ ReaderRests /\ closed' = closed /\ written' = written /\ wpc = "idle"
        /\ \/ wpc' = "idle" /\ wret' = -1 /\ closed
           \/ wpc' # "idle" /\ wcount' = irem
    BY <1>0, <2>1, WriteCallEffect
  <2> QED
    BY <1>0, <2>1, <2>2
    DEF SessionInv, AskedInv, RecordInv, NothingSkipped, Pending, ReaderRests
<1>2. CASE WriteResult
  <2>1. /\ ipc = "writing" /\ wpc = "idle"
        /\ UNCHANGED <<taken, spc, srem, rpc, rcount, rret, wpc, wcount, wret,
                       written, closed>>
        /\ \/ wret = 0 /\ UNCHANGED <<ipc, irem>>
           \/ /\ wret # 0
              /\ irem' = (IF wret < 0 THEN 0 ELSE irem - wret)
              /\ ipc' = (IF irem' = 0 THEN "loop" ELSE "write")
    BY <1>2 DEF WriteResult, sessionVars, channelVars, shared, readerVars,
                writerVars, history
  <2> QED
    BY <1>0, <2>1 DEF SessionInv, AskedInv, RecordInv, NothingSkipped, Pending
<1>3. CASE BadCertClose \/ NotifyClose \/ LoopEnd
  <2>1. /\ ipc \notin {"none", "write", "writing"} /\ ipc' \notin {"write", "writing"}
        /\ UNCHANGED <<irem, taken, spc, srem>>
        /\ CloseCas(Writer, TRUE) \/ CloseCas(Writer, FALSE) \/ CloseCas(Writer, readBytes < 0)
    BY <1>3 DEF BadCertClose, NotifyClose, LoopEnd, IncomingGoes, sessionVars, channelVars
  <2>2. /\ UNCHANGED <<wpc, wcount, wret, written, rpc, rcount, rret>>
        /\ closed => closed'
    BY <2>1 DEF CloseCas, readerVars, writerVars, history
  <2> QED
    BY <1>0, <2>1, <2>2 DEF SessionInv, AskedInv, RecordInv, NothingSkipped, Pending
<1>4. CASE \E n \in PeerItems : RecvData(n)
  <2> PICK n \in PeerItems : RecvData(n)
    BY <1>4
  <2>1. /\ n \in Nat /\ ipc = "recv"
        /\ UNCHANGED <<spc, srem, rpc, rcount, rret, wpc, wcount, wret, written, closed>>
        /\ \/ ipc' = "write" /\ irem' = n /\ taken' = taken + n
           \/ ipc' = "end" /\ UNCHANGED <<irem, taken>>
    BY RecordsAssumption
    DEF RecvData, Receive, LibraryThrows, IncomingGoes, sessionVars, rbVars
  <2> QED
    BY <1>0, <2>1 DEF SessionInv, AskedInv, RecordInv, NothingSkipped, Pending
<1>5. CASE HandshakeReply
  <2>1. /\ ipc = "hsreply" /\ ipc' \in {"loop", "end"}
        /\ UNCHANGED <<irem, taken, spc, srem, rpc, rcount, rret, wpc, wcount, wret,
                       written, closed>>
    BY <1>5 DEF HandshakeReply, sessionVars, shared, readerVars, writerVars, history
  <2> QED
    BY <1>0, <2>1 DEF SessionInv, AskedInv, RecordInv, NothingSkipped, Pending
<1>6. CASE \/ LoopTop \/ RecvEnd \/ RecvHandshake \/ BadCertAbort \/ RecvNotify
           \/ NotifyReply \/ RecvFatal \/ RecvBad \/ ThreadReturns
  <2>1. /\ ipc \notin {"none", "write", "writing"} /\ ipc' \notin {"write", "writing"}
        /\ UNCHANGED <<irem, taken, spc, srem, rpc, rcount, rret, wpc, wcount, wret,
                       written, closed>>
    BY <1>6
    DEF LoopTop, RecvEnd, RecvHandshake, BadCertAbort, RecvNotify, NotifyReply,
        RecvFatal, RecvBad, ThreadReturns, Receive, LibraryThrows, IncomingGoes,
        sessionVars, channelVars, rbVars
  <2> QED
    BY <1>0, <2>1 DEF SessionInv, AskedInv, RecordInv, NothingSkipped, Pending
<1> QED
  BY <1>1, <1>2, <1>3, <1>4, <1>5, <1>6 DEF Incoming

\* The steps inside the buffer.
LEMMA BufferSteps ==
    ASSUME SessionInv, IInv, InRingBuffer
    PROVE  AskedInv' /\ RecordInv' /\ NothingSkipped'
<1>0. /\ srem \in Nat /\ irem \in Nat /\ taken \in Nat
      /\ wret \in Int /\ rret \in Int /\ wcount \in Nat /\ rcount \in Nat
      /\ written \in Nat /\ closed \in BOOLEAN
      /\ UNCHANGED <<ipc, irem, taken, spc, srem>>
  BY DEF SessionInv, AskedInv, RecordInv, IInv, TypeOK, InRingBuffer, sessionVars,
         incomingVars, threadVars, channelVars
<1>1. CASE ReaderStep
  BY <1>0, <1>1, ReaderStepEffect
  DEF SessionInv, AskedInv, RecordInv, NothingSkipped, Pending, WriterRests
<1>2. CASE WriterStep
  <2>1. /\ ReaderRests /\ closed' = closed /\ wpc # "idle" /\ wcount' = wcount
        /\ \/ wpc' = "idle" /\ wret' \in 0 .. wcount /\ written' = written + wret'
           \/ wpc' = "idle" /\ wret' = -1 /\ closed /\ written' = written
           \/ wpc' # "idle" /\ written' = written
    BY <1>2, WriterStepEffect
  <2>2. ipc = "writing" /\ wcount = irem
    BY <2>1 DEF SessionInv, RecordInv
  <2>3. AskedInv'
    BY <1>0, <2>1 DEF SessionInv, AskedInv, ReaderRests
  <2>4. RecordInv'
    BY <1>0, <2>1, <2>2 DEF SessionInv, RecordInv
  <2>5. NothingSkipped'
    BY <1>0, <2>1, <2>2 DEF SessionInv, NothingSkipped, Pending
  <2> QED
    BY <2>3, <2>4, <2>5
<1>3. CASE CloseStep
  BY <1>0, <1>3, CloseEffect
  DEF SessionInv, AskedInv, RecordInv, NothingSkipped, Pending, ReaderRests
<1>4. CASE SpuriousWakeup
  <2>1. /\ UNCHANGED <<rcount, rret, wcount, wret, written, closed>>
        /\ rpc' = rpc \/ (rpc = "waiting" /\ rpc' = "woken")
        /\ wpc' = wpc \/ (wpc = "waiting" /\ wpc' = "woken")
    BY <1>4 DEF SpuriousWakeup, shared, history
  <2> QED
    BY <1>0, <2>1 DEF SessionInv, AskedInv, RecordInv, NothingSkipped, Pending
<1> QED
  BY <1>1, <1>2, <1>3, <1>4 DEF InRingBuffer

\* The steps of the sampling thread.
LEMMA SamplerSteps ==
    ASSUME SessionInv, Sampler
    PROVE  AskedInv' /\ RecordInv' /\ NothingSkipped'
<1>1. UNCHANGED <<spc, srem, ipc, irem, taken, rpc, rcount, rret, wpc, wcount, wret,
                  written, closed>>
  BY DEF Sampler, Sample, Publish, PublishSends, SamplerGoes, sessionVars, incomingVars,
         rbVars, shared, readerVars, writerVars, history
<1> QED
  BY <1>1 DEF SessionInv, AskedInv, RecordInv, NothingSkipped, Pending

\* The sampling thread exists between StartHook and JoinHook.
LEMMA SamplerInvStep ==
    ASSUME SamplerInv, TNext PROVE SamplerInv'
<1>1. hash => hash'
  <2>1. CASE HandshakeReply
    <3>1. PICK ok \in BOOLEAN : hash' = (hash \/ ok)
      BY <2>1 DEF HandshakeReply
    <3> QED
      BY <3>1, Zenon
  <2>2. CASE Incoming /\ ~HandshakeReply
    BY <2>2
    DEF Incoming, LoopTop, RecvEnd, RecvData, RecvHandshake, Receive, LibraryThrows,
        BadCertClose, BadCertAbort, RecvNotify, NotifyClose, NotifyReply, RecvFatal,
        RecvBad,
        WriteCall, WriteResult, LoopEnd, ThreadReturns, channelVars
  <2>3. CASE Session \/ Sampler \/ InRingBuffer \/ Peer
    BY <2>3
    DEF Session, Cleanup, Construct, Setup, Poll, Ask, ReadCall, ReadResult, FailClose,
        FailExit, Send, Quit, Leave, CleanupRing, CleanupChannel, CleanupShutdown,
        CleanupJoin, StartHook, EndHook, JoinHook, Sampler, Sample, Publish, PublishSends,
        SamplerGoes, InRingBuffer, Peer, PeerSends, PeerLeaves, channelVars
  <2> QED
    BY <2>1, <2>2, <2>3 DEF TNext
<1>2. CASE Incoming \/ InRingBuffer \/ Peer
  <2>1. UNCHANGED <<role, spc, sampler, sampler>>
    BY <1>2
    DEF Incoming, LoopTop, RecvEnd, RecvData, RecvHandshake, Receive, BadCertClose,
        BadCertAbort, HandshakeReply, RecvNotify, NotifyClose, NotifyReply, RecvFatal,
        RecvBad, WriteCall, WriteResult, LoopEnd, ThreadReturns, InRingBuffer, Peer,
        PeerSends, PeerLeaves, sessionVars, threadVars
  <2> QED
    BY <1>1, <2>1 DEF SamplerInv
<1>3. CASE Sampler
  <2>1. /\ UNCHANGED <<role, spc>> /\ sampler # "none" /\ sampler' # "none"
    BY <1>3 DEF Sampler, Sample, Publish, PublishSends, SamplerGoes, sessionVars
  <2> QED
    BY <1>1, <2>1 DEF SamplerInv
<1>4. CASE StartHook \/ EndHook \/ JoinHook
  BY <1>4
  DEF StartHook, EndHook, JoinHook, SessionGoes, threadVars, channelVars, SamplerInv
<1>5. CASE \/ Construct \/ Setup \/ Poll \/ (\E n \in ReadSizes : Ask(n)) \/ ReadCall
           \/ ReadResult \/ FailClose \/ FailExit \/ Send \/ Quit \/ Leave \/ Cleanup
  <2>1. /\ UNCHANGED <<role, sampler>> /\ spc \notin {"creating", "joining"}
        /\ spc' \notin {"creating", "joining"}
    BY <1>5
    DEF Construct, Setup, Poll, Ask, ReadCall, ReadResult, FailClose, FailExit, Send,
        Quit,
        Leave, Cleanup, CleanupRing, CleanupChannel, CleanupShutdown, CleanupJoin,
        SessionGoes, sessionVars, threadVars
  <2> QED
    BY <1>1, <2>1 DEF SamplerInv
<1> QED
  BY <1>2, <1>3, <1>4, <1>5 DEF TNext, Session

LEMMA NextSessionInv == SessionInv /\ [TNext]_vars => SessionInv'
<1> SUFFICES ASSUME SessionInv, [TNext]_vars PROVE SessionInv'
  OBVIOUS
<1>1. CASE TNext
  <2>1. exit = 0 /\ IInv
    BY <1>1, StepIsAlive DEF SessionInv
  <2>2. AskedInv' /\ RecordInv' /\ NothingSkipped'
    <3>1. CASE Peer
      BY <2>1, <3>1
      DEF Peer, PeerSends, PeerLeaves, SessionInv, AskedInv, RecordInv, NothingSkipped,
          Pending, rbVars, sessionVars, incomingVars, threadVars, channelVars
    <3> QED
      BY <1>1, <2>1, <3>1, SessionSteps, IncomingSteps, BufferSteps,
      SamplerSteps DEF TNext
  <2>3. IInv' \/ Aborts
    BY <1>1, <2>1, BufferStep DEF SessionInv, AskedInv, RecordInv, SamplerInv
  <2>4. role' = role
    BY <1>1
    DEF TNext, Incoming, Session, InRingBuffer, Peer, Cleanup, LoopTop, RecvEnd,
        RecvData, RecvHandshake, Receive, BadCertClose, BadCertAbort, HandshakeReply,
        RecvNotify, NotifyClose, NotifyReply, RecvFatal, RecvBad, WriteCall,
        WriteResult, LoopEnd, ThreadReturns, Setup, Poll, Ask, ReadCall, ReadResult,
        FailClose, FailExit, Send, Quit, Leave, CleanupRing, CleanupChannel,
        CleanupShutdown, CleanupJoin, PeerSends, PeerLeaves, Construct, StartHook,
        EndHook,
        JoinHook, Sampler, Sample, Publish, PublishSends, SamplerGoes, SessionGoes,
        sessionVars
  <2>5. /\ exit' \in {0, 23, 91, 119, 127, SIGABRT} /\ ServerContained'
        /\ exit' = 0 => IInv'
    BY <2>3, <2>4 DEF IInv, TypeOK, Aborts, ServerContained, SIGABRT
  <2>6. SamplerInv'
    BY <1>1, SamplerInvStep DEF SessionInv
  <2> QED
    BY <2>2, <2>5, <2>6 DEF SessionInv
<1>2. CASE UNCHANGED vars
  <2>1. UNCHANGED rbVars /\ UNCHANGED <<role, spc, srem, ipc, irem, taken, sampler, hash,
                                         chanClosed>>
    BY <1>2 DEF vars, sessionVars, incomingVars, threadVars, channelVars
  <2>2. exit' = exit /\ (exit' = 0 => IInv')
    BY <2>1, StutterIInv DEF SessionInv, rbVars
  <2> QED
    BY <2>1, <2>2
    DEF SessionInv, AskedInv, RecordInv, SamplerInv, NothingSkipped, Pending,
        ServerContained, SampledTooLate, rbVars
<1> QED
  BY <1>1, <1>2

LEMMA SessionInvariance == TSpec => []SessionInv
BY InitSessionInv, NextSessionInv, PTL DEF TSpec

\* tls_record_received: through every partial write, and although a refused one
\* looks like success, the open buffer has got every byte that was decrypted.
THEOREM RecordsArriveWhole == TSpec => []NothingSkipped
<1>1. SessionInv => NothingSkipped
  BY DEF SessionInv
<1> QED
  BY <1>1, SessionInvariance, PTL

\* Of the threads of a server's session only the sampling thread of a file creation
\* lets an exception escape: when the hook it belongs to is being destroyed, or the
\* client has closed the channel.
THEOREM OnlySamplersEscape == TSpec => []ServerContained
<1>1. SessionInv => ServerContained
  BY DEF SessionInv
<1> QED
  BY <1>1, SessionInvariance, PTL

(***************************************************************************)
(* From the peer to the session: what was decrypted and what is under way  *)
(* add up to what the peer sent.  The sum over the records under way is    *)
(* not computed; it is the last of the partial sums f, which exist.        *)
(***************************************************************************)
Data(i) == IF i > 0 THEN i ELSE 0

\* The records s carry the bytes from lo up to hi.
Carries(s, lo, hi) ==
    \E f : /\ f[0] = lo /\ f[Len(s)] = hi
           /\ \A k \in 0 .. Len(s) : f[k] \in Nat /\ f[k] <= hi
           /\ \A k \in 1 .. Len(s) : f[k] = f[k - 1] + Data(s[k])

LEMMA CarriesNothing ==
    ASSUME NEW lo \in Nat, NEW hi
    PROVE  Carries(<< >>, lo, hi) <=> lo = hi
<1>1. Len(<< >>) = 0
  OBVIOUS
<1>2. ASSUME Carries(<< >>, lo, hi) PROVE lo = hi
  BY <1>1, <1>2 DEF Carries
<1>3. ASSUME lo = hi PROVE Carries(<< >>, lo, hi)
  <2> DEFINE f == [k \in {0} |-> lo]
  <2>1. /\ f[0] = lo /\ f[Len(<< >>)] = hi
        /\ \A k \in 0 .. Len(<< >>) : f[k] \in Nat /\ f[k] <= hi
        /\ \A k \in 1 .. Len(<< >>) : f[k] = f[k - 1] + Data(<< >>[k])
    BY <1>1, <1>3
  <2> QED
    BY <2>1, Zenon DEF Carries
<1> QED
  BY <1>2, <1>3

\* A record more at the peer's end.
LEMMA CarriesMore ==
    ASSUME NEW s \in Seq(Int), NEW lo, NEW hi \in Nat, NEW i \in Int, Carries(s, lo, hi)
    PROVE  Carries(Append(s, i), lo, hi + Data(i))
<1> DEFINE t == Append(s, i)
           up == hi + Data(i)
<1>1. PICK f : /\ f[0] = lo /\ f[Len(s)] = hi
               /\ \A k \in 0 .. Len(s) : f[k] \in Nat /\ f[k] <= hi
               /\ \A k \in 1 .. Len(s) : f[k] = f[k - 1] + Data(s[k])
  BY DEF Carries
<1>2. /\ Len(s) \in Nat /\ Len(t) = Len(s) + 1 /\ t[Len(s) + 1] = i
      /\ \A k \in 1 .. Len(s) : t[k] = s[k]
  OBVIOUS
<1>3. up \in Nat /\ hi <= up /\ up = hi + Data(i)
  BY DEF Data
<1> DEFINE g == [k \in 0 .. Len(s) + 1 |-> IF k <= Len(s) THEN f[k] ELSE up]
<1>4. (\A k \in 0 .. Len(s) : g[k] = f[k]) /\ g[Len(s) + 1] = up
  BY <1>2
<1> HIDE DEF t, up, g
<1>5. g[0] = lo /\ g[Len(t)] = up
  BY <1>1, <1>2, <1>4
<1>6. ASSUME NEW k \in 0 .. Len(t) PROVE g[k] \in Nat /\ g[k] <= up
  <2>1. CASE k \in 0 .. Len(s)
    <3>1. g[k] = f[k] /\ f[k] \in Nat /\ f[k] <= hi
      BY <1>1, <1>4, <2>1
    <3> QED
      BY <1>3, <3>1
  <2>2. CASE k = Len(s) + 1
    BY <1>3, <1>4, <2>2
  <2> QED
    BY <1>2, <2>1, <2>2
<1>7. ASSUME NEW k \in 1 .. Len(t) PROVE g[k] = g[k - 1] + Data(t[k])
  <2>1. CASE k \in 1 .. Len(s)
    <3>1. k \in 0 .. Len(s) /\ k - 1 \in 0 .. Len(s)
      BY <1>2, <2>1
    <3>2. g[k] = f[k] /\ g[k - 1] = f[k - 1] /\ t[k] = s[k]
      BY <1>2, <1>4, <2>1, <3>1
    <3> QED
      BY <1>1, <2>1, <3>2
  <2>2. CASE k = Len(s) + 1
    <3>1. k - 1 = Len(s) /\ Len(s) \in 0 .. Len(s)
      BY <1>2, <2>2
    <3> QED
      BY <1>1, <1>2, <1>3, <1>4, <2>2, <3>1
  <2> QED
    BY <1>2, <2>1, <2>2
<1>8. Carries(t, lo, up)
  BY <1>5, <1>6, <1>7, Zenon DEF Carries
<1> QED
  BY <1>8 DEF t, up

\* A record less at the end of the incoming thread.
LEMMA CarriesLess ==
    ASSUME NEW s \in Seq(Int), s # << >>, NEW lo, NEW hi, Carries(s, lo, hi)
    PROVE  /\ lo + Data(Head(s)) \in Nat
           /\ Carries(Tail(s), lo + Data(Head(s)), hi)
<1> DEFINE t == Tail(s)
<1>1. PICK f : /\ f[0] = lo /\ f[Len(s)] = hi
               /\ \A k \in 0 .. Len(s) : f[k] \in Nat /\ f[k] <= hi
               /\ \A k \in 1 .. Len(s) : f[k] = f[k - 1] + Data(s[k])
  BY DEF Carries
<1>2. /\ Len(s) \in Nat \ {0} /\ Len(t) = Len(s) - 1 /\ Head(s) = s[1]
      /\ \A k \in 1 .. Len(s) - 1 : t[k] = s[k + 1]
  OBVIOUS
<1> DEFINE g == [k \in 0 .. Len(s) - 1 |-> f[k + 1]]
<1>3. \A k \in 0 .. Len(s) - 1 : g[k] = f[k + 1]
  OBVIOUS
<1> HIDE DEF t, g
<1>4. f[1] = lo + Data(Head(s)) /\ f[1] \in Nat
  <2>1. 1 \in 1 .. Len(s) /\ 1 \in 0 .. Len(s) /\ 1 - 1 = 0
    BY <1>2
  <2> QED
    BY <1>1, <1>2, <2>1
<1>5. g[0] = f[1] /\ g[Len(t)] = hi
  <2>1. 0 \in 0 .. Len(s) - 1 /\ Len(s) - 1 \in 0 .. Len(s) - 1 /\ (Len(s) - 1) + 1 = Len(s)
        /\ 0 + 1 = 1
    BY <1>2
  <2> QED
    BY <1>1, <1>2, <1>3, <2>1
<1>6. ASSUME NEW k \in 0 .. Len(t) PROVE g[k] \in Nat /\ g[k] <= hi
  <2>1. k \in 0 .. Len(s) - 1 /\ k + 1 \in 0 .. Len(s)
    BY <1>2
  <2>2. g[k] = f[k + 1] /\ f[k + 1] \in Nat /\ f[k + 1] <= hi
    BY <1>1, <1>3, <2>1
  <2> QED
    BY <2>2
<1>7. ASSUME NEW k \in 1 .. Len(t) PROVE g[k] = g[k - 1] + Data(t[k])
  <2>1. /\ k \in 0 .. Len(s) - 1 /\ k - 1 \in 0 .. Len(s) - 1 /\ k \in 1 .. Len(s) - 1
        /\ k + 1 \in 1 .. Len(s) /\ (k - 1) + 1 = k /\ (k + 1) - 1 = k
    BY <1>2
  <2>2. g[k] = f[k + 1] /\ g[k - 1] = f[(k - 1) + 1] /\ t[k] = s[k + 1]
    BY <1>2, <1>3, <2>1
  <2>3. f[k + 1] = f[(k + 1) - 1] + Data(s[k + 1])
    BY <1>1, <2>1
  <2> QED
    BY <2>1, <2>2, <2>3
<1>8. Carries(t, f[1], hi)
  BY <1>5, <1>6, <1>7, Zenon DEF Carries
<1> QED
  BY <1>4, <1>8 DEF t

\* The session still reads, and nothing has been lost for a reason of its own:
\* the connection was not reset, the socket not shut down, no record damaged.
Serving ==
    spc \in {"construct", "setup", "poll", "serve", "read", "reading", "creating", "joining"}
Undisturbed == exit = 0 /\ Serving /\ ~sockShut /\ peer # "rst" /\ ~spoilt

\* The peer has ended, and everything it sent was decrypted.
Over == peer # "open" /\ net = << >> /\ taken = sentBytes

SumInv ==
    \E n \in Nat : /\ taken <= n /\ (Undisturbed => taken = n)
                   /\ Carries(net, n, sentBytes)

\* The handshake comes first and once; application data waits for it.
HandshakeInv ==
    /\ items = 0 => net = << >> /\ ~hash
    /\ ~hash => sentBytes = 0 /\ Len(net) <= 1
    /\ \A k \in 1 .. Len(net) : net[k] = HS => ~hash
    /\ ipc \in {"badcert", "badcert2", "hsreply"} => ~hash /\ net = << >> /\ items > 0

\* A close_notify is the peer's last record.
NotifyInv == \A k \in 1 .. Len(net) : net[k] = NOTIFY => k = Len(net) /\ peer # "open"

StreamInv ==
    /\ net \in Seq(Int) /\ items \in Nat /\ sentBytes \in Nat /\ taken \in Nat
    /\ SumInv /\ HandshakeInv /\ NotifyInv

\* Who has the socket shut down, and when a client gets to read.
ShutInv ==
    /\ spc \in {"serve", "read", "reading"} /\ role # "server" => hash
    /\ exit = 0 /\ Serving /\ sockShut => ~hash /\ role = "https"
    /\ ipc \in {"badcert", "badcert2"} => ~Undisturbed

\* Whatever ends the stream of an undisturbed session comes after the last byte.
EndInv ==
    Undisturbed =>
        /\ \/ chanClosed \/ ~fdOpen \/ closed
           \/ ipc \in {"notify", "notified", "end", "ending", "done"}
           => Over
        /\ closed => written = taken /\ ipc \notin {"write", "writing"}

PathInv == StreamInv /\ ShutInv /\ EndInv

LEMMA InitPathInv == TInit => PathInv
<1> SUFFICES ASSUME TInit PROVE PathInv
  OBVIOUS
<1>1. /\ net = << >> /\ items = 0 /\ sentBytes = 0 /\ taken = 0 /\ hash = FALSE
      /\ ipc = "none" /\ spc \in {"construct", "setup"} /\ sockShut = FALSE /\ chanClosed = FALSE
      /\ fdOpen = TRUE /\ closed = FALSE
  BY DEF TInit, Init
<1>2. SumInv
  <2>1. 0 \in Nat /\ Carries(net, 0, sentBytes)
    BY <1>1, CarriesNothing
  <2> QED
    BY <1>1, <2>1 DEF SumInv
<1>3. StreamInv
  BY <1>1, <1>2 DEF StreamInv, HandshakeInv, NotifyInv
<1>4. ShutInv /\ EndInv
  BY <1>1 DEF ShutInv, EndInv
<1> QED
  BY <1>3, <1>4 DEF PathInv

\* A session that was disturbed once remains so.
LEMMA StaysUndisturbed ==
    ASSUME TNext, Undisturbed' PROVE Undisturbed
<1>1. exit = 0
  BY StepIsAlive
<1>2. Serving' => Serving
  BY DEF Serving, TNext, Incoming, Session, InRingBuffer, Peer, Cleanup, LoopTop, RecvEnd,
     RecvData, RecvHandshake, Receive, BadCertClose, BadCertAbort, HandshakeReply,
     RecvNotify, NotifyClose, NotifyReply, RecvFatal, RecvBad, WriteCall,
     WriteResult, LoopEnd, ThreadReturns, Setup, Poll, Ask, ReadCall, ReadResult,
     FailClose, FailExit, Send, Quit, Leave, CleanupRing, CleanupChannel,
     CleanupShutdown, CleanupJoin, PeerSends, PeerLeaves, Construct, StartHook, EndHook,
     JoinHook, Sampler, Sample, Publish, PublishSends, SamplerGoes, SessionGoes,
     sessionVars
<1>3. /\ ~sockShut' => ~sockShut
      /\ ~spoilt' => ~spoilt
      /\ peer' # "rst" => peer # "rst"
  <2>1. CASE RecvFatal \/ RecvBad
    <3>1. spoilt' = TRUE /\ UNCHANGED <<sockShut, peer>>
      BY <2>1 DEF RecvFatal, RecvBad, Receive, LibraryThrows, socketVars
    <3> QED
      BY <3>1
  <2>2. CASE RecvHandshake \/ CleanupShutdown \/ Leave
    <3>1. /\ UNCHANGED <<spoilt, peer>>
          /\ sockShut' = sockShut \/ sockShut' = (sockShut \/ fdOpen)
      BY <2>2 DEF RecvHandshake, Receive, LibraryThrows, CleanupShutdown, Leave,
                  channelVars,
                  socketVars, peerVars
    <3>2. ~sockShut' => ~sockShut
      BY <3>1, Zenon
    <3> QED
      BY <3>1, <3>2
  <2>3. CASE (\E n \in PeerItems : RecvData(n)) \/ RecvNotify
    BY <2>3 DEF RecvData, RecvNotify, Receive, LibraryThrows, channelVars, socketVars
  <2>4. CASE \/ LoopTop \/ RecvEnd \/ BadCertClose \/ BadCertAbort \/ HandshakeReply
             \/ NotifyClose \/ NotifyReply \/ WriteCall \/ WriteResult \/ LoopEnd
             \/ ThreadReturns
    <3>1. UNCHANGED <<sockShut, spoilt, peer>>
      BY <2>4
      DEF LoopTop, RecvEnd, BadCertClose, BadCertAbort, HandshakeReply, NotifyClose,
          NotifyReply, WriteCall, WriteResult, LoopEnd, ThreadReturns, channelVars,
          socketVars, peerVars
    <3> QED
      BY <3>1
  <2>5. CASE \/ Setup \/ Poll \/ (\E n \in ReadSizes : Ask(n)) \/ ReadCall \/ ReadResult
             \/ FailClose \/ FailExit \/ Send \/ Quit \/ CleanupRing \/ CleanupChannel
             \/ CleanupJoin \/ Construct \/ StartHook \/ EndHook \/ JoinHook
    <3>1. UNCHANGED <<sockShut, spoilt, peer>>
      BY <2>5
      DEF Construct, StartHook, EndHook, JoinHook, Setup, Poll, Ask, ReadCall,
          ReadResult, FailClose, FailExit, Send, Quit,
          CleanupRing, CleanupChannel, CleanupJoin, channelVars, socketVars, peerVars
    <3> QED
      BY <3>1
  <2>6. CASE InRingBuffer \/ Peer
    BY <2>6 DEF InRingBuffer, Peer, PeerSends, PeerLeaves, channelVars, socketVars,
                peerVars
  <2>7. CASE Sampler
    <3>1. /\ UNCHANGED <<sockShut, peer>>
          /\ spoilt' = spoilt \/ \E ok \in BOOLEAN : spoilt' = (spoilt \/ ~ok)
      BY <2>7 DEF Sampler, Sample, Publish, PublishSends, SamplerGoes, peerVars
    <3>2. ~spoilt' => ~spoilt
      BY <3>1, Zenon
    <3> QED
      BY <3>1, <3>2
  <2> QED
    BY <2>1, <2>2, <2>3, <2>4, <2>5, <2>6, <2>7 DEF TNext, Incoming, Session, Cleanup
<1> QED
  BY <1>1, <1>2, <1>3 DEF Undisturbed

\* A record less under way.
LEMMA ReceiveStream ==
    ASSUME StreamInv, NEW i, Receive(i), taken' \in {taken, taken + Data(i)},
           Undisturbed' => Undisturbed /\ taken' = taken + Data(i)
    PROVE  /\ net # << >> /\ net' \in Seq(Int) /\ taken' \in Nat /\ SumInv' /\ NotifyInv'
           /\ Len(net') = Len(net) - 1 /\ net[1] = i
           /\ \A k \in 1 .. Len(net') : net'[k] = net[k + 1]
<1>1. /\ net \in Seq(Int) /\ net # << >> /\ i = Head(net) /\ net' = Tail(net)
      /\ UNCHANGED <<peer, items, sentBytes>>
  BY DEF StreamInv, Receive
<1>2. /\ i \in Int /\ net[1] = i /\ net' \in Seq(Int)
      /\ Len(net) \in Nat \ {0} /\ Len(net') = Len(net) - 1
      /\ \A k \in 1 .. Len(net') : net'[k] = net[k + 1]
  BY <1>1
<1>3. Data(i) \in Nat /\ taken \in Nat
  BY <1>2 DEF Data, StreamInv
<1>4. SumInv'
  <2>1. PICK n \in Nat : /\ taken <= n /\ (Undisturbed => taken = n)
                         /\ Carries(net, n, sentBytes)
    BY DEF StreamInv, SumInv
  <2>2. n + Data(i) \in Nat /\ Carries(net', n + Data(i), sentBytes')
    BY <1>1, <2>1, CarriesLess
  <2>3. taken' <= n + Data(i) /\ (Undisturbed' => taken' = n + Data(i))
    BY <1>3, <2>1
  <2> QED
    BY <2>2, <2>3 DEF SumInv
<1>5. NotifyInv'
  <2> SUFFICES ASSUME NEW k \in 1 .. Len(net'), net'[k] = NOTIFY'
               PROVE  k = Len(net') /\ peer' # "open"
    BY DEF NotifyInv
  <2>1. k + 1 \in 1 .. Len(net) /\ net[k + 1] = NOTIFY
    BY <1>2 DEF NOTIFY
  <2>2. k + 1 = Len(net) /\ peer # "open"
    BY <2>1 DEF StreamInv, NotifyInv
  <2>3. Len(net) \in Nat \ {0} /\ Len(net') = Len(net) - 1 /\ k \in Nat
    BY <1>2
  <2>4. k = Len(net')
    BY <2>2, <2>3
  <2>5. peer' = peer
    BY <1>1
  <2> QED
    BY <2>2, <2>4, <2>5
<1> QED
  BY <1>1, <1>2, <1>3, <1>4, <1>5

\* The peer is not concerned, or has left.
LEMMA RestStream ==
    ASSUME StreamInv, UNCHANGED <<net, items, sentBytes, taken, hash>>,
           Undisturbed' => Undisturbed, peer # "open" => peer' # "open",
           \/ ipc' = ipc \/ ipc' \notin {"badcert", "badcert2", "hsreply"}
           \/ ipc \in {"badcert", "badcert2"}
    PROVE  StreamInv'
<1>1. SumInv'
  BY DEF StreamInv, SumInv
<1>2. HandshakeInv' /\ NotifyInv'
  BY DEF StreamInv, HandshakeInv, NotifyInv, HS, NOTIFY
<1> QED
  BY <1>1, <1>2 DEF StreamInv

\* The records under way and the order of the handshake, through every step.
LEMMA StreamStep ==
    ASSUME PathInv, TNext PROVE StreamInv'
<1>0. /\ StreamInv /\ HandshakeInv /\ NotifyInv
      /\ net \in Seq(Int) /\ items \in Nat /\ sentBytes \in Nat /\ taken \in Nat
      /\ Undisturbed' => Undisturbed
  BY StaysUndisturbed DEF PathInv, StreamInv
<1>1. ASSUME NEW n \in PeerItems, RecvData(n) PROVE StreamInv'
  <2>1. Receive(n) /\ n > 0 /\ n \in Int
    BY <1>1, RecordsAssumption DEF RecvData
  <2>2. net # << >> /\ UNCHANGED <<items, sentBytes, hash>>
        /\ ipc' \notin {"badcert", "badcert2", "hsreply"}
    BY <1>1 DEF RecvData, Receive, LibraryThrows, IncomingGoes
  <2>3. Data(n) = n
    BY <2>1 DEF Data
  <2>4. taken' \in {taken, taken + Data(n)}
    BY <1>1, <2>3 DEF RecvData, LibraryThrows
  <2>5. Undisturbed' => Undisturbed /\ taken' = taken + Data(n)
    <3>1. Undisturbed => ~chanClosed
      BY <2>2 DEF PathInv, EndInv, Over
    <3> QED
      BY <1>0, <1>1, <2>3, <3>1 DEF RecvData
  <2>6. /\ net' \in Seq(Int) /\ taken' \in Nat /\ SumInv' /\ NotifyInv'
        /\ Len(net') = Len(net) - 1 /\ Len(net') \in Nat
        /\ \A k \in 1 .. Len(net') : net'[k] = net[k + 1]
    BY <1>0, <2>1, <2>4, <2>5, ReceiveStream
  <2>7. HandshakeInv'
    <3>1. items # 0
      BY <1>0, <2>2 DEF HandshakeInv
    <3>2. \A k \in 1 .. Len(net') : net'[k] = HS => ~hash
      BY <1>0, <2>6 DEF HandshakeInv
    <3> QED
      BY <1>0, <2>2, <2>6, <3>1, <3>2 DEF HandshakeInv, HS
  <2> QED
    BY <1>0, <2>2, <2>6, <2>7 DEF StreamInv
<1>2. ASSUME NEW i \in {HS, NOTIFY, FATAL, BAD}, Receive(i), taken' = taken, hash' = hash,
             ipc' \in {"badcert", "hsreply"} => i = HS, ipc' # "badcert2"
      PROVE  StreamInv'
  <2>1. Data(i) = 0 /\ taken' = taken + Data(i)
    BY <1>0, <1>2 DEF Data, HS, NOTIFY, FATAL, BAD
  <2>2. /\ net # << >> /\ net' \in Seq(Int) /\ SumInv' /\ NotifyInv'
        /\ Len(net') = Len(net) - 1 /\ Len(net') \in Nat /\ net[1] = i
        /\ \A k \in 1 .. Len(net') : net'[k] = net[k + 1]
    BY <1>0, <1>2, <2>1, ReceiveStream
  <2>3. UNCHANGED <<items, sentBytes>>
    BY <1>2 DEF Receive
  <2>4. HandshakeInv'
    <3>1. items # 0
      BY <1>0, <2>2 DEF HandshakeInv
    <3>2. ASSUME NEW k \in 1 .. Len(net'), net'[k] = HS PROVE ~hash
      <4>1. k + 1 \in 1 .. Len(net) /\ net[k + 1] = HS
        BY <2>2, <3>2
      <4> QED
        BY <1>0, <4>1 DEF HandshakeInv
    <3>3. i = HS => ~hash /\ net' = << >>
      <4> SUFFICES ASSUME i = HS PROVE ~hash /\ net' = << >>
        OBVIOUS
      <4>1. 1 \in 1 .. Len(net) /\ net[1] = HS
        BY <1>0, <2>2
      <4>2. ~hash
        BY <1>0, <4>1 DEF HandshakeInv
      <4>3. Len(net') = 0
        BY <1>0, <2>2, <4>2 DEF HandshakeInv
      <4> QED
        BY <2>2, <4>2, <4>3
    <3> QED
      BY <1>0, <1>2, <2>2, <2>3, <3>1, <3>2, <3>3 DEF HandshakeInv, HS
  <2> QED
    BY <1>0, <1>2, <2>2, <2>3, <2>4 DEF StreamInv
<1>3. CASE RecvHandshake
  BY <1>2, <1>3
  DEF RecvHandshake, LibraryThrows, IncomingGoes, channelVars
<1>4. CASE RecvNotify
  BY <1>2, <1>4 DEF RecvNotify, IncomingGoes, channelVars
<1>5. CASE RecvFatal \/ RecvBad
  BY <1>2, <1>5 DEF RecvFatal, RecvBad, LibraryThrows, IncomingGoes
<1>6. CASE HandshakeReply
  <2>1. /\ ipc = "hsreply" /\ ipc' \in {"loop", "end"}
        /\ UNCHANGED <<net, items, sentBytes, taken, peer>>
    BY <1>6 DEF HandshakeReply, peerVars
  <2>2. net = << >> /\ items > 0 /\ sentBytes = 0
    BY <1>0, <2>1 DEF HandshakeInv
  <2>3. HandshakeInv' /\ NotifyInv'
    BY <1>0, <2>1, <2>2 DEF HandshakeInv, NotifyInv, HS, NOTIFY
  <2>4. SumInv'
    BY <1>0, <2>1 DEF StreamInv, SumInv
  <2> QED
    BY <1>0, <2>1, <2>3, <2>4 DEF StreamInv
<1>7. ASSUME NEW i \in PeerItems \cup {HS}, PeerSends(i) PROVE StreamInv'
  <2>1. /\ i \in Int /\ net' = Append(net, i) /\ items' = items + 1 /\ peer = "open"
        /\ peer' = (IF i = NOTIFY THEN "notified" ELSE "open")
        /\ IF items = 0 THEN i = HS ELSE i # HS /\ hash
        /\ sentBytes' = sentBytes + Data(i) /\ UNCHANGED <<taken, hash, ipc>>
    BY <1>0, <1>7, RecordsAssumption
    DEF PeerSends, HS, Data, channelVars, incomingVars, threadVars
  <2>2. /\ net' \in Seq(Int) /\ Len(net) \in Nat /\ Len(net') = Len(net) + 1
        /\ net'[Len(net) + 1] = i /\ \A k \in 1 .. Len(net) : net'[k] = net[k]
    BY <1>0, <2>1
  <2>3. sentBytes' \in Nat
    BY <1>0, <2>1 DEF Data
  <2>4. SumInv'
    <3>1. PICK n \in Nat : /\ taken <= n /\ (Undisturbed => taken = n)
                           /\ Carries(net, n, sentBytes)
      BY <1>0 DEF StreamInv, SumInv
    <3>2. Carries(net', n, sentBytes')
      BY <1>0, <2>1, <3>1, CarriesMore
    <3> QED
      BY <1>0, <2>1, <3>1, <3>2 DEF SumInv
  <2>5. NotifyInv'
    <3> SUFFICES ASSUME NEW k \in 1 .. Len(net'), net'[k] = NOTIFY'
                 PROVE  k = Len(net') /\ peer' # "open"
      BY DEF NotifyInv
    <3>1. CASE k = Len(net) + 1
      BY <2>1, <2>2, <3>1 DEF NOTIFY
    <3>2. CASE k \in 1 .. Len(net)
      BY <1>0, <2>1, <2>2, <3>2 DEF NotifyInv, NOTIFY
    <3> QED
      BY <2>2, <3>1, <3>2
  <2>6. HandshakeInv'
    <3>1. items' # 0
      BY <1>0, <2>1
    <3>2. ~hash => sentBytes' = 0 /\ Len(net') <= 1
      BY <1>0, <2>1, <2>2 DEF HandshakeInv, Data, HS
    <3>3. ASSUME NEW k \in 1 .. Len(net'), net'[k] = HS PROVE ~hash
      <4>1. CASE k = Len(net) + 1
        BY <1>0, <2>1, <2>2, <3>3, <4>1 DEF HandshakeInv
      <4>2. CASE k \in 1 .. Len(net)
        BY <1>0, <2>2, <3>3, <4>2 DEF HandshakeInv
      <4> QED
        BY <2>2, <4>1, <4>2
    <3>4. ipc \notin {"badcert", "badcert2", "hsreply"}
      BY <1>0, <2>1 DEF HandshakeInv
    <3> QED
      BY <2>1, <3>1, <3>2, <3>3, <3>4 DEF HandshakeInv, HS
  <2> QED
    BY <1>0, <2>1, <2>2, <2>3, <2>4, <2>5, <2>6 DEF StreamInv
<1>8. CASE \/ LoopTop \/ RecvEnd \/ BadCertClose \/ BadCertAbort \/ NotifyClose
           \/ NotifyReply \/ WriteCall \/ WriteResult \/ LoopEnd \/ ThreadReturns
  <2>1. /\ UNCHANGED <<net, items, sentBytes, taken, hash, peer>>
        /\ \/ ipc' = ipc \/ ipc' \notin {"badcert", "badcert2", "hsreply"}
           \/ ipc \in {"badcert", "badcert2"}
    BY <1>8
    DEF LoopTop, RecvEnd, BadCertClose, BadCertAbort, NotifyClose, NotifyReply, WriteCall,
        WriteResult, LoopEnd, ThreadReturns, IncomingGoes, channelVars, peerVars
  <2> QED
    BY <1>0, <2>1, RestStream
<1>9. CASE \/ Setup \/ Poll \/ (\E n \in ReadSizes : Ask(n)) \/ ReadCall \/ ReadResult
           \/ FailClose \/ FailExit \/ Send \/ Quit \/ Leave \/ Cleanup
           \/ Construct \/ StartHook \/ EndHook \/ JoinHook \/ Sampler
  <2>1. /\ UNCHANGED <<net, items, sentBytes, taken, hash, peer>>
        /\ ipc' = ipc \/ ipc' \notin {"badcert", "badcert2", "hsreply"}
    BY <1>9
    DEF Construct, StartHook, EndHook, JoinHook, Sampler, Sample, Publish, PublishSends,
        SamplerGoes, Setup, Poll, Ask, ReadCall, ReadResult, FailClose, FailExit, Send,
        Quit, Leave,
        Cleanup, CleanupRing, CleanupChannel, CleanupShutdown, CleanupJoin, incomingVars,
        threadVars,
        channelVars, peerVars
  <2> QED
    BY <1>0, <2>1, RestStream
<1>10. CASE InRingBuffer \/ \E how \in PeerEnds : PeerLeaves(how)
  <2>1. /\ UNCHANGED <<net, items, sentBytes, taken, hash, ipc>>
        /\ peer # "open" => peer' # "open"
    BY <1>10, PeerEndsAssumption
    DEF InRingBuffer, PeerLeaves, incomingVars, threadVars, channelVars, peerVars
  <2> QED
    BY <1>0, <2>1, RestStream
<1> QED
  BY <1>1, <1>3, <1>4, <1>5, <1>6, <1>7, <1>8, <1>9, <1>10
  DEF TNext, Incoming, Session, Peer


LEMMA ShutStep ==
    ASSUME SamplerInv, PathInv, TNext PROVE ShutInv'
<1>0. /\ SamplerInv /\ HandshakeInv /\ ShutInv /\ EndInv /\ net \in Seq(Int)
      /\ Undisturbed' => Undisturbed
  BY StaysUndisturbed DEF PathInv, StreamInv
<1>1. exit = 0
  BY StepIsAlive
<1>2. CASE RecvHandshake
  <2>1. /\ net # << >> /\ Head(net) = HS /\ UNCHANGED <<role, spc, sampler, hash, exit>>
        /\ \/ ipc' \notin {"badcert", "badcert2"} /\ sockShut' = sockShut
           \/ role = "https" /\ sockShut' = (sockShut \/ fdOpen)
    BY <1>2
    DEF RecvHandshake, Receive, LibraryThrows, IncomingGoes, sessionVars, channelVars,
        socketVars, rbVars
  <2>2. ~hash
    <3>1. 1 \in 1 .. Len(net) /\ net[1] = HS
      BY <1>0, <2>1
    <3> QED
      BY <1>0, <3>1 DEF HandshakeInv
  <2>3. Undisturbed => fdOpen
    BY <1>0, <2>1 DEF EndInv, Over
  <2>4. CASE ipc' \notin {"badcert", "badcert2"} /\ sockShut' = sockShut
    BY <1>0, <1>1, <2>1, <2>2, <2>4 DEF ShutInv, Serving
  <2>5. CASE role = "https" /\ sockShut' = (sockShut \/ fdOpen)
    <3>1. ~Undisturbed'
      <4>1. fdOpen => sockShut'
        BY <2>5, Zenon
      <4> QED
        BY <1>0, <2>3, <4>1 DEF Undisturbed
    <3> QED
      BY <1>0, <1>1, <2>1, <2>2, <2>5, <3>1 DEF ShutInv, Serving
  <2> QED
    BY <2>1, <2>4, <2>5
<1>3. CASE HandshakeReply
  <2>1. PICK ok \in BOOLEAN : Emit(ok) /\ hash' = (hash \/ ok)
    BY <1>3 DEF HandshakeReply
  <2>2. /\ UNCHANGED <<role, spc, sampler, sockShut>> /\ ipc' \notin {"badcert", "badcert2"}
    BY <1>3 DEF HandshakeReply, sessionVars
  <2>3. hash => hash'
    BY <2>1, Zenon
  <2>4. sockShut /\ hash' => hash
    <3>1. sockShut => ok = FALSE
      BY <2>1 DEF Emit, EmitOutcomes
    <3>2. ok = FALSE /\ hash' => hash
      BY <2>1, Zenon
    <3> QED
      BY <3>1, <3>2
  <2> QED
    BY <1>0, <1>1, <2>2, <2>3, <2>4 DEF ShutInv, Serving
<1>4. CASE Construct \/ Setup \/ Poll
  BY <1>0, <1>1, <1>4
  DEF Construct, Setup, Poll, SessionGoes, ShutInv, Serving, channelVars, socketVars,
      incomingVars, threadVars
<1>5. CASE CleanupShutdown \/ Leave
  <2>1. /\ ~Serving' /\ UNCHANGED ipc /\ spc' \in {"destroy", "join"}
    BY <1>5 DEF CleanupShutdown, Leave, SessionGoes, Serving, incomingVars, threadVars
  <2> QED
    BY <1>0, <2>1 DEF ShutInv, Undisturbed
<1>6. CASE \/ (\E n \in ReadSizes : Ask(n)) \/ ReadCall \/ ReadResult \/ FailClose
           \/ FailExit \/ Send \/ Quit \/ CleanupRing \/ CleanupChannel \/ CleanupJoin
           \/ StartHook \/ EndHook \/ JoinHook \/ Sampler
  <2>1. /\ UNCHANGED <<role, hash, sockShut, ipc>>
        /\ \/ spc' \in {"serve", "read", "reading"} => spc \in {"serve", "read", "reading"}
           \/ role = "server"
        /\ Serving' => Serving
    BY <1>0, <1>6
    DEF StartHook, EndHook, JoinHook, Sampler, Sample, Publish, PublishSends, SamplerGoes,
        SamplerInv, sessionVars, Ask, ReadCall, ReadResult, FailClose, FailExit, Send,
        Quit, CleanupRing,
        CleanupChannel, CleanupJoin, SessionGoes, channelVars, socketVars, incomingVars,
        threadVars,
        Serving
  <2> QED
    BY <1>0, <1>1, <2>1 DEF ShutInv
<1>7. CASE \/ LoopTop \/ RecvEnd \/ (\E n \in PeerItems : RecvData(n)) \/ BadCertClose
           \/ BadCertAbort \/ RecvNotify \/ NotifyClose \/ NotifyReply \/ RecvFatal
           \/ RecvBad \/ WriteCall \/ WriteResult \/ LoopEnd \/ ThreadReturns
  <2>1. /\ UNCHANGED <<role, spc, sampler, hash, sockShut>>
        /\ ipc' \in {"badcert", "badcert2"} => ipc \in {"badcert", "badcert2"}
    BY <1>7
    DEF LoopTop, RecvEnd, RecvData, Receive, LibraryThrows, BadCertClose, BadCertAbort,
        RecvNotify, NotifyClose, NotifyReply, RecvFatal, RecvBad, WriteCall, WriteResult,
        LoopEnd, ThreadReturns, IncomingGoes, sessionVars, channelVars, socketVars
  <2> QED
    BY <1>0, <1>1, <2>1 DEF ShutInv, Serving
<1>8. CASE InRingBuffer \/ Peer
  <2>1. UNCHANGED <<role, spc, sampler, hash, sockShut, ipc>>
    BY <1>8 DEF InRingBuffer, Peer, PeerSends, PeerLeaves, sessionVars, channelVars,
                socketVars, incomingVars, threadVars
  <2> QED
    BY <1>0, <1>1, <2>1 DEF ShutInv, Serving
<1> QED
  BY <1>2, <1>3, <1>4, <1>5, <1>6, <1>7, <1>8 DEF TNext, Incoming, Session, Cleanup

\* Nothing under way: everything sent was decrypted.
LEMMA NothingUnderWay ==
    ASSUME StreamInv, Undisturbed, net = << >> PROVE taken = sentBytes
<1>1. PICK n \in Nat : (Undisturbed => taken = n) /\ Carries(net, n, sentBytes)
  BY DEF StreamInv, SumInv
<1>2. n = sentBytes
  BY <1>1, CarriesNothing
<1> QED
  BY <1>1, <1>2

\* A step that touches neither side of what EndInv relates.
LEMMA RestEnd ==
    ASSUME EndInv, Undisturbed' => Undisturbed,
           UNCHANGED <<chanClosed, fdOpen, closed, written, net, taken, sentBytes>>,
           peer # "open" => peer' # "open",
           \/ ipc' = ipc
           \/ ipc' \notin {"notify", "notified", "end", "ending", "done", "write", "writing"}
    PROVE  EndInv'
BY DEF EndInv, Over

\* The incoming thread that has decrypted the last byte closes the buffer.
LEMMA CloseEnd ==
    ASSUME SessionInv, EndInv, Undisturbed' => Undisturbed, NEW b, CloseCas(Writer, b),
           ipc \in {"notify", "end"}, ipc' \in {"notified", "ending"},
           UNCHANGED <<net, taken, sentBytes, peer>>
    PROVE  EndInv'
<1> SUFFICES ASSUME Undisturbed PROVE EndInv'
  BY DEF EndInv
<1>1. Over
  BY DEF EndInv
<1>2. written = taken
  <2>1. CASE closed
    BY <2>1 DEF EndInv
  <2>2. CASE ~closed
    <3>1. written + 0 = taken /\ written \in Nat
      BY <2>2 DEF SessionInv, NothingSkipped, Pending, Undisturbed, IInv, TypeOK
    <3> QED
      BY <3>1
  <2> QED
    BY <2>1, <2>2
<1>3. written' = written
  BY DEF CloseCas, history
<1> QED
  BY <1>1, <1>2, <1>3 DEF EndInv, Over

LEMMA EndStep ==
    ASSUME SessionInv, PathInv, StreamInv', TNext PROVE EndInv'
<1>0. /\ StreamInv /\ HandshakeInv /\ NotifyInv /\ ShutInv /\ EndInv
      /\ net \in Seq(Int)
      /\ Undisturbed' => Undisturbed
  BY StaysUndisturbed DEF PathInv, StreamInv
<1>1. exit = 0 /\ IInv
  BY StepIsAlive DEF SessionInv
<1>2. CASE LoopTop
  BY <1>0, <1>2
  DEF LoopTop, EndInv, Over, IncomingGoes, rbVars, channelVars, socketVars, peerVars
<1>3. CASE RecvEnd
  <2> SUFFICES ASSUME Undisturbed', Undisturbed PROVE EndInv'
    BY <1>0 DEF EndInv
  <2>1. /\ net = << >> /\ peer = "fin" /\ ipc' = "end"
        /\ UNCHANGED <<net, peer, taken, sentBytes, closed, written>>
    BY <1>3 DEF RecvEnd, Undisturbed, IncomingGoes, rbVars, channelVars, peerVars
  <2>2. Over'
    BY <1>0, <2>1, NothingUnderWay DEF Over
  <2> QED
    BY <1>0, <2>1, <2>2 DEF EndInv
<1>4. ASSUME NEW i, Receive(i) PROVE Undisturbed => ~chanClosed /\ fdOpen /\ ~closed
  BY <1>0, <1>4 DEF Receive, EndInv, Over
<1>5. CASE \E n \in PeerItems : RecvData(n)
  <2> SUFFICES ASSUME Undisturbed', Undisturbed PROVE EndInv'
    BY <1>0 DEF EndInv
  <2>1. /\ ~chanClosed' /\ fdOpen' /\ ~closed' /\ ipc' = "write"
    BY <1>4, <1>5 DEF RecvData, Receive, rbVars, socketVars
  <2> QED
    BY <2>1 DEF EndInv
<1>6. CASE RecvHandshake
  <2> SUFFICES ASSUME Undisturbed', Undisturbed PROVE EndInv'
    BY <1>0 DEF EndInv
  <2>1. ~chanClosed' /\ fdOpen' /\ ~closed' /\ ipc' \in {"hsreply", "badcert"}
    BY <1>4, <1>6
    DEF RecvHandshake, Receive, IncomingGoes, rbVars, channelVars, socketVars
  <2> QED
    BY <2>1 DEF EndInv
<1>7. CASE BadCertClose \/ BadCertAbort
  <2>1. ~Undisturbed
    BY <1>0, <1>7 DEF BadCertClose, BadCertAbort, ShutInv
  <2> QED
    BY <1>0, <2>1 DEF EndInv
<1>8. CASE HandshakeReply
  <2> SUFFICES ASSUME Undisturbed', Undisturbed PROVE EndInv'
    BY <1>0 DEF EndInv
  <2>1. PICK ok \in BOOLEAN : /\ Emit(ok) /\ ipc' = (IF ok THEN "loop" ELSE "end")
                              /\ chanClosed' = (chanClosed \/ ~ok)
    BY <1>8 DEF HandshakeReply
  <2>2. /\ net = << >>
        /\ UNCHANGED <<net, peer, taken, sentBytes, closed, written>>
    BY <1>0, <1>8 DEF HandshakeReply, HandshakeInv, shared, history, peerVars
  <2>3. CASE ok
    <3>1. ipc' = "loop" /\ (chanClosed' => chanClosed) /\ (~fdOpen' => ~fdOpen)
      <4>1. chanClosed' => chanClosed
        BY <2>1, <2>3, Zenon
      <4>2. ~fdOpen' => ~fdOpen
        BY <2>1, <2>3, Zenon DEF Emit
      <4> QED
        BY <2>1, <2>3, <4>1, <4>2
    <3> QED
      BY <1>0, <2>2, <3>1 DEF EndInv, Over
  <2>4. CASE ~ok
    <3>1. ~fdOpen \/ peer = "fin"
      BY <2>1, <2>4 DEF Emit, EmitOutcomes, Undisturbed
    <3>2. Over
      BY <1>0, <2>2, <3>1, NothingUnderWay DEF EndInv, Over
    <3> QED
      BY <1>0, <2>1, <2>2, <2>4, <3>2 DEF EndInv, Over
  <2> QED
    BY <2>3, <2>4
<1>9. CASE RecvNotify
  <2> SUFFICES ASSUME Undisturbed', Undisturbed PROVE EndInv'
    BY <1>0 DEF EndInv
  <2>1. /\ net # << >> /\ Head(net) = NOTIFY /\ net' = Tail(net) /\ peer' = peer
        /\ ipc' = "notify" /\ Receive(NOTIFY) /\ closed' = closed
    BY <1>9 DEF RecvNotify, Receive, IncomingGoes, rbVars
  <2>2. Len(net) = 1 /\ peer # "open"
    <3>1. 1 \in 1 .. Len(net) /\ net[1] = NOTIFY
      BY <1>0, <2>1
    <3> QED
      BY <1>0, <3>1 DEF NotifyInv
  <2>3. net' = << >>
    BY <1>0, <2>1, <2>2
  <2>4. taken' = sentBytes'
    <3>1. PICK n \in Nat : (Undisturbed' => taken' = n) /\ Carries(net', n, sentBytes')
      BY DEF StreamInv, SumInv
    <3> QED
      BY <2>3, <3>1, CarriesNothing
  <2> QED
    BY <1>4, <2>1, <2>2, <2>3, <2>4 DEF EndInv, Over
<1>10. CASE NotifyClose \/ LoopEnd
  BY <1>0, <1>10, CloseEnd
  DEF NotifyClose, LoopEnd, IncomingGoes, channelVars, peerVars
<1>11. CASE NotifyReply
  <2>1. /\ ipc = "notified" /\ ipc' = "loop"
        /\ UNCHANGED <<net, peer, taken, sentBytes, closed, written>>
    BY <1>11 DEF NotifyReply, IncomingGoes, rbVars, peerVars
  <2> QED
    BY <1>0, <2>1 DEF EndInv, Over
<1>12. CASE RecvFatal \/ RecvBad
  BY <1>12 DEF RecvFatal, RecvBad, EndInv, Undisturbed
<1>13. CASE WriteCall
  <2>1. /\ ipc = "write" /\ ipc' = "writing" /\ closed' = closed
        /\ UNCHANGED <<chanClosed, fdOpen, net, peer, taken, sentBytes>>
    BY <1>13
    DEF WriteCall, WriteClosed, WriteOpen, IncomingGoes, shared, channelVars, socketVars,
        peerVars
  <2> QED
    BY <1>0, <2>1 DEF EndInv, Over
<1>14. CASE WriteResult
  <2>1. /\ ipc = "writing" /\ ipc' \in {"loop", "write", "writing"}
        /\ UNCHANGED <<chanClosed, fdOpen, net, peer, taken, sentBytes, closed, written>>
    BY <1>14 DEF WriteResult, shared, history, channelVars, socketVars, peerVars
  <2> QED
    BY <1>0, <2>1 DEF EndInv, Over
<1>15. CASE ThreadReturns
  <2>1. /\ ipc = "ending" /\ ipc' = "done"
        /\ UNCHANGED <<chanClosed, fdOpen, net, peer, taken, sentBytes, closed, written>>
    BY <1>15 DEF ThreadReturns, IncomingGoes, rbVars, channelVars, socketVars, peerVars
  <2> QED
    BY <1>0, <2>1 DEF EndInv, Over
<1>16. CASE \/ Setup \/ Poll \/ (\E n \in ReadSizes : Ask(n)) \/ ReadResult \/ FailExit
            \/ Quit \/ StartHook \/ EndHook \/ JoinHook \/ Sample \/ Publish
  <2>1. /\ UNCHANGED <<chanClosed, fdOpen, net, peer, taken, sentBytes, closed, written>>
        /\ ipc' = ipc \/ ipc' = "loop"
    BY <1>16
    DEF Setup, Poll, Ask, ReadResult, FailExit, Quit, StartHook, EndHook, JoinHook,
        Sample,
        Publish, SamplerGoes, incomingVars, threadVars, rbVars, shared, history,
        channelVars, socketVars, peerVars
  <2> QED
    BY <1>0, <2>1, RestEnd
<1>17. CASE \/ FailClose \/ CleanupRing \/ CleanupChannel \/ CleanupShutdown \/ CleanupJoin
            \/ Leave
  <2>1. ~Serving'
    BY <1>17 DEF FailClose, CleanupRing, CleanupChannel, CleanupShutdown, CleanupJoin,
                Leave,
                 SessionGoes, Serving
  <2> QED
    BY <2>1 DEF EndInv, Undisturbed
<1>23. CASE Construct
  <2>1. UNCHANGED <<chanClosed, net, peer, taken, sentBytes, closed, written, ipc>>
    BY <1>23 DEF Construct, rbVars, incomingVars, threadVars, channelVars, peerVars
  <2>2. PICK ok \in BOOLEAN : Emit(ok) /\ SessionGoes(IF ok THEN "setup" ELSE "done")
    BY <1>23 DEF Construct
  <2>3. CASE ok
    <3>1. fdOpen <=> fdOpen'
      BY <2>2, <2>3, Zenon DEF Emit
    <3> QED
      BY <1>0, <2>1, <3>1 DEF EndInv, Over, Undisturbed
  <2>4. CASE ~ok
    BY <2>2, <2>4 DEF SessionGoes, Serving, EndInv, Undisturbed
  <2> QED
    BY <2>3, <2>4
<1>24. CASE PublishSends
  <2>1. UNCHANGED <<chanClosed, net, peer, taken, sentBytes, closed, written, ipc>>
    BY <1>24 DEF PublishSends, SamplerGoes, shared, history, incomingVars, peerVars
  <2>2. Undisturbed' => (fdOpen <=> fdOpen')
    <3>1. ASSUME NEW ok \in BOOLEAN, Emit(ok), spoilt' = (spoilt \/ ~ok)
          PROVE  Undisturbed' => (fdOpen <=> fdOpen')
      <4>1. CASE ok
        BY <3>1, <4>1, Zenon DEF Emit
      <4>2. CASE ~ok
        <5>1. spoilt'
          BY <3>1, <4>2, Zenon
        <5> QED
          BY <5>1 DEF Undisturbed
      <4> QED
        BY <4>1, <4>2
    <3> QED
      BY <1>24, <3>1 DEF PublishSends
  <2> QED
    BY <1>0, <2>1, <2>2 DEF EndInv, Over
<1>18. CASE Send
  <2>1. UNCHANGED <<chanClosed, net, peer, taken, sentBytes, closed, written, ipc>>
    BY <1>18 DEF Send, shared, history, incomingVars, threadVars, channelVars, peerVars
  <2>2. ~Serving' \/ (fdOpen <=> fdOpen')
    <3>1. ASSUME NEW ok \in BOOLEAN, Emit(ok), SessionGoes(IF ok THEN "serve" ELSE "leave")
          PROVE  ~Serving' \/ (fdOpen <=> fdOpen')
      <4>1. CASE ok
        BY <3>1, <4>1, Zenon DEF Emit
      <4>2. CASE ~ok
        BY <3>1, <4>2 DEF SessionGoes, Serving
      <4> QED
        BY <4>1, <4>2
    <3> QED
      BY <1>18, <3>1 DEF Send
  <2> QED
    BY <1>0, <2>1, <2>2 DEF EndInv, Over, Undisturbed
<1>19. CASE ReadCall
  <2>1. srem \in Nat /\ UNCHANGED <<chanClosed, fdOpen, net, peer, taken, sentBytes, ipc>>
    BY <1>19 DEF ReadCall, SessionInv, AskedInv, incomingVars, threadVars, channelVars,
                socketVars,
                 peerVars
  <2>2. WriterRests /\ closed' = closed
    BY <1>1, <1>19, <2>1, ReadCallEffect DEF ReadCall
  <2> QED
    BY <1>0, <2>1, <2>2, RestEnd DEF WriterRests
<1>20. CASE InRingBuffer
  <2>1. UNCHANGED <<chanClosed, fdOpen, net, peer, taken, sentBytes, ipc>>
    BY <1>20 DEF InRingBuffer, incomingVars, threadVars, channelVars, socketVars, peerVars
  <2>2. CASE ReaderStep
    <3>1. WriterRests /\ closed' = closed
      BY <1>1, <2>2, ReaderStepEffect
    <3> QED
      BY <1>0, <2>1, <3>1, RestEnd DEF WriterRests
  <2>3. CASE WriterStep
    <3>1. closed' = closed /\ wpc # "idle"
      BY <1>1, <2>3, WriterStepEffect
    <3>2. ipc = "writing"
      BY <3>1 DEF SessionInv, RecordInv
    <3> QED
      BY <1>0, <2>1, <3>1, <3>2 DEF EndInv, Over
  <2>4. CASE CloseStep
    <3>1. UNCHANGED <<closed, written>>
      BY <2>4 DEF CloseStep, CloseStore, CloseNotify, shared, history
    <3> QED
      BY <1>0, <2>1, <3>1, RestEnd
  <2>5. CASE SpuriousWakeup
    <3>1. UNCHANGED <<closed, written>>
      BY <2>5 DEF SpuriousWakeup, shared, history
    <3> QED
      BY <1>0, <2>1, <3>1, RestEnd
  <2> QED
    BY <1>20, <2>2, <2>3, <2>4, <2>5 DEF InRingBuffer
<1>21. CASE \E i \in PeerItems \cup {HS} : PeerSends(i)
  <2>1. /\ peer = "open"
        /\ UNCHANGED <<chanClosed, fdOpen, closed, ipc, written>>
    BY <1>21 DEF PeerSends, rbVars, incomingVars, threadVars, channelVars, socketVars
  <2> QED
    BY <1>0, <2>1 DEF EndInv, Over
<1>22. CASE \E how \in PeerEnds : PeerLeaves(how)
  <2>1. /\ peer' # "open"
        /\ UNCHANGED <<chanClosed, fdOpen, net, taken, sentBytes, closed, ipc, written>>
    BY <1>22, PeerEndsAssumption
    DEF PeerLeaves, rbVars, incomingVars, threadVars, channelVars, socketVars
  <2> QED
    BY <1>0, <2>1, RestEnd
<1> QED
  BY <1>2, <1>3, <1>5, <1>6, <1>7, <1>8, <1>9, <1>10, <1>11, <1>12, <1>13, <1>14, <1>15,
     <1>16, <1>17, <1>18, <1>19, <1>20, <1>21, <1>22, <1>23, <1>24
  DEF TNext, Incoming, Session, Sampler, Cleanup, Peer

LEMMA NextPathInv == SessionInv /\ PathInv /\ [TNext]_vars => PathInv'
<1> SUFFICES ASSUME SessionInv, PathInv, [TNext]_vars PROVE PathInv'
  OBVIOUS
<1>1. CASE TNext
  BY <1>1, StreamStep, ShutStep, EndStep DEF PathInv, SessionInv
<1>2. CASE UNCHANGED vars
  <2>1. /\ UNCHANGED <<net, items, sentBytes, taken, hash, peer, ipc, spc, role, sockShut>>
        /\ UNCHANGED <<exit, spoilt, chanClosed, fdOpen, closed, written>>
    BY <1>2 DEF vars, rbVars, sessionVars, incomingVars, threadVars, channelVars,
                socketVars, peerVars
  <2>2. Undisturbed' <=> Undisturbed
    BY <2>1 DEF Undisturbed, Serving
  <2>3. StreamInv'
    BY <2>1, <2>2, RestStream DEF PathInv
  <2>4. EndInv'
    BY <2>1, <2>2, RestEnd DEF PathInv
  <2>5. ShutInv'
    BY <2>1, <2>2 DEF PathInv, ShutInv, Serving
  <2> QED
    BY <2>3, <2>4, <2>5 DEF PathInv
<1> QED
  BY <1>1, <1>2

\* readAllOrExit and the end of the stream: a session whose read reports the end,
\* without a reset, a damaged record and a failed write of the sampling thread, has
\* got all that the peer sent.
THEOREM CleanEndTellsAll == TSpec => []CleanEndIsComplete
<1>1. SessionInv /\ PathInv => CleanEndIsComplete
  <2> SUFFICES ASSUME SessionInv, PathInv, spc = "reading", eof,
                      peer # "rst", ~spoilt, exit = 0
               PROVE  Len(received) = sentBytes
    BY DEF CleanEndIsComplete
  <2>1. closed /\ written = Len(received)
    BY DEF SessionInv, IInv, EofFinal
  <2>2. ~sockShut
    BY DEF PathInv, ShutInv, Serving
  <2>3. Undisturbed
    BY <2>2 DEF Undisturbed, Serving
  <2>4. Over /\ written = taken
    BY <2>1, <2>3 DEF PathInv, EndInv
  <2> QED
    BY <2>1, <2>4 DEF Over
<1> QED
  BY <1>1, InitPathInv, NextPathInv, SessionInvariance, PTL DEF TSpec


(***************************************************************************)
(* Every variable in its range: the counts from the proofs above, the      *)
(* bytes decrypted within those sent, and of the exits those that are left.*)
(***************************************************************************)

\* The control of the threads and the flags of the connection.
RangeInv ==
    /\ role \in Roles
    /\ spc \in {"construct", "setup", "poll", "serve", "read", "reading",
               "creating", "joining", "failclose", "failed", "leave", "destroy",
               "channel", "shutdown", "join", "done"}
    /\ sampler \in {"none", "asleep", "sampled", "sending", "ended"}
    /\ ipc \in {"none", "loop", "recv", "badcert", "badcert2", "hsreply", "notify",
               "notified", "write", "writing", "end", "ending", "done"}
    /\ readBytes \in {-1, 0, 1}
    /\ hash \in BOOLEAN /\ chanClosed \in BOOLEAN /\ setupAborted \in BOOLEAN
    /\ spoilt \in BOOLEAN /\ fdOpen \in BOOLEAN /\ sockShut \in BOOLEAN
    /\ peer \in {"open", "notified", "fin", "rst"}

LEMMA EmitRange ==
    ASSUME fdOpen \in BOOLEAN, NEW ok \in BOOLEAN, Emit(ok) PROVE fdOpen' \in BOOLEAN
BY DEF Emit

LEMMA RangeStep ==
    ASSUME RangeInv, TNext PROVE RangeInv'
<1>1. /\ role \in Roles /\ readBytes \in {-1, 0, 1}
      /\ hash \in BOOLEAN /\ chanClosed \in BOOLEAN /\ setupAborted \in BOOLEAN
      /\ spoilt \in BOOLEAN /\ fdOpen \in BOOLEAN /\ sockShut \in BOOLEAN
      /\ peer \in {"open", "notified", "fin", "rst"}
  BY DEF RangeInv
<1>2. ASSUME LibraryThrows
      PROVE  /\ ipc' = "end" /\ chanClosed' \in BOOLEAN /\ fdOpen' \in BOOLEAN
             /\ UNCHANGED <<hash, setupAborted, sockShut>>
  BY <1>1, <1>2, EmitRange DEF LibraryThrows, IncomingGoes
<1>3. CASE (\E n \in PeerItems : RecvData(n)) \/ RecvFatal \/ RecvBad \/ RecvNotify
  <2>1. /\ ipc' \in {"write", "end", "loop", "notify"} /\ readBytes' = 1
        /\ chanClosed' \in BOOLEAN /\ fdOpen' \in BOOLEAN /\ spoilt' \in BOOLEAN
        /\ UNCHANGED <<role, spc, sampler, hash, setupAborted, sockShut, peer>>
    BY <1>1, <1>2, <1>3
    DEF RecvData, RecvFatal, RecvBad, RecvNotify, Receive, IncomingGoes, sessionVars,
        channelVars, socketVars
  <2> QED
    BY <2>1 DEF RangeInv
<1>4. CASE RecvHandshake
  <2>1. /\ ipc' \in {"hsreply", "badcert", "end"} /\ readBytes' = 1
        /\ chanClosed' \in BOOLEAN /\ fdOpen' \in BOOLEAN
        /\ UNCHANGED <<role, spc, sampler, hash, setupAborted, spoilt, peer>>
        /\ sockShut' = sockShut \/ sockShut' = (sockShut \/ fdOpen)
    BY <1>1, <1>2, <1>4
    DEF RecvHandshake, Receive, IncomingGoes, sessionVars, channelVars, socketVars
  <2>2. sockShut' \in BOOLEAN
    BY <1>1, <2>1, Zenon
  <2> QED
    BY <2>1, <2>2 DEF RangeInv
<1>5. CASE HandshakeReply
  <2>1. PICK ok \in BOOLEAN : /\ Emit(ok) /\ hash' = (hash \/ ok)
                              /\ ipc' = (IF ok THEN "loop" ELSE "end")
                              /\ chanClosed' = (chanClosed \/ ~ok)
    BY <1>5 DEF HandshakeReply
  <2>2. hash' \in BOOLEAN /\ chanClosed' \in BOOLEAN
    BY <1>1, <2>1, Zenon
  <2>3. UNCHANGED <<role, spc, sampler, readBytes, setupAborted, spoilt, sockShut, peer>>
    BY <1>5 DEF HandshakeReply, sessionVars, peerVars
  <2> QED
    BY <1>1, <2>1, <2>2, <2>3, EmitRange DEF RangeInv
<1>6. CASE NotifyReply
  <2>1. fdOpen' \in BOOLEAN
    BY <1>1, <1>6, EmitRange DEF NotifyReply
  <2> QED
    BY <1>6, <2>1 DEF NotifyReply, IncomingGoes, RangeInv, sessionVars, peerVars
<1>7. CASE LoopTop \/ RecvEnd
  <2>1. /\ ipc' \in {"end", "recv"} /\ readBytes' \in {-1, 0, 1}
        /\ UNCHANGED <<role, spc, sampler, hash, chanClosed, setupAborted, spoilt, fdOpen,
                       sockShut, peer>>
    BY <1>1, <1>7 DEF LoopTop, RecvEnd, IncomingGoes, sessionVars, channelVars,
                      socketVars, peerVars
  <2> QED
    BY <2>1 DEF RangeInv
<1>8. CASE BadCertClose \/ NotifyClose \/ WriteCall \/ LoopEnd \/ ThreadReturns \/ WriteResult
           \/ BadCertAbort
  <2>1. /\ ipc' \in {"badcert2", "notified", "writing", "ending", "done", "loop", "write",
                     "hsreply"}
        /\ setupAborted' \in BOOLEAN
        /\ UNCHANGED <<role, spc, sampler, readBytes, hash, chanClosed, spoilt, fdOpen, sockShut,
                       peer>>
    BY <1>1, <1>8
    DEF BadCertClose, NotifyClose, WriteCall, LoopEnd, ThreadReturns, WriteResult,
        BadCertAbort, IncomingGoes, sessionVars, channelVars, socketVars, peerVars
  <2> QED
    BY <1>1, <2>1 DEF RangeInv
<1>9. CASE Send \/ CleanupChannel \/ Construct
  <2>1. /\ spc' \in {"serve", "leave", "shutdown", "setup", "done"}
        /\ fdOpen' \in BOOLEAN /\ chanClosed' \in BOOLEAN
        /\ UNCHANGED <<role, ipc, sampler, readBytes, hash, setupAborted, spoilt, sockShut, peer>>
    BY <1>1, <1>9, EmitRange
    DEF Construct, Send, CleanupChannel, SessionGoes, incomingVars, threadVars,
        channelVars, peerVars
  <2> QED
    BY <1>1, <2>1 DEF RangeInv
<1>10. CASE Leave \/ CleanupShutdown
  <2>1. /\ spc' \in {"destroy", "join"} /\ fdOpen' \in BOOLEAN
        /\ UNCHANGED <<role, ipc, sampler, readBytes, hash, chanClosed, setupAborted, spoilt, peer>>
        /\ sockShut' = sockShut \/ sockShut' = (sockShut \/ fdOpen)
    BY <1>1, <1>10
    DEF Leave, CleanupShutdown, SessionGoes, incomingVars, threadVars, channelVars,
        socketVars,
        peerVars
  <2>2. sockShut' \in BOOLEAN
    BY <1>1, <2>1, Zenon
  <2> QED
    BY <1>1, <2>1, <2>2 DEF RangeInv
<1>11. CASE \/ Setup \/ Poll \/ (\E n \in ReadSizes : Ask(n)) \/ ReadCall \/ ReadResult
            \/ FailClose \/ FailExit \/ Quit \/ CleanupRing \/ CleanupJoin
  <2>1. /\ spc' \in {"serve", "poll", "destroy", "read", "reading", "failclose", "failed",
                     "leave", "channel", "done"}
        /\ ipc' = ipc \/ ipc' = "loop"
        /\ UNCHANGED <<role, sampler, readBytes, hash, chanClosed, setupAborted, spoilt,
                       fdOpen, sockShut, peer>>
    BY <1>11
    DEF Setup, Poll, Ask, ReadCall, ReadResult, FailClose, FailExit, Quit, CleanupRing,
        CleanupJoin, SessionGoes, incomingVars, threadVars, channelVars, socketVars,
        peerVars
  <2> QED
    BY <1>1, <2>1 DEF RangeInv
<1>12. CASE InRingBuffer \/ Peer
  <2>1. /\ peer' \in {peer, "open", "notified", "fin", "rst"}
        /\ UNCHANGED <<role, spc, sampler, ipc, readBytes, hash, chanClosed, setupAborted, spoilt,
                       fdOpen, sockShut>>
    BY <1>12, PeerEndsAssumption
    DEF InRingBuffer, Peer, PeerSends, PeerLeaves, sessionVars, incomingVars, threadVars,
        channelVars,
        socketVars, peerVars
  <2> QED
    BY <1>1, <2>1 DEF RangeInv
<1>13. CASE StartHook \/ EndHook \/ JoinHook
  <2>1. /\ spc' \in {"creating", "joining", "serve", "leave"}
        /\ sampler' \in {sampler, "asleep", "none"}
        /\ UNCHANGED <<role, ipc, readBytes, hash, chanClosed, setupAborted, spoilt, fdOpen,
                       sockShut, peer>>
    BY <1>13
    DEF StartHook, EndHook, JoinHook, SessionGoes, incomingVars, threadVars, channelVars,
        socketVars, peerVars
  <2> QED
    BY <2>1 DEF RangeInv
<1>14. CASE Sampler
  <2>1. /\ sampler' \in {"asleep", "sampled", "sending", "ended"} /\ fdOpen' \in BOOLEAN
        /\ UNCHANGED <<role, spc, ipc, readBytes, hash, chanClosed, setupAborted, sockShut,
                       peer>>
        /\ spoilt' = spoilt \/ \E ok \in BOOLEAN : spoilt' = (spoilt \/ ~ok)
    BY <1>1, <1>14, EmitRange
    DEF Sampler, Sample, Publish, PublishSends, SamplerGoes, sessionVars, incomingVars,
        peerVars
  <2>2. spoilt' \in BOOLEAN
    BY <1>1, <2>1, Zenon
  <2> QED
    BY <2>1, <2>2 DEF RangeInv
<1> QED
  BY <1>3, <1>4, <1>5, <1>6, <1>7, <1>8, <1>9, <1>10, <1>11, <1>12, <1>13, <1>14
  DEF TNext, Incoming, Session, Cleanup

\* The types of the connection, whatever the sizes: what is decrypted stays within
\* what was sent, and the process ends, if it does, with one of the exits named.
THEOREM ConnectionTypes == TSpec => []TlsTypeOK
<1>1. TInit => RangeInv /\ PathInv
  <2>1. TInit => PathInv
    BY InitPathInv
  <2>2. TInit => RangeInv
    BY DEF TInit, RangeInv
  <2> QED
    BY <2>1, <2>2
<1>2. SessionInv /\ RangeInv /\ PathInv /\ [TNext]_vars => RangeInv' /\ PathInv'
  <2> SUFFICES ASSUME SessionInv, RangeInv, PathInv, [TNext]_vars
               PROVE  RangeInv' /\ PathInv'
    OBVIOUS
  <2>1. CASE TNext
    BY <2>1, NextPathInv, RangeStep
  <2>2. CASE UNCHANGED vars
    <3>1. RangeInv'
      BY <2>2
      DEF vars, sessionVars, incomingVars, threadVars, channelVars, socketVars, peerVars,
          RangeInv
    <3> QED
      BY <2>2, <3>1, NextPathInv
  <2> QED
    BY <2>1, <2>2
<1>3. SessionInv /\ RangeInv /\ PathInv => TlsTypeOK
  <2> SUFFICES ASSUME SessionInv, RangeInv, PathInv PROVE TlsTypeOK
    OBVIOUS
  <2>1. srem \in Nat /\ irem \in Nat
    BY DEF SessionInv, AskedInv, RecordInv
  <2>2. sentBytes \in Nat /\ taken \in 0 .. sentBytes
    <3>1. PICK n \in Nat : taken <= n /\ Carries(net, n, sentBytes)
      BY DEF PathInv, StreamInv, SumInv
    <3>2. n <= sentBytes
      <4>1. 0 \in 0 .. Len(net)
        BY DEF PathInv, StreamInv
      <4> QED
        BY <3>1, <4>1 DEF Carries
    <3> QED
      BY <3>1, <3>2 DEF PathInv, StreamInv
  <2>3. /\ exit \in {0, 23, 91, 119, 127, SIGABRT}
        /\ (sampler = "none") = (spc \notin {"creating", "joining"})
    BY DEF SessionInv, SamplerInv
  <2>4. {hash, chanClosed, setupAborted, spoilt, fdOpen, sockShut} \subseteq BOOLEAN
    BY DEF RangeInv
  <2> QED
    BY <2>1, <2>2, <2>3, <2>4 DEF TlsTypeOK, RangeInv
<1> QED
  BY <1>1, <1>2, <1>3, SessionInvariance, PTL DEF TSpec


=============================================================================
