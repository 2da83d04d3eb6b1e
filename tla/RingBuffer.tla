------------------------------ MODULE RingBuffer ------------------------------
(***************************************************************************)
(* The blocking ring buffer between the thread that decrypts incoming TLS  *)
(* records (the writer) and the session thread that consumes the plaintext *)
(* (the reader): class RingBuffer of RootHelper/ReliableRingBuffer.h.      *)
(*                                                                         *)
(* A byte is identified by its position in the stream of bytes the writer  *)
(* deposits, so "received" can be compared with what was written.  read()  *)
(* and write() hold the mutex; close() does not, so a step boundary is put *)
(* wherever close() can interleave: between the test of "closed" and the   *)
(* wait, between the test and the copy, and between the test and the read  *)
(* of brokenConnection.                                                    *)
(***************************************************************************)
EXTENDS Integers, Sequences

CONSTANTS
    Capacity,    \* the capacity constructor argument
    ReadSizes,   \* the counts read() is called with
    WriteSizes,  \* the counts write() is called with
    MaxBytes,    \* bound: bytes deposited between two resets
    Reader, Writer

ASSUME CapacityAssumption == Capacity \in Nat /\ Capacity >= 2
ASSUME SizesAssumption == ReadSizes \subseteq Nat /\ WriteSizes \subseteq Nat
ASSUME BoundAssumption == MaxBytes \in Nat
ASSUME ThreadsAssumption == Reader # Writer /\ "free" \notin {Reader, Writer}

VARIABLES
    closed, brokenConnection, ring, readIdx, writeIdx,
    mutex,        \* ringbuffer_mutex: "free" or the thread that holds it
    rpc, rcount, rret,  \* the reader inside read(): where, count, last result
    wpc, wcount, wret,  \* the writer inside write()
    closing,      \* thread |-> where it is inside close(bool)
    closeArg,     \* thread |-> the argument of that close
    received,     \* history: bytes handed to the reader since the last reset
    written,      \* history: bytes deposited since the last reset
    eof,          \* history: a read() has reported the end of the stream
    exit          \* the argument of _Exit, 0 while the process lives

shared == <<closed, brokenConnection, ring, readIdx, writeIdx, mutex>>
readerVars == <<rpc, rcount, rret>>
writerVars == <<wpc, wcount, wret>>
closeVars == <<closing, closeArg>>
history == <<received, written, eof>>
rbVars == <<closed, brokenConnection, ring, readIdx, writeIdx, mutex,
            rpc, rcount, rret, wpc, wcount, wret, closing, closeArg,
            received, written, eof, exit>>

Threads == {Reader, Writer}
Slots == 0 .. Capacity - 1

Init ==
    /\ closed = FALSE /\ brokenConnection = FALSE
    /\ ring = [s \in Slots |-> 0]
    /\ readIdx = 0 /\ writeIdx = 0
    /\ mutex = "free"
    /\ rpc = "idle" /\ rcount = 0 /\ rret = 0
    /\ wpc = "idle" /\ wcount = 0 /\ wret = 0
    /\ closing = [t \in Threads |-> "no"]
    /\ closeArg = [t \in Threads |-> FALSE]
    /\ received = << >> /\ written = 0 /\ eof = FALSE
    /\ exit = 0

(***************************************************************************)
(* Index arithmetic.                                                       *)
(***************************************************************************)
oneDirCircularDistance == (writeIdx - readIdx + Capacity) % Capacity

Smaller(a, b) == IF a > b THEN b ELSE a

\* Mutant: the index is not brought back into the array.
incrementReadNoWrap(offset) ==
    readIdx' = readIdx + offset /\ UNCHANGED exit

incrementRead(offset) ==
    IF offset > oneDirCircularDistance
    THEN exit' = 89 /\ UNCHANGED readIdx
    ELSE readIdx' = (readIdx + offset + Capacity) % Capacity /\ UNCHANGED exit

incrementWrite(offset) ==
    IF offset > Capacity - oneDirCircularDistance - 1
    THEN exit' = 107 /\ UNCHANGED writeIdx
    ELSE writeIdx' = (writeIdx + offset + Capacity) % Capacity /\ UNCHANGED exit

\* Mutant: the second piece of a split copy starts one slot too far.
CopyOutShifted(n) ==
    LET pre == Capacity - readIdx IN
    [i \in 1 .. n |-> IF i <= pre THEN ring[readIdx + i - 1]
                                  ELSE ring[(i - pre) % Capacity]]

\* The bytes memcpy moves out of the buffer: one piece, or two when the chunk
\* crosses the end of the array.
CopyOut(n) ==
    LET pre == Capacity - readIdx IN
    IF writeIdx < readIdx /\ n > pre
    THEN [i \in 1 .. n |-> IF i <= pre THEN ring[readIdx + i - 1]
                                       ELSE ring[i - pre - 1]]
    ELSE [i \in 1 .. n |-> ring[readIdx + i - 1]]

\* Mutant: the second piece of a split copy is not written.
CopyInNoSecondPiece(n) ==
    [s \in Slots |-> IF s >= writeIdx /\ s < writeIdx + n
                     THEN written + 1 + (s - writeIdx) ELSE ring[s]]

\* The array after memcpy has moved the next n bytes of the stream into it.
CopyIn(n) ==
    LET pre == Capacity - writeIdx IN
    IF readIdx <= writeIdx /\ n > pre
    THEN [s \in Slots |->
            IF s >= writeIdx THEN written + 1 + (s - writeIdx)
            ELSE IF s < n - pre THEN written + 1 + pre + s
            ELSE ring[s]]
    ELSE [s \in Slots |->
            IF s >= writeIdx /\ s < writeIdx + n
            THEN written + 1 + (s - writeIdx) ELSE ring[s]]

\* Mutant: read() forgets to notify a blocked writer.
NotifyReadMissing == UNCHANGED wpc

\* notify_one on each condition variable: there is at most one waiter.
NotifyWritten == rpc' = IF rpc = "waiting" THEN "woken" ELSE rpc
NotifyRead == wpc' = IF wpc = "waiting" THEN "woken" ELSE wpc

(***************************************************************************)
(* read(buf, count), called by the session thread.                         *)
(***************************************************************************)
\* From the computation of maxReadable to the return: copy, advance, notify.
Deliver(n) ==
    LET k == Smaller(n, oneDirCircularDistance) IN
    IF writeIdx = readIdx
    THEN /\ exit' = 119
         /\ UNCHANGED <<shared, readerVars, writerVars, history>>
    ELSE /\ received' = received \o CopyOut(k)
         /\ incrementRead(k)
         /\ NotifyRead
         /\ rret' = k /\ rpc' = "idle" /\ mutex' = "free"
         /\ UNCHANGED <<closed, brokenConnection, ring, writeIdx,
                        rcount, wcount, wret, written, eof>>

\* The process lives, and the thread is not already inside a call.
Alive == exit = 0
CanCall(t) == Alive /\ closing[t] = "no" /\ IF t = Reader THEN rpc = "idle" ELSE wpc = "idle"

ReadAvailable(n) ==
    /\ CanCall(Reader) /\ mutex = "free"
    /\ readIdx # writeIdx
    /\ Deliver(n)
    /\ UNCHANGED closeVars

ReadEmptyClosed(n) ==
    /\ CanCall(Reader) /\ mutex = "free"
    /\ readIdx = writeIdx /\ closed
    /\ mutex' = Reader /\ rpc' = "eof" /\ rcount' = n
    /\ UNCHANGED <<closed, brokenConnection, ring, readIdx, writeIdx, rret,
                   writerVars, closeVars, history, exit>>

ReadEmptyOpen(n) ==
    /\ CanCall(Reader) /\ mutex = "free"
    /\ readIdx = writeIdx /\ ~closed
    /\ mutex' = Reader /\ rpc' = "towait" /\ rcount' = n
    /\ UNCHANGED <<closed, brokenConnection, ring, readIdx, writeIdx, rret,
                   writerVars, closeVars, history, exit>>

\* wait(lock): start waiting and release the mutex, atomically.
ReadWait ==
    /\ Alive /\ rpc = "towait"
    /\ rpc' = "waiting" /\ mutex' = "free"
    /\ UNCHANGED <<closed, brokenConnection, ring, readIdx, writeIdx, rcount,
                   rret, writerVars, closeVars, history, exit>>

\* Mutant: "closed" is not tested again after the wait.
ReadWokenUntested ==
    /\ Alive /\ rpc = "woken" /\ mutex = "free"
    /\ Deliver(rcount)
    /\ UNCHANGED closeVars

\* wait(lock) returns: the mutex is held again, "closed" is tested once.
ReadWoken ==
    /\ Alive /\ rpc = "woken" /\ mutex = "free"
    /\ \/ /\ closed /\ readIdx = writeIdx
          /\ mutex' = Reader /\ rpc' = "eof"
          /\ UNCHANGED <<closed, brokenConnection, ring, readIdx, writeIdx,
                         rcount, rret, writerVars, history, exit>>
       \/ /\ ~(closed /\ readIdx = writeIdx)
          /\ Deliver(rcount)
    /\ UNCHANGED closeVars

\* return brokenConnection ? -1 : 0, and the lock's destructor.
ReadEof ==
    /\ Alive /\ rpc = "eof"
    /\ rret' = (IF brokenConnection THEN -1 ELSE 0)
    /\ rpc' = "idle" /\ mutex' = "free" /\ eof' = TRUE
    /\ UNCHANGED <<closed, brokenConnection, ring, readIdx, writeIdx, rcount,
                   writerVars, closeVars, received, written, exit>>

(***************************************************************************)
(* write(buf, count), called by the incoming thread.                       *)
(***************************************************************************)
WriteReturn(v) == wret' = v /\ wpc' = "idle"

WriteClosed(n) ==
    /\ CanCall(Writer) /\ mutex = "free" /\ closed
    /\ WriteReturn(-1)
    /\ UNCHANGED <<shared, readerVars, wcount, closeVars, history, exit>>

\* Mutant: write() does not wait for room.
WriteOpenNoWait(n) ==
    /\ CanCall(Writer) /\ mutex = "free" /\ ~closed
    /\ written + n <= MaxBytes
    /\ wpc' = "copy" /\ mutex' = Writer /\ wcount' = n
    /\ UNCHANGED <<closed, brokenConnection, ring, readIdx, writeIdx,
                   readerVars, wret, closeVars, history, exit>>

WriteOpen(n) ==
    /\ CanCall(Writer) /\ mutex = "free" /\ ~closed
    /\ written + n <= MaxBytes
    /\ wpc' = (IF oneDirCircularDistance = Capacity - 1 THEN "towait" ELSE "copy")
    /\ mutex' = Writer /\ wcount' = n
    /\ UNCHANGED <<closed, brokenConnection, ring, readIdx, writeIdx,
                   readerVars, wret, closeVars, history, exit>>

WriteWait ==
    /\ Alive /\ wpc = "towait"
    /\ wpc' = "waiting" /\ mutex' = "free"
    /\ UNCHANGED <<closed, brokenConnection, ring, readIdx, writeIdx,
                   readerVars, wcount, wret, closeVars, history, exit>>

\* Mutant: "closed" is not tested again after the wait.
WriteWokenUntested ==
    /\ Alive /\ wpc = "woken" /\ mutex = "free"
    /\ wpc' = "copy" /\ mutex' = Writer
    /\ UNCHANGED <<closed, brokenConnection, ring, readIdx, writeIdx,
                   readerVars, wcount, wret, closeVars, history, exit>>

WriteWoken ==
    /\ Alive /\ wpc = "woken" /\ mutex = "free"
    /\ \/ /\ closed
          /\ WriteReturn(-1)
          /\ UNCHANGED mutex
       \/ /\ ~closed
          /\ wpc' = "copy" /\ mutex' = Writer
          /\ UNCHANGED wret
    /\ UNCHANGED <<closed, brokenConnection, ring, readIdx, writeIdx,
                   readerVars, wcount, closeVars, history, exit>>

\* From the computation of maxWritable to the return.
WriteCopy ==
    LET maxWritable == Capacity - 1 - oneDirCircularDistance
        k == Smaller(wcount, maxWritable)
    IN
    /\ Alive /\ wpc = "copy"
    /\ IF maxWritable < 0 \/ Capacity < writeIdx
       THEN /\ exit' = (IF maxWritable < 0 THEN 103 ELSE 101)
            /\ UNCHANGED <<shared, readerVars, writerVars, history>>
       ELSE /\ ring' = CopyIn(k)
            /\ written' = written + k
            /\ incrementWrite(k)
            /\ NotifyWritten
            /\ WriteReturn(k) /\ mutex' = "free"
            /\ UNCHANGED <<closed, brokenConnection, readIdx, rcount, rret,
                           wcount, received, eof>>
    /\ UNCHANGED closeVars

(***************************************************************************)
(* close(brokenConnection_), called by either thread without the mutex:    *)
(* the compare-exchange, the plain store, the notification.                *)
(***************************************************************************)
CloseCas(t, b) ==
    /\ CanCall(t)
    /\ IF closed
       THEN UNCHANGED <<closed, closeVars>>
       ELSE /\ closed' = TRUE
            /\ closing' = [closing EXCEPT ![t] = "store"]
            /\ closeArg' = [closeArg EXCEPT ![t] = b]
    /\ UNCHANGED <<brokenConnection, ring, readIdx, writeIdx, mutex,
                   readerVars, writerVars, history, exit>>

CloseStore(t) ==
    /\ Alive /\ closing[t] = "store"
    /\ brokenConnection' = closeArg[t]
    /\ closing' = [closing EXCEPT ![t] = "notify"]
    /\ UNCHANGED <<closed, ring, readIdx, writeIdx, mutex, readerVars,
                   writerVars, closeArg, history, exit>>

\* Mutant: close() does not notify.
CloseNotifyMissing(t) ==
    /\ Alive /\ closing[t] = "notify"
    /\ closing' = [closing EXCEPT ![t] = "no"]
    /\ UNCHANGED <<shared, readerVars, writerVars, closeArg, history, exit>>

CloseNotify(t) ==
    /\ Alive /\ closing[t] = "notify"
    /\ NotifyWritten
    /\ closing' = [closing EXCEPT ![t] = "no"]
    /\ UNCHANGED <<shared, rcount, rret, writerVars, closeArg, history, exit>>

\* Mutant: the buffer stays closed for the next connection.
resetKeepsClosed ==
    /\ CanCall(Reader) /\ CanCall(Writer) /\ mutex = "free"
    /\ readIdx' = 0 /\ writeIdx' = 0 /\ UNCHANGED closed
    /\ received' = << >> /\ written' = 0 /\ eof' = FALSE
    /\ UNCHANGED <<brokenConnection, ring, mutex, readerVars, writerVars,
                   closeVars, exit>>

\* reset(): the HTTPS client calls it between two connections, when the
\* incoming thread of the first has been joined.
reset ==
    /\ CanCall(Reader) /\ CanCall(Writer) /\ mutex = "free"
    /\ readIdx' = 0 /\ writeIdx' = 0 /\ closed' = FALSE
    /\ received' = << >> /\ written' = 0 /\ eof' = FALSE
    /\ UNCHANGED <<brokenConnection, ring, mutex, readerVars, writerVars,
                   closeVars, exit>>

\* A wait that returns although nobody notified, which condition_variable::wait
\* is allowed to do.
SpuriousWakeup ==
    /\ Alive
    /\ \/ rpc = "waiting" /\ rpc' = "woken" /\ UNCHANGED wpc
       \/ wpc = "waiting" /\ wpc' = "woken" /\ UNCHANGED rpc
    /\ UNCHANGED <<shared, rcount, rret, wcount, wret, closeVars, history, exit>>

(***************************************************************************)
(* The specification with arbitrary clients on the two threads.            *)
(***************************************************************************)
ReaderStep == ReadWait \/ ReadWoken \/ ReadEof
WriterStep == WriteWait \/ WriteWoken \/ WriteCopy
CloseStep == \E t \in Threads : CloseStore(t) \/ CloseNotify(t)

ReaderCall == \E n \in ReadSizes :
                 ReadAvailable(n) \/ ReadEmptyClosed(n) \/ ReadEmptyOpen(n)
WriterCall == \E n \in WriteSizes : WriteClosed(n) \/ WriteOpen(n)
CloseCall == \E t \in Threads, b \in BOOLEAN : CloseCas(t, b)

Next ==
    \/ ReaderCall \/ ReaderStep
    \/ WriterCall \/ WriterStep
    \/ CloseCall \/ CloseStep
    \/ reset \/ SpuriousWakeup

Spec == Init /\ [][Next]_rbVars

\* A call that has started keeps being scheduled.
Fairness == WF_rbVars(ReaderStep) /\ WF_rbVars(WriterStep) /\ WF_rbVars(CloseStep)

FairSpec == Spec /\ Fairness

-----------------------------------------------------------------------------
(***************************************************************************)
(* Properties.                                                             *)
(***************************************************************************)

\* Every variable stays in its range; the indices stay inside the array.
TypeOK ==
    /\ closed \in BOOLEAN /\ brokenConnection \in BOOLEAN
    /\ ring \in [Slots -> Nat]
    /\ readIdx \in Slots /\ writeIdx \in Slots
    /\ mutex \in {"free", Reader, Writer}
    /\ rpc \in {"idle", "towait", "waiting", "woken", "eof"}
    /\ wpc \in {"idle", "copy", "towait", "waiting", "woken"}
    /\ rcount \in Nat /\ wcount \in Nat
    /\ rret \in Int /\ wret \in Int
    /\ closing \in [Threads -> {"no", "store", "notify"}]
    /\ closeArg \in [Threads -> BOOLEAN]
    /\ received \in Seq(Nat) /\ written \in Nat
    /\ eof \in BOOLEAN
    /\ exit \in {0, 119}

\* read() hands out exactly the bytes write() deposited, in that order, with
\* none missing and none twice, whatever the two indices and however the
\* copies are split at the end of the array.
Fifo == \A i \in 1 .. Len(received) : received[i] = i

\* The k-th slot clockwise of readIdx.
Slot(k) == IF readIdx + k < Capacity THEN readIdx + k ELSE readIdx + k - Capacity

\* Bytes deposited and not yet handed out are all in the buffer, at the slots
\* the reader will visit: a write never overwrites an unread byte, although
\* an index pair alone cannot tell a full array from an empty one.
NothingLost ==
    /\ written = Len(received) + oneDirCircularDistance
    /\ \A k \in Slots : k < oneDirCircularDistance
                            => ring[Slot(k)] = Len(received) + k + 1

\* A thread blocked in wait() has a reason to be: the reader only while the
\* buffer is empty, the writer only while it is full, so no notification of
\* data or of room is ever lost and the two never wait for each other.
WaitJustified ==
    /\ rpc \in {"towait", "waiting"} => readIdx = writeIdx
    /\ wpc \in {"towait", "waiting"} => oneDirCircularDistance = Capacity - 1

\* Once a read() has reported the end of the stream, every byte ever accepted
\* by write() had been handed out before, and none is accepted afterwards,
\* although close() flips "closed" without the mutex.
EofFinal == eof => closed /\ written = Len(received)

\* The whole class is a bounded pipe with an end: every step of either thread,
\* with its indices, locks and waits, is a step of ByteChannel or none, so a
\* user of read(), write() and close() need not know how they are made.
Channel == INSTANCE ByteChannel
               WITH Room <- Capacity - 1, sent <- written, got <- received,
                    over <- closed, ended <- eof
ImplementsChannel == Channel!Spec

\* "while construct should not be needed here, since we have only one reader
\* thread": a read() that has waited finds data or the end of the stream, so the
\* "ambiguity between empty and full" abort behind the wait is unreachable.
NoAmbiguity == exit # 119

\* close() reaches a reader that is already blocked in read(): its wait ends.
\* (A reader that has tested "closed" and is about to wait may be missed.)
CloseWakesWaiter ==
    \A t \in Threads :
        (rpc = "waiting" /\ closing[t] = "store") ~> (rpc # "waiting")

=============================================================================
