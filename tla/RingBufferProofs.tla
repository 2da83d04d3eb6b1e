--------------------------- MODULE RingBufferProofs ---------------------------
(***************************************************************************)
(* Proofs that hold for every capacity of at least two, every set of call  *)
(* sizes and every stream length, with and without spurious wakeups.       *)
(***************************************************************************)
EXTENDS RingBuffer, TLAPS

(***************************************************************************)
(* Index arithmetic: what the two modulo expressions of the class compute. *)
(***************************************************************************)

\* The distance without the modulo: the number of slots from r clockwise to
\* w, always less than the capacity (oneDirCircularDistance).
LEMMA DistanceValue ==
    ASSUME NEW r \in Slots, NEW w \in Slots
    PROVE  /\ (w - r + Capacity) % Capacity \in 0 .. Capacity - 1
           /\ w >= r => (w - r + Capacity) % Capacity = w - r
           /\ w < r => (w - r + Capacity) % Capacity = w - r + Capacity
BY CapacityAssumption DEF Slots

\* Advancing an index by less than the capacity wraps at most once
\* (incrementRead, incrementWrite).
LEMMA AdvanceValue ==
    ASSUME NEW i \in Slots, NEW k \in 0 .. Capacity - 1
    PROVE  /\ (i + k + Capacity) % Capacity \in Slots
           /\ i + k < Capacity => (i + k + Capacity) % Capacity = i + k
           /\ i + k >= Capacity
                => (i + k + Capacity) % Capacity = i + k - Capacity
<1>1. CASE i + k < Capacity
  BY <1>1, CapacityAssumption DEF Slots
<1>2. CASE i + k >= Capacity
  BY <1>2, CapacityAssumption DEF Slots
<1> QED
  BY <1>1, <1>2, CapacityAssumption DEF Slots

\* Appending the next bytes of a numbered stream keeps it numbered.
LEMMA AppendNumbered ==
    ASSUME NEW s \in Seq(Nat), NEW t \in Seq(Nat),
           \A i \in 1 .. Len(s) : s[i] = i,
           \A i \in 1 .. Len(t) : t[i] = Len(s) + i
    PROVE  /\ s \o t \in Seq(Nat)
           /\ Len(s \o t) = Len(s) + Len(t)
           /\ \A i \in 1 .. Len(s \o t) : (s \o t)[i] = i
<1>1. s \o t \in Seq(Nat) /\ Len(s \o t) = Len(s) + Len(t)
  OBVIOUS
<1>2. ASSUME NEW i \in 1 .. Len(s) + Len(t) PROVE (s \o t)[i] = i
  <2>1. CASE i <= Len(s)
    BY <2>1
  <2>2. CASE i > Len(s)
    <3>1. (s \o t)[i] = t[i - Len(s)]
      BY <2>2
    <3>2. i - Len(s) \in 1 .. Len(t)
      BY <2>2
    <3> QED
      BY <3>1, <3>2
  <2> QED
    BY <2>1, <2>2
<1> QED
  BY <1>1, <1>2

(***************************************************************************)
(* The inductive invariant.                                                *)
(***************************************************************************)

\* Who holds the mutex is told by the two program counters.
MutexInv ==
    /\ mutex = Reader <=> rpc \in {"towait", "eof"}
    /\ mutex = Writer <=> wpc \in {"towait", "copy"}

\* A reader about to report the end of the stream has seen an empty, closed
\* buffer and holds the mutex; after the report no writer is past its test of
\* "closed".
EofInv ==
    /\ rpc = "eof" => closed /\ readIdx = writeIdx
    /\ eof => wpc # "copy"

IInv == TypeOK /\ Fifo /\ NothingLost /\ WaitJustified /\ EofFinal
        /\ MutexInv /\ EofInv

\* Init establishes the invariant.
LEMMA InitIInv == Init => IInv
<1> SUFFICES ASSUME Init PROVE IInv
  OBVIOUS
<1>1. oneDirCircularDistance = 0
  BY DistanceValue, CapacityAssumption DEF Init, oneDirCircularDistance, Slots
<1>2. TypeOK
  <2>1. 0 \in Slots /\ ring \in [Slots -> Nat]
    BY CapacityAssumption DEF Init, Slots
  <2>2. /\ closing \in [Threads -> {"no", "store", "notify"}]
        /\ closeArg \in [Threads -> BOOLEAN]
    BY DEF Init
  <2>3. received \in Seq(Nat)
    BY DEF Init
  <2>4. /\ closed \in BOOLEAN /\ brokenConnection \in BOOLEAN
        /\ eof \in BOOLEAN
    BY Zenon DEF Init
  <2> QED
    BY <2>1, <2>2, <2>3, <2>4 DEF Init, TypeOK
<1>3. Fifo /\ NothingLost /\ EofFinal
  BY <1>1 DEF Init, Fifo, NothingLost, EofFinal, Slots
<1>4. WaitJustified /\ MutexInv /\ EofInv
  BY ThreadsAssumption DEF Init, WaitJustified, MutexInv, EofInv
<1> QED
  BY <1>2, <1>3, <1>4 DEF IInv

\* What the body of read() does to the indices and the history when there is
\* something to read: it moves k bytes, k at most the distance.
LEMMA DeliverEffect ==
    ASSUME IInv, NEW n \in Nat, Deliver(n), readIdx # writeIdx
    PROVE  LET d == oneDirCircularDistance
               k == Smaller(n, d)
           IN  /\ k \in 0 .. d
               /\ exit' = exit
               /\ readIdx' \in Slots
               /\ readIdx + k < Capacity => readIdx' = readIdx + k
               /\ readIdx + k >= Capacity => readIdx' = readIdx + k - Capacity
               /\ oneDirCircularDistance' = d - k
               /\ received' \in Seq(Nat)
               /\ Len(received') = Len(received) + k
               /\ \A i \in 1 .. Len(received') : received'[i] = i
<1> DEFINE d == oneDirCircularDistance
           k == Smaller(n, d)
<1>1. /\ d \in 0 .. Capacity - 1
      /\ writeIdx >= readIdx => d = writeIdx - readIdx
      /\ writeIdx < readIdx => d = writeIdx - readIdx + Capacity
  BY DistanceValue DEF oneDirCircularDistance, IInv, TypeOK
<1>2. k \in 0 .. d
  BY <1>1, CapacityAssumption DEF Smaller
<1> HIDE DEF d, k
<1>3. /\ received' = received \o CopyOut(k)
      /\ incrementRead(k)
      /\ writeIdx' = writeIdx
  BY DEF Deliver, d, k
<1>4. /\ exit' = exit
      /\ readIdx' = (readIdx + k + Capacity) % Capacity
  BY <1>1, <1>2, <1>3, CapacityAssumption DEF incrementRead, d
<1>5. /\ readIdx' \in Slots
      /\ readIdx + k < Capacity => readIdx' = readIdx + k
      /\ readIdx + k >= Capacity => readIdx' = readIdx + k - Capacity
  <2>1. k \in 0 .. Capacity - 1 /\ readIdx \in Slots
    BY <1>1, <1>2, CapacityAssumption DEF IInv, TypeOK
  <2> QED
    BY <1>4, <2>1, AdvanceValue
<1>6. oneDirCircularDistance' = d - k
  <2>1. oneDirCircularDistance' = (writeIdx - readIdx' + Capacity) % Capacity
    BY <1>3 DEF oneDirCircularDistance
  <2>2. /\ writeIdx >= readIdx' => oneDirCircularDistance' = writeIdx - readIdx'
        /\ writeIdx < readIdx'
             => oneDirCircularDistance' = writeIdx - readIdx' + Capacity
    BY <1>5, <2>1, DistanceValue DEF IInv, TypeOK
  <2> QED
    <3>1. /\ readIdx \in 0 .. Capacity - 1
          /\ writeIdx \in 0 .. Capacity - 1
          /\ readIdx # writeIdx
      BY DEF IInv, TypeOK, Slots
    <3>2. CASE readIdx + k < Capacity
      BY <1>1, <1>2, <1>5, <2>2, <3>1, <3>2, CapacityAssumption
    <3>3. CASE readIdx + k >= Capacity
      BY <1>1, <1>2, <1>5, <2>2, <3>1, <3>3, CapacityAssumption
    <3> QED
      BY <1>1, <1>2, <3>1, <3>2, <3>3, CapacityAssumption
<1>7. \A i \in 1 .. k : CopyOut(k)[i] = Len(received) + i
  <2> SUFFICES ASSUME NEW i \in 1 .. k
               PROVE  CopyOut(k)[i] = Len(received) + i
    OBVIOUS
  <2>1. /\ i - 1 \in Slots /\ i - 1 < d
        /\ ring[Slot(i - 1)] = Len(received) + i
    <3>1. i - 1 \in Slots /\ i - 1 < d
      BY <1>1, <1>2, CapacityAssumption DEF Slots
    <3>2. ring[Slot(i - 1)] = Len(received) + (i - 1) + 1
      BY <3>1 DEF IInv, NothingLost, d
    <3>3. Len(received) \in Nat
      BY DEF IInv, TypeOK
    <3> QED
      BY <3>1, <3>2, <3>3
  <2>2. CopyOut(k)[i] = ring[Slot(i - 1)]
    BY <1>1, <1>2, <2>1, CapacityAssumption DEF CopyOut, Slot, IInv, TypeOK, Slots
  <2> QED
    BY <2>1, <2>2
<1>8. /\ CopyOut(k) \in Seq(Nat)
      /\ Len(CopyOut(k)) = k
  <2>1. \A i \in 1 .. k : CopyOut(k)[i] \in Nat
    BY <1>7, <1>2, <1>1, CapacityAssumption DEF IInv, TypeOK
  <2>2. DOMAIN CopyOut(k) = 1 .. k
    BY DEF CopyOut
  <2>3. CopyOut(k) = [i \in 1 .. k |-> CopyOut(k)[i]]
    BY DEF CopyOut
  <2> QED
    BY <2>1, <2>2, <2>3, <1>1, <1>2, CapacityAssumption
<1>9. /\ received' \in Seq(Nat)
      /\ Len(received') = Len(received) + k
      /\ \A i \in 1 .. Len(received') : received'[i] = i
  <2> DEFINE t == CopyOut(k)
  <2>1. t \in Seq(Nat) /\ Len(t) = k
    BY <1>8
  <2>2. \A i \in 1 .. Len(t) : t[i] = Len(received) + i
    BY <1>7, <2>1
  <2>3. received' = received \o t
    BY <1>3
  <2>4. received \in Seq(Nat) /\ \A i \in 1 .. Len(received) : received[i] = i
    BY DEF IInv, TypeOK, Fifo
  <2> HIDE DEF t
  <2> QED
    BY <2>1, <2>2, <2>3, <2>4, AppendNumbered
<1> QED
  BY <1>2, <1>4, <1>5, <1>6, <1>9 DEF d, k

\* The body of read() preserves the invariant, in the abort as in the return.
LEMMA DeliverStep ==
    ASSUME IInv, NEW n \in Nat, Deliver(n), UNCHANGED closeVars,
           rpc \in {"idle", "woken"}, mutex = "free"
    PROVE  IInv'
<1>1. CASE readIdx = writeIdx
  <2>1. /\ exit' = 119
        /\ UNCHANGED <<shared, readerVars, writerVars, history, closeVars>>
    BY <1>1 DEF Deliver
  <2>2. TypeOK'
    BY <2>1 DEF IInv, TypeOK, shared, readerVars, writerVars, history, closeVars
  <2> QED
    BY <2>1, <2>2 DEF IInv, Fifo, NothingLost, WaitJustified, EofFinal, MutexInv,
       EofInv, oneDirCircularDistance, Slot, shared, readerVars, writerVars,
       history
<1>2. CASE readIdx # writeIdx
  <2> DEFINE d == oneDirCircularDistance
             k == Smaller(n, d)
  <2>1. /\ NotifyRead
        /\ rret' = k /\ rpc' = "idle" /\ mutex' = "free"
        /\ UNCHANGED <<closed, brokenConnection, ring, writeIdx,
                       rcount, wcount, wret, written, eof, closing, closeArg>>
    BY <1>2 DEF Deliver, closeVars
  <2>2. /\ k \in 0 .. d
        /\ exit' = exit
        /\ readIdx' \in Slots
        /\ readIdx + k < Capacity => readIdx' = readIdx + k
        /\ readIdx + k >= Capacity => readIdx' = readIdx + k - Capacity
        /\ oneDirCircularDistance' = d - k
        /\ received' \in Seq(Nat)
        /\ Len(received') = Len(received) + k
        /\ \A i \in 1 .. Len(received') : received'[i] = i
    BY <1>2, DeliverEffect
  <2>3. /\ d \in 0 .. Capacity - 1
        /\ writeIdx >= readIdx => d = writeIdx - readIdx
        /\ writeIdx < readIdx => d = writeIdx - readIdx + Capacity
    BY DistanceValue DEF oneDirCircularDistance, IInv, TypeOK
  <2>4. readIdx \in 0 .. Capacity - 1 /\ writeIdx \in 0 .. Capacity - 1
    BY DEF IInv, TypeOK, Slots
  <2> HIDE DEF d, k
  <2>5. TypeOK'
    <3>1. wpc' \in {"idle", "copy", "towait", "waiting", "woken"}
      BY <2>1 DEF NotifyRead, IInv, TypeOK
    <3>2. rret' \in Int
      BY <2>1, <2>2, <2>3, CapacityAssumption
    <3> QED
      BY <2>1, <2>2, <3>1, <3>2 DEF IInv, TypeOK
  <2>6. Fifo'
    BY <2>2 DEF Fifo
  <2>7. NothingLost'
    <3>1. written' = Len(received') + oneDirCircularDistance'
      BY <2>1, <2>2, <2>3, CapacityAssumption DEF IInv, NothingLost, TypeOK, d
    <3>2. ASSUME NEW j \in Slots, j < d - k
          PROVE  ring[Slot(j)'] = Len(received) + k + j + 1
      <4>1. j + k \in Slots /\ j + k < d
        BY <2>2, <2>3, <3>2, CapacityAssumption DEF Slots
      <4>2. Slot(j)' = Slot(j + k)
        <5>1. j \in Nat /\ k \in Nat /\ j + k < Capacity
          BY <2>2, <2>3, <3>2, <4>1, CapacityAssumption DEF Slots
        <5>2. CASE readIdx + k < Capacity
          BY <2>2, <2>4, <5>1, <5>2, CapacityAssumption DEF Slot
        <5>3. CASE readIdx + k >= Capacity
          BY <2>2, <2>4, <5>1, <5>3, CapacityAssumption DEF Slot
        <5> QED
          BY <5>1, <5>2, <5>3, <2>4, CapacityAssumption
      <4>3. ring[Slot(j + k)] = Len(received) + (j + k) + 1
        BY <4>1 DEF IInv, NothingLost, d
      <4> QED
        BY <4>2, <4>3, <2>2, <2>3, <3>2, CapacityAssumption DEF IInv, TypeOK, Slots
    <3> QED
      BY <2>1, <2>2, <3>1, <3>2 DEF NothingLost, Slots
  <2>8. WaitJustified'
    <3>1. wpc' \notin {"towait", "waiting"}
      BY <2>1, ThreadsAssumption DEF NotifyRead, IInv, MutexInv, TypeOK
    <3> QED
      BY <2>1, <3>1 DEF WaitJustified
  <2>9. ~eof
    BY <1>2, <2>2, <2>3, <2>4, CapacityAssumption
    DEF IInv, EofFinal, NothingLost, TypeOK, d
  <2>10. EofFinal' /\ EofInv'
    BY <2>1, <2>9 DEF EofFinal, EofInv
  <2>11. MutexInv'
    BY <2>1, ThreadsAssumption DEF NotifyRead, IInv, MutexInv, TypeOK
  <2> QED
    BY <2>5, <2>6, <2>7, <2>8, <2>10, <2>11 DEF IInv
<1> QED
  BY <1>1, <1>2

\* The body of write(): k bytes, k at most the room left, enter the buffer
\* behind the unread ones and overwrite none of them.
LEMMA WriteCopyStep ==
    ASSUME IInv, WriteCopy
    PROVE  IInv'
<1> DEFINE d == oneDirCircularDistance
           k == Smaller(wcount, Capacity - 1 - d)
<1>1. /\ d \in 0 .. Capacity - 1
      /\ writeIdx >= readIdx => d = writeIdx - readIdx
      /\ writeIdx < readIdx => d = writeIdx - readIdx + Capacity
  BY DistanceValue DEF oneDirCircularDistance, IInv, TypeOK
<1>2. /\ readIdx \in 0 .. Capacity - 1 /\ writeIdx \in 0 .. Capacity - 1
      /\ wcount \in Nat /\ wpc = "copy"
      /\ ring \in [Slots -> Nat] /\ written \in Nat
  BY DEF IInv, TypeOK, Slots, WriteCopy
<1>3. k \in 0 .. Capacity - 1 - d
  BY <1>1, <1>2, CapacityAssumption DEF Smaller
<1>4. /\ ring' = CopyIn(k)
      /\ written' = written + k
      /\ incrementWrite(k)
      /\ NotifyWritten
      /\ WriteReturn(k) /\ mutex' = "free"
      /\ UNCHANGED <<closed, brokenConnection, readIdx, rcount, rret,
                     wcount, received, eof, closing, closeArg>>
  BY <1>1, <1>2, CapacityAssumption DEF WriteCopy, closeVars
<1> HIDE DEF d, k
<1>5. /\ exit' = exit
      /\ writeIdx' = (writeIdx + k + Capacity) % Capacity
  BY <1>1, <1>2, <1>3, <1>4, CapacityAssumption DEF incrementWrite, d
<1>6. /\ writeIdx' \in 0 .. Capacity - 1
      /\ writeIdx + k < Capacity => writeIdx' = writeIdx + k
      /\ writeIdx + k >= Capacity => writeIdx' = writeIdx + k - Capacity
  <2>1. k \in 0 .. Capacity - 1 /\ writeIdx \in Slots
    BY <1>1, <1>2, <1>3, CapacityAssumption DEF Slots
  <2> QED
    BY <1>5, <2>1, AdvanceValue DEF Slots
<1>7. oneDirCircularDistance' = d + k
  <2>1. oneDirCircularDistance' = (writeIdx' - readIdx + Capacity) % Capacity
    BY <1>4 DEF oneDirCircularDistance
  <2>2. /\ writeIdx' >= readIdx => oneDirCircularDistance' = writeIdx' - readIdx
        /\ writeIdx' < readIdx
             => oneDirCircularDistance' = writeIdx' - readIdx + Capacity
    BY <1>2, <1>6, <2>1, DistanceValue DEF Slots
  <2>3. CASE writeIdx + k < Capacity
    BY <1>1, <1>2, <1>3, <1>6, <2>2, <2>3, CapacityAssumption
  <2>4. CASE writeIdx + k >= Capacity
    BY <1>1, <1>2, <1>3, <1>6, <2>2, <2>4, CapacityAssumption
  <2> QED
    BY <2>3, <2>4, <1>2, <1>3, CapacityAssumption
<1>8. ring' \in [Slots -> Nat]
  BY <1>1, <1>2, <1>3, <1>4, CapacityAssumption DEF CopyIn, Slots
<1>9. TypeOK'
  <2>1. rpc' \in {"idle", "towait", "waiting", "woken", "eof"}
    BY <1>4 DEF NotifyWritten, IInv, TypeOK
  <2>2. wret' \in Int /\ wpc' = "idle" /\ written' \in Nat
    BY <1>1, <1>2, <1>3, <1>4, CapacityAssumption DEF WriteReturn
  <2> QED
    BY <1>4, <1>5, <1>6, <1>8, <2>1, <2>2 DEF IInv, TypeOK, Slots
<1>10. Fifo'
  BY <1>4 DEF IInv, Fifo
<1>11. NothingLost'
  <2>1. /\ written = Len(received) + d
        /\ Len(received) \in Nat
        /\ \A j \in Slots : j < d => ring[Slot(j)] = Len(received) + j + 1
    BY DEF IInv, TypeOK, NothingLost, d
  <2>2. written' = Len(received') + oneDirCircularDistance'
    BY <1>1, <1>3, <1>4, <1>7, <2>1, CapacityAssumption
  <2>3. ASSUME NEW j \in Slots, j < d + k
        PROVE  ring'[Slot(j)] = Len(received) + j + 1
    <3>1. j \in 0 .. Capacity - 1 /\ Slot(j) \in Slots
      BY <1>2, CapacityAssumption DEF Slot, Slots
    <3>2. CASE j < d
      <4>1. ring[Slot(j)] = Len(received) + j + 1
        BY <2>1, <3>2
      <4>2. ring'[Slot(j)] = ring[Slot(j)]
        BY <1>1, <1>2, <1>3, <1>4, <3>1, <3>2, CapacityAssumption
        DEF CopyIn, Slot
      <4> QED
        BY <4>1, <4>2
    <3>3. CASE j >= d
      <4>1. ring'[Slot(j)] = written + 1 + (j - d)
        BY <1>1, <1>2, <1>3, <1>4, <2>3, <3>1, <3>3, CapacityAssumption
        DEF CopyIn, Slot
      <4> QED
        BY <4>1, <1>1, <2>1, <3>1, CapacityAssumption
    <3> QED
      BY <3>1, <3>2, <3>3, <1>1, CapacityAssumption
  <2> QED
    BY <1>4, <1>7, <2>2, <2>3 DEF NothingLost, Slot, Slots
<1>12. /\ rpc' \notin {"towait", "waiting"} /\ wpc' = "idle"
       /\ ~eof' /\ (rpc' = "eof" <=> rpc = "eof")
       /\ mutex = Writer
  BY <1>2, <1>4, ThreadsAssumption
  DEF NotifyWritten, WriteReturn, IInv, MutexInv, EofInv, TypeOK
<1>13. WaitJustified' /\ EofFinal' /\ EofInv' /\ MutexInv'
  BY <1>2, <1>4, <1>12, ThreadsAssumption
  DEF WaitJustified, EofFinal, EofInv, MutexInv, IInv
<1> QED
  BY <1>9, <1>10, <1>11, <1>13 DEF IInv

\* A step that moves no byte and no index keeps the stream facts.
LEMMA DataUnchanged ==
    ASSUME IInv, UNCHANGED <<ring, readIdx, writeIdx, received, written>>
    PROVE  /\ Fifo' /\ NothingLost'
           /\ oneDirCircularDistance' = oneDirCircularDistance
BY DEF IInv, Fifo, NothingLost, oneDirCircularDistance, Slot

\* The steps of read() around its body.
LEMMA ReaderControlStep ==
    ASSUME IInv, NEW n \in Nat,
           ReadEmptyClosed(n) \/ ReadEmptyOpen(n) \/ ReadWait \/ ReadEof
    PROVE  IInv'
<1>1. /\ UNCHANGED <<ring, readIdx, writeIdx, received, written, closed,
                     brokenConnection, wpc, wcount, wret, closing, closeArg, exit>>
      /\ (rcount' = n \/ rcount' = rcount)
  BY DEF ReadEmptyClosed, ReadEmptyOpen, ReadWait, ReadEof, writerVars,
         closeVars, history
<1>2. Fifo' /\ NothingLost' /\ oneDirCircularDistance' = oneDirCircularDistance
  BY <1>1, DataUnchanged
<1>3. CASE ReadEmptyClosed(n) \/ ReadEmptyOpen(n)
  <2>1. TypeOK'
    BY <1>1, <1>3 DEF ReadEmptyClosed, ReadEmptyOpen, history, IInv, TypeOK
  <2>2. WaitJustified' /\ EofFinal' /\ MutexInv' /\ EofInv'
    BY <1>1, <1>2, <1>3, ThreadsAssumption
    DEF ReadEmptyClosed, ReadEmptyOpen, CanCall, history, IInv, TypeOK,
        WaitJustified, EofFinal, MutexInv, EofInv
  <2> QED
    BY <1>2, <2>1, <2>2 DEF IInv
<1>4. CASE ReadWait
  <2>1. TypeOK'
    BY <1>1, <1>4 DEF ReadWait, history, IInv, TypeOK
  <2>2. WaitJustified' /\ EofFinal' /\ MutexInv' /\ EofInv'
    BY <1>1, <1>2, <1>4, ThreadsAssumption
    DEF ReadWait, history, IInv, TypeOK, WaitJustified, EofFinal, MutexInv,
        EofInv
  <2> QED
    BY <1>2, <2>1, <2>2 DEF IInv
<1>5. CASE ReadEof
  <2>1. TypeOK'
    BY <1>1, <1>5 DEF ReadEof, IInv, TypeOK
  <2>2. oneDirCircularDistance = 0
    <3>1. readIdx \in Slots /\ writeIdx \in Slots /\ writeIdx = readIdx
      BY <1>5 DEF ReadEof, IInv, EofInv, TypeOK
    <3>2. writeIdx - readIdx = 0 /\ writeIdx >= readIdx
      BY <3>1, CapacityAssumption DEF Slots
    <3> QED
      BY <3>1, <3>2, DistanceValue DEF oneDirCircularDistance
  <2>3. written = Len(received)
    BY <2>2 DEF IInv, NothingLost, TypeOK
  <2>4. WaitJustified' /\ EofFinal' /\ MutexInv' /\ EofInv'
    BY <1>1, <1>2, <1>5, <2>3, ThreadsAssumption
    DEF ReadEof, IInv, TypeOK, WaitJustified, EofFinal, MutexInv, EofInv
  <2> QED
    BY <1>2, <2>1, <2>4 DEF IInv
<1> QED
  BY <1>3, <1>4, <1>5

\* The steps of write() around its body.
LEMMA WriterControlStep ==
    ASSUME IInv, NEW n \in Nat,
           WriteClosed(n) \/ WriteOpen(n) \/ WriteWait \/ WriteWoken
    PROVE  IInv'
<1>1. /\ UNCHANGED <<ring, readIdx, writeIdx, received, written, eof, closed,
                     brokenConnection, rpc, rcount, rret, closing, closeArg, exit>>
      /\ (wcount' = n \/ wcount' = wcount)
      /\ (wret' = wret \/ wret' = -1)
      /\ wpc' \in {"idle", "copy", "towait", "waiting"}
  BY DEF WriteClosed, WriteOpen, WriteWait, WriteWoken, WriteReturn, readerVars,
         closeVars, history, shared
<1>2. Fifo' /\ NothingLost' /\ oneDirCircularDistance' = oneDirCircularDistance
  BY <1>1, DataUnchanged
<1>3. /\ wpc' = "towait" => wpc = "idle" /\ oneDirCircularDistance = Capacity - 1
      /\ wpc' = "waiting" => wpc = "towait"
      /\ wpc' = "copy" => ~closed
  BY ThreadsAssumption
  DEF WriteClosed, WriteOpen, WriteWait, WriteWoken, WriteReturn, CanCall
<1>4. /\ mutex' \in {"free", Reader, Writer}
      /\ mutex' = Writer <=> wpc' \in {"towait", "copy"}
      /\ mutex' = Reader <=> mutex = Reader
  BY ThreadsAssumption
  DEF WriteClosed, WriteOpen, WriteWait, WriteWoken, WriteReturn, shared, IInv,
      MutexInv, TypeOK, CanCall
<1>5. TypeOK'
  BY <1>1, <1>4 DEF IInv, TypeOK
<1>6. WaitJustified' /\ MutexInv'
  BY <1>1, <1>2, <1>3, <1>4 DEF IInv, WaitJustified, MutexInv
<1>7. EofFinal' /\ EofInv'
  BY <1>1, <1>3 DEF IInv, EofFinal, EofInv
<1> QED
  BY <1>2, <1>5, <1>6, <1>7 DEF IInv

\* The steps of close(), which run without the mutex, and spurious wakeups.
LEMMA CloseStepIInv ==
    ASSUME IInv, NEW t \in Threads, NEW b \in BOOLEAN,
           \/ CloseCas(t, b) \/ CloseStore(t) \/ CloseNotify(t)
           \/ SpuriousWakeup
    PROVE  IInv'
<1>1. /\ UNCHANGED <<ring, readIdx, writeIdx, received, written, eof, mutex,
                     rcount, rret, wcount, wret, exit>>
      /\ rpc' = rpc \/ (rpc = "waiting" /\ rpc' = "woken")
      /\ wpc' = wpc \/ (wpc = "waiting" /\ wpc' = "woken")
      /\ closed' = closed \/ closed' = TRUE
  BY DEF CloseCas, CloseStore, CloseNotify, SpuriousWakeup, NotifyWritten,
         shared, readerVars, writerVars, closeVars, history
<1>2. Fifo' /\ NothingLost' /\ oneDirCircularDistance' = oneDirCircularDistance
  BY <1>1, DataUnchanged
<1>3. /\ closing' \in [Threads -> {"no", "store", "notify"}]
      /\ closeArg' \in [Threads -> BOOLEAN]
      /\ brokenConnection' \in BOOLEAN
  <2>1. CASE CloseCas(t, b)
    BY <2>1 DEF CloseCas, closeVars, IInv, TypeOK
  <2>2. CASE CloseStore(t)
    BY <2>2 DEF CloseStore, IInv, TypeOK
  <2>3. CASE CloseNotify(t)
    BY <2>3 DEF CloseNotify, shared, IInv, TypeOK
  <2>4. CASE SpuriousWakeup
    BY <2>4 DEF SpuriousWakeup, shared, closeVars, IInv, TypeOK
  <2> QED
    BY <2>1, <2>2, <2>3, <2>4
<1>4. closed' \in BOOLEAN
  BY <1>1, Zenon DEF IInv, TypeOK
<1>5. TypeOK'
  BY <1>1, <1>3, <1>4 DEF IInv, TypeOK
<1>6. WaitJustified' /\ MutexInv'
  BY <1>1, <1>2 DEF IInv, WaitJustified, MutexInv
<1>7. EofFinal' /\ EofInv'
  BY <1>1 DEF IInv, EofFinal, EofInv
<1> QED
  BY <1>2, <1>5, <1>6, <1>7 DEF IInv

\* reset() starts a new stream on an empty, open buffer.
LEMMA ResetStep ==
    ASSUME IInv, reset
    PROVE  IInv'
<1>1. /\ readIdx' = 0 /\ writeIdx' = 0 /\ closed' = FALSE
      /\ received' = << >> /\ written' = 0 /\ eof' = FALSE
      /\ rpc' = "idle" /\ wpc' = "idle" /\ mutex' = "free"
      /\ UNCHANGED <<brokenConnection, ring, rcount, rret, wcount, wret,
                     closing, closeArg, exit>>
  BY ThreadsAssumption DEF reset, CanCall, readerVars, writerVars, closeVars
<1>2. 0 \in Slots
  BY CapacityAssumption DEF Slots
<1>3. oneDirCircularDistance' = 0
  BY <1>1, <1>2, DistanceValue, CapacityAssumption DEF oneDirCircularDistance
<1>4. TypeOK'
  <2>1. closed' \in BOOLEAN /\ eof' \in BOOLEAN
    BY <1>1, Zenon
  <2>2. received' \in Seq(Nat)
    BY <1>1
  <2> QED
    BY <1>1, <1>2, <2>1, <2>2 DEF IInv, TypeOK
<1>5. Fifo' /\ NothingLost' /\ EofFinal'
  BY <1>1, <1>3 DEF Fifo, NothingLost, EofFinal, Slots
<1>6. WaitJustified' /\ MutexInv' /\ EofInv'
  BY <1>1, ThreadsAssumption DEF WaitJustified, MutexInv, EofInv
<1> QED
  BY <1>4, <1>5, <1>6 DEF IInv

\* A call of read() or write() that starts, and a call of close().
LEMMA CallIInv ==
    ASSUME IInv, NEW n \in Nat,
           \/ ReadAvailable(n) \/ ReadEmptyClosed(n) \/ ReadEmptyOpen(n)
           \/ WriteClosed(n) \/ WriteOpen(n)
    PROVE  IInv'
<1>1. CASE ReadAvailable(n)
  BY <1>1, DeliverStep DEF ReadAvailable, CanCall
<1>2. CASE ReadEmptyClosed(n) \/ ReadEmptyOpen(n)
  BY <1>2, ReaderControlStep
<1>3. CASE WriteClosed(n) \/ WriteOpen(n)
  BY <1>3, WriterControlStep
<1> QED
  BY <1>1, <1>2, <1>3

\* A call that is under way goes on.
LEMMA InnerIInv ==
    ASSUME IInv, ReaderStep \/ WriterStep \/ CloseStep
    PROVE  IInv'
<1>1. 0 \in Nat /\ Reader \in Threads /\ TRUE \in BOOLEAN
  BY DEF Threads
<1>2. CASE ReadWait \/ ReadEof
  BY <1>1, <1>2, ReaderControlStep
<1>3. CASE ReadWoken
  <2>1. CASE closed /\ readIdx = writeIdx
    <3>1. /\ mutex = "free" /\ rpc = "woken"
          /\ mutex' = Reader /\ rpc' = "eof"
          /\ UNCHANGED <<closed, brokenConnection, ring, readIdx, writeIdx,
                         rcount, rret, wpc, wcount, wret, received, written,
                         eof, exit, closing, closeArg>>
      BY <1>3, <2>1 DEF ReadWoken, writerVars, history, closeVars
    <3>2. Fifo' /\ NothingLost'
          /\ oneDirCircularDistance' = oneDirCircularDistance
      BY <3>1, DataUnchanged
    <3>3. TypeOK'
      BY <3>1 DEF IInv, TypeOK
    <3>4. WaitJustified' /\ EofFinal' /\ MutexInv' /\ EofInv'
      BY <2>1, <3>1, <3>2, ThreadsAssumption
      DEF IInv, WaitJustified, EofFinal, MutexInv, EofInv
    <3> QED
      BY <3>2, <3>3, <3>4 DEF IInv
  <2>2. CASE ~(closed /\ readIdx = writeIdx)
    <3>1. Deliver(rcount) /\ rpc = "woken" /\ mutex = "free"
          /\ UNCHANGED closeVars
      BY <1>3, <2>2 DEF ReadWoken
    <3>2. rcount \in Nat
      BY DEF IInv, TypeOK
    <3> QED
      BY <3>1, <3>2, DeliverStep
  <2> QED
    BY <2>1, <2>2
<1>4. CASE WriteWait \/ WriteWoken
  BY <1>1, <1>4, WriterControlStep
<1>5. CASE WriteCopy
  BY <1>5, WriteCopyStep
<1>6. CASE CloseStep
  BY <1>1, <1>6, CloseStepIInv DEF CloseStep
<1> QED
  BY <1>2, <1>3, <1>4, <1>5, <1>6 DEF ReaderStep, WriterStep

\* Nothing of the buffer changes.
LEMMA StutterIInv ==
    ASSUME IInv, UNCHANGED rbVars
    PROVE  IInv'
<1>1. UNCHANGED <<ring, readIdx, writeIdx, received, written>>
  BY DEF rbVars
<1>2. Fifo' /\ NothingLost' /\ oneDirCircularDistance' = oneDirCircularDistance
  BY <1>1, DataUnchanged
<1>3. TypeOK'
  BY DEF rbVars, IInv, TypeOK
<1>4. WaitJustified' /\ EofFinal' /\ MutexInv' /\ EofInv'
  BY <1>2
  DEF rbVars, IInv, WaitJustified, EofFinal, MutexInv, EofInv
<1> QED
  BY <1>2, <1>3, <1>4 DEF IInv

\* Every step preserves the invariant.
LEMMA NextIInv == IInv /\ [Next]_rbVars => IInv'
<1> SUFFICES ASSUME IInv, [Next]_rbVars PROVE IInv'
  OBVIOUS
<1>1. CASE ReaderCall \/ WriterCall
  <2>1. ReadSizes \subseteq Nat /\ WriteSizes \subseteq Nat
    BY SizesAssumption
  <2> QED
    BY <1>1, <2>1, CallIInv DEF ReaderCall, WriterCall
<1>2. CASE ReaderStep \/ WriterStep \/ CloseStep
  BY <1>2, InnerIInv
<1>3. CASE CloseCall \/ SpuriousWakeup
  <2>1. Reader \in Threads /\ TRUE \in BOOLEAN
    BY DEF Threads
  <2> QED
    BY <1>3, <2>1, CloseStepIInv DEF CloseCall
<1>4. CASE reset
  BY <1>4, ResetStep
<1>5. CASE UNCHANGED rbVars
  BY <1>5, StutterIInv
<1> QED
  BY <1>1, <1>2, <1>3, <1>4, <1>5 DEF Next

\* The invariant holds in every reachable state.
THEOREM Invariance == Spec => []IInv
BY InitIInv, NextIInv, PTL DEF Spec

\* Types, index ranges, and that of all the _Exit calls of the class only the
\* "ambiguity between empty and full" one could ever be reached.
THEOREM TypeCorrect == Spec => []TypeOK
<1>1. IInv => TypeOK
  BY DEF IInv
<1> QED
  BY <1>1, Invariance, PTL

\* For every capacity and every interleaving of read, write, close and reset,
\* the reader gets the writer's bytes in order.
THEOREM StreamIsReliable == Spec => []Fifo
<1>1. IInv => Fifo
  BY DEF IInv
<1> QED
  BY <1>1, Invariance, PTL

\* Between the two indices lie the bytes that were written and not yet read, all
\* of them and nothing else: no write goes over an unread byte.
THEOREM NothingIsLost == Spec => []NothingLost
<1>1. IInv => NothingLost
  BY DEF IInv
<1> QED
  BY <1>1, Invariance, PTL

\* No notification of data or of room is lost.
THEOREM NoLostNotification == Spec => []WaitJustified
<1>1. IInv => WaitJustified
  BY DEF IInv
<1> QED
  BY <1>1, Invariance, PTL

\* The end of the stream is reported after the last byte, once and for all.
THEOREM EndOfStreamIsFinal == Spec => []EofFinal
<1>1. IInv => EofFinal
  BY DEF IInv
<1> QED
  BY <1>1, Invariance, PTL

(***************************************************************************)
(* The ring buffer implements the bounded pipe of ByteChannel, for every   *)
(* capacity, every set of call sizes and every interleaving.               *)
(***************************************************************************)

\* Init maps to the initial state of the channel.
LEMMA InitRefines == Init => Channel!Init
BY DEF Init, Channel!Init

\* A step that touches none of the four mapped variables is a stutter.
LEMMA Stutter ==
    ASSUME UNCHANGED <<closed, received, written, eof>>
    PROVE  UNCHANGED Channel!channelVars
BY DEF Channel!channelVars

\* The body of read() takes the next bytes of the stream, or aborts.
LEMMA DeliverRefines ==
    ASSUME IInv, NEW n \in Nat, Deliver(n)
    PROVE  Channel!Take \/ UNCHANGED Channel!channelVars
<1>1. CASE writeIdx = readIdx
  BY <1>1, Stutter DEF Deliver, shared, history
<1>2. CASE writeIdx # readIdx
  <2> DEFINE k == Smaller(n, oneDirCircularDistance)
  <2>1. /\ k \in 0 .. oneDirCircularDistance
        /\ received' \in Seq(Nat)
        /\ Len(received') = Len(received) + k
        /\ \A i \in 1 .. Len(received') : received'[i] = i
    BY <1>2, DeliverEffect
  <2>2. oneDirCircularDistance \in Nat
    BY DistanceValue, CapacityAssumption DEF oneDirCircularDistance, IInv, TypeOK
  <2>3. Len(received') \in Len(received) .. written
    BY <2>1, <2>2 DEF IInv, NothingLost, TypeOK
  <2>4. received' = [i \in 1 .. Len(received') |-> i]
    BY <2>1
  <2>5. UNCHANGED <<closed, written, eof>>
    BY <1>2 DEF Deliver
  <2> QED
    BY <2>3, <2>4, <2>5 DEF Channel!Take
<1> QED
  BY <1>1, <1>2

\* Reporting the end: the buffer is closed and empty.
LEMMA ReadEofRefines ==
    ASSUME IInv, ReadEof
    PROVE  Channel!End
<1>1. closed /\ readIdx = writeIdx
  BY DEF IInv, EofInv, ReadEof
<1>2. oneDirCircularDistance = 0
  <2>1. readIdx \in Slots /\ writeIdx \in Slots /\ readIdx \in Nat
    BY DEF IInv, TypeOK, Slots
  <2>2. oneDirCircularDistance = writeIdx - readIdx
    BY <1>1, <2>1, DistanceValue DEF oneDirCircularDistance, Slots
  <2> QED
    BY <1>1, <2>1, <2>2
<1>3. written = Len(received)
  BY <1>2 DEF IInv, NothingLost, TypeOK
<1> QED
  BY <1>1, <1>3 DEF ReadEof, Channel!End

\* The body of write() puts bytes into a pipe whose end was not reported.
LEMMA WriteCopyRefines ==
    ASSUME IInv, IInv', WriteCopy
    PROVE  Channel!Put \/ UNCHANGED Channel!channelVars
<1>1. CASE UNCHANGED <<shared, history>>
  BY <1>1, Stutter DEF shared, history
<1>2. CASE ~UNCHANGED <<shared, history>>
  <2> DEFINE k == Smaller(wcount, Capacity - 1 - oneDirCircularDistance)
  <2>1. written' = written + k /\ UNCHANGED <<closed, received, eof>>
    BY <1>2 DEF WriteCopy
  <2>2. ~eof
    BY DEF IInv, EofInv, WriteCopy
  <2>3. oneDirCircularDistance \in 0 .. Capacity - 1
    BY DistanceValue DEF oneDirCircularDistance, IInv, TypeOK
  <2>4. k \in 0 .. Capacity - 1 - oneDirCircularDistance
    BY <2>3, CapacityAssumption DEF Smaller, IInv, TypeOK
  <2>5. written' \in written .. Len(received) + (Capacity - 1)
    <3>1. /\ written = Len(received) + oneDirCircularDistance
          /\ Len(received) \in Nat
      BY DEF IInv, NothingLost, TypeOK
    <3> HIDE DEF k
    <3> QED
      BY <2>1, <2>3, <2>4, <3>1, CapacityAssumption
  <2> QED
    BY <2>1, <2>2, <2>5 DEF Channel!Put
<1> QED
  BY <1>1, <1>2

\* Every step of the class is a step of the channel or leaves it unchanged.
LEMMA StepRefines ==
    ASSUME IInv, IInv', [Next]_rbVars
    PROVE  [Channel!Next]_Channel!channelVars
<1>1. CASE ReaderCall
  <2> PICK n \in ReadSizes :
         ReadAvailable(n) \/ ReadEmptyClosed(n) \/ ReadEmptyOpen(n)
    BY <1>1 DEF ReaderCall
  <2>1. CASE ReadAvailable(n)
    BY <2>1, SizesAssumption, DeliverRefines DEF ReadAvailable, Channel!Next
  <2>2. CASE ReadEmptyClosed(n) \/ ReadEmptyOpen(n)
    BY <2>2, Stutter DEF ReadEmptyClosed, ReadEmptyOpen, history
  <2> QED
    BY <2>1, <2>2
<1>2. CASE ReaderStep
  <2>1. CASE ReadWait
    BY <2>1, Stutter DEF ReadWait, history
  <2>2. CASE ReadWoken
    <3>1. CASE closed /\ readIdx = writeIdx
      BY <2>2, <3>1, Stutter DEF ReadWoken, history
    <3>2. CASE ~(closed /\ readIdx = writeIdx)
      <4>1. Deliver(rcount) /\ rcount \in Nat
        BY <2>2, <3>2 DEF ReadWoken, IInv, TypeOK
      <4> QED
        BY <4>1, DeliverRefines DEF Channel!Next
    <3> QED
      BY <3>1, <3>2
  <2>3. CASE ReadEof
    BY <2>3, ReadEofRefines DEF Channel!Next
  <2> QED
    BY <1>2, <2>1, <2>2, <2>3 DEF ReaderStep
<1>3. CASE WriterCall
  BY <1>3, Stutter DEF WriterCall, WriteClosed, WriteOpen, history, shared
<1>4. CASE WriterStep
  <2>1. CASE WriteWait \/ WriteWoken
    BY <2>1, Stutter DEF WriteWait, WriteWoken, history
  <2>2. CASE WriteCopy
    BY <2>2, WriteCopyRefines DEF Channel!Next
  <2> QED
    BY <1>4, <2>1, <2>2 DEF WriterStep
<1>5. CASE CloseCall
  <2> PICK t \in Threads, b \in BOOLEAN : CloseCas(t, b)
    BY <1>5 DEF CloseCall
  <2>1. CASE closed
    BY <2>1, Stutter DEF CloseCas, history
  <2>2. CASE ~closed
    BY <2>2 DEF CloseCas, history, Channel!Close, Channel!Next
  <2> QED
    BY <2>1, <2>2
<1>6. CASE CloseStep \/ SpuriousWakeup
  BY <1>6, Stutter DEF CloseStep, CloseStore, CloseNotify, SpuriousWakeup,
     history, shared
<1>7. CASE reset
  BY <1>7 DEF reset, Channel!Renew, Channel!Next
<1>8. CASE UNCHANGED rbVars
  BY <1>8, Stutter DEF rbVars
<1> QED
  BY <1>1, <1>2, <1>3, <1>4, <1>5, <1>6, <1>7, <1>8 DEF Next

\* Whatever a user of the class may conclude from ByteChannel holds of the
\* threads, locks and indices of ReliableRingBuffer.h.
THEOREM RingBufferImplementsByteChannel == Spec => ImplementsChannel
<1>1. IInv /\ IInv' /\ [Next]_rbVars => [Channel!Next]_Channel!channelVars
  BY StepRefines
<1> QED
  BY <1>1, InitRefines, Invariance, PTL DEF Spec, ImplementsChannel, Channel!Spec

=============================================================================
