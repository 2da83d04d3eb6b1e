-------------------------- MODULE HttpsDownloadProofs --------------------------
(***************************************************************************)
(* Proofs about a download or an upload for every redirect limit, every    *)
(* length of an answer, every capacity of the ring buffer and every size   *)
(* of the reads.                                                           *)
(***************************************************************************)
EXTENDS HttpsDownload, TLAPS

(***************************************************************************)
(* Sequences of items.                                                     *)
(***************************************************************************)

Items == [hop : Nat, part : Nat]

\* s is a piece of the answer to hop h, without a gap, from part c on.
Numbered(s, h, c) == s \in Seq(Items) /\ \A i \in 1 .. Len(s) : s[i] = Item(h, c + i - 1)

LEMMA NumberedEmpty ==
    ASSUME NEW h, NEW c PROVE Numbered(<< >>, h, c)
BY DEF Numbered

\* Reading moves a piece from the front of what follows.
LEMMA NumberedMove ==
    ASSUME NEW h \in Nat, NEW c \in Nat, NEW s, NEW t,
           Numbered(s, h, c), Numbered(t, h, c + Len(s)), NEW k \in 0 .. Len(t)
    PROVE  /\ Numbered(s \o SubSeq(t, 1, k), h, c)
           /\ Len(s \o SubSeq(t, 1, k)) = Len(s) + k
           /\ Numbered(SubSeq(t, k + 1, Len(t)), h, c + Len(s) + k)
           /\ Len(SubSeq(t, k + 1, Len(t))) = Len(t) - k
<1>1. s \in Seq(Items) /\ t \in Seq(Items) /\ Len(s) \in Nat /\ Len(t) \in Nat
  BY DEF Numbered
<1> DEFINE a == SubSeq(t, 1, k)
           b == SubSeq(t, k + 1, Len(t))
<1>2. /\ a \in Seq(Items) /\ Len(a) = k
      /\ \A i \in 1 .. k : a[i] = Item(h, c + Len(s) + i - 1)
  BY <1>1 DEF Numbered
<1>3. b \in Seq(Items) /\ Len(b) = Len(t) - k
  BY <1>1
<1>4. \A i \in 1 .. Len(b) : b[i] = Item(h, c + Len(s) + k + i - 1)
  <2> SUFFICES ASSUME NEW i \in 1 .. Len(b)
               PROVE  b[i] = Item(h, c + Len(s) + k + i - 1)
    OBVIOUS
  <2>1. b[i] = t[k + i] /\ k + i \in 1 .. Len(t)
    <3>1. k \in Nat /\ i \in 1 .. Len(t) - k
      BY <1>1, <1>3
    <3>2. k + i \in 1 .. Len(t) /\ k + 1 + i - 1 = k + i
      BY <1>1, <3>1
    <3>3. b[i] = t[k + 1 + i - 1]
      BY <1>1, <3>1
    <3> QED
      BY <3>2, <3>3
  <2>2. t[k + i] = Item(h, c + Len(s) + (k + i) - 1)
    BY <2>1 DEF Numbered
  <2>3. c + Len(s) + (k + i) - 1 = c + Len(s) + k + i - 1
    BY <1>1, <2>1
  <2> QED
    BY <2>1, <2>2, <2>3
<1> HIDE DEF a, b
<1>5. s \o a \in Seq(Items) /\ Len(s \o a) = Len(s) + k
  BY <1>1, <1>2
<1>6. ASSUME NEW i \in 1 .. Len(s) + k PROVE (s \o a)[i] = Item(h, c + i - 1)
  <2>1. CASE i <= Len(s)
    <3>1. (s \o a)[i] = s[i] /\ i \in 1 .. Len(s)
      BY <1>1, <1>2, <2>1
    <3>2. s[i] = Item(h, c + i - 1)
      BY <3>1, Zenon DEF Numbered
    <3> QED
      BY <3>1, <3>2, Zenon
  <2>2. CASE i > Len(s)
    <3>1. (s \o a)[i] = a[i - Len(s)] /\ i - Len(s) \in 1 .. k
      BY <1>1, <1>2, <2>2
    <3>2. c + Len(s) + (i - Len(s)) - 1 = c + i - 1
      BY <1>1, <3>1
    <3> QED
      BY <1>2, <3>1, <3>2
  <2>3. i <= Len(s) \/ i > Len(s)
    BY <1>1
  <2> QED
    BY <2>1, <2>2, <2>3, Zenon
<1> QED
  BY <1>3, <1>4, <1>5, <1>6 DEF Numbered, a, b

\* One more item of the answer.
LEMMA NumberedAppend ==
    ASSUME NEW h \in Nat, NEW c \in Nat, NEW s, Numbered(s, h, c)
    PROVE  /\ Numbered(Append(s, Item(h, c + Len(s))), h, c)
           /\ Len(Append(s, Item(h, c + Len(s)))) = Len(s) + 1
<1>1. s \in Seq(Items) /\ Len(s) \in Nat /\ Item(h, c + Len(s)) \in Items
  BY DEF Numbered, Items, Item
<1> QED
  BY <1>1 DEF Numbered

\* The incoming thread moves the first item.
LEMMA NumberedHead ==
    ASSUME NEW h \in Nat, NEW c \in Nat, NEW s, Numbered(s, h, c), s # << >>
    PROVE  /\ Head(s) = Item(h, c)
           /\ Numbered(Tail(s), h, c + 1) /\ Len(Tail(s)) = Len(s) - 1
<1>1. s \in Seq(Items) /\ Len(s) \in Nat \ {0}
  BY DEF Numbered
<1>2. Head(s) = Item(h, c)
  BY <1>1 DEF Numbered
<1>3. Tail(s) \in Seq(Items) /\ Len(Tail(s)) = Len(s) - 1
  BY <1>1
<1>4. \A i \in 1 .. Len(s) - 1 : Tail(s)[i] = Item(h, c + 1 + i - 1)
  BY <1>1 DEF Numbered
<1> QED
  BY <1>2, <1>3, <1>4 DEF Numbered

\* What follows the head in the bytes read for the headers.
LEMMA FirstPartValue ==
    ASSUME hop \in Nat, Numbered(hdrs, hop, 0), hdrs # << >>
    PROVE  /\ Numbered(FirstPart, hop, 1)
           /\ Len(FirstPart) = Len(hdrs) - 1
<1>1. /\ hdrs \in Seq(Items) /\ Len(hdrs) \in Nat \ {0}
      /\ \A i \in 1 .. Len(hdrs) : hdrs[i].part = i - 1
  <2>1. hdrs \in Seq(Items) /\ Len(hdrs) \in Nat \ {0}
    BY DEF Numbered
  <2>2. \A i \in 1 .. Len(hdrs) : hdrs[i] = Item(hop, 0 + i - 1)
    BY Zenon DEF Numbered
  <2>3. ASSUME NEW i \in 1 .. Len(hdrs) PROVE hdrs[i].part = i - 1
    <3>1. hdrs[i] = Item(hop, 0 + i - 1)
      BY <2>2, Zenon
    <3>2. 0 + i - 1 = i - 1
      OBVIOUS
    <3> QED
      BY <3>1, <3>2 DEF Item
  <2> QED
    BY <2>1, <2>3
<1>2. {i \in 1 .. Len(hdrs) : IsHead(hdrs[i])} = {1}
  BY <1>1 DEF IsHead
<1>3. SelectInSeq(hdrs, IsHead) = 1
  BY <1>2 DEF SelectInSeq, Min
<1>4. FirstPart = SubSeq(hdrs, 2, Len(hdrs))
  BY <1>3 DEF FirstPart
<1>5. FirstPart = Tail(hdrs)
  BY <1>1, <1>4
<1> QED
  BY <1>5, NumberedHead

\* The client is told one thing more.
LEMMA SaidAppend ==
    ASSUME NEW s \in Seq(Words), NEW m \in Words, NEW x
    PROVE  /\ Append(s, m) \in Seq(Words)
           /\ x \in ToSet(Append(s, m)) <=> (x \in ToSet(s) \/ x = m)
           /\ Last(Append(s, m)) = m
<1>1. /\ Append(s, m) \in Seq(Words) /\ Len(Append(s, m)) = Len(s) + 1
      /\ Append(s, m)[Len(s) + 1] = m
      /\ \A i \in 1 .. Len(s) : Append(s, m)[i] = s[i]
      /\ DOMAIN Append(s, m) = 1 .. Len(s) + 1 /\ DOMAIN s = 1 .. Len(s)
      /\ Len(s) \in Nat
  OBVIOUS
<1>2. x \in ToSet(Append(s, m)) <=> \E i \in 1 .. Len(s) + 1 : x = Append(s, m)[i]
  BY <1>1, Zenon DEF ToSet
<1>3. x \in ToSet(s) <=> \E i \in 1 .. Len(s) : x = s[i]
  BY <1>1, Zenon DEF ToSet
<1>4. \A i \in 1 .. Len(s) + 1 : i \in 1 .. Len(s) \/ i = Len(s) + 1
  BY <1>1
<1>5. 1 .. Len(s) \subseteq 1 .. Len(s) + 1 /\ Len(s) + 1 \in 1 .. Len(s) + 1
  BY <1>1
<1>6. x \in ToSet(Append(s, m)) <=> (x \in ToSet(s) \/ x = m)
  BY <1>1, <1>2, <1>3, <1>4, <1>5, Zenon
<1> QED
  BY <1>1, <1>6 DEF Last

(***************************************************************************)
(* The inductive invariant.                                                *)
(***************************************************************************)

\* The session thread is within httpsUrlDownload_internal, before its end.
Reading == {"setup", "request", "post", "headers", "judge", "open", "first", "body"}

\* The parts of the answer that were taken off the connection.
Consumed == IF pc = "body" THEN 1 + Len(body) ELSE Len(hdrs)

\* What the session has read is the beginning of this hop's answer.
ReadInv ==
    /\ Numbered(hdrs, hop, 0) /\ Numbered(body, hop, 1)
    /\ pc \in {"connect", "setup", "request", "post"} => hdrs = << >>
    /\ pc \in {"judge", "open", "first", "body"} => hdrs # << >>
    /\ pc \notin {"body"} \cup {"cleanup", "join", "outer", "closing", "unwind", "gone", "exited"}
         => body = << >>
    /\ pc = "first" => progress = Len(FirstPart)
    /\ pc = "body" => progress = Len(body)

\* The rest of it, so far, is in the ring buffer and on the socket.
UnderWayInv ==
    pc \in Reading =>
        /\ Numbered(ring, hop, Consumed) /\ Numbered(net, hop, Consumed + Len(ring))
        /\ Consumed + Len(ring) + Len(net) <= sent
        /\ link # "rst" => Consumed + Len(ring) + Len(net) = sent

\* The answer's end was found to be a broken one, which is stored or will be.
Breaks == incoming = "breaks" \/ (incoming = "done" /\ brokenConnection)

\* When the incoming thread runs, and what the end of the ring buffer means.
ThreadInv ==
    /\ pc = "connect" => ring = << >> /\ inRb = "open"
    /\ pc \in {"connect", "outer"} \/ ~tls => incoming \in {"none", "done"}
    /\ pc \in Reading /\ ~tls => ring = << >> /\ inRb = "open"
    /\ pc \in Reading /\ inRb = "closed" =>
         /\ incoming \in {"breaks", "ends", "done"}
         /\ flaw # "damaged" => net = << >> /\ link = (IF Breaks THEN "rst" ELSE "fin")

StreamInv == ReadInv /\ UnderWayInv /\ ThreadInv

\* The ranges that the bounds of the answer give.
RangeInv ==
    /\ sent <= answer.pieces + 1
    /\ pc \in {"connect", "setup", "request"} => progress = 0
    /\ pc = "post" => progress <= answer.upload

HInv == TypeOK /\ StreamInv /\ RangeInv

\* The lengths are numbers.
LEMMA Lengths ==
    ASSUME HInv
    PROVE  /\ hop \in Nat /\ sent \in Nat /\ progress \in Nat
           /\ Len(ring) \in Nat /\ Len(net) \in Nat
           /\ Len(hdrs) \in Nat /\ Len(body) \in Nat /\ Consumed \in Nat
BY HttpsAssumption DEF HInv, TypeOK, Consumed

LEMMA InitHInv == Init => HInv
<1> SUFFICES ASSUME Init PROVE HInv
  OBVIOUS
<1>1. TypeOK
  <2>1. answer \in Answers
    BY HttpsAssumption DEF Init, Answers
  <2>2. /\ tls \in BOOLEAN /\ asked \in BOOLEAN /\ java \in BOOLEAN
        /\ brokenConnection \in BOOLEAN /\ deaf \in BOOLEAN
    BY Zenon DEF Init
  <2>3. net \in Seq(Parts) /\ ring \in Seq(Parts) /\ hdrs \in Seq(Parts) /\ body \in Seq(Parts)
    BY DEF Init
  <2> QED
    BY <2>1, <2>2, <2>3, HttpsAssumption DEF Init, TypeOK
<1>2. StreamInv /\ RangeInv
  BY NumberedEmpty DEF Init, StreamInv, ReadInv, UnderWayInv, ThreadInv, RangeInv, Reading
<1> QED
  BY <1>1, <1>2 DEF HInv

\* The steps of the session thread that move no item.
LEMMA SessionStream ==
    ASSUME HInv,
           \/ RefusePlain \/ PortMalformed \/ CannotConnect \/ Setup \/ Request \/ Post \/ PostEnd
           \/ HeadersEnd \/ Judge \/ OpenFails \/ BodyEnd \/ Cleanup \/ Join
           \/ LoopEnds \/ LoopFails \/ Close
    PROVE  StreamInv'
<1>1. UNCHANGED <<hop, hdrs, body, ring, net, sent, tls, incoming>>
  BY DEF RefusePlain, PortMalformed, CannotConnect, Setup, Request, Post, PostEnd,
         HeadersEnd, Judge,
         OpenFails, BodyEnd, Cleanup, Join, LoopEnds, LoopFails, Close,
         remoteVars, ringVars, bufferVars, bodyVars
<1>2. \/ /\ pc' \in Reading /\ UNCHANGED <<link, inRb, brokenConnection, flaw>>
         /\ \/ pc \in {"setup", "request", "post"} /\ pc' \in {"request", "post", "headers"}
            \/ pc = "judge" /\ pc' = "open"
      \/ /\ pc' \in {"cleanup", "join", "closing", "unwind", "gone", "exited"}
      \/ pc' = "outer" /\ (pc = "connect" \/ ~tls \/ incoming = "done")
  <2>1. CASE RefusePlain \/ PortMalformed \/ CannotConnect \/ Setup \/ Judge
    BY <2>1 DEF RefusePlain, PortMalformed, CannotConnect, Setup, Judge, Tells, Goes,
                Returns, Caught,
                AfterCall, ringVars, bufferVars, Reading
  <2>2. CASE Request \/ Post \/ PostEnd
    BY <2>2 DEF Request, Post, PostEnd, Tells, Goes, Caught, ringVars, bufferVars, Reading
  <2>3. CASE HeadersEnd \/ OpenFails \/ BodyEnd
    BY <2>3 DEF HeadersEnd, OpenFails, BodyEnd, Broken, Tells, Returns, Caught
  <2>4. CASE Cleanup \/ Join \/ LoopEnds \/ LoopFails \/ Close
    BY <2>4 DEF Cleanup, Join, LoopEnds, LoopFails, Close, Tells, Goes, AfterCall
  <2> QED
    BY <2>1, <2>2, <2>3, <2>4
<1> QED
  BY <1>1, <1>2
  DEF HInv, StreamInv, ReadInv, UnderWayInv, ThreadInv, Breaks, Reading, Consumed

\* A new connection, and a new call after a redirect.
LEMMA ConnectStream ==
    ASSUME HInv, Connect \/ Again
    PROVE  StreamInv'
<1>1. CASE Connect
  <2>1. /\ pc = "connect" /\ pc' \in {"setup", "request", "unwind"} /\ sent' = 0 /\ net' = << >>
        /\ link' = "open" /\ (~tls' => incoming' = "none")
        /\ UNCHANGED <<hop, ring, inRb, hdrs, body>>
    BY <1>1 DEF Connect, bodyVars
  <2>2. hdrs = << >> /\ body = << >> /\ ring = << >> /\ inRb = "open"
    BY <2>1 DEF HInv, StreamInv, ReadInv, ThreadInv
  <2> QED
    BY <2>1, <2>2, NumberedEmpty
    DEF HInv, StreamInv, ReadInv, UnderWayInv, ThreadInv, Reading, Consumed
<1>2. CASE Again
  <2>1. /\ pc = "outer" /\ pc' = "connect" /\ hdrs' = << >> /\ body' = << >>
        /\ ring' = << >> /\ inRb' = "open" /\ incoming' = incoming
    BY <1>2 DEF Again, NextCall
  <2> QED
    BY <2>1, NumberedEmpty
    DEF HInv, StreamInv, ReadInv, UnderWayInv, ThreadInv, Reading, Consumed
<1> QED
  BY <1>1, <1>2

\* Taking k items off the connection: they continue what was read.
LEMMA TakesStream ==
    ASSUME HInv, pc \in Reading, NEW k \in 1 .. Chunk, Takes(k),
           NEW s, Numbered(s, hop, Consumed - Len(s)), Consumed - Len(s) \in Nat
    PROVE  /\ Numbered(s \o SubSeq(Readable, 1, k), hop, Consumed - Len(s))
           /\ Len(s \o SubSeq(Readable, 1, k)) = Len(s) + k
           /\ Numbered(ring', hop, Consumed + k)
           /\ Numbered(net', hop, Consumed + k + Len(ring'))
           /\ Consumed + k + Len(ring') + Len(net') = Consumed + Len(ring) + Len(net)
           /\ sent' = sent
           /\ incoming' = incoming \/ (tls /\ incoming = "blocked" /\ incoming' = "loop")
           /\ ~tls => ring' = << >>
           /\ UNCHANGED <<inRb, brokenConnection, flaw>> /\ (net = << >> => net' = << >>)
<1> DEFINE c == Consumed - Len(s)
<1>1. /\ hop \in Nat /\ Consumed \in Nat /\ Len(s) \in Nat /\ k \in Nat
      /\ Len(ring) \in Nat /\ Len(net) \in Nat /\ k <= Len(Readable)
      /\ Numbered(ring, hop, Consumed) /\ Numbered(net, hop, Consumed + Len(ring))
      /\ sent' = sent /\ c \in Nat /\ c + Len(s) = Consumed
  <2>1. /\ hop \in Nat /\ Consumed \in Nat /\ Len(ring) \in Nat /\ Len(net) \in Nat
        /\ k \in Nat
    BY Lengths, HttpsAssumption
  <2>2. Len(s) \in Nat
    BY DEF Numbered
  <2>3. Numbered(ring, hop, Consumed) /\ Numbered(net, hop, Consumed + Len(ring))
    BY DEF HInv, StreamInv, UnderWayInv
  <2>4. k <= Len(Readable) /\ sent' = sent
    BY DEF Takes
  <2>5. c \in Nat /\ c + Len(s) = Consumed
    BY <2>1, <2>2
  <2> QED
    BY <2>1, <2>2, <2>3, <2>4, <2>5
<1>2. CASE tls
  <2>1. /\ ring' = SubSeq(ring, k + 1, Len(ring)) /\ net' = net
        /\ UNCHANGED <<inRb, brokenConnection, flaw>> /\ Readable = ring /\ k \in 0 .. Len(ring)
        /\ incoming' = IF incoming = "blocked" THEN "loop" ELSE incoming
    BY <1>1, <1>2 DEF Takes, Readable
  <2>2. /\ Numbered(s \o SubSeq(ring, 1, k), hop, c)
        /\ Len(s \o SubSeq(ring, 1, k)) = Len(s) + k
        /\ Numbered(ring', hop, c + Len(s) + k) /\ Len(ring') = Len(ring) - k
    BY <1>1, <2>1, NumberedMove
  <2>3. Consumed + k + Len(ring') = Consumed + Len(ring)
    BY <1>1, <2>2
  <2> QED
    BY <1>1, <1>2, <2>1, <2>2, <2>3
<1>3. CASE ~tls
  <2>1. /\ ring = << >> /\ net' = SubSeq(net, k + 1, Len(net)) /\ Readable = net
        /\ UNCHANGED <<ring, inRb, incoming, brokenConnection, flaw>> /\ k \in 0 .. Len(net)
    BY <1>1, <1>3 DEF Takes, Readable, HInv, StreamInv, ThreadInv, ringVars, bufferVars
  <2>2. Len(ring) = 0 /\ Consumed + Len(ring) = Consumed
    BY <1>1, <2>1
  <2>3. /\ Numbered(s \o SubSeq(net, 1, k), hop, c)
        /\ Len(s \o SubSeq(net, 1, k)) = Len(s) + k
        /\ Numbered(net', hop, c + Len(s) + k) /\ Len(net') = Len(net) - k
    BY <1>1, <2>1, <2>2, NumberedMove
  <2>4. net = << >> => net' = << >>
    BY <1>1, <2>1
  <2>5. Consumed + k + Len(ring') + Len(net') = Consumed + Len(ring) + Len(net)
    <3>1. Len(ring') = 0 /\ Len(net') = Len(net) - k
      BY <2>1, <2>2, <2>3
    <3> QED
      BY <1>1, <2>2, <3>1
  <2>6. Numbered(ring', hop, Consumed + k) /\ Consumed + k + Len(ring') = Consumed + k
    BY <1>1, <2>1, <2>2, NumberedEmpty
  <2> QED
    BY <1>1, <1>3, <2>1, <2>2, <2>3, <2>4, <2>5, <2>6
<1> QED
  BY <1>2, <1>3

\* Reading a part of the headers or of the body.
LEMMA ReadStream ==
    ASSUME HInv, NEW k \in 1 .. Chunk, ReadHeaders(k) \/ HeadersTooLarge(k) \/ ReadBody(k) \/ StoreFails(k)
    PROVE  StreamInv'
<1>0. /\ hop \in Nat /\ Len(hdrs) \in Nat /\ Len(body) \in Nat
      /\ k \in Nat /\ k > 0
  BY Lengths, HttpsAssumption
<1>1. CASE ReadHeaders(k)
  <2>1. /\ pc = "headers" /\ Takes(k) /\ hdrs' = hdrs \o SubSeq(Readable, 1, k)
        /\ pc' \in {"headers", "judge"} /\ UNCHANGED <<hop, tls, body, progress, link>>
    BY <1>1 DEF ReadHeaders, HeadersTooLarge, Goes
  <2>2. /\ Consumed = Len(hdrs) /\ Consumed - Len(hdrs) = 0 /\ body = << >>
        /\ Numbered(hdrs, hop, 0)
    BY <1>0, <2>1 DEF Consumed, HInv, StreamInv, ReadInv
  <2>3. /\ Numbered(hdrs', hop, 0) /\ Len(hdrs') = Len(hdrs) + k
        /\ Numbered(ring', hop, Consumed + k)
        /\ Numbered(net', hop, Consumed + k + Len(ring'))
        /\ Consumed + k + Len(ring') + Len(net') = Consumed + Len(ring) + Len(net)
        /\ sent' = sent
        /\ incoming' = incoming \/ (tls /\ incoming = "blocked" /\ incoming' = "loop")
        /\ ~tls => ring' = << >>
        /\ UNCHANGED <<inRb, brokenConnection, flaw>> /\ (net = << >> => net' = << >>)
    BY <2>1, <2>2, TakesStream DEF Reading
  <2>4. hdrs' # << >>
    BY <1>0, <2>3
  <2>5. Consumed' = Consumed + k
    <3>1. Consumed' = Len(hdrs')
      BY <2>1 DEF Consumed
    <3> QED
      BY <2>2, <2>3, <3>1
  <2>6. ReadInv'
    BY <2>1, <2>2, <2>3, <2>4, NumberedEmpty DEF ReadInv
  <2>7. UnderWayInv'
    BY <2>1, <2>3, <2>5 DEF HInv, StreamInv, UnderWayInv, Reading
  <2>8. ThreadInv'
    BY <2>1, <2>3 DEF HInv, StreamInv, ThreadInv, Breaks, Reading
  <2> QED
    BY <2>6, <2>7, <2>8 DEF StreamInv
<1>2. CASE HeadersTooLarge(k)
  <2>1. /\ pc' = "cleanup" /\ UNCHANGED <<hop, tls, hdrs, body>>
        /\ incoming' = incoming \/ (tls /\ incoming' = "loop")
    BY <1>2 DEF HeadersTooLarge, Takes, Caught, ringVars, bufferVars, bodyVars
  <2> QED
    BY <2>1 DEF HInv, StreamInv, ReadInv, UnderWayInv, ThreadInv, Reading
<1>3. CASE ReadBody(k) \/ StoreFails(k)
  <2>1. /\ pc = "body" /\ Takes(k) /\ pc' \in {"body", "cleanup"}
        /\ UNCHANGED <<hop, tls, hdrs>> /\ progress' = progress + k
        /\ body' = body \o SubSeq(Readable, 1, k) \/ (body' = body /\ pc' = "cleanup")
        /\ pc' = "body" => link' = link
    BY <1>3 DEF ReadBody, StoreFails, Goes, Caught, Tells
  <2>2. /\ Consumed = 1 + Len(body) /\ Consumed - Len(body) = 1
        /\ Numbered(body, hop, 1) /\ progress = Len(body)
    BY <1>0, <2>1 DEF Consumed, HInv, StreamInv, ReadInv
  <2>3. /\ Numbered(body', hop, 1)
        /\ pc' = "body" => Len(body') = Len(body) + k
        /\ Numbered(ring', hop, Consumed + k)
        /\ Numbered(net', hop, Consumed + k + Len(ring'))
        /\ Consumed + k + Len(ring') + Len(net') = Consumed + Len(ring) + Len(net)
        /\ sent' = sent
        /\ incoming' = incoming \/ (tls /\ incoming = "blocked" /\ incoming' = "loop")
        /\ ~tls => ring' = << >>
        /\ UNCHANGED <<inRb, brokenConnection, flaw>> /\ (net = << >> => net' = << >>)
    <3> DEFINE more == body \o SubSeq(Readable, 1, k)
    <3>1. /\ Numbered(more, hop, 1) /\ Len(more) = Len(body) + k
          /\ Numbered(ring', hop, Consumed + k)
          /\ Numbered(net', hop, Consumed + k + Len(ring'))
          /\ Consumed + k + Len(ring') + Len(net') = Consumed + Len(ring) + Len(net)
          /\ sent' = sent
          /\ incoming' = incoming \/ (tls /\ incoming = "blocked" /\ incoming' = "loop")
          /\ ~tls => ring' = << >>
          /\ UNCHANGED <<inRb, brokenConnection, flaw>> /\ (net = << >> => net' = << >>)
      BY <2>1, <2>2, TakesStream DEF Reading
    <3>2. body' = more \/ (body' = body /\ pc' = "cleanup")
      BY <2>1
    <3> HIDE DEF more
    <3> QED
      BY <2>2, <3>1, <3>2
  <2>4. pc' = "body" => Consumed' = Consumed + k
    BY <1>0, <2>2, <2>3 DEF Consumed
  <2> QED
    BY <1>0, <2>1, <2>2, <2>3, <2>4 DEF HInv, StreamInv, ReadInv, UnderWayInv, ThreadInv,
                Breaks, Reading
<1> QED
  BY <1>1, <1>2, <1>3

\* What came with the headers is the beginning of the body.
LEMMA OpenStream ==
    ASSUME HInv, Open \/ PassFirst
    PROVE  StreamInv'
<1>1. /\ pc \in {"open", "first"} /\ hdrs # << >> /\ Numbered(hdrs, hop, 0) /\ hop \in Nat
  BY Lengths DEF Open, PassFirst, HInv, StreamInv, ReadInv
<1>2. /\ Numbered(FirstPart, hop, 1) /\ Len(FirstPart) = Len(hdrs) - 1
      /\ Len(hdrs) \in Nat
  BY <1>1, FirstPartValue DEF Numbered
<1>3. /\ UNCHANGED <<hop, tls, sent, net, ring, inRb, incoming, brokenConnection, flaw, hdrs>>
      /\ body' \in {<< >>, FirstPart} /\ pc' \in {"first", "body", "cleanup"}
      /\ pc' = "body" => body' = FirstPart /\ progress' = Len(FirstPart)
      /\ pc' = "first" => body' = << >> /\ progress' = Len(FirstPart)
      /\ pc' # "cleanup" => link' = link
  BY DEF Open, PassFirst, Tells, Goes, Caught, remoteVars, ringVars, bufferVars, HInv,
         StreamInv, ReadInv
<1>4. FirstPart' = FirstPart
  BY <1>3 DEF FirstPart
<1>5. Numbered(body', hop, 1)
  BY <1>2, <1>3, NumberedEmpty
<1>6. pc' \in {"first", "body"} => Consumed' = Consumed
  BY <1>1, <1>2, <1>3 DEF Consumed
<1> QED
  BY <1>1, <1>2, <1>3, <1>4, <1>5, <1>6
  DEF HInv, StreamInv, ReadInv, UnderWayInv, ThreadInv, Breaks, Reading

\* The incoming thread, the remote server and the others.
LEMMA OthersStream ==
    ASSUME HInv, Incoming \/ Remote \/ Damaged \/ SpuriousWakeup \/ JavaLeaves \/ Reuse
    PROVE  StreamInv'
<1>1. /\ UNCHANGED <<hop, tls, hdrs, body, progress>> /\ pc' \in {pc, "exited"}
      /\ hop \in Nat /\ sent \in Nat /\ Consumed \in Nat
      /\ Len(ring) \in Nat /\ Len(net) \in Nat
  BY Lengths DEF Incoming, Remote, Deliver, SocketEnds, StoreBroken, Damaged, Closes,
              SpuriousWakeup, RemoteSends, RemoteEnds, JavaLeaves,
                 Reuse, bodyVars
<1>2. ReadInv' /\ (pc' = pc => Consumed' = Consumed)
  BY <1>1 DEF HInv, StreamInv, ReadInv, Consumed, FirstPart
<1>3. CASE Deliver
  <2>1. /\ incoming = "loop" /\ net # << >> /\ UNCHANGED <<pc, sent, link, inRb, brokenConnection, flaw>>
        /\ \/ inRb = "closed" /\ net' = Tail(net) /\ UNCHANGED <<incoming, ring>>
           \/ inRb = "open" /\ net' = Tail(net) /\ ring' = Append(ring, Head(net))
              /\ UNCHANGED incoming
           \/ incoming' = "blocked" /\ UNCHANGED <<net, ring>>
    BY <1>3 DEF Deliver
  <2>2. ThreadInv'
    BY <1>1, <2>1 DEF HInv, StreamInv, ThreadInv, Breaks, Reading
  <2>3. CASE pc \notin Reading
    BY <1>1, <1>2, <2>1, <2>2, <2>3 DEF StreamInv, UnderWayInv
  <2>4. CASE pc \in Reading /\ UNCHANGED <<net, ring>>
    BY <1>1, <1>2, <2>1, <2>2, <2>4 DEF HInv, StreamInv, UnderWayInv
  <2>5. CASE pc \in Reading /\ net' = Tail(net) /\ ring' = Append(ring, Head(net))
    <3>1. Numbered(ring, hop, Consumed) /\ Numbered(net, hop, Consumed + Len(ring))
      BY <2>5 DEF HInv, StreamInv, UnderWayInv
    <3>2. Consumed + Len(ring) \in Nat
      BY <1>1
    <3>3. /\ Head(net) = Item(hop, Consumed + Len(ring))
          /\ Numbered(net', hop, Consumed + Len(ring) + 1) /\ Len(net') = Len(net) - 1
      BY <1>1, <2>1, <2>5, <3>1, <3>2, NumberedHead
    <3>4. Numbered(ring', hop, Consumed) /\ Len(ring') = Len(ring) + 1
      BY <1>1, <2>5, <3>1, <3>3, NumberedAppend
    <3>5. /\ Consumed + Len(ring') = Consumed + Len(ring) + 1
          /\ Consumed + Len(ring') + Len(net') = Consumed + Len(ring) + Len(net)
      BY <1>1, <3>3, <3>4
    <3> QED
      BY <1>1, <1>2, <2>1, <2>2, <3>3, <3>4, <3>5 DEF HInv, StreamInv, UnderWayInv
  <2> QED
    BY <2>1, <2>3, <2>4, <2>5 DEF HInv, StreamInv, ThreadInv
<1>4. CASE SocketEnds \/ Damaged
  <2>1. /\ incoming = "loop" /\ inRb' = "closed" /\ UNCHANGED <<pc, sent, net, ring, link>>
        /\ inRb = "open" => incoming' \in {"breaks", "ends"}
        /\ inRb # "open" => incoming' \in {"breaks", "ends", "done"}
        /\ inRb \in {"open", "closed"}
        /\ \/ inRb = "open" => flaw' = "damaged"
           \/ /\ net = << >> /\ link \in {"fin", "rst"}
              /\ inRb = "open" => incoming' = (IF link = "rst" THEN "breaks" ELSE "ends")
    BY <1>4 DEF SocketEnds, Damaged, Closes, remoteVars, HInv, TypeOK
  <2>2. pc \in Reading => tls /\ inRb = "open"
    BY <2>1 DEF HInv, StreamInv, ThreadInv
  <2>3. ThreadInv'
    BY <1>1, <2>1, <2>2 DEF HInv, StreamInv, ThreadInv, Breaks, Reading
  <2> QED
    BY <1>1, <1>2, <2>1, <2>3 DEF HInv, StreamInv, UnderWayInv
<1>5. CASE RemoteSends
  <2>1. /\ link = "open" /\ net' = Append(net, Item(hop, sent)) /\ sent' = sent + 1
        /\ UNCHANGED <<pc, link, incoming, ring, inRb, brokenConnection, flaw>>
    BY <1>5 DEF RemoteSends, ringVars, bufferVars
  <2>2. ThreadInv'
    BY <1>1, <2>1 DEF HInv, StreamInv, ThreadInv, Breaks, Reading
  <2>3. CASE pc \in Reading
    <3>1. /\ Numbered(net, hop, Consumed + Len(ring))
          /\ sent = Consumed + Len(ring) + Len(net) /\ Consumed + Len(ring) \in Nat
      BY <1>1, <2>1, <2>3 DEF HInv, StreamInv, UnderWayInv
    <3>2. /\ Numbered(net', hop, Consumed + Len(ring)) /\ Len(net') = Len(net) + 1
      BY <1>1, <2>1, <3>1, NumberedAppend
    <3> QED
      BY <1>1, <1>2, <2>1, <2>2, <3>1, <3>2 DEF HInv, StreamInv, UnderWayInv
  <2> QED
    BY <1>1, <1>2, <2>1, <2>2, <2>3 DEF StreamInv, UnderWayInv
<1>6. CASE RemoteEnds
  <2>1. /\ link = "open" /\ UNCHANGED <<pc, sent, incoming, ring, inRb, brokenConnection, flaw>>
        /\ (link' = "fin" /\ net' = net) \/ (link' = "rst" /\ net' = << >>)
    BY <1>6 DEF RemoteEnds, ringVars, bufferVars
  <2>2. ThreadInv'
    BY <1>1, <2>1 DEF HInv, StreamInv, ThreadInv, Breaks, Reading
  <2>3. Consumed + Len(ring) + 0 <= Consumed + Len(ring) + Len(net)
    BY <1>1
  <2>4. Consumed + Len(ring) <= sent \/ pc \notin Reading
    BY <1>1, <2>3 DEF HInv, StreamInv, UnderWayInv
  <2> QED
    BY <1>1, <1>2, <2>1, <2>2, <2>4, NumberedEmpty DEF HInv, StreamInv, UnderWayInv
<1>7. CASE JavaLeaves \/ Reuse
  BY <1>1, <1>2, <1>7
  DEF JavaLeaves, Reuse, remoteVars, ringVars, bufferVars, HInv, StreamInv, UnderWayInv,
      ThreadInv, Breaks
<1>8. CASE StoreBroken \/ SpuriousWakeup
  <2>1. /\ UNCHANGED <<sent, net, ring, link, inRb, flaw>>
        /\ \/ pc' = "exited" /\ incoming' = incoming
           \/ UNCHANGED <<pc, incoming, brokenConnection>>
           \/ /\ pc' = pc /\ incoming \in {"breaks", "ends"} /\ incoming' = "done"
              /\ brokenConnection' = (incoming = "breaks")
           \/ /\ pc' = pc /\ incoming = "blocked" /\ incoming' = "loop" /\ inRb = "closed"
    BY <1>8 DEF StoreBroken, SpuriousWakeup, remoteVars
  <2>2. ThreadInv'
    <3>1. CASE pc' = "exited" /\ incoming' = incoming
      BY <1>1, <2>1, <3>1 DEF HInv, StreamInv, ThreadInv, Reading
    <3>2. CASE UNCHANGED <<pc, incoming, brokenConnection>>
      BY <1>1, <2>1, <3>2 DEF HInv, StreamInv, ThreadInv, Breaks
    <3>3. CASE /\ pc' = pc /\ incoming \in {"breaks", "ends"} /\ incoming' = "done"
               /\ brokenConnection' = (incoming = "breaks")
      <4>1. Breaks' <=> Breaks
        BY <3>3 DEF Breaks
      <4> QED
        BY <1>1, <2>1, <3>3, <4>1 DEF HInv, StreamInv, ThreadInv
    <3>4. CASE pc' = pc /\ incoming = "blocked" /\ incoming' = "loop" /\ inRb = "closed"
      BY <1>1, <2>1, <3>4 DEF HInv, StreamInv, ThreadInv
    <3> QED
      BY <2>1, <3>1, <3>2, <3>3, <3>4
  <2>3. UnderWayInv'
    BY <1>1, <1>2, <2>1 DEF HInv, StreamInv, UnderWayInv, Reading
  <2> QED
    BY <1>2, <2>2, <2>3 DEF StreamInv
<1> QED
  BY <1>3, <1>4, <1>5, <1>6, <1>7, <1>8 DEF Incoming, Remote

\* Every step preserves that part of the invariant.
LEMMA StreamStep == HInv /\ [Next]_vars => StreamInv'
<1> SUFFICES ASSUME HInv, [Next]_vars PROVE StreamInv'
  OBVIOUS
<1>1. CASE UNCHANGED vars
  BY <1>1 DEF vars, remoteVars, ringVars, bufferVars, bodyVars, localVars, HInv,
              StreamInv, ReadInv,
              UnderWayInv, ThreadInv, Breaks, Consumed, FirstPart
<1>2. CASE Session
  BY <1>2, SessionStream, ConnectStream, ReadStream, OpenStream DEF Session
<1> QED
  BY <1>1, <1>2, OthersStream DEF Next, Incoming, Remote

(***************************************************************************)
(* The types.                                                              *)
(***************************************************************************)

\* The client is told one word or nothing.
LEMMA SaidStep ==
    ASSUME TypeOK, [Next]_vars
    PROVE  /\ cl' \in {"own", "closed", "other"}
           /\ said' = said \/ \E m \in Words : said' = Append(said, m)
<1>1. cl \in {"own", "closed", "other"}
  BY DEF TypeOK
<1>2. CASE Session
  <2>1. CASE CannotConnect \/ Setup \/ Request \/ Post \/ PostEnd \/ Judge
    BY <1>1, <2>1 DEF CannotConnect, Setup, Request, Post, PostEnd, Judge, Tells, Told,
                      Untold, localVars, Words
  <2>2. CASE Open \/ PassFirst \/ BodyEnd \/ LoopFails \/ Close
    BY <1>1, <2>2 DEF Open, PassFirst, BodyEnd, LoopFails, Close, Broken, CloseLocal,
                      Tells, Told, Untold, localVars, Words
  <2>3. CASE \E k \in 1 .. Chunk : ReadHeaders(k) \/ HeadersTooLarge(k) \/ ReadBody(k)
                                   \/ StoreFails(k)
    BY <1>1, <2>3 DEF ReadHeaders, HeadersTooLarge, ReadBody, StoreFails, Tells, Told,
                Untold, localVars, Words
  <2>4. CASE RefusePlain \/ PortMalformed \/ Connect \/ HeadersEnd \/ OpenFails \/ Cleanup \/ Join \/ Again
             \/ LoopEnds
    BY <1>1, <2>4 DEF RefusePlain, PortMalformed, Connect, HeadersEnd, OpenFails,
                Cleanup, Join, Again,
                      NextCall, LoopEnds, localVars
  <2> QED
    BY <1>2, <2>1, <2>2, <2>3, <2>4 DEF Session
<1>3. CASE Incoming \/ Remote \/ Damaged \/ SpuriousWakeup \/ JavaLeaves \/ Reuse \/ UNCHANGED vars
  BY <1>1, <1>3 DEF Incoming, Remote, Deliver, SocketEnds, StoreBroken, Damaged, Closes,
              SpuriousWakeup, RemoteSends, RemoteEnds, JavaLeaves,
                    Reuse, vars, localVars
<1> QED
  BY <1>2, <1>3 DEF Next

LEMMA ControlStep ==
    ASSUME TypeOK, [Next]_vars
    PROVE  /\ mode' \in Modes /\ hop' \in 1 .. MaxHops
           /\ pc' \in {"connect", "setup", "request", "post", "headers", "judge", "open",
                       "first", "body", "cleanup", "join", "outer", "closing", "unwind",
                       "gone", "exited"}
           /\ ret' \in {"none", "ok", "moved", "refused", "fail", "throw"}
           /\ link' \in {"open", "fin", "rst"} /\ inRb' \in {"open", "closed"}
           /\ flaw' \in {"none", "damaged", "unstored"}
           /\ incoming' \in {"none", "loop", "blocked", "breaks", "ends", "done"}
<1>1. CASE Session
  <2>1. CASE CannotConnect \/ Setup \/ Request \/ Post \/ PostEnd \/ Judge \/ RefusePlain \/ PortMalformed
    BY <2>1 DEF TypeOK, CannotConnect, Setup, Request, Post, PostEnd, Judge, RefusePlain,
                PortMalformed,
                Tells, Goes, Returns, Caught, AfterCall, ringVars, bufferVars
  <2>2. CASE Open \/ PassFirst \/ BodyEnd \/ LoopFails \/ Close \/ HeadersEnd \/ OpenFails
    BY <2>2 DEF TypeOK, Open, PassFirst, BodyEnd, FlawFound, LoopFails, Close,
                HeadersEnd, OpenFails,
                Broken, Tells, Goes, Returns, Caught, ringVars, bufferVars
  <2>3. CASE \E k \in 1 .. Chunk : ReadHeaders(k) \/ HeadersTooLarge(k) \/ ReadBody(k)
                                   \/ StoreFails(k)
    BY <2>3 DEF TypeOK, ReadHeaders, HeadersTooLarge, ReadBody, StoreFails, Takes, Tells,
                Goes, Caught, ringVars, bufferVars
  <2>4. CASE Again
    BY <2>4, HttpsAssumption DEF TypeOK, Again, NextCall
  <2>5. CASE Connect \/ Cleanup \/ Join \/ LoopEnds
    BY <2>5 DEF TypeOK, Connect, Cleanup, Join, LoopEnds, AfterCall, ringVars, bufferVars
  <2> QED
    BY <1>1, <2>1, <2>2, <2>3, <2>4, <2>5 DEF Session
<1>2. CASE Incoming \/ Remote \/ Damaged \/ SpuriousWakeup \/ JavaLeaves \/ Reuse \/ UNCHANGED vars
  BY <1>2 DEF TypeOK, Incoming, Remote, Deliver, SocketEnds, StoreBroken, Damaged,
              Closes, SpuriousWakeup, RemoteSends, RemoteEnds,
              JavaLeaves, Reuse, vars, ringVars, bufferVars
<1> QED
  BY <1>1, <1>2 DEF Next

LEMMA BooleanStep ==
    ASSUME TypeOK, [Next]_vars
    PROVE  /\ tls' \in BOOLEAN /\ asked' \in BOOLEAN /\ java' \in BOOLEAN
           /\ brokenConnection' \in BOOLEAN /\ deaf' \in BOOLEAN
<1>1. /\ tls \in BOOLEAN /\ asked \in BOOLEAN /\ java \in BOOLEAN
      /\ brokenConnection \in BOOLEAN /\ deaf \in BOOLEAN
  BY DEF TypeOK
<1>2. tls' = tls \/ tls' \in BOOLEAN
  BY DEF Next, Session, Incoming, Remote, RefusePlain, PortMalformed, CannotConnect,
         Connect, Setup,
         Request, Post, PostEnd, ReadHeaders, HeadersTooLarge, ReadBody, StoreFails,
         HeadersEnd, Judge,
         OpenFails, Open, PassFirst, BodyEnd, Cleanup, Join, Again, NextCall, LoopEnds,
         LoopFails, Close, Deliver, SocketEnds, StoreBroken, Damaged, Closes,
         SpuriousWakeup, RemoteSends, RemoteEnds, JavaLeaves, Reuse,
         vars
<1>3. asked' = asked \/ asked' = TRUE \/ asked' = FALSE
  BY DEF Next, Session, Incoming, Remote, RefusePlain, PortMalformed, CannotConnect,
         Connect, Setup,
         Request, Post, PostEnd, ReadHeaders, HeadersTooLarge, ReadBody, StoreFails,
         HeadersEnd, Judge,
         OpenFails, Open, PassFirst, BodyEnd, Cleanup, Join, Again, NextCall, LoopEnds,
         LoopFails, Close, Deliver, SocketEnds, StoreBroken, Damaged, Closes,
         SpuriousWakeup, RemoteSends, RemoteEnds, JavaLeaves, Reuse,
         vars, remoteVars, Takes
<1>4. java' = java \/ java' = FALSE
  BY DEF Next, Session, Incoming, Remote, RefusePlain, PortMalformed, CannotConnect,
         Connect, Setup,
         Request, Post, PostEnd, ReadHeaders, HeadersTooLarge, ReadBody, StoreFails,
         HeadersEnd, Judge,
         OpenFails, Open, PassFirst, BodyEnd, Cleanup, Join, Again, NextCall, LoopEnds,
         LoopFails, Close, Deliver, SocketEnds, StoreBroken, Damaged, Closes,
         SpuriousWakeup, RemoteSends, RemoteEnds, JavaLeaves, Reuse,
         vars
<1>5. \/ brokenConnection' = brokenConnection
      \/ brokenConnection' = (brokenConnection /\ inRb = "closed")
      \/ brokenConnection' = (incoming = "breaks")
  BY DEF Next, Session, Incoming, Remote, RefusePlain, PortMalformed, CannotConnect,
         Connect, Setup,
         Request, Post, PostEnd, ReadHeaders, HeadersTooLarge, ReadBody, StoreFails,
         HeadersEnd, Judge,
         OpenFails, Open, PassFirst, BodyEnd, Cleanup, Join, Again, NextCall, LoopEnds,
         LoopFails, Close, Deliver, SocketEnds, StoreBroken, Damaged, Closes,
         SpuriousWakeup, RemoteSends, RemoteEnds, JavaLeaves, Reuse,
         vars, ringVars, bufferVars, Takes
<1>6. deaf' = deaf \/ deaf' = FALSE \/ deaf' = MayWait
  BY DEF Next, Session, Incoming, Remote, RefusePlain, PortMalformed, CannotConnect,
         Connect, Setup,
         Request, Post, PostEnd, ReadHeaders, HeadersTooLarge, ReadBody, StoreFails,
         HeadersEnd, Judge,
         OpenFails, Open, PassFirst, BodyEnd, Cleanup, Join, Again, NextCall, LoopEnds,
         LoopFails, Close, Deliver, SocketEnds, StoreBroken, Damaged, Closes,
         SpuriousWakeup, RemoteSends, RemoteEnds, JavaLeaves, Reuse,
         vars, ringVars, bufferVars, Takes
<1>7. brokenConnection' \in BOOLEAN
  BY <1>1, <1>5, Zenon
<1>8. deaf' \in BOOLEAN
  BY <1>1, <1>6, Zenon DEF MayWait
<1> QED
  BY <1>1, <1>2, <1>3, <1>4, <1>7, <1>8, Zenon

\* The fields of an answer.
LEMMA AnswerFields ==
    ASSUME NEW a \in Answers
    PROVE  a.pieces \in 0 .. MaxBody /\ a.upload \in 0 .. MaxBody
BY DEF Answers

\* A piece of an answer that fits the bounds.
LEMMA NumberedParts ==
    ASSUME NEW h \in 1 .. MaxHops, NEW c \in Nat, NEW s, Numbered(s, h, c),
           c + Len(s) <= MaxBody + 1
    PROVE  s \in Seq(Parts)
<1>1. s \in Seq(Items) /\ Len(s) \in Nat
  BY DEF Numbered
<1>2. \A i \in 1 .. Len(s) : s[i] = Item(h, c + i - 1)
  BY Zenon DEF Numbered
<1>3. ASSUME NEW i \in 1 .. Len(s) PROVE s[i] \in Parts
  <2>1. c + i - 1 \in 0 .. MaxBody
    BY <1>1, HttpsAssumption
  <2>2. Item(h, c + i - 1) \in Parts
    BY <2>1 DEF Item, Parts
  <2> QED
    BY <1>2, <2>2
<1> QED
  BY <1>1, <1>3

\* The remote server sends no more than its answer has.
LEMMA SentStep ==
    ASSUME TypeOK, RangeInv, [Next]_vars
    PROVE  /\ answer' \in Answers /\ sent' \in 0 .. MaxBody + 1
           /\ sent' <= answer'.pieces + 1
<1>1. /\ answer \in Answers /\ sent \in 0 .. MaxBody + 1 /\ sent <= answer.pieces + 1
      /\ answer.pieces \in 0 .. MaxBody /\ MaxBody \in Nat
  BY AnswerFields, HttpsAssumption DEF TypeOK, RangeInv
<1>2. CASE Connect
  <2>1. answer' \in Answers /\ sent' = 0
    BY <1>2 DEF Connect
  <2>2. answer'.pieces \in 0 .. MaxBody
    BY <2>1, AnswerFields
  <2> QED
    BY <1>1, <2>1, <2>2
<1>3. CASE RemoteSends
  BY <1>1, <1>3 DEF RemoteSends
<1>4. CASE UNCHANGED <<answer, sent>>
  BY <1>1, <1>4
<1>5. Connect \/ RemoteSends \/ UNCHANGED <<answer, sent>>
  BY DEF Next, Session, Incoming, Remote, RefusePlain, PortMalformed, CannotConnect,
         Setup, Request, Post,
         PostEnd, ReadHeaders, HeadersTooLarge, ReadBody, StoreFails, HeadersEnd, Judge,
         OpenFails, Open,
         PassFirst, BodyEnd, Cleanup, Join, Again, NextCall, LoopEnds, LoopFails, Close,
         Deliver, SocketEnds, StoreBroken, Damaged, Closes, SpuriousWakeup, RemoteEnds,
         JavaLeaves, Reuse, vars, remoteVars, Takes
<1> QED
  BY <1>2, <1>3, <1>4, <1>5

\* What has been read and is under way was sent.
LEMMA ReadBound ==
    ASSUME HInv, pc \in Reading
    PROVE  /\ Consumed + Len(ring) + Len(net) <= sent /\ sent <= MaxBody + 1
           /\ Consumed <= MaxBody + 1
<1>1. /\ Consumed + Len(ring) + Len(net) <= sent /\ sent <= answer.pieces + 1
      /\ answer \in Answers
  BY DEF HInv, StreamInv, UnderWayInv, RangeInv, TypeOK
<1>2. answer.pieces \in 0 .. MaxBody
  BY <1>1, AnswerFields
<1> QED
  BY <1>1, <1>2, Lengths, HttpsAssumption

LEMMA NoParts == << >> \in Seq(Parts)
OBVIOUS

LEMMA NumberedLen ==
    ASSUME NEW s, NEW h, NEW c, Numbered(s, h, c) PROVE Len(s) \in Nat
BY DEF Numbered

\* So the file's first part is within the bounds.
LEMMA FirstPartParts ==
    ASSUME HInv, pc \in {"open", "first"}
    PROVE  FirstPart \in Seq(Parts) /\ Len(FirstPart) \in 0 .. MaxBody
<1>1. /\ hdrs # << >> /\ Numbered(hdrs, hop, 0) /\ hop \in 1 .. MaxHops
      /\ Consumed = Len(hdrs) /\ pc \in Reading
  BY DEF HInv, TypeOK, StreamInv, ReadInv, Consumed, Reading
<1>2. Numbered(FirstPart, hop, 1) /\ Len(FirstPart) = Len(hdrs) - 1
  BY <1>1, Lengths, FirstPartValue
<1>3. Len(hdrs) <= MaxBody + 1 /\ Len(hdrs) \in Nat \ {0}
  BY <1>1, ReadBound, Lengths DEF HInv, TypeOK
<1>4. 1 + Len(FirstPart) <= MaxBody + 1 /\ Len(FirstPart) \in 0 .. MaxBody
  BY <1>2, <1>3, HttpsAssumption
<1> QED
  BY <1>1, <1>2, <1>4, NumberedParts

\* k items more in the headers or in the body.
LEMMA ReadParts ==
    ASSUME HInv, NEW k \in 1 .. Chunk, ReadHeaders(k) \/ HeadersTooLarge(k) \/ ReadBody(k) \/ StoreFails(k)
    PROVE  /\ hdrs' \in Seq(Parts) /\ body' \in Seq(Parts) /\ progress' \in 0 .. MaxBody
<1>1. /\ hop \in 1 .. MaxHops /\ hop \in Nat /\ k \in Nat /\ MaxBody \in Nat
      /\ Len(hdrs) \in Nat /\ Len(body) \in Nat /\ progress \in 0 .. MaxBody
      /\ Len(ring) \in Nat /\ Len(net) \in Nat /\ sent \in Nat
      /\ hdrs \in Seq(Parts) /\ body \in Seq(Parts) /\ pc \in Reading
  BY Lengths, HttpsAssumption DEF HInv, TypeOK, Reading, ReadHeaders, HeadersTooLarge,
              ReadBody, StoreFails
<1>2. Consumed + Len(ring) + Len(net) <= sent /\ sent <= MaxBody + 1
  BY <1>1, ReadBound
<1>5. CASE HeadersTooLarge(k)
  BY <1>1, <1>5 DEF HeadersTooLarge, bodyVars
<1>3. CASE ReadHeaders(k)
  <2>1. /\ pc = "headers" /\ Takes(k) /\ hdrs' = hdrs \o SubSeq(Readable, 1, k)
        /\ UNCHANGED <<body, progress>>
    BY <1>3 DEF ReadHeaders, HeadersTooLarge
  <2>2. /\ Consumed = Len(hdrs) /\ Consumed - Len(hdrs) = 0 /\ Numbered(hdrs, hop, 0)
    BY <1>1, <2>1 DEF Consumed, HInv, StreamInv, ReadInv
  <2>3. /\ Numbered(hdrs', hop, 0) /\ Len(hdrs') = Len(hdrs) + k
        /\ Consumed + k + Len(ring') + Len(net') = Consumed + Len(ring) + Len(net)
        /\ Len(ring') \in Nat /\ Len(net') \in Nat
    <3>1. /\ Numbered(hdrs', hop, 0) /\ Len(hdrs') = Len(hdrs) + k
          /\ Consumed + k + Len(ring') + Len(net') = Consumed + Len(ring) + Len(net)
          /\ Numbered(ring', hop, Consumed + k)
          /\ Numbered(net', hop, Consumed + k + Len(ring'))
      BY <1>1, <2>1, <2>2, TakesStream
    <3> QED
      BY <3>1, NumberedLen
  <2>4. 0 + Len(hdrs') <= MaxBody + 1
    BY <1>1, <1>2, <2>2, <2>3
  <2> QED
    BY <1>1, <2>1, <2>3, <2>4, NumberedParts
<1>4. CASE ReadBody(k) \/ StoreFails(k)
  <2>1. /\ pc = "body" /\ Takes(k) /\ hdrs' = hdrs /\ progress' = progress + k
        /\ body' = body \o SubSeq(Readable, 1, k) \/ body' = body
    BY <1>4 DEF ReadBody, StoreFails
  <2>2. /\ Consumed = 1 + Len(body) /\ Consumed - Len(body) = 1
        /\ Numbered(body, hop, 1) /\ progress = Len(body)
    BY <1>1, <2>1 DEF Consumed, HInv, StreamInv, ReadInv
  <2> DEFINE more == body \o SubSeq(Readable, 1, k)
  <2>3. /\ Numbered(more, hop, 1) /\ Len(more) = Len(body) + k
        /\ Consumed + k + Len(ring') + Len(net') = Consumed + Len(ring) + Len(net)
        /\ Len(ring') \in Nat /\ Len(net') \in Nat
    <3>1. /\ Numbered(more, hop, 1) /\ Len(more) = Len(body) + k
          /\ Consumed + k + Len(ring') + Len(net') = Consumed + Len(ring) + Len(net)
          /\ Numbered(ring', hop, Consumed + k)
          /\ Numbered(net', hop, Consumed + k + Len(ring'))
      BY <1>1, <2>1, <2>2, TakesStream
    <3> QED
      BY <3>1, NumberedLen
  <2>4. body' = more \/ body' = body
    BY <2>1
  <2> HIDE DEF more
  <2>5. 1 + Len(more) <= MaxBody + 1 /\ progress' \in 0 .. MaxBody
    BY <1>1, <1>2, <2>1, <2>2, <2>3
  <2>6. more \in Seq(Parts)
    BY <1>1, <2>3, <2>5, NumberedParts
  <2> QED
    BY <1>1, <2>1, <2>4, <2>5, <2>6
<1> QED
  BY <1>3, <1>4, <1>5

LEMMA BodyStep ==
    ASSUME HInv, [Next]_vars
    PROVE  /\ hdrs' \in Seq(Parts) /\ body' \in Seq(Parts) /\ progress' \in 0 .. MaxBody
           /\ pc' \in {"connect", "setup", "request"} => progress' = 0
           /\ pc' = "post" => progress' <= answer'.upload
<1>1. /\ hdrs \in Seq(Parts) /\ body \in Seq(Parts) /\ progress \in 0 .. MaxBody
      /\ answer \in Answers /\ MaxBody \in Nat
      /\ pc \in {"connect", "setup", "request"} => progress = 0
      /\ pc = "post" => progress <= answer.upload
  BY HttpsAssumption DEF HInv, TypeOK, RangeInv
<1>2. answer.upload \in 0 .. MaxBody
  BY <1>1, AnswerFields
<1>3. CASE \E k \in 1 .. Chunk : ReadHeaders(k) \/ HeadersTooLarge(k) \/ ReadBody(k)
                                 \/ StoreFails(k)
  <2> PICK k \in 1 .. Chunk : ReadHeaders(k) \/ HeadersTooLarge(k) \/ ReadBody(k)
                              \/ StoreFails(k)
    BY <1>3
  <2>1. pc' \notin {"connect", "setup", "request", "post"}
    BY DEF ReadHeaders, HeadersTooLarge, ReadBody, StoreFails, Tells, Goes, Caught
  <2> QED
    BY <2>1, ReadParts
<1>4. CASE Open \/ PassFirst
  <2>1. /\ pc \in {"open", "first"} /\ UNCHANGED hdrs /\ body' \in {<< >>, FirstPart}
        /\ progress' \in {progress, Len(FirstPart)}
        /\ pc' \notin {"connect", "setup", "request", "post"}
    BY <1>4 DEF Open, PassFirst, Tells, Goes, Caught
  <2>2. FirstPart \in Seq(Parts) /\ Len(FirstPart) \in 0 .. MaxBody
    BY <2>1, FirstPartParts
  <2>3. hdrs' \in Seq(Parts) /\ body' \in Seq(Parts)
    BY <1>1, <2>1, <2>2, NoParts, Zenon
  <2>4. progress' \in 0 .. MaxBody
    BY <1>1, <2>1, <2>2
  <2> QED
    BY <2>1, <2>3, <2>4
<1>5. CASE Post \/ PostEnd
  <2>1. /\ UNCHANGED <<hdrs, body, answer>>
        /\ progress' \in {0, progress} \/ (progress < answer.upload /\ progress' = progress + 1)
        /\ pc' \notin {"connect", "setup", "request"} /\ pc = "post"
    BY <1>5 DEF Post, PostEnd, Tells, Goes, Caught, remoteVars
  <2>2. progress' \in 0 .. MaxBody /\ progress' <= answer.upload
    BY <1>1, <1>2, <2>1
  <2>3. hdrs' \in Seq(Parts) /\ body' \in Seq(Parts) /\ answer'.upload = answer.upload
    BY <1>1, <2>1, Zenon
  <2> QED
    BY <2>1, <2>2, <2>3
<1>6. CASE Connect \/ Request \/ Again
  <2>1. /\ hdrs' \in {hdrs, << >>} /\ body' \in {body, << >>} /\ progress' \in {progress, 0}
        /\ pc \in {"connect", "request"} \/ progress' = 0
        /\ pc' = "post" => answer' = answer
    BY <1>6 DEF Connect, Request, Again, NextCall, Goes, Tells, Caught, bodyVars
  <2>2. hdrs' \in Seq(Parts) /\ body' \in Seq(Parts)
    BY <1>1, <2>1, NoParts, Zenon
  <2>3. progress' = 0 /\ pc' = "post" => progress' <= answer'.upload
    BY <1>2, <2>1
  <2>4. progress' = 0 /\ 0 \in 0 .. MaxBody
    BY <1>1, <2>1
  <2> QED
    BY <2>2, <2>3, <2>4
<1>7. CASE \/ RefusePlain \/ PortMalformed \/ CannotConnect \/ Setup \/ HeadersEnd \/ Judge \/ OpenFails
           \/ BodyEnd \/ Cleanup \/ Join \/ LoopEnds \/ LoopFails \/ Close
  <2>1. UNCHANGED <<hdrs, body, progress, answer>>
    BY <1>7 DEF RefusePlain, PortMalformed, CannotConnect, Setup, HeadersEnd, Judge,
                OpenFails, BodyEnd,
                Cleanup, Join, LoopEnds, LoopFails, Close, remoteVars, bodyVars
  <2>2. pc' \in {"connect", "setup", "request", "post"} => pc = "setup"
    BY <1>7 DEF RefusePlain, PortMalformed, CannotConnect, Setup, HeadersEnd, Judge,
                OpenFails, BodyEnd,
                Cleanup, Join, LoopEnds, LoopFails, Close, Tells, Goes, Returns, Caught,
                Broken, AfterCall
  <2>3. pc = "setup" => pc' # "post"
    BY <1>7 DEF RefusePlain, PortMalformed, CannotConnect, Setup, HeadersEnd, Judge,
                OpenFails, BodyEnd,
                Cleanup, Join, LoopEnds, LoopFails, Close, Tells, Goes, Returns
  <2> QED
    BY <1>1, <2>1, <2>2, <2>3
<1>8. CASE Incoming \/ Remote \/ Damaged \/ SpuriousWakeup \/ JavaLeaves \/ Reuse \/ UNCHANGED vars
  <2>1. UNCHANGED <<hdrs, body, progress, answer>> /\ pc' \in {pc, "exited"}
    BY <1>8 DEF Incoming, Remote, Deliver, SocketEnds, StoreBroken, Damaged, Closes,
                SpuriousWakeup, RemoteSends, RemoteEnds, JavaLeaves,
                Reuse, vars, remoteVars, bodyVars
  <2> QED
    BY <1>1, <2>1
<1> QED
  BY <1>3, <1>4, <1>5, <1>6, <1>7, <1>8 DEF Next, Session

\* Parts of a sequence of parts.
LEMMA PartsCut ==
    ASSUME NEW s \in Seq(Parts), NEW k \in 1 .. Len(s)
    PROVE  /\ SubSeq(s, k + 1, Len(s)) \in Seq(Parts)
           /\ Len(SubSeq(s, k + 1, Len(s))) = Len(s) - k
OBVIOUS

LEMMA RingStep ==
    ASSUME TypeOK, RangeInv, [Next]_vars
    PROVE  net' \in Seq(Parts) /\ ring' \in Seq(Parts) /\ Len(ring') <= RingCap
<1>1. /\ net \in Seq(Parts) /\ ring \in Seq(Parts) /\ Len(ring) <= RingCap
      /\ Len(ring) \in Nat /\ Len(net) \in Nat /\ RingCap \in Nat \ {0}
      /\ Chunk \in Nat \ {0} /\ << >> \in Seq(Parts) /\ 0 <= RingCap /\ Len(<< >>) = 0
  BY HttpsAssumption, NoParts DEF TypeOK
<1>2. CASE \E k \in 1 .. Chunk : ReadHeaders(k) \/ HeadersTooLarge(k) \/ ReadBody(k)
                                 \/ StoreFails(k)
  <2> PICK k \in 1 .. Chunk : Takes(k)
    BY <1>2 DEF ReadHeaders, HeadersTooLarge, ReadBody, StoreFails
  <2>1. \/ /\ ring' = SubSeq(ring, k + 1, Len(ring)) /\ net' = net /\ k \in 1 .. Len(ring)
        \/ /\ ring' = ring /\ net' = SubSeq(net, k + 1, Len(net)) /\ k \in 1 .. Len(net)
    BY <1>1 DEF Takes, Readable, ringVars, bufferVars
  <2>2. CASE ring' = SubSeq(ring, k + 1, Len(ring)) /\ net' = net /\ k \in 1 .. Len(ring)
    <3>1. ring' \in Seq(Parts) /\ Len(ring') = Len(ring) - k
      BY <1>1, <2>2, PartsCut
    <3> QED
      BY <1>1, <2>2, <3>1
  <2>3. CASE ring' = ring /\ net' = SubSeq(net, k + 1, Len(net)) /\ k \in 1 .. Len(net)
    BY <1>1, <2>3, PartsCut
  <2> QED
    BY <2>1, <2>2, <2>3
<1>3. CASE Deliver
  <2>1. /\ net # << >>
        /\ \/ net' = Tail(net) /\ ring' = ring
           \/ net' = Tail(net) /\ ring' = Append(ring, Head(net)) /\ Len(ring) < RingCap
           \/ net' = net /\ ring' = ring
    BY <1>3 DEF Deliver
  <2>2. Tail(net) \in Seq(Parts) /\ Head(net) \in Parts
    BY <1>1, <2>1
  <2>3. /\ Append(ring, Head(net)) \in Seq(Parts)
        /\ Len(Append(ring, Head(net))) = Len(ring) + 1
    BY <1>1, <2>2
  <2>4. Len(ring) < RingCap => Len(Append(ring, Head(net))) <= RingCap
    BY <1>1, <2>3
  <2> QED
    BY <1>1, <2>1, <2>2, <2>3, <2>4, Zenon
<1>4. CASE RemoteSends
  <2>1. /\ ring' = ring /\ net' = Append(net, Item(hop, sent)) /\ sent <= answer.pieces
        /\ answer \in Answers /\ hop \in 1 .. MaxHops /\ sent \in 0 .. MaxBody + 1
    BY <1>4 DEF RemoteSends, ringVars, bufferVars, TypeOK
  <2>2. sent \in 0 .. MaxBody
    BY <2>1, AnswerFields, HttpsAssumption
  <2>3. Item(hop, sent) \in Parts
    BY <2>1, <2>2 DEF Item, Parts
  <2>4. Append(net, Item(hop, sent)) \in Seq(Parts)
    BY <1>1, <2>3
  <2> QED
    BY <1>1, <2>1, <2>4, Zenon
<1>5. CASE Connect \/ RemoteEnds \/ Again
  <2>1. net' \in {net, << >>} /\ ring' \in {ring, << >>}
    BY <1>5 DEF Connect, RemoteEnds, Again, NextCall, remoteVars, ringVars, bufferVars
  <2> QED
    BY <1>1, <2>1
<1>6. CASE \/ RefusePlain \/ PortMalformed \/ CannotConnect \/ Setup \/ Request \/ Post \/ PostEnd
           \/ HeadersEnd \/ Judge \/ OpenFails \/ Open \/ PassFirst \/ BodyEnd \/ Cleanup
           \/ Join \/ LoopEnds \/ LoopFails \/ Close \/ SocketEnds \/ StoreBroken \/ Damaged \/ SpuriousWakeup
           \/ JavaLeaves \/ Reuse \/ UNCHANGED vars
  <2>1. UNCHANGED <<net, ring>>
    BY <1>6 DEF RefusePlain, PortMalformed, CannotConnect, Setup, Request, Post, PostEnd,
                HeadersEnd, Judge,
                OpenFails, Open, PassFirst, BodyEnd, Cleanup, Join, LoopEnds, LoopFails,
                Close, SocketEnds, StoreBroken, Damaged, Closes, SpuriousWakeup,
                JavaLeaves, Reuse, vars, remoteVars, ringVars, bufferVars
  <2> QED
    BY <1>1, <2>1
<1> QED
  BY <1>2, <1>3, <1>4, <1>5, <1>6 DEF Next, Session, Incoming, Remote

LEMMA NextHInv == HInv /\ [Next]_vars => HInv'
<1> SUFFICES ASSUME HInv, [Next]_vars PROVE HInv'
  OBVIOUS
<1>1. TypeOK /\ RangeInv
  BY DEF HInv
<1>2. RangeInv'
  BY <1>1, SentStep, BodyStep DEF RangeInv
<1>3. said' \in Seq(Words) /\ cl' \in {"own", "closed", "other"}
  <2>1. /\ said \in Seq(Words) /\ cl' \in {"own", "closed", "other"}
        /\ said' = said \/ \E m \in Words : said' = Append(said, m)
    BY <1>1, SaidStep DEF TypeOK
  <2> QED
    BY <2>1, SaidAppend, Zenon
<1>4. TypeOK'
  BY <1>1, <1>3, ControlStep, BooleanStep, SentStep, BodyStep, RingStep, Zenon DEF TypeOK
<1> QED
  BY <1>2, <1>4, StreamStep DEF HInv

LEMMA HInvAlways == Spec => []HInv
BY InitHInv, NextHInv, PTL DEF Spec

\* Every variable stays in its range, for every bound.
THEOREM DownloadTypes == Spec => []TypeOK
<1>1. HInv => TypeOK
  BY DEF HInv
<1> QED
  BY <1>1, HInvAlways, PTL

\* Nothing of an earlier hop gets into the headers or the stored body, for
\* every number of redirects and every size of the reads and of the buffer.
THEOREM OnlyOwnAnswer == Spec => []OwnAnswer
<1>1. HInv => OwnAnswer
  <2> SUFFICES ASSUME HInv PROVE OwnAnswer
    OBVIOUS
  <2>1. Numbered(hdrs, hop, 0) /\ Numbered(body, hop, 1)
    BY DEF HInv, StreamInv, ReadInv
  <2>2. /\ DOMAIN hdrs = 1 .. Len(hdrs) /\ DOMAIN body = 1 .. Len(body)
        /\ hdrs = [i \in DOMAIN hdrs |-> hdrs[i]] /\ body = [i \in DOMAIN body |-> body[i]]
    BY <2>1 DEF Numbered
  <2>3. \A i \in DOMAIN hdrs : hdrs[i] = Item(hop, i - 1)
    <3> SUFFICES ASSUME NEW i \in DOMAIN hdrs PROVE hdrs[i] = Item(hop, i - 1)
      OBVIOUS
    <3>1. hdrs[i] = Item(hop, 0 + i - 1) /\ 0 + i - 1 = i - 1
      BY <2>1, <2>2 DEF Numbered
    <3> QED
      BY <3>1
  <2>4. \A i \in DOMAIN body : body[i] = Item(hop, i)
    <3> SUFFICES ASSUME NEW i \in DOMAIN body PROVE body[i] = Item(hop, i)
      OBVIOUS
    <3>1. body[i] = Item(hop, 1 + i - 1) /\ 1 + i - 1 = i
      BY <2>1, <2>2 DEF Numbered
    <3> QED
      BY <3>1
  <2> QED
    BY <2>2, <2>3, <2>4, Zenon DEF OwnAnswer
<1> QED
  BY <1>1, HInvAlways, PTL

(***************************************************************************)
(* What the local client is told.                                          *)
(***************************************************************************)

\* The call is over.
After == {"cleanup", "join", "outer", "closing", "unwind", "gone", "exited"}

\* Where the session can be once the end mark, or an error, was sent.
EndPlace == pc \in After /\ ret = "ok"

ErrPlace ==
    \/ pc \in {"closing", "unwind", "gone", "exited"}
    \/ pc = "outer" /\ ret = "fail"
    \/ pc \in {"cleanup", "join"} /\ (ret = "fail" \/ (ret = "throw" /\ tls))

VerdictInv ==
    /\ Ended => EndPlace
    /\ "err" \in ToSet(said) => ErrPlace
    /\ pc = "setup" => tls
    /\ pc \in {"open", "first", "body"} => answer.code = "ok"

\* Once there, always there; and what was stored stays as it is.
LEMMA PlacesStep ==
    ASSUME TypeOK, [Next]_vars
    PROVE  /\ EndPlace => EndPlace'
           /\ ErrPlace => ErrPlace'
           /\ EndPlace => UNCHANGED <<mode, hop, answer, body, progress>>
           /\ EndPlace /\ link = "fin" => UNCHANGED <<link, sent>>
           /\ EndPlace /\ flaw' = "none" => flaw = "none"
<1>1. CASE \/ RefusePlain \/ PortMalformed \/ CannotConnect \/ Connect \/ Setup \/ Request \/ Post \/ PostEnd
           \/ HeadersEnd \/ Judge \/ OpenFails \/ Open \/ PassFirst \/ BodyEnd
           \/ (\E k \in 1 .. Chunk : ReadHeaders(k) \/ HeadersTooLarge(k)
                                     \/ ReadBody(k) \/ StoreFails(k))
  <2>1. pc \in {"connect", "body"} \cup Reading
    BY <1>1 DEF RefusePlain, PortMalformed, CannotConnect, Connect, Setup, Request, Post,
                PostEnd,
                HeadersEnd, Judge, OpenFails, Open, PassFirst, BodyEnd, ReadHeaders,
                HeadersTooLarge,
                ReadBody, StoreFails, Reading
  <2>2. ~EndPlace /\ ~ErrPlace
    BY <2>1 DEF Reading, EndPlace, ErrPlace, After
  <2> QED
    BY <2>2
<1>2. CASE Again \/ LoopEnds \/ LoopFails
  <2>1. /\ pc = "outer" /\ UNCHANGED <<mode, answer, sent, link, tls, ret, flaw>>
        /\ \/ ret = "moved"
           \/ pc' \in {"closing", "unwind"} /\ UNCHANGED <<hop, body, progress>>
    BY <1>2 DEF Again, NextCall, LoopEnds, LoopFails, Tells, Goes, bodyVars, remoteVars,
                ringVars
  <2> QED
    BY <2>1 DEF EndPlace, ErrPlace, After
<1>3. CASE Cleanup \/ Join \/ Close
  <2>1. /\ UNCHANGED <<mode, hop, answer, sent, body, progress, ret, tls, flaw>>
        /\ link = "fin" => link' = "fin"
        /\ \/ pc = "cleanup" /\ pc' \in {"join", AfterCall} /\ (tls => pc' = "join")
           \/ pc = "join" /\ pc' = (IF ret = "throw" THEN "unwind" ELSE AfterCall)
           \/ pc \in {"closing", "unwind"} /\ pc' \in {"unwind", "gone"}
    BY <1>3 DEF Cleanup, Join, Close, Goes, bodyVars, remoteVars, ringVars
  <2>2. AfterCall \in {"closing", "outer"}
    BY DEF AfterCall
  <2> QED
    BY <2>1, <2>2 DEF EndPlace, ErrPlace, After
<1>4. CASE Incoming \/ Remote \/ Damaged \/ SpuriousWakeup \/ JavaLeaves \/ Reuse \/ UNCHANGED vars
  <2>1. /\ UNCHANGED <<mode, hop, answer, body, progress, ret, tls>>
        /\ pc' \in {pc, "exited"} /\ flaw' \in {flaw, "damaged"}
        /\ link = "fin" => UNCHANGED <<link, sent>>
    BY <1>4 DEF Incoming, Remote, Deliver, SocketEnds, StoreBroken, Damaged, Closes,
                SpuriousWakeup, RemoteSends, RemoteEnds, JavaLeaves, Reuse, vars,
                remoteVars, ringVars, bodyVars
  <2> QED
    BY <2>1 DEF EndPlace, ErrPlace, After
<1> QED
  BY <1>1, <1>2, <1>3, <1>4 DEF Next, Session

\* Who speaks, and where that leads.
LEMMA SpeaksStep ==
    ASSUME TypeOK, VerdictInv, [Next]_vars
    PROVE  \/ said' = said
           \/ /\ pc \in {"connect"} \cup Reading
              /\ \E m \in Words : /\ said' = Append(said, m)
                                  /\ m = "err" => ErrPlace'
                                  /\ m = "end" => /\ EndPlace' /\ pc = "body" /\ mode = "file"
                                                  /\ AtEnd /\ Sound
                                                  /\ flaw' = FlawFound
                                                  /\ UNCHANGED <<mode, hop, remoteVars, link,
                                                                 bodyVars>>
           \/ /\ pc = "outer" /\ ret \in {"fail", "refused"}
              /\ said' = Append(said, "err") /\ ErrPlace'
<1>1. CASE CannotConnect \/ Setup
  <2>1. /\ pc \in {"connect", "setup"} /\ tls' = tls /\ (pc = "setup" => tls)
        /\ \/ said' = said \/ said' = Append(said, "secure")
           \/ /\ said' = Append(said, "err")
              /\ \/ pc' \in {"closing", "outer"} /\ ret' = "fail"
                 \/ pc' = "cleanup" /\ ret' = "fail"
    BY <1>1 DEF CannotConnect, Setup, Tells, Told, Untold, Goes, Returns, localVars,
                AfterCall, VerdictInv
  <2> QED
    BY <2>1 DEF ErrPlace, Words, Reading
<1>2. CASE Request \/ Post \/ PostEnd \/ Judge \/ Open \/ PassFirst
  <2>1. /\ pc \in Reading
        /\ \/ said' = said
           \/ \E m \in Words \ {"err", "end"} : said' = Append(said, m)
    BY <1>2 DEF Request, Post, PostEnd, Judge, Open, PassFirst, Tells, Told, Untold,
                localVars, Words, Reading
  <2> QED
    BY <2>1
<1>3. CASE \E k \in 1 .. Chunk : ReadHeaders(k) \/ HeadersTooLarge(k) \/ ReadBody(k)
                                 \/ StoreFails(k)
  <2>1. /\ pc \in Reading
        /\ \/ said' = said
           \/ \E m \in Words \ {"err", "end"} : said' = Append(said, m)
    BY <1>3 DEF ReadHeaders, HeadersTooLarge, ReadBody, StoreFails, Tells, Told, Untold,
                localVars, Words,
                Reading
  <2> QED
    BY <2>1
<1>4. CASE BodyEnd
  <2>1. /\ pc = "body" /\ AtEnd /\ UNCHANGED <<mode, hop, remoteVars, bodyVars>>
        /\ flaw' = FlawFound
        /\ \/ said' = said
           \/ /\ said' = Append(said, "end") /\ Sound /\ mode = "file"
              /\ pc' = "cleanup" /\ ret' = "ok" /\ link' = link
    BY <1>4 DEF BodyEnd, Tells, Told, Untold, Broken, CloseLocal, Returns, localVars
  <2> QED
    BY <2>1 DEF EndPlace, After, Words, Reading
<1>5. CASE LoopFails
  <2>1. /\ pc = "outer" /\ ret \in {"fail", "refused"} /\ pc' \in {"closing", "unwind"}
        /\ said' = said \/ said' = Append(said, "err")
    BY <1>5 DEF LoopFails, Tells, Told, Untold, Goes, localVars
  <2> QED
    BY <2>1 DEF ErrPlace
<1>6. CASE \/ RefusePlain \/ PortMalformed \/ Connect \/ HeadersEnd \/ OpenFails \/ Cleanup \/ Join \/ Again
           \/ LoopEnds \/ Close \/ Incoming \/ Remote \/ Damaged \/ SpuriousWakeup \/ JavaLeaves \/ Reuse \/ UNCHANGED vars
  BY <1>6 DEF RefusePlain, PortMalformed, Connect, HeadersEnd, OpenFails, Cleanup, Join,
              Again, NextCall,
              LoopEnds, Close, CloseLocal, Incoming, Remote, Deliver, SocketEnds,
              StoreBroken, Damaged, Closes, SpuriousWakeup, RemoteSends,
              RemoteEnds, JavaLeaves, Reuse, vars, localVars
<1> QED
  BY <1>1, <1>2, <1>3, <1>4, <1>5, <1>6 DEF Next, Session

\* The answer is good once it has been judged.
LEMMA JudgedStep ==
    ASSUME VerdictInv, [Next]_vars
    PROVE  /\ pc' = "setup" => tls'
           /\ pc' \in {"open", "first", "body"} => answer'.code = "ok"
<1>1. /\ pc = "setup" => tls
      /\ pc \in {"open", "first", "body"} => answer.code = "ok"
  BY DEF VerdictInv
<1>2. CASE RefusePlain \/ PortMalformed \/ CannotConnect \/ Connect \/ Setup \/ Request \/ Post \/ PostEnd
  BY <1>2 DEF RefusePlain, PortMalformed, CannotConnect, Connect, Setup, Request, Post,
              PostEnd, Tells,
              Goes, Returns, Caught, AfterCall
<1>3. CASE HeadersEnd \/ Judge \/ OpenFails \/ Open \/ PassFirst \/ BodyEnd
  BY <1>1, <1>3 DEF HeadersEnd, Judge, OpenFails, Open, PassFirst, BodyEnd, Broken, Tells,
                    Goes, Returns, Caught, remoteVars
<1>4. CASE \E k \in 1 .. Chunk : ReadHeaders(k) \/ HeadersTooLarge(k) \/ ReadBody(k)
                                 \/ StoreFails(k)
  BY <1>1, <1>4 DEF ReadHeaders, HeadersTooLarge, ReadBody, StoreFails, Takes, Tells,
              Goes, Caught
<1>5. CASE Cleanup \/ Join \/ Again \/ LoopEnds \/ LoopFails \/ Close
  BY <1>5 DEF Cleanup, Join, Again, NextCall, LoopEnds, LoopFails, Close, Tells, Goes,
              AfterCall
<1>6. CASE Incoming \/ Remote \/ Damaged \/ SpuriousWakeup \/ JavaLeaves \/ Reuse \/ UNCHANGED vars
  BY <1>1, <1>6 DEF Incoming, Remote, Deliver, SocketEnds, StoreBroken, Damaged, Closes,
              SpuriousWakeup, RemoteSends, RemoteEnds,
                    JavaLeaves, Reuse, vars, remoteVars
<1> QED
  BY <1>2, <1>3, <1>4, <1>5, <1>6 DEF Next, Session

LEMMA VerdictStep ==
    ASSUME TypeOK, VerdictInv, [Next]_vars
    PROVE  /\ VerdictInv'
           /\ said' # said =>
                ~Ended /\ ("err" \in ToSet(said) => Last(said') = "err")
<1> DEFINE Erred == "err" \in ToSet(said)
<1>1. /\ EndPlace => EndPlace' /\ pc \in After /\ ret = "ok"
      /\ ErrPlace => ErrPlace' /\ pc \in After
      /\ said \in Seq(Words) /\ {"err", "end"} \subseteq Words
      /\ Ended => EndPlace
      /\ Erred => ErrPlace
  BY PlacesStep DEF TypeOK, VerdictInv, EndPlace, ErrPlace, After, Words
<1>2. CASE said' = said
  <2>1. Ended' <=> Ended
    BY <1>2 DEF Ended
  <2>2. Erred' <=> Erred
    BY <1>2
  <2> QED
    BY <1>1, <1>2, <2>1, <2>2, JudgedStep DEF VerdictInv
<1>3. CASE /\ pc \in {"connect"} \cup Reading
           /\ \E m \in Words : /\ said' = Append(said, m)
                               /\ m = "err" => ErrPlace'
                               /\ m = "end" => EndPlace'
  <2>1. PICK m \in Words : /\ said' = Append(said, m)
                           /\ m = "err" => ErrPlace'
                           /\ m = "end" => EndPlace'
    BY <1>3
  <2>2. pc \notin After
    BY <1>3 DEF Reading, After
  <2>3. ~Ended /\ ~Erred
    BY <1>1, <2>2
  <2>4. /\ "end" \in ToSet(said') <=> ("end" \in ToSet(said) \/ "end" = m)
        /\ "err" \in ToSet(said') <=> ("err" \in ToSet(said) \/ "err" = m)
    BY <1>1, <2>1, SaidAppend, Zenon
  <2>5. (Ended' => EndPlace') /\ (Erred' => ErrPlace')
    BY <2>1, <2>3, <2>4 DEF Ended
  <2> QED
    BY <2>3, <2>5, JudgedStep DEF VerdictInv
<1>4. CASE /\ pc = "outer" /\ ret \in {"fail", "refused"}
           /\ said' = Append(said, "err") /\ ErrPlace'
  <2>1. ~Ended
    BY <1>1, <1>4
  <2>2. /\ "end" \in ToSet(said') <=> ("end" \in ToSet(said) \/ "end" = "err")
        /\ Last(said') = "err"
    <3>1. "err" \in Words
      BY <1>1
    <3> QED
      BY <1>1, <1>4, <3>1, SaidAppend, Zenon
  <2>3. ~Ended'
    BY <2>1, <2>2 DEF Ended
  <2> QED
    BY <1>4, <2>1, <2>2, <2>3, JudgedStep DEF VerdictInv
<1> QED
  BY <1>2, <1>3, <1>4, SpeaksStep

LEMMA VerdictInvAlways == Spec => []VerdictInv
<1>1. Init => VerdictInv
  BY DEF Init, VerdictInv, Ended, ToSet
<1>2. TypeOK /\ VerdictInv /\ [Next]_vars => VerdictInv'
  BY VerdictStep
<1> QED
  BY <1>1, <1>2, DownloadTypes, PTL DEF Spec

\* After an error only an error follows and after the end mark nothing, for
\* every number of redirects and wherever the call fails.
THEOREM TheVerdictIsLast == Spec => VerdictIsLast
<1>1. TypeOK /\ VerdictInv /\ [Next]_vars =>
        [said' # said => /\ ~Ended
                         /\ "err" \in ToSet(said) => Last(said') = "err"]_vars
  BY VerdictStep
<1> QED
  BY <1>1, VerdictInvAlways, DownloadTypes, PTL DEF Spec, VerdictIsLast

\* A body that was read and judged to be sound is complete.
LEMMA SoundIsComplete ==
    ASSUME HInv, pc = "body", AtEnd, Sound
    PROVE  /\ body = [i \in 1 .. progress |-> Item(hop, i)]
           /\ IF answer.length # NoLength THEN progress = answer.length
              ELSE FlawFound = "none" => link = "fin" /\ progress = sent - 1
<1>1. /\ Numbered(body, hop, 1) /\ progress = Len(body) /\ Consumed = 1 + Len(body)
      /\ pc \in Reading
  BY DEF HInv, StreamInv, ReadInv, Consumed, Reading
<1>2. body = [i \in 1 .. progress |-> Item(hop, i)]
  <2>1. body = [i \in 1 .. Len(body) |-> body[i]]
    BY <1>1 DEF Numbered
  <2>2. \A i \in 1 .. Len(body) : body[i] = Item(hop, i)
    <3> SUFFICES ASSUME NEW i \in 1 .. Len(body) PROVE body[i] = Item(hop, i)
      OBVIOUS
    <3>1. body[i] = Item(hop, 1 + i - 1) /\ 1 + i - 1 = i
      BY <1>1 DEF Numbered
    <3> QED
      BY <3>1
  <2> QED
    BY <1>1, <2>1, <2>2, Zenon
<1>3. CASE answer.length # NoLength
  BY <1>2, <1>3 DEF Sound
<1>4. CASE answer.length = NoLength
  <2> SUFFICES ASSUME FlawFound = "none" PROVE link = "fin" /\ progress = sent - 1
    BY <1>2, <1>4
  <2>1. EndedCleanly /\ Readable = << >>
    BY <1>4 DEF Sound, AtEnd
  <2>2. link = "fin" /\ ring = << >> /\ net = << >>
    <3>1. CASE tls
      <4>1. /\ inRb = "closed" /\ ring = << >> /\ ~brokenConnection
            /\ incoming # "breaks" /\ flaw = "none"
        BY <2>1, <3>1 DEF EndedCleanly, Readable, AtEnd, FlawFound
      <4> QED
        BY <1>1, <4>1 DEF HInv, StreamInv, ThreadInv, Breaks
    <3>2. CASE ~tls
      BY <1>1, <2>1, <3>2 DEF EndedCleanly, Readable, HInv, StreamInv, ThreadInv
    <3> QED
      BY <3>1, <3>2
  <2>3. Consumed + Len(ring) + Len(net) = sent
    BY <1>1, <2>2 DEF HInv, StreamInv, UnderWayInv
  <2>4. 1 + progress = sent /\ progress \in Nat /\ sent \in Nat
    <3>1. Len(ring) = 0 /\ Len(net) = 0
      BY <2>2
    <3> QED
      BY <1>1, <2>3, <3>1, Lengths
  <2> QED
    BY <1>2, <1>4, <2>2, <2>4
<1> QED
  BY <1>3, <1>4

\* Whatever the length of the answer, however it is cut into reads, and
\* wherever the connection ends: a download for which the end mark was sent is
\* complete, unless it has no length and its TLS connection had one of the two
\* flaws the property names.
THEOREM TheEndMeansComplete == Spec => []EndMeansComplete
<1> DEFINE Complete == /\ answer.code = "ok"
                       /\ body = [i \in 1 .. progress |-> Item(hop, i)]
                       /\ IF answer.length # NoLength THEN progress = answer.length
                          ELSE flaw = "none" => link = "fin" /\ progress = sent - 1
<1>1. Init => EndMeansComplete
  BY DEF Init, EndMeansComplete, Ended, ToSet
<1>2. ASSUME HInv, VerdictInv, [Next]_vars, EndMeansComplete
      PROVE  EndMeansComplete'
  <2>1. TypeOK /\ said \in Seq(Words) /\ "end" \in Words /\ "err" \in Words
    BY <1>2 DEF HInv, TypeOK, Words
  <2>2. CASE Ended
    <3>1. EndPlace
      BY <1>2, <2>2 DEF VerdictInv
    <3>2. /\ UNCHANGED <<mode, hop, answer, body, progress>>
          /\ link = "fin" => UNCHANGED <<link, sent>>
          /\ flaw' = "none" => flaw = "none"
      BY <1>2, <2>1, <3>1, PlacesStep
    <3>3. mode = "file" => Complete
      BY <1>2, <2>2 DEF EndMeansComplete
    <3>4. mode' = "file" => Complete'
      BY <3>2, <3>3, Zenon
    <3> QED
      BY <3>4 DEF EndMeansComplete
  <2>3. CASE ~Ended /\ Ended'
    <3>1. ~(said' = said)
      BY <2>3 DEF Ended
    <3>2. ~(said' = Append(said, "err"))
      <4>1. "end" \in ToSet(Append(said, "err")) <=> ("end" \in ToSet(said) \/ "end" = "err")
        BY <2>1, SaidAppend, Zenon
      <4> QED
        BY <2>3, <4>1 DEF Ended
    <3>3. PICK m \in Words :
              /\ said' = Append(said, m)
              /\ m = "end" => /\ pc = "body" /\ AtEnd /\ Sound
                              /\ flaw' = FlawFound
                              /\ UNCHANGED <<mode, hop, remoteVars, link, bodyVars>>
      BY <1>2, <2>1, <3>1, <3>2, SpeaksStep
    <3>4. m = "end"
      <4>1. "end" \in ToSet(Append(said, m)) <=> ("end" \in ToSet(said) \/ "end" = m)
        BY <2>1, SaidAppend, Zenon
      <4> QED
        BY <2>3, <3>3, <4>1 DEF Ended
    <3>5. /\ answer.code = "ok" /\ body = [i \in 1 .. progress |-> Item(hop, i)]
          /\ IF answer.length # NoLength THEN progress = answer.length
             ELSE FlawFound = "none" => link = "fin" /\ progress = sent - 1
      BY <1>2, <3>3, <3>4, SoundIsComplete DEF VerdictInv
    <3>6. UNCHANGED <<hop, answer, sent, link, body, progress>> /\ flaw' = FlawFound
      BY <3>3, <3>4 DEF remoteVars, bodyVars
    <3>7. Complete'
      BY <3>5, <3>6, Zenon
    <3> QED
      BY <3>7 DEF EndMeansComplete
  <2> QED
    BY <2>2, <2>3 DEF EndMeansComplete
<1> QED
  BY <1>1, <1>2, HInvAlways, VerdictInvAlways, PTL DEF Spec

=============================================================================
