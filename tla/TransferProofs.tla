----------------------------- MODULE TransferProofs -----------------------------
(***************************************************************************)
(* For every tree of files, every selection, every size, and whatever      *)
(* breaks: the receiver of a transfer stays in step with the sender, no    *)
(* item is stored over another one, the ends that are told are true, a     *)
(* download mirrors its source, and the progress adds up.                  *)
(***************************************************************************)
EXTENDS Transfer, TLAPS, FiniteSetTheorems

\* How far an end has come: pieces of a file that are missing, or one of the
\* stages before the totals (-1) and after the end of the list (-2).
Stage(k, n) == [missing |-> k, node |-> IF k > 0 THEN n ELSE NoNode]
Between == Stage(0, NoNode)

\* What sending, or receiving, an item does to the stage.
Moves(a, item, b) ==
    \/ item.is = "totals" /\ a = Stage(-1, NoNode) /\ b = Between
    \/ item.is = "file" /\ item.count \in Nat /\ a = Between /\ b = Stage(item.count, item.node)
    \/ item.is = "dir" /\ a = Between /\ b = Between
    \/ item.is = "end" /\ a = Between /\ b = Stage(-2, NoNode)
    \/ item.is = "piece" /\ \E k \in Nat : a = Stage(k + 1, item.node) /\ b = Stage(k, item.node)

IsSeq(s) == \E T : s \in Seq(T)

\* The items s lead from stage a to stage b.
Leads(s, a, b) ==
    /\ IsSeq(s)
    /\ \E st : /\ st[1] = a /\ st[Len(s) + 1] = b
               /\ \A i \in 1 .. Len(s) : Moves(st[i], s[i], st[i + 1])

LEMMA LeadsNowhere ==
    ASSUME NEW a PROVE Leads(<< >>, a, a)
<1>1. << >> \in Seq({}) /\ Len(<< >>) = 0
  OBVIOUS
<1> DEFINE st == [i \in {1} |-> a]
<1>2. st[1] = a /\ st[Len(<< >>) + 1] = a
  BY <1>1
<1>3. \A i \in 1 .. Len(<< >>) : Moves(st[i], << >>[i], st[i + 1])
  BY <1>1
<1> QED
  BY <1>1, <1>2, <1>3, Zenon DEF Leads, IsSeq

LEMMA SeqMore ==
    ASSUME NEW s, IsSeq(s), NEW x
    PROVE  /\ IsSeq(s \o <<x>>) /\ Len(s) \in Nat /\ Len(s \o <<x>>) = Len(s) + 1
           /\ \A i \in 1 .. Len(s) : (s \o <<x>>)[i] = s[i]
           /\ (s \o <<x>>)[Len(s) + 1] = x
<1>1. PICK T : s \in Seq(T)
  BY DEF IsSeq
<1> DEFINE U == T \cup {x}
<1>2. s \in Seq(U) /\ <<x>> \in Seq(U)
  BY <1>1
<1> HIDE DEF U
<1>3. s \o <<x>> \in Seq(U)
  BY <1>2
<1> QED
  BY <1>2, <1>3 DEF IsSeq

LEMMA SeqLess ==
    ASSUME NEW s, IsSeq(s), s # << >>
    PROVE  /\ IsSeq(Tail(s)) /\ Len(s) \in Nat \ {0} /\ Len(Tail(s)) = Len(s) - 1
           /\ \A i \in 1 .. Len(s) - 1 : Tail(s)[i] = s[i + 1]
           /\ Head(s) = s[1]
<1>1. PICK T : s \in Seq(T)
  BY DEF IsSeq
<1>2. Tail(s) \in Seq(T)
  BY <1>1
<1> QED
  BY <1>1, <1>2 DEF IsSeq

\* One item more at the sender's end.
LEMMA LeadsFurther ==
    ASSUME NEW s, NEW a, NEW b, NEW c, NEW x, Leads(s, a, b), Moves(b, x, c)
    PROVE  Leads(s \o <<x>>, a, c)
<1>1. IsSeq(s)
  BY DEF Leads
<1>2. PICK st : /\ st[1] = a /\ st[Len(s) + 1] = b
                /\ \A i \in 1 .. Len(s) : Moves(st[i], s[i], st[i + 1])
  BY DEF Leads
<1> DEFINE t == s \o <<x>>
           more == [i \in 1 .. Len(s) + 2 |-> IF i <= Len(s) + 1 THEN st[i] ELSE c]
<1>3. /\ IsSeq(t) /\ Len(s) \in Nat /\ Len(t) = Len(s) + 1
      /\ \A i \in 1 .. Len(s) : t[i] = s[i]
      /\ t[Len(s) + 1] = x
  BY <1>1, SeqMore
<1>4. /\ \A i \in 1 .. Len(s) + 1 : more[i] = st[i]
      /\ more[Len(s) + 2] = c
  BY <1>3
<1> HIDE DEF t, more
<1>5. more[1] = a /\ more[Len(t) + 1] = c
  BY <1>2, <1>3, <1>4
<1>6. ASSUME NEW i \in 1 .. Len(t) PROVE Moves(more[i], t[i], more[i + 1])
  <2>1. CASE i \in 1 .. Len(s)
    <3>1. i \in 1 .. Len(s) + 1 /\ i + 1 \in 1 .. Len(s) + 1
      BY <1>3, <2>1
    <3>2. more[i] = st[i] /\ more[i + 1] = st[i + 1] /\ t[i] = s[i]
      BY <1>3, <1>4, <2>1, <3>1
    <3> QED
      BY <1>2, <2>1, <3>2, Zenon
  <2>2. CASE i = Len(s) + 1
    <3>1. more[i] = b /\ more[i + 1] = c /\ t[i] = x
      BY <1>2, <1>3, <1>4, <2>2
    <3> QED
      BY <3>1, Zenon
  <2> QED
    BY <1>3, <2>1, <2>2
<1>7. Leads(t, a, c)
  BY <1>3, <1>5, <1>6, Zenon DEF Leads
<1> QED
  BY <1>7 DEF t

\* One item less at the receiver's end.
LEMMA LeadsOn ==
    ASSUME NEW s, NEW a, NEW b, Leads(s, a, b), s # << >>
    PROVE  \E c : Moves(a, Head(s), c) /\ Leads(Tail(s), c, b)
<1>1. IsSeq(s)
  BY DEF Leads
<1>2. PICK st : /\ st[1] = a /\ st[Len(s) + 1] = b
                /\ \A i \in 1 .. Len(s) : Moves(st[i], s[i], st[i + 1])
  BY DEF Leads
<1> DEFINE t == Tail(s)
           less == [i \in 1 .. Len(s) |-> st[i + 1]]
<1>3. /\ IsSeq(t) /\ Len(s) \in Nat \ {0} /\ Len(t) = Len(s) - 1
      /\ \A i \in 1 .. Len(s) - 1 : t[i] = s[i + 1]
      /\ Head(s) = s[1]
  BY <1>1, SeqLess
<1>4. \A i \in 1 .. Len(s) : less[i] = st[i + 1]
  OBVIOUS
<1> HIDE DEF t, less
<1>5. Moves(a, Head(s), st[2])
  <2>1. 1 \in 1 .. Len(s) /\ 1 + 1 = 2
    BY <1>3
  <2> QED
    BY <1>2, <1>3, <2>1
<1>6. less[1] = st[2] /\ less[Len(t) + 1] = b
  <2>1. 1 \in 1 .. Len(s) /\ 1 + 1 = 2 /\ Len(t) + 1 = Len(s) /\ Len(s) \in 1 .. Len(s)
    BY <1>3
  <2> QED
    BY <1>2, <1>4, <2>1
<1>7. ASSUME NEW i \in 1 .. Len(t) PROVE Moves(less[i], t[i], less[i + 1])
  <2>1. i \in 1 .. Len(s) /\ i + 1 \in 1 .. Len(s) /\ i \in 1 .. Len(s) - 1
    BY <1>3
  <2>2. less[i] = st[i + 1] /\ less[i + 1] = st[(i + 1) + 1] /\ t[i] = s[i + 1]
    BY <1>3, <1>4, <2>1
  <2>3. Moves(st[i + 1], s[i + 1], st[(i + 1) + 1])
    BY <1>2, <2>1, Zenon
  <2> QED
    BY <2>2, <2>3
<1>8. Leads(t, st[2], b)
  BY <1>3, <1>6, <1>7, Zenon DEF Leads
<1> QED
  BY <1>5, <1>8, Zenon DEF t

-----------------------------------------------------------------------------
\* The stage of each end.
ReceiverStage ==
    IF rcv = "totals" THEN Stage(-1, NoNode)
    ELSE IF rcv = "content" THEN Stage(want, file)
    ELSE IF rcv = "done" THEN Stage(-2, NoNode)
    ELSE Between

SenderStage ==
    IF snd = "count" THEN Stage(-1, NoNode)
    ELSE IF snd = "send" THEN Stage(left, Head(todo))
    ELSE IF snd = "done" THEN Stage(-2, NoNode)
    ELSE Between

\* What is under way leads from the one to the other; from a sender that has
\* gone it leads somewhere.
SyncInv ==
    /\ want \in Nat /\ left \in Nat
    /\ snd \in {"count", "visit", "send", "endlist", "done", "exited"}
    /\ rcv \in {"totals", "header", "content", "done", "exited", "deaf"}
    /\ rcv # "exited" => /\ \E b : Leads(net, ReceiverStage, b)
                         /\ snd # "exited" => Leads(net, ReceiverStage, SenderStage)

LEMMA InitSync == Init => SyncInv
<1> SUFFICES ASSUME Init PROVE SyncInv
  OBVIOUS
<1>1. /\ net = << >> /\ snd = "count" /\ rcv = "totals" /\ want = 0 /\ left = 0
  BY DEF Init
<1>2. ReceiverStage = Stage(-1, NoNode) /\ SenderStage = Stage(-1, NoNode)
  BY <1>1 DEF ReceiverStage, SenderStage
<1>3. Leads(net, ReceiverStage, SenderStage)
  BY <1>1, <1>2, LeadsNowhere
<1> QED
  BY <1>1, <1>3 DEF SyncInv

\* A step of the sender that sends nothing, or one item.
LEMMA SendsSync ==
    ASSUME SyncInv, NEW items, NEW words, NEW next, Sends(items, words, next),
           snd # "exited", left' \in Nat,
           next \in {"visit", "send", "endlist", "done"},
           NEW stage, snd' = next => SenderStage' = stage,
           \/ items = << >> /\ stage = SenderStage
           \/ \E x : items = <<x>> /\ Moves(SenderStage, x, stage)
    PROVE  SyncInv'
<1>1. /\ snd' \in {next, "exited"} /\ UNCHANGED <<rcv, file, want>>
      /\ rcv # "exited" => net' = net \o items
  BY DEF Sends, Transmit, Then
<1>2. ReceiverStage' = ReceiverStage
  BY <1>1 DEF ReceiverStage
<1>3. rcv # "exited" => Leads(net \o items, ReceiverStage, stage)
  <2> SUFFICES ASSUME rcv # "exited" PROVE Leads(net \o items, ReceiverStage, stage)
    OBVIOUS
  <2>1. Leads(net, ReceiverStage, SenderStage)
    BY DEF SyncInv
  <2>2. CASE items = << >> /\ stage = SenderStage
    <3>1. net \o << >> = net
      <4>1. PICK T : net \in Seq(T)
        BY <2>1 DEF Leads, IsSeq
      <4> QED
        BY <4>1
    <3> QED
      BY <2>1, <2>2, <3>1
  <2>3. CASE \E x : items = <<x>> /\ Moves(SenderStage, x, stage)
    BY <2>1, <2>3, LeadsFurther
  <2> QED
    BY <2>2, <2>3
<1>4. rcv' # "exited" => /\ \E b : Leads(net', ReceiverStage', b)
                         /\ snd' # "exited" => Leads(net', ReceiverStage', SenderStage')
  BY <1>1, <1>2, <1>3, Zenon
<1> QED
  BY <1>1, <1>4 DEF SyncInv

LEMMA SenderSync == ASSUME SyncInv, Sender PROVE SyncInv'
<1>0. left \in Nat
  BY DEF SyncInv
<1>1. CASE Announce
  <2>1. PICK n, words : snd = "count" /\ Sends(<<Item("totals", NoNode, n)>>, words, "visit")
                        /\ left' = left
    BY <1>1 DEF Announce
  <2>2. Moves(SenderStage, Item("totals", NoNode, n), Between)
    BY <2>1 DEF Moves, SenderStage, Item
  <2>3. snd' = "visit" => SenderStage' = Between
    BY DEF SenderStage
  <2> QED
    BY <1>0, <2>1, <2>2, <2>3, SendsSync
<1>2. CASE VisitGone \/ VisitDir \/ VisitLocked \/ TellEnd
  <2>1. /\ snd = "visit" /\ left' = left
        /\ \E words : Sends(<< >>, words, "visit") \/ Sends(<< >>, words, "endlist")
    BY <1>2 DEF VisitGone, VisitDir, VisitLocked, TellEnd
  <2>2. SenderStage = Between /\ (snd' \in {"visit", "endlist"} => SenderStage' = Between)
    BY <2>1 DEF SenderStage
  <2> QED
    BY <1>0, <2>1, <2>2, SendsSync
<1>3. CASE VisitEmptyDir
  <2>1. PICK n, words : snd = "visit" /\ left' = left
                        /\ Sends(<<Item("dir", n, 0)>>, words, "visit")
    BY <1>3 DEF VisitEmptyDir
  <2>2. Moves(SenderStage, Item("dir", n, 0), Between)
    BY <2>1 DEF Moves, SenderStage, Item
  <2>3. snd' = "visit" => SenderStage' = Between
    BY DEF SenderStage
  <2> QED
    BY <1>0, <2>1, <2>2, <2>3, SendsSync
<1>4. CASE VisitFile
  <2> DEFINE n == Head(todo)
             x == Item("file", n, left')
  <2>1. /\ snd = "visit" /\ todo' = todo
        /\ disk[n] \in Sizes /\ left' = StatSize(n)
        /\ \E words : Sends(<<x>>, words, "send")
    BY <1>4 DEF VisitFile
  <2>2. left' \in Nat
    BY <2>1, ConstantsAssumption DEF StatSize, Sizes
  <2>3. Moves(SenderStage, x, Stage(left', n))
    BY <2>1, <2>2 DEF Moves, SenderStage, Item
  <2>4. snd' = "send" => SenderStage' = Stage(left', n)
    BY <2>1 DEF SenderStage
  <2> HIDE DEF x, n
  <2> QED
    BY <2>1, <2>2, <2>3, <2>4, SendsSync
<1>5. CASE SendPiece
  <2> DEFINE n == Head(todo)
             x == Item("piece", n, 0)
  <2>1. /\ snd = "send" /\ todo' = todo /\ left > 0 /\ left' = left - 1
        /\ \E words : Sends(<<x>>, words, "send")
    BY <1>5 DEF SendPiece
  <2>2. left' \in Nat /\ left = left' + 1
    BY <1>0, <2>1
  <2>3. SenderStage = Stage(left' + 1, n) /\ x.is = "piece" /\ x.node = n
    BY <2>1, <2>2 DEF SenderStage, Item
  <2>4. Moves(SenderStage, x, Stage(left', n))
    BY <2>2, <2>3 DEF Moves
  <2>5. snd' = "send" => SenderStage' = Stage(left', n)
    BY <2>1 DEF SenderStage
  <2> HIDE DEF x, n
  <2> QED
    BY <2>1, <2>2, <2>4, <2>5, SendsSync
<1>6. CASE EndFile
  <2>1. /\ snd = "send" /\ left = 0 /\ left' = left
        /\ \E words : Sends(<< >>, words, "visit")
    BY <1>6 DEF EndFile
  <2>2. SenderStage = Between /\ (snd' = "visit" => SenderStage' = Between)
    BY <2>1 DEF SenderStage, Between, Stage
  <2> QED
    BY <1>0, <2>1, <2>2, SendsSync
<1>7. CASE SendEnd
  <2>1. /\ snd = "endlist" /\ left' = left
        /\ \E words : Sends(<<Item("end", NoNode, 0)>>, words, "done")
    BY <1>7 DEF SendEnd
  <2>2. Moves(SenderStage, Item("end", NoNode, 0), Stage(-2, NoNode))
    BY <2>1 DEF Moves, SenderStage, Item
  <2>3. snd' = "done" => SenderStage' = Stage(-2, NoNode)
    BY DEF SenderStage
  <2> QED
    BY <1>0, <2>1, <2>2, <2>3, SendsSync
<1>8. CASE ReadShort \/ WriteFails
  <2>1. snd' = "exited" /\ UNCHANGED <<net, rcv, want, file, left>>
    BY <1>8 DEF ReadShort, WriteFails
  <2>2. ReceiverStage' = ReceiverStage
    BY <2>1 DEF ReceiverStage
  <2> QED
    BY <2>1, <2>2 DEF SyncInv
<1> QED
  BY <1>1, <1>2, <1>3, <1>4, <1>5, <1>6, <1>7, <1>8 DEF Sender

\* What the first item does to the receiver's stage.
LEMMA ArrivesSync ==
    ASSUME SyncInv, rcv # "exited", net # << >>
    PROVE  /\ rcv = "totals" => Head(net).is = "totals"
           /\ rcv = "header" => Head(net).is \in {"file", "dir", "end"}
           /\ (rcv = "content" /\ want > 0) => Head(net).is = "piece" /\ Head(net).node = file
           /\ rcv # "done"
<1>1. PICK c : Moves(ReceiverStage, Head(net), c)
  BY LeadsOn DEF SyncInv
<1>2. want \in Nat
  BY DEF SyncInv
<1>3. CASE Head(net).is # "piece"
  <2>1. ReceiverStage \in {Stage(-1, NoNode), Between}
    BY <1>1, <1>3 DEF Moves
  <2>2. ReceiverStage.missing \in {-1, 0}
    BY <2>1 DEF Stage, Between
  <2>3. /\ rcv = "totals" => ReceiverStage.missing = -1
        /\ rcv = "header" => ReceiverStage.missing = 0
        /\ rcv = "content" => ReceiverStage.missing = want
        /\ rcv = "done" => ReceiverStage.missing = -2
    BY DEF ReceiverStage, Stage, Between
  <2>4. /\ ReceiverStage.missing = -1 => Head(net).is = "totals"
        /\ ReceiverStage.missing = 0 => Head(net).is \in {"file", "dir", "end"}
    BY <1>1, <1>3 DEF Moves, Stage, Between
  <2> QED
    BY <1>2, <2>2, <2>3, <2>4
<1>4. CASE Head(net).is = "piece"
  <2>1. PICK k \in Nat : ReceiverStage = Stage(k + 1, Head(net).node)
    BY <1>1, <1>4 DEF Moves
  <2>2. ReceiverStage.missing = k + 1 /\ ReceiverStage.node = Head(net).node /\ k + 1 > 0
    BY <2>1 DEF Stage
  <2>3. rcv = "content" /\ ReceiverStage = Stage(want, file)
    BY <2>2 DEF ReceiverStage, Stage, Between, SyncInv
  <2> QED
    BY <1>4, <2>2, <2>3 DEF Stage
<1> QED
  BY <1>3, <1>4

\* The receiver takes an item that leads it to its next stage.
LEMMA ReceivesSync ==
    ASSUME SyncInv, NEW words, NEW next, Receives(words, next), rcv # "exited", net # << >>,
           next \in {"header", "content", "done"}, want' \in Nat,
           NEW stage, rcv' = next => ReceiverStage' = stage,
           \A c : Moves(ReceiverStage, Head(net), c) => c = stage
    PROVE  SyncInv'
<1>1. /\ rcv' \in {next, "exited"} /\ net' = Tail(net)
      /\ UNCHANGED <<snd, todo, left>>
  BY DEF Receives, Then
<1>2. SenderStage' = SenderStage
  BY <1>1 DEF SenderStage
<1>3. ASSUME NEW b, Leads(net, ReceiverStage, b) PROVE Leads(Tail(net), stage, b)
  BY <1>3, LeadsOn
<1>4. rcv' # "exited" => /\ \E b : Leads(net', ReceiverStage', b)
                         /\ snd' # "exited" => Leads(net', ReceiverStage', SenderStage')
  BY <1>1, <1>2, <1>3, Zenon DEF SyncInv
<1> QED
  BY <1>1, <1>4 DEF SyncInv

LEMMA ReceiverSync == ASSUME SyncInv, Receiver PROVE SyncInv'
<1>0. want \in Nat /\ left \in Nat
  BY DEF SyncInv
<1>1. CASE ReadTotals
  <2>1. /\ rcv = "totals" /\ net # << >> /\ Head(net).is = "totals" /\ want' = want
        /\ \E words : Receives(words, "header")
    BY <1>1 DEF ReadTotals, Arrives
  <2>2. \A c : Moves(ReceiverStage, Head(net), c) => c = Between
    BY <2>1 DEF Moves
  <2>3. rcv' = "header" => ReceiverStage' = Between
    BY DEF ReceiverStage
  <2> QED
    BY <1>0, <2>1, <2>2, <2>3, ReceivesSync
<1>2. CASE OpenFile
  <2>1. /\ rcv = "header" /\ net # << >> /\ Head(net).is = "file"
        /\ file' = Head(net).node /\ want' = Head(net).count
        /\ \E words : Receives(words, "content")
    BY <1>2 DEF OpenFile, Arrives
  <2>2. \A c : Moves(ReceiverStage, Head(net), c) =>
            c = Stage(want', file') /\ want' \in Nat
    BY <2>1 DEF Moves
  <2>3. \E c : Moves(ReceiverStage, Head(net), c)
    BY <2>1, LeadsOn DEF SyncInv
  <2>4. rcv' = "content" => ReceiverStage' = Stage(want', file')
    BY DEF ReceiverStage
  <2> QED
    BY <2>1, <2>2, <2>3, <2>4, ReceivesSync
<1>3. CASE StorePiece
  <2>1. /\ rcv = "content" /\ want > 0 /\ net # << >> /\ Head(net).is = "piece"
        /\ file' = file /\ want' = want - 1
        /\ \E words : Receives(words, "content")
    BY <1>3 DEF StorePiece, Arrives
  <2>2. ASSUME NEW c, Moves(ReceiverStage, Head(net), c)
        PROVE  c = Stage(want', file')
    <3>1. PICK k \in Nat : /\ ReceiverStage = Stage(k + 1, Head(net).node)
                           /\ c = Stage(k, Head(net).node)
      BY <2>1, <2>2 DEF Moves
    <3>2. ReceiverStage = Stage(want, file)
      BY <2>1 DEF ReceiverStage
    <3>3. k + 1 = want /\ Head(net).node = file
      BY <1>0, <2>1, <3>1, <3>2 DEF Stage
    <3> QED
      BY <1>0, <2>1, <3>1, <3>3
  <2>3. rcv' = "content" => ReceiverStage' = Stage(want', file')
    BY DEF ReceiverStage
  <2>4. want' \in Nat
    BY <1>0, <2>1
  <2> QED
    BY <2>1, <2>2, <2>3, <2>4, ReceivesSync
<1>4. CASE MakeDir
  <2>1. /\ rcv = "header" /\ net # << >> /\ Head(net).is = "dir" /\ want' = want
        /\ \E words : Receives(words, "header")
    BY <1>4 DEF MakeDir, Arrives
  <2>2. \A c : Moves(ReceiverStage, Head(net), c) => c = Between
    BY <2>1 DEF Moves
  <2>3. rcv' = "header" => ReceiverStage' = Between
    BY DEF ReceiverStage
  <2> QED
    BY <1>0, <2>1, <2>2, <2>3, ReceivesSync
<1>5. CASE EndOfItems
  <2>1. /\ rcv = "header" /\ net # << >> /\ Head(net).is = "end" /\ want' = want
        /\ \E words : Receives(words, "done")
    BY <1>5 DEF EndOfItems, Arrives
  <2>2. \A c : Moves(ReceiverStage, Head(net), c) => c = Stage(-2, NoNode)
    BY <2>1 DEF Moves
  <2>3. rcv' = "done" => ReceiverStage' = Stage(-2, NoNode)
    BY DEF ReceiverStage
  <2> QED
    BY <1>0, <2>1, <2>2, <2>3, ReceivesSync
<1>6. CASE CloseFile
  <2>1. /\ rcv = "content" /\ want = 0 /\ rcv' \in {"header", "exited"}
        /\ UNCHANGED <<net, want, snd, todo, left>>
    BY <1>6 DEF CloseFile, Then, senderVars
  <2>2. /\ rcv' # "exited" => ReceiverStage' = ReceiverStage
        /\ SenderStage' = SenderStage
    BY <2>1 DEF ReceiverStage, SenderStage, Between, Stage
  <2> QED
    BY <2>1, <2>2 DEF SyncInv
<1>7. CASE StoreFails \/ ReadFails
  <2>1. rcv' = "exited" /\ UNCHANGED <<want, snd, left>>
    BY <1>7 DEF StoreFails, ReadFails, senderVars
  <2> QED
    BY <2>1 DEF SyncInv
<1> QED
  BY <1>1, <1>2, <1>3, <1>4, <1>5, <1>6, <1>7 DEF Receiver

LEMMA NextSync == SyncInv /\ [Next]_vars => SyncInv'
<1> SUFFICES ASSUME SyncInv, [Next]_vars PROVE SyncInv'
  OBVIOUS
<1>0. CASE MissesEnd
  <2>1. /\ rcv' = "deaf" /\ snd = "exited" /\ net' = << >>
        /\ UNCHANGED <<snd, want, left>>
    BY <1>0 DEF MissesEnd, SessionOver, senderVars
  <2>2. \E b : Leads(net', ReceiverStage', b)
    BY <2>1, LeadsNowhere, Zenon
  <2> QED
    BY <2>1, <2>2 DEF SyncInv
<1>1. CASE SenderLost
  <2>1. /\ snd' = "exited" /\ net' \in {net, << >>} /\ UNCHANGED <<rcv, want, file, left>>
    BY <1>1 DEF SenderLost, receiverVars
  <2>2. ReceiverStage' = ReceiverStage
    BY <2>1 DEF ReceiverStage
  <2>3. rcv' # "exited" => \E b : Leads(net', ReceiverStage', b)
    BY <2>1, <2>2, LeadsNowhere, Zenon DEF SyncInv
  <2> QED
    BY <2>1, <2>3 DEF SyncInv
<1>2. CASE ReceiverLost
  BY <1>2 DEF ReceiverLost, senderVars, SyncInv
<1>3. CASE Disturb \/ JavaLeaves \/ UNCHANGED vars
  <2>1. UNCHANGED <<snd, rcv, want, file, left, todo, net>>
    BY <1>3 DEF Disturb, JavaLeaves, vars, senderVars, receiverVars
  <2>2. ReceiverStage' = ReceiverStage /\ SenderStage' = SenderStage
    BY <2>1 DEF ReceiverStage, SenderStage
  <2> QED
    BY <2>1, <2>2 DEF SyncInv
<1> QED
  BY <1>0, <1>1, <1>2, <1>3, SenderSync, ReceiverSync DEF Next

\* The receiver never takes content for a header or a header for content,
\* whatever the tree, the sizes and the changes of the source, and whoever
\* leaves.
THEOREM AlwaysInStep == Spec => []InStep
<1>1. SyncInv => InStep
  BY ArrivesSync DEF InStep
<1> QED
  BY <1>1, InitSync, NextSync, PTL DEF Spec

-----------------------------------------------------------------------------
Destinations == dst = [n \in Nodes |-> dst[n]]

\* Only the open file grows, by the piece that arrived, and nothing else that
\* is there is touched: a second item of the same name finds it occupied
\* (FileOpenMode::XCL).
LEMMA OverwritesNothing ==
    ASSUME Destinations, [Next]_vars
    PROVE  /\ Destinations'
           /\ \A n \in Nodes : (dst[n] # Absent /\ dst'[n] # dst[n]) =>
                  rcv = "content" /\ file = n /\ dst'[n] = dst[n] + 1
<1>1. CASE OpenFile
  <2>1. dst[Head(net).node] = Absent /\ dst' = [dst EXCEPT ![Head(net).node] = 0]
    BY <1>1 DEF OpenFile, Creates
  <2> QED
    BY <2>1 DEF Destinations
<1>2. CASE StorePiece
  <2>1. rcv = "content" /\ dst' = [dst EXCEPT ![file] = @ + 1]
    BY <1>2 DEF StorePiece
  <2> QED
    BY <2>1 DEF Destinations
<1>3. CASE MakeDir
  <2>1. \/ dst' = [dst EXCEPT ![Head(net).node] = IF @ = Absent THEN Folder ELSE @]
        \/ dst' = dst
    BY <1>3 DEF MakeDir
  <2> QED
    BY <2>1 DEF Destinations
<1>4. CASE UNCHANGED dst
  BY <1>4 DEF Destinations
<1> QED
  BY <1>1, <1>2, <1>3, <1>4
  DEF Next, Sender, Receiver, Announce, VisitGone, VisitDir, VisitEmptyDir, VisitFile,
      VisitLocked, SendPiece, ReadShort, EndFile, TellEnd, SendEnd, WriteFails, Sends,
      ReadTotals, StoreFails, CloseFile, EndOfItems, ReadFails, MissesEnd, Disturb, SenderLost,
      ReceiverLost, JavaLeaves, receiverVars, vars

\* Nothing at the destination is overwritten, whatever the selection names
\* twice and whatever was there before.
THEOREM NothingIsOverwritten == Spec => NothingOverwritten
<1>1. Init => Destinations
  BY DEF Init, Destinations
<1>2. Destinations /\ [Next]_vars =>
        /\ Destinations'
        /\ [\A n \in Nodes : (dst[n] # Absent /\ dst'[n] # dst[n]) =>
              rcv = "content" /\ file = n /\ dst'[n] = dst[n] + 1]_vars
  BY OverwritesNothing
<1> QED
  BY <1>1, <1>2, PTL DEF Spec, NothingOverwritten

-----------------------------------------------------------------------------
(***************************************************************************)
(* The walk through the source: what the sender still has to visit covers  *)
(* the files that countTotalStatsIntoMap found.                            *)
(***************************************************************************)

LEMMA OrdersValue ==
    ASSUME NEW d \in Dirs, NEW entries \in Orders(Listed(d))
    PROVE  entries \in Seq(Nodes) /\ ToSet(entries) = Listed(d)
<1> DEFINE set == Listed(d)
<1>1. set \subseteq Nodes /\ IsFiniteSet(Kids[d]) /\ set \in SUBSET Kids[d]
  BY ConstantsAssumption DEF Listed
<1> HIDE DEF set
<1>2. Cardinality(set) \in Nat
  <2>1. IsFiniteSet(set)
    BY <1>1, FS_Subset
  <2> QED
    BY <2>1, FS_CardinalityType
<1>3. entries \in [1 .. Cardinality(set) -> set] /\ ToSet(entries) = set
  BY DEF Orders, set
<1>4. entries \in Seq(set)
  BY <1>2, <1>3
<1> QED
  BY <1>1, <1>3, <1>4 DEF set

\* Nothing is below a node that is not entered.
LEMMA BelowLeaf ==
    ASSUME NEW k \in Nodes, Entered(k) = {}, NEW m \in Below(k)
    PROVE  m = k
<1>1. {k} \in SUBSET Nodes /\ k \in {k} /\ \A j \in {k} : Entered(j) \subseteq {k}
  OBVIOUS
<1> QED
  BY <1>1 DEF Below

\* A file in a directory is below one of the entries that are listed.
LEMMA FilesOfEntries ==
    ASSUME NEW d \in Dirs, disk[d] = Folder, NEW n \in Files(d)
    PROVE  \E k \in Listed(d) : n \in Files(k)
<1> DEFINE S == {d} \cup {m \in Nodes : \E k \in Kids[d] : m \in Below(k)}
<1>1. d \in Nodes /\ Kids[d] \subseteq Nodes /\ Entered(d) = Kids[d]
  BY ConstantsAssumption DEF Entered
<1>2. \A k \in Nodes : k \in Below(k)
  BY DEF Below
<1>3. ASSUME NEW j \in S, NEW e \in Entered(j) PROVE e \in S
  <2>1. e \in Nodes
    BY <1>3, ConstantsAssumption DEF Entered
  <2>2. CASE j = d
    BY <1>1, <1>2, <2>1, <2>2
  <2>3. CASE \E k \in Kids[d] : j \in Below(k)
    <3>1. PICK k \in Kids[d] : j \in Below(k)
      BY <2>3
    <3>2. e \in Below(k)
      BY <2>1, <3>1 DEF Below
    <3> QED
      BY <2>1, <3>2
  <2> QED
    BY <2>2, <2>3
<1>4. S \in SUBSET Nodes /\ d \in S /\ \A j \in S : Entered(j) \subseteq S
  BY <1>1, <1>3
<1> HIDE DEF S
<1>5. n \in S
  BY <1>4 DEF Files, Below
<1>6. n \notin Dirs /\ disk[n] # Gone
  BY DEF Files
<1>7. PICK k \in Kids[d] : n \in Below(k)
  BY <1>5, <1>6 DEF S
<1>8. disk[k] # Gone
  <2> SUFFICES ASSUME disk[k] = Gone PROVE n = k
    BY <1>6
  <2>1. Entered(k) = {}
    BY ConstantsAssumption DEF Entered
  <2> QED
    BY <1>1, <1>7, <2>1, BelowLeaf
<1> QED
  BY <1>6, <1>7, <1>8 DEF Listed, Files

\* Of what is no directory with entries only the file itself counts, if it is there.
LEMMA FilesOfLeaf ==
    ASSUME NEW k \in Nodes, ~(k \in Dirs /\ disk[k] = Folder), NEW n \in Files(k)
    PROVE  n = k /\ k \notin Dirs /\ disk[k] # Gone
<1>1. Entered(k) = {}
  BY DEF Entered
<1> QED
  BY <1>1, BelowLeaf DEF Files


\* What the sender works on, and what it has put under way.
SourceInv ==
    /\ changes \in Nat /\ disk \in [Nodes -> {Gone, Locked, Folder} \cup Sizes]
    /\ \A n \in Nodes : disk[n] \in Contents(n)
    /\ todo \in Seq(Nodes) /\ list \in Seq(Nodes)
    /\ snd = "send" => todo # << >>
    /\ snd \in {"endlist", "done"} => todo = << >>
    /\ IsSeq(net)
    /\ \A i \in 1 .. Len(net) : /\ net[i].is \in {"file", "dir"} => net[i].node \in Nodes
                                /\ net[i].is = "end" => snd = "done"

LEMMA InitSource == Init => SourceInv
<1> SUFFICES ASSUME Init PROVE SourceInv
  OBVIOUS
<1>1. net = << >> /\ snd = "count" /\ changes = 0 /\ list \in Seq(Nodes) /\ todo = list
  BY ConstantsAssumption DEF Init
<1>2. IsSeq(net) /\ Len(net) = 0
  <2>1. << >> \in Seq({})
    OBVIOUS
  <2> QED
    BY <1>1, <2>1 DEF IsSeq
<1> QED
  BY <1>1, <1>2 DEF Init, SourceInv

\* Nothing but the end of what is under way may change, and that only by an item
\* of the sender's.
LEMMA NetMore ==
    ASSUME SourceInv, NEW items, NEW words, NEW next, Sends(items, words, next),
           \/ items = << >>
           \/ \E x : /\ items = <<x>>
                     /\ x.is \in {"file", "dir"} => x.node \in Nodes
                     /\ x.is = "end" => next = "done" /\ words = << >>,
           snd \notin {"done", "exited"}
    PROVE  /\ IsSeq(net')
           /\ \A i \in 1 .. Len(net') : /\ net'[i].is \in {"file", "dir"} => net'[i].node \in Nodes
                                        /\ net'[i].is = "end" => snd' = "done"
<1>1. /\ IsSeq(net)
      /\ \A i \in 1 .. Len(net) : /\ net[i].is \in {"file", "dir"} => net[i].node \in Nodes
                                  /\ net[i].is # "end"
  BY DEF SourceInv
<1>2. CASE net' = net
  BY <1>1, <1>2
<1>3. CASE items = << >>
  <2>1. net \o << >> = net
    <3>1. PICK T : net \in Seq(T)
      BY <1>1 DEF IsSeq
    <3> QED
      BY <3>1
  <2> QED
    BY <1>2, <1>3, <2>1 DEF Sends, Transmit
<1>4. ASSUME NEW x, items = <<x>>, x.is \in {"file", "dir"} => x.node \in Nodes,
             x.is = "end" => next = "done" /\ words = << >>, net' = net \o <<x>>
      PROVE  /\ IsSeq(net')
             /\ \A i \in 1 .. Len(net') :
                   /\ net'[i].is \in {"file", "dir"} => net'[i].node \in Nodes
                   /\ net'[i].is = "end" => snd' = "done"
  <2>1. /\ IsSeq(net') /\ Len(net) \in Nat /\ Len(net') = Len(net) + 1
        /\ \A i \in 1 .. Len(net) : net'[i] = net[i]
        /\ net'[Len(net) + 1] = x
    BY <1>1, <1>4, SeqMore
  <2>2. x.is = "end" => snd' = "done"
    BY <1>4 DEF Sends, Then
  <2>3. ASSUME NEW i \in 1 .. Len(net')
        PROVE  /\ net'[i].is \in {"file", "dir"} => net'[i].node \in Nodes
               /\ net'[i].is = "end" => snd' = "done"
    <3>1. CASE i \in 1 .. Len(net)
      BY <1>1, <2>1, <3>1
    <3>2. CASE i = Len(net) + 1
      BY <1>4, <2>1, <2>2, <3>2
    <3> QED
      BY <2>1, <3>1, <3>2
  <2> QED
    BY <2>1, <2>3
<1> QED
  BY <1>2, <1>3, <1>4 DEF Sends, Transmit

LEMMA SenderSource == ASSUME SourceInv, Sender PROVE SourceInv'
<1>0. /\ todo \in Seq(Nodes) /\ IsSeq(net)
      /\ snd = "send" => todo # << >>
      /\ todo # << >> => Head(todo) \in Nodes /\ Tail(todo) \in Seq(Nodes)
  BY DEF SourceInv
<1>1. ASSUME NEW items, NEW words, NEW next, Sends(items, words, next),
             snd \notin {"done", "exited"}, todo' \in Seq(Nodes),
             next \in {"visit", "send", "endlist", "done"},
             next = "send" => todo' # << >>,
             next \in {"endlist", "done"} => todo' = << >>,
             \/ items = << >>
             \/ \E x : /\ items = <<x>>
                       /\ x.is \in {"file", "dir"} => x.node \in Nodes
                       /\ x.is = "end" => next = "done" /\ words = << >>
      PROVE  SourceInv'
  <2>1. /\ IsSeq(net')
        /\ \A i \in 1 .. Len(net') : /\ net'[i].is \in {"file", "dir"} => net'[i].node \in Nodes
                                     /\ net'[i].is = "end" => snd' = "done"
    BY <1>1, NetMore
  <2>2. snd' \in {next, "exited"} /\ UNCHANGED <<list, disk, changes>>
    BY <1>1 DEF Sends, Then
  <2> QED
    BY <1>1, <2>1, <2>2 DEF SourceInv, Contents
<1>2. CASE Announce
  <2>1. PICK n, words : /\ snd = "count" /\ todo' = todo
                        /\ Sends(<<Item("totals", NoNode, n)>>, words, "visit")
    BY <1>2 DEF Announce
  <2> QED
    BY <1>0, <1>1, <2>1 DEF Item
<1>3. CASE VisitGone \/ VisitLocked \/ EndFile
  <2>1. /\ snd \in {"visit", "send"} /\ todo # << >> /\ todo' = Tail(todo)
        /\ \E words : Sends(<< >>, words, "visit")
    BY <1>0, <1>3 DEF VisitGone, VisitLocked, EndFile
  <2> QED
    BY <1>0, <1>1, <2>1
<1>4. CASE VisitDir
  <2>1. PICK entries \in Orders(Listed(Head(todo))) : todo' = entries \o Tail(todo)
    BY <1>4 DEF VisitDir
  <2>2. /\ snd = "visit" /\ todo # << >> /\ Head(todo) \in Dirs
        /\ Sends(<< >>, << >>, "visit")
    BY <1>4 DEF VisitDir
  <2>3. entries \in Seq(Nodes)
    BY <2>2, OrdersValue
  <2>4. todo' \in Seq(Nodes)
    BY <1>0, <2>1, <2>2, <2>3
  <2> QED
    BY <1>1, <2>2, <2>4
<1>5. CASE VisitEmptyDir
  <2>1. /\ snd = "visit" /\ todo # << >> /\ todo' = Tail(todo)
        /\ Sends(<<Item("dir", Head(todo), 0)>>, << >>, "visit")
    BY <1>5 DEF VisitEmptyDir
  <2> QED
    BY <1>0, <1>1, <2>1 DEF Item
<1>6. CASE VisitFile
  <2>1. /\ snd = "visit" /\ todo # << >> /\ todo' = todo
        /\ \E words : Sends(<<Item("file", Head(todo), left')>>, words, "send")
    BY <1>6 DEF VisitFile
  <2> QED
    BY <1>0, <1>1, <2>1 DEF Item
<1>7. CASE SendPiece
  <2>1. /\ snd = "send" /\ todo' = todo
        /\ \E words : Sends(<<Item("piece", Head(todo), 0)>>, words, "send")
    BY <1>7 DEF SendPiece
  <2> QED
    BY <1>0, <1>1, <2>1 DEF Item
<1>8. CASE TellEnd
  <2>1. /\ snd = "visit" /\ todo = << >> /\ todo' = todo
        /\ \E words : Sends(<< >>, words, "endlist")
    BY <1>8 DEF TellEnd
  <2> QED
    BY <1>0, <1>1, <2>1
<1>9. CASE SendEnd
  <2>1. /\ snd = "endlist" /\ todo' = todo /\ todo = << >>
        /\ Sends(<<Item("end", NoNode, 0)>>, << >>, "done")
    BY <1>9 DEF SendEnd, SourceInv
  <2> QED
    BY <1>0, <1>1, <2>1 DEF Item
<1>10. CASE ReadShort \/ WriteFails
  BY <1>10 DEF ReadShort, WriteFails, SourceInv, Contents
<1> QED
  BY <1>2, <1>3, <1>4, <1>5, <1>6, <1>7, <1>8, <1>9, <1>10 DEF Sender

LEMMA NextSource == SourceInv /\ [Next]_vars => SourceInv'
<1> SUFFICES ASSUME SourceInv, [Next]_vars PROVE SourceInv'
  OBVIOUS
<1>0. IsSeq(<< >>) /\ Len(<< >>) = 0
  <2>1. << >> \in Seq({})
    OBVIOUS
  <2> QED
    BY <2>1 DEF IsSeq
<1>1. CASE ReadTotals \/ OpenFile \/ StorePiece \/ MakeDir \/ EndOfItems
  <2>1. net # << >> /\ net' = Tail(net) /\ UNCHANGED <<list, disk, changes, snd, todo>>
    BY <1>1 DEF ReadTotals, OpenFile, StorePiece, MakeDir, EndOfItems, Receives, Arrives
  <2>2. /\ IsSeq(net') /\ Len(net) \in Nat \ {0} /\ Len(net') = Len(net) - 1
        /\ \A i \in 1 .. Len(net) - 1 : net'[i] = net[i + 1]
    BY <2>1, SeqLess DEF SourceInv
  <2>3. ASSUME NEW i \in 1 .. Len(net')
        PROVE  /\ net'[i].is \in {"file", "dir"} => net'[i].node \in Nodes
               /\ net'[i].is = "end" => snd' = "done"
    <3>1. i + 1 \in 1 .. Len(net) /\ net'[i] = net[i + 1]
      BY <2>2
    <3> QED
      BY <2>1, <3>1 DEF SourceInv
  <2> QED
    BY <2>1, <2>2, <2>3 DEF SourceInv, Contents
<1>2. CASE CloseFile \/ JavaLeaves \/ UNCHANGED vars
  BY <1>2 DEF CloseFile, JavaLeaves, vars, sourceVars, senderVars, SourceInv, Contents
<1>3. CASE StoreFails \/ ReadFails \/ MissesEnd \/ ReceiverLost
  <2>1. UNCHANGED <<list, disk, changes, snd, todo>> /\ net' \in {net, << >>}
    BY <1>3 DEF StoreFails, ReadFails, MissesEnd, ReceiverLost, sourceVars, senderVars
  <2> QED
    BY <1>0, <2>1 DEF SourceInv, Contents
<1>4. CASE SenderLost
  <2>1. /\ snd # "done" /\ snd' = "exited" /\ net' \in {net, << >>}
        /\ UNCHANGED <<list, disk, changes, todo>>
    BY <1>4 DEF SenderLost, sourceVars
  <2> QED
    BY <1>0, <2>1 DEF SourceInv, Contents
<1>5. CASE Disturb
  <2>1. PICK n \in Nodes : \E c \in Contents(n) : disk' = [disk EXCEPT ![n] = c]
    BY <1>5 DEF Disturb
  <2>2. changes' = changes + 1 /\ UNCHANGED <<list, snd, todo, net>>
    BY <1>5 DEF Disturb, senderVars
  <2>3. disk' \in [Nodes -> {Gone, Locked, Folder} \cup Sizes]
    BY <2>1 DEF SourceInv, Contents
  <2>4. \A m \in Nodes : disk'[m] \in Contents(m)
    BY <2>1 DEF SourceInv
  <2> QED
    BY <2>2, <2>3, <2>4 DEF SourceInv, Contents
<1> QED
  BY <1>1, <1>2, <1>3, <1>4, <1>5, SenderSource DEF Next, Receiver


-----------------------------------------------------------------------------
(***************************************************************************)
(* What the local client of a download is told: of a file, first its size, *)
(* and its end when as many pieces are stored.                             *)
(***************************************************************************)

\* The marks of one kind, and the sizes announced for a file, among the marks m.
ToldIn(m, is) == {i \in DOMAIN m : m[i].is = is}
AnnouncedIn(m, n) == {m[i].count : i \in {j \in ToldIn(m, "size") : m[j].node = n}}

\* t is m with the mark x more.
Grown(m, x, t) == IsSeq(m) /\ t = m \o <<x>>

LEMMA MarkMore ==
    ASSUME NEW m, NEW x, NEW t, Grown(m, x, t), NEW kind
    PROVE  /\ x.is # kind => ToldIn(t, kind) = ToldIn(m, kind)
           /\ x.is = kind => ToldIn(t, kind) = ToldIn(m, kind) \cup {Len(m) + 1}
           /\ \A i \in ToldIn(m, kind) : t[i] = m[i]
<1>0. IsSeq(m) /\ t = m \o <<x>>
  BY DEF Grown
<1>1. /\ IsSeq(t) /\ Len(m) \in Nat /\ Len(t) = Len(m) + 1
      /\ \A i \in 1 .. Len(m) : t[i] = m[i]
      /\ t[Len(m) + 1] = x
  BY <1>0, SeqMore
<1>2. DOMAIN m = 1 .. Len(m) /\ DOMAIN t = 1 .. Len(m) + 1
  <2>1. PICK T : m \in Seq(T)
    BY <1>0 DEF IsSeq
  <2>2. PICK U : t \in Seq(U)
    BY <1>1 DEF IsSeq
  <2> QED
    BY <1>1, <2>1, <2>2
<1> QED
  BY <1>1, <1>2 DEF ToldIn

\* The same for every kind at once.
LEMMA MarksGrow ==
    ASSUME NEW m, NEW x, NEW t, Grown(m, x, t)
    PROVE  /\ \A kind : x.is # kind => ToldIn(t, kind) = ToldIn(m, kind)
           /\ ToldIn(t, x.is) = ToldIn(m, x.is) \cup {Len(m) + 1}
           /\ \A kind : \A i \in ToldIn(m, kind) : t[i] = m[i]
<1>1. ASSUME NEW kind
      PROVE  /\ x.is # kind => ToldIn(t, kind) = ToldIn(m, kind)
             /\ x.is = kind => ToldIn(t, kind) = ToldIn(m, kind) \cup {Len(m) + 1}
             /\ \A i \in ToldIn(m, kind) : t[i] = m[i]
  BY MarkMore
<1> QED
  BY <1>1

LEMMA AnnouncedMore ==
    ASSUME NEW m, IsSeq(m), NEW x, NEW n
    PROVE  AnnouncedIn(m \o <<x>>, n) = IF x.is = "size" /\ x.node = n
                                        THEN AnnouncedIn(m, n) \cup {x.count}
                                        ELSE AnnouncedIn(m, n)
<1> DEFINE t == m \o <<x>>
           A == {j \in ToldIn(m, "size") : m[j].node = n}
           B == {j \in ToldIn(t, "size") : t[j].node = n}
<1>1. /\ AnnouncedIn(t, n) = {t[i].count : i \in B}
      /\ AnnouncedIn(m, n) = {m[i].count : i \in A}
  BY DEF AnnouncedIn
<1>2. /\ x.is # "size" => ToldIn(t, "size") = ToldIn(m, "size")
      /\ x.is = "size" => ToldIn(t, "size") = ToldIn(m, "size") \cup {Len(m) + 1}
      /\ \A i \in ToldIn(m, "size") : t[i] = m[i]
      /\ Len(m) + 1 \notin ToldIn(m, "size")
      /\ t[Len(m) + 1] = x
  <2>1. t[Len(m) + 1] = x
    BY SeqMore
  <2>2. PICK T : m \in Seq(T)
    BY DEF IsSeq
  <2>3. Len(m) + 1 \notin ToldIn(m, "size")
    BY <2>2 DEF ToldIn
  <2>4. /\ x.is # "size" => ToldIn(t, "size") = ToldIn(m, "size")
        /\ x.is = "size" => ToldIn(t, "size") = ToldIn(m, "size") \cup {Len(m) + 1}
        /\ \A i \in ToldIn(m, "size") : t[i] = m[i]
    <3>1. Grown(m, x, t)
      BY DEF Grown
    <3> HIDE DEF t
    <3> QED
      BY <3>1, MarkMore
  <2> QED
    BY <2>1, <2>3, <2>4
<1> HIDE DEF t
<1>3. \A j \in A : t[j] = m[j]
  BY <1>2
<1>4. CASE ~(x.is = "size" /\ x.node = n)
  <2>1. B = A
    BY <1>2, <1>4
  <2> HIDE DEF A, B
  <2>2. {t[i].count : i \in A} = {m[i].count : i \in A}
    BY <1>3
  <2> QED
    BY <1>1, <1>4, <2>1, <2>2 DEF t
<1>5. CASE x.is = "size" /\ x.node = n
  <2>1. B = A \cup {Len(m) + 1}
    BY <1>2, <1>5
  <2> HIDE DEF A, B
  <2>2. {t[i].count : i \in B} = {t[i].count : i \in A} \cup {t[Len(m) + 1].count}
    BY <2>1
  <2>3. {t[i].count : i \in A} = {m[i].count : i \in A}
    BY <1>3
  <2> QED
    BY <1>1, <1>2, <1>5, <2>2, <2>3 DEF t
<1> QED
  BY <1>4, <1>5

MarkInv ==
    /\ IsSeq(marks)
    /\ mode = "download" =>
          /\ \A i \in ToldIn(marks, "size") : marks[i].node \in Nodes /\ dst[marks[i].node] # Absent
          /\ \A i \in ToldIn(marks, "eof") :
                AnnouncedIn(marks, marks[i].node) = {dst[marks[i].node]}
          /\ rcv = "content" =>
                /\ file \in Nodes /\ dst[file] \in Nat
                /\ AnnouncedIn(marks, file) = {dst[file] + want}
                /\ \A i \in ToldIn(marks, "eof") : marks[i].node # file
          /\ ToldIn(marks, "end") # {} => rcv = "done"

LEMMA InitMarks == Init => MarkInv
<1> SUFFICES ASSUME Init PROVE MarkInv
  OBVIOUS
<1>1. marks = << >> /\ rcv = "totals"
  BY DEF Init
<1>2. IsSeq(marks) /\ \A is : ToldIn(marks, is) = {}
  <2>1. << >> \in Seq({}) /\ DOMAIN << >> = {}
    OBVIOUS
  <2> QED
    BY <1>1, <2>1 DEF IsSeq, ToldIn
<1> QED
  BY <1>1, <1>2 DEF MarkInv

\* A file whose end was told is there.
LEMMA EofPresent ==
    ASSUME MarkInv, mode = "download", NEW i \in ToldIn(marks, "eof")
    PROVE  marks[i].node \in Nodes /\ dst[marks[i].node] # Absent
<1>1. AnnouncedIn(marks, marks[i].node) # {}
  BY DEF MarkInv
<1>2. PICK j \in ToldIn(marks, "size") : marks[j].node = marks[i].node
  BY <1>1 DEF AnnouncedIn
<1> QED
  BY <1>2 DEF MarkInv

\* Nothing is told, and no present destination changes.
LEMMA SilentMarks ==
    ASSUME MarkInv, marks' = marks, mode' = mode,
           \A n \in Nodes : dst[n] # Absent => dst'[n] = dst[n],
           \/ rcv' = rcv /\ UNCHANGED <<file, want>> /\ (rcv = "content" => dst' = dst)
           \/ rcv # "done" /\ rcv' # "content"
    PROVE  MarkInv'
<1>1. ASSUME mode = "download", NEW i \in ToldIn(marks, "eof")
      PROVE  AnnouncedIn(marks, marks[i].node) = {dst'[marks[i].node]}
  <2>1. dst'[marks[i].node] = dst[marks[i].node]
    BY <1>1, EofPresent
  <2> QED
    BY <1>1, <2>1 DEF MarkInv
<1> QED
  BY <1>1 DEF MarkInv

\* The receiver of a download says something other than a size or the end of a file.
LEMMA OtherMark ==
    ASSUME MarkInv, NEW x, x.is \notin {"size", "eof"}, Grown(marks, x, marks'), mode' = mode,
           \/ rcv' = "content" /\ rcv = "content" /\ file' = file /\ want \in Nat \ {0}
              /\ want' = want - 1 /\ dst' = [dst EXCEPT ![file] = @ + 1] /\ x.is # "end"
              /\ Destinations
           \/ rcv' # "content" /\ dst' = dst /\ rcv # "done" /\ (x.is = "end" => rcv' = "done")
    PROVE  MarkInv'
<1>1. /\ IsSeq(marks')
      /\ \A kind : \A i \in ToldIn(marks, kind) : marks'[i] = marks[i]
      /\ \A kind : x.is # kind => ToldIn(marks', kind) = ToldIn(marks, kind)
      /\ \A n : AnnouncedIn(marks', n) = AnnouncedIn(marks, n)
  <2>1. IsSeq(marks) /\ marks' = marks \o <<x>>
    BY DEF Grown
  <2>2. IsSeq(marks')
    BY <2>1, SeqMore
  <2>3. /\ \A kind : \A i \in ToldIn(marks, kind) : marks'[i] = marks[i]
        /\ \A kind : x.is # kind => ToldIn(marks', kind) = ToldIn(marks, kind)
    BY MarksGrow
  <2>4. \A n : AnnouncedIn(marks', n) = AnnouncedIn(marks, n)
    BY <2>1, AnnouncedMore
  <2> QED
    BY <2>2, <2>3, <2>4
<1>2. /\ ToldIn(marks', "size") = ToldIn(marks, "size") /\ ToldIn(marks', "eof") = ToldIn(marks, "eof")
      /\ x.is # "end" => ToldIn(marks', "end") = ToldIn(marks, "end")
  BY <1>1
<1> SUFFICES ASSUME mode = "download" PROVE MarkInv'
  BY <1>1 DEF MarkInv
<1>4. CASE rcv' = "content"
  <2>1. /\ rcv = "content" /\ file' = file /\ want \in Nat \ {0} /\ want' = want - 1
        /\ dst' = [dst EXCEPT ![file] = @ + 1] /\ dst = [n \in Nodes |-> dst[n]]
        /\ x.is # "end"
    BY <1>4 DEF Destinations
  <2>2. /\ file \in Nodes /\ dst[file] \in Nat /\ AnnouncedIn(marks, file) = {dst[file] + want}
        /\ \A i \in ToldIn(marks, "eof") : marks[i].node # file
        /\ ToldIn(marks, "end") = {}
    BY <2>1 DEF MarkInv
  <2>3. /\ dst'[file] = dst[file] + 1 /\ dst'[file] \in Nat
        /\ \A n \in Nodes : n # file => dst'[n] = dst[n]
    BY <2>1, <2>2
  <2>4. dst'[file] + want' = dst[file] + want
    BY <2>1, <2>2, <2>3
  <2>5. \A i \in ToldIn(marks, "size") : marks[i].node \in Nodes /\ dst'[marks[i].node] # Absent
    BY <2>2, <2>3, ConstantsAssumption DEF MarkInv
  <2>6. ASSUME NEW i \in ToldIn(marks, "eof")
        PROVE  AnnouncedIn(marks', marks[i].node) = {dst'[marks[i].node]}
    <3>1. dst'[marks[i].node] = dst[marks[i].node]
      BY <2>2, <2>3, EofPresent
    <3> QED
      BY <1>1, <3>1 DEF MarkInv
  <2>7. AnnouncedIn(marks', file') = {dst'[file'] + want'}
    BY <1>1, <2>1, <2>2, <2>4
  <2>8. \A i \in ToldIn(marks', "size") : marks'[i].node \in Nodes /\ dst'[marks'[i].node] # Absent
    BY <1>1, <1>2, <2>5
  <2>9. \A i \in ToldIn(marks', "eof") :
           /\ AnnouncedIn(marks', marks'[i].node) = {dst'[marks'[i].node]}
           /\ marks'[i].node # file'
    <3> SUFFICES ASSUME NEW i \in ToldIn(marks, "eof")
                 PROVE  /\ AnnouncedIn(marks', marks'[i].node) = {dst'[marks'[i].node]}
                        /\ marks'[i].node # file'
      BY <1>2
    <3>1. marks'[i] = marks[i]
      BY <1>1
    <3>2. AnnouncedIn(marks', marks[i].node) = {dst'[marks[i].node]}
      BY <2>6
    <3> QED
      BY <2>1, <2>2, <3>1, <3>2
  <2>10. file' \in Nodes /\ dst'[file'] \in Nat /\ ToldIn(marks', "end") = {}
    BY <1>2, <2>1, <2>2, <2>3
  <2> QED
    BY <1>1, <2>7, <2>8, <2>9, <2>10 DEF MarkInv
<1>5. CASE rcv' # "content"
  <2>1. dst' = dst /\ rcv # "done" /\ (x.is = "end" => rcv' = "done")
    BY <1>5
  <2>2. ToldIn(marks, "end") = {}
    BY <2>1 DEF MarkInv
  <2>3. \A i \in ToldIn(marks', "size") : marks'[i].node \in Nodes /\ dst'[marks'[i].node] # Absent
    BY <1>1, <1>2, <2>1 DEF MarkInv
  <2>4. \A i \in ToldIn(marks', "eof") : AnnouncedIn(marks', marks'[i].node) = {dst'[marks'[i].node]}
    <3> SUFFICES ASSUME NEW i \in ToldIn(marks, "eof")
                 PROVE  AnnouncedIn(marks', marks'[i].node) = {dst'[marks'[i].node]}
      BY <1>2
    <3>1. AnnouncedIn(marks, marks[i].node) = {dst[marks[i].node]}
      BY DEF MarkInv
    <3> QED
      BY <1>1, <2>1, <3>1
  <2>5. ToldIn(marks', "end") # {} => rcv' = "done"
    BY <1>2, <2>1, <2>2
  <2> QED
    BY <1>1, <1>5, <2>3, <2>4, <2>5 DEF MarkInv
<1> QED
  BY <1>4, <1>5

LEMMA NextMarks ==
    ASSUME SyncInv, SourceInv, Destinations, MarkInv, [Next]_vars
    PROVE  MarkInv'
<1>0. IsSeq(marks) /\ marks \o << >> = marks
  <2>1. PICK T : marks \in Seq(T)
    BY DEF MarkInv, IsSeq
  <2> QED
    BY <2>1 DEF MarkInv
<1>1. CASE Sender
  <2>1. /\ UNCHANGED <<mode, rcv, file, want, dst>>
        /\ \E words : Says("sender", words) \/ marks' = marks
    BY <1>1 DEF Sender, Announce, VisitGone, VisitDir, VisitEmptyDir, VisitFile, VisitLocked,
                SendPiece, ReadShort, EndFile, TellEnd, SendEnd, WriteFails, Sends
  <2>2. CASE mode = "download"
    <3>1. marks' = marks
      BY <2>1, <2>2 DEF Says, Attached
    <3> QED
      BY <2>1, <3>1, SilentMarks
  <2>3. CASE mode # "download"
    <3>1. marks' = marks \/ \E x : marks' = marks \o <<x>>
      BY <1>0, <1>1 DEF Sender, Announce, VisitGone, VisitDir, VisitEmptyDir, VisitFile,
         VisitLocked, SendPiece, ReadShort, EndFile, TellEnd, SendEnd, WriteFails, Sends, Says
    <3>2. IsSeq(marks')
      <4>1. CASE marks' = marks
        BY <1>0, <4>1
      <4>2. ASSUME NEW x, marks' = marks \o <<x>> PROVE IsSeq(marks')
        BY <1>0, <4>2, SeqMore
      <4> QED
        BY <3>1, <4>1, <4>2
    <3> QED
      BY <2>1, <2>3, <3>2 DEF MarkInv
  <2> QED
    BY <2>2, <2>3
<1>2. CASE Receiver /\ mode # "download"
  <2>1. mode' = mode /\ (marks' = marks \/ \E words : Says("receiver", words))
    BY <1>2 DEF Receiver, ReadTotals, OpenFile, StoreFails, StorePiece, CloseFile, MakeDir,
                EndOfItems, ReadFails, SessionOver, Receives, sourceVars
  <2>2. marks' = marks
    BY <1>2, <2>1 DEF Says, Attached
  <2> QED
    BY <1>0, <1>2, <2>1, <2>2 DEF MarkInv
<1>3. CASE ReadTotals /\ mode = "download"
  <2>1. /\ rcv = "totals" /\ Head(net).is = "totals" /\ rcv' \in {"header", "exited"}
        /\ UNCHANGED <<mode, file, want, dst>>
        /\ marks' = marks \/ marks' = marks \o <<Head(net)>>
    BY <1>3 DEF ReadTotals, Arrives, Receives, Says, Then
  <2> QED
    BY <1>0, <2>1, SilentMarks, OtherMark DEF Grown
<1>4. CASE OpenFile /\ mode = "download"
  <2> DEFINE n == Head(net).node
             x == Item("size", n, Head(net).count)
  <2>1. /\ rcv = "header" /\ net # << >> /\ Head(net).is = "file" /\ dst[n] = Absent
        /\ dst' = [dst EXCEPT ![n] = 0] /\ file' = n /\ want' = Head(net).count
        /\ mode' = mode
        /\ \/ java /\ marks' = marks \o <<x>> /\ rcv' = "content"
           \/ ~java /\ marks' = marks /\ rcv' = "exited"
    BY <1>4 DEF OpenFile, Arrives, Creates, Receives, Says, Then, Attached
  <2>2. n \in Nodes
    <3>1. Len(net) \in Nat \ {0} /\ Head(net) = net[1]
      BY <2>1, SeqLess DEF SourceInv
    <3>2. 1 \in 1 .. Len(net)
      BY <3>1
    <3> QED
      BY <2>1, <3>1, <3>2 DEF SourceInv
  <2>3. want' \in Nat
    <3>1. \E c : Moves(ReceiverStage, Head(net), c)
      BY <2>1, LeadsOn DEF SyncInv
    <3> QED
      BY <2>1, <3>1 DEF Moves
  <2>4. /\ dst'[n] = 0 /\ dst'[n] # Absent
        /\ \A m \in Nodes : m # n => dst'[m] = dst[m]
        /\ \A m \in Nodes : dst[m] # Absent => dst'[m] = dst[m]
    BY <2>1, <2>2, ConstantsAssumption DEF Destinations
  <2>5. CASE ~java
    BY <2>1, <2>4, <2>5, SilentMarks
  <2>6. CASE java
    <3>1. x.is = "size" /\ x.node = n /\ x.count = want'
      BY <2>1 DEF Item
    <3> HIDE DEF x, n
    <3>0. marks' = marks \o <<x>>
      BY <2>1, <2>6
    <3>2. /\ IsSeq(marks')
          /\ ToldIn(marks', "eof") = ToldIn(marks, "eof")
          /\ ToldIn(marks', "end") = ToldIn(marks, "end")
          /\ ToldIn(marks', "size") = ToldIn(marks, "size") \cup {Len(marks) + 1}
          /\ marks'[Len(marks) + 1] = x
          /\ \A kind : \A i \in ToldIn(marks, kind) : marks'[i] = marks[i]
          /\ \A m : m # n => AnnouncedIn(marks', m) = AnnouncedIn(marks, m)
          /\ AnnouncedIn(marks', n) = AnnouncedIn(marks, n) \cup {x.count}
      <4>1. IsSeq(marks') /\ marks'[Len(marks) + 1] = x
        BY <1>0, <3>0, SeqMore
      <4>2. /\ ToldIn(marks', "eof") = ToldIn(marks, "eof")
            /\ ToldIn(marks', "end") = ToldIn(marks, "end")
            /\ ToldIn(marks', "size") = ToldIn(marks, "size") \cup {Len(marks) + 1}
            /\ \A kind : \A i \in ToldIn(marks, kind) : marks'[i] = marks[i]
        <5>1. Grown(marks, x, marks')
          BY <1>0, <3>0 DEF Grown
        <5> QED
          BY <3>1, <5>1, MarksGrow
      <4>3. /\ \A m : m # n => AnnouncedIn(marks', m) = AnnouncedIn(marks, m)
            /\ AnnouncedIn(marks', n) = AnnouncedIn(marks, n) \cup {x.count}
        BY <1>0, <3>0, <3>1, AnnouncedMore
      <4> QED
        BY <4>1, <4>2, <4>3
    <3>4. AnnouncedIn(marks, n) = {} /\ AnnouncedIn(marks', n) = {want'}
      <4>1. \A i \in ToldIn(marks, "size") : marks[i].node # n
        BY <1>4, <2>1 DEF MarkInv
      <4>2. AnnouncedIn(marks, n) = {}
        BY <4>1 DEF AnnouncedIn
      <4> QED
        BY <3>1, <3>2, <4>2
    <3>5. \A i \in ToldIn(marks, "eof") : marks[i].node # n /\ marks[i].node \in Nodes
      BY <1>4, <2>1, EofPresent
    <3>6. /\ ToldIn(marks', "eof") = ToldIn(marks, "eof") /\ ToldIn(marks', "end") = ToldIn(marks, "end")
          /\ \A i \in ToldIn(marks', "size") : i \in ToldIn(marks, "size") \/ i = Len(marks) + 1
      BY <3>1, <3>2
    <3>7. \A i \in ToldIn(marks', "size") : marks'[i].node \in Nodes /\ dst'[marks'[i].node] # Absent
      BY <1>4, <2>2, <2>4, <3>1, <3>2, <3>6 DEF MarkInv
    <3>8. ASSUME NEW i \in ToldIn(marks, "eof")
          PROVE  AnnouncedIn(marks', marks[i].node) = {dst'[marks[i].node]}
      <4>1. dst'[marks[i].node] = dst[marks[i].node]
        BY <2>4, <3>5
      <4> QED
        BY <1>4, <3>2, <3>5, <4>1 DEF MarkInv
    <3>9. /\ file' \in Nodes /\ dst'[file'] \in Nat /\ dst'[file'] + want' = want'
          /\ \A i \in ToldIn(marks', "eof") : marks'[i].node # file'
      BY <2>1, <2>2, <2>3, <2>4, <3>2, <3>5, <3>6
    <3>10. AnnouncedIn(marks', file') = {want'}
      BY <2>1, <3>4
    <3>11. ASSUME NEW i \in ToldIn(marks', "eof")
           PROVE  /\ AnnouncedIn(marks', marks'[i].node) = {dst'[marks'[i].node]}
                  /\ marks'[i].node # file'
      <4>1. i \in ToldIn(marks, "eof") /\ marks'[i] = marks[i]
        BY <3>2, <3>6
      <4> QED
        BY <3>8, <3>9, <4>1
    <3>12. ToldIn(marks', "end") # {} => rcv' = "done"
      BY <1>4, <2>1, <3>6 DEF MarkInv
    <3>13. AnnouncedIn(marks', file') = {dst'[file'] + want'}
      BY <3>9, <3>10
    <3> QED
      BY <3>2, <3>7, <3>9, <3>11, <3>12, <3>13 DEF MarkInv
  <2> QED
    BY <2>5, <2>6
<1>5. CASE StorePiece /\ mode = "download"
  <2>1. /\ rcv = "content" /\ want > 0 /\ rcv' \in {"content", "exited"}
        /\ file' = file /\ want' = want - 1 /\ mode' = mode
        /\ dst' = [dst EXCEPT ![file] = @ + 1]
        /\ \/ marks' = marks \o <<Item("progress", file, 0)>> /\ rcv' = "content"
           \/ marks' = marks /\ rcv' = "exited"
    BY <1>5 DEF StorePiece, Receives, Says, Then, Attached
  <2>2. want \in Nat \ {0}
    BY <2>1 DEF SyncInv
  <2>3. CASE marks' = marks \o <<Item("progress", file, 0)>> /\ rcv' = "content"
    BY <1>0, <2>1, <2>2, <2>3, OtherMark DEF Item, Grown
  <2>4. CASE marks' = marks /\ rcv' = "exited"
    <3>3. /\ file \in Nodes /\ dst[file] \in Nat /\ ToldIn(marks, "end") = {}
          /\ \A i \in ToldIn(marks, "eof") : marks[i].node # file
      BY <1>5, <2>1 DEF MarkInv
    <3>4. dst'[file] # Absent /\ \A n \in Nodes : n # file => dst'[n] = dst[n]
      <4>1. dst'[file] = dst[file] + 1 /\ dst'[file] \in Nat
        BY <2>1, <3>3 DEF Destinations
      <4>2. dst'[file] # Absent
        BY <4>1, ConstantsAssumption
      <4> QED
        BY <2>1, <3>3, <4>2 DEF Destinations
    <3>5. ASSUME NEW i \in ToldIn(marks, "eof")
          PROVE  AnnouncedIn(marks, marks[i].node) = {dst'[marks[i].node]}
      <4>1. dst'[marks[i].node] = dst[marks[i].node]
        BY <1>5, <3>3, <3>4, EofPresent
      <4> QED
        BY <1>5, <4>1 DEF MarkInv
    <3> QED
      BY <1>5, <2>1, <2>4, <3>3, <3>4, <3>5 DEF MarkInv
  <2> QED
    BY <2>1, <2>3, <2>4
<1>6. CASE CloseFile /\ mode = "download"
  <2> DEFINE x == Item("eof", file, 0)
  <2>1. /\ rcv = "content" /\ want = 0 /\ mode' = mode /\ dst' = dst
        /\ \/ marks' = marks \o <<x>> /\ rcv' = "header"
           \/ marks' = marks /\ rcv' = "exited"
    BY <1>6 DEF CloseFile, Says, Then, Attached, sourceVars
  <2>2. CASE marks' = marks /\ rcv' = "exited"
    BY <2>1, <2>2, SilentMarks
  <2>3. CASE marks' = marks \o <<x>> /\ rcv' = "header"
    <3>1. x.is = "eof" /\ x.node = file
      BY DEF Item
    <3> HIDE DEF x
    <3>2. /\ IsSeq(marks')
          /\ ToldIn(marks', "size") = ToldIn(marks, "size")
          /\ ToldIn(marks', "end") = ToldIn(marks, "end")
          /\ ToldIn(marks', "eof") = ToldIn(marks, "eof") \cup {Len(marks) + 1}
          /\ marks'[Len(marks) + 1] = x
          /\ \A kind : \A i \in ToldIn(marks, kind) : marks'[i] = marks[i]
          /\ \A n : AnnouncedIn(marks', n) = AnnouncedIn(marks, n)
      <4>1. IsSeq(marks') /\ marks'[Len(marks) + 1] = x
        BY <1>0, <2>3, SeqMore
      <4>2. /\ ToldIn(marks', "size") = ToldIn(marks, "size")
            /\ ToldIn(marks', "end") = ToldIn(marks, "end")
            /\ ToldIn(marks', "eof") = ToldIn(marks, "eof") \cup {Len(marks) + 1}
            /\ \A kind : \A i \in ToldIn(marks, kind) : marks'[i] = marks[i]
        <5>1. Grown(marks, x, marks')
          BY <1>0, <2>3 DEF Grown
        <5> QED
          BY <3>1, <5>1, MarksGrow
      <4>3. \A n : AnnouncedIn(marks', n) = AnnouncedIn(marks, n)
        BY <1>0, <2>3, <3>1, AnnouncedMore
      <4> QED
        BY <4>1, <4>2, <4>3
    <3>4. AnnouncedIn(marks, file) = {dst[file]} /\ ToldIn(marks, "end") = {}
      <4>1. dst[file] \in Nat /\ AnnouncedIn(marks, file) = {dst[file] + want} /\ ToldIn(marks, "end") = {}
        BY <1>6, <2>1 DEF MarkInv
      <4> QED
        BY <2>1, <4>1
    <3>5. /\ ToldIn(marks', "size") = ToldIn(marks, "size") /\ ToldIn(marks', "end") = ToldIn(marks, "end")
          /\ \A i \in ToldIn(marks', "eof") : i \in ToldIn(marks, "eof") \/ i = Len(marks) + 1
      BY <3>1, <3>2
    <3>6. ASSUME NEW i \in ToldIn(marks', "eof")
          PROVE  AnnouncedIn(marks', marks'[i].node) = {dst'[marks'[i].node]}
      <4>1. CASE i \in ToldIn(marks, "eof")
        <5>1. AnnouncedIn(marks, marks[i].node) = {dst[marks[i].node]}
          BY <1>6, <4>1 DEF MarkInv
        <5> QED
          BY <2>1, <3>2, <4>1, <5>1
      <4>2. CASE i = Len(marks) + 1
        BY <2>1, <3>1, <3>2, <3>4, <4>2
      <4> QED
        BY <3>5, <4>1, <4>2
    <3>7. \A i \in ToldIn(marks', "size") : marks'[i].node \in Nodes /\ dst'[marks'[i].node] # Absent
      BY <1>6, <2>1, <3>2 DEF MarkInv
    <3> QED
      BY <2>3, <3>2, <3>4, <3>5, <3>6, <3>7 DEF MarkInv
  <2> QED
    BY <2>1, <2>2, <2>3
<1>7. CASE MakeDir /\ mode = "download"
  <2>1. /\ rcv = "header" /\ marks' = marks /\ mode' = mode /\ rcv' \in {"header", "exited"}
        /\ UNCHANGED <<file, want>>
        /\ \A n \in Nodes : dst[n] # Absent => dst'[n] = dst[n]
    BY <1>0, <1>7 DEF MakeDir, Receives, Says, Then, Destinations
  <2> QED
    BY <2>1, SilentMarks
<1>8. CASE EndOfItems /\ mode = "download"
  <2>1. /\ rcv = "header" /\ Head(net).is = "end" /\ mode' = mode /\ dst' = dst
        /\ \/ marks' = marks \o <<Head(net)>> /\ rcv' = "done"
           \/ marks' = marks /\ rcv' = "exited"
    BY <1>8 DEF EndOfItems, Arrives, Receives, Says, Then, Attached
  <2> QED
    BY <1>0, <2>1, SilentMarks, OtherMark DEF Grown
<1>9. CASE StoreFails \/ ReadFails \/ MissesEnd \/ ReceiverLost
  <2>1. rcv # "done" /\ rcv' \in {"exited", "deaf"} /\ UNCHANGED <<mode, marks, dst>>
    BY <1>9 DEF StoreFails, ReadFails, MissesEnd, SessionOver, ReceiverLost, sourceVars
  <2> QED
    BY <2>1, SilentMarks
<1>10. CASE Disturb \/ SenderLost \/ JavaLeaves \/ UNCHANGED vars
  <2>1. UNCHANGED <<mode, marks, dst, rcv, file, want>>
    BY <1>10 DEF Disturb, SenderLost, JavaLeaves, vars, sourceVars, receiverVars
  <2> QED
    BY <2>1, SilentMarks
<1> QED
  BY <1>1, <1>2, <1>3, <1>4, <1>5, <1>6, <1>7, <1>8, <1>9, <1>10 DEF Next, Receiver



\* The end of a file is told when what was announced of it is stored: in every
\* reachable state of every download, whoever has left or changed the source.
THEOREM EndOfFileMeansStored == Spec => []EofMeansStored
<1> DEFINE I == SyncInv /\ SourceInv /\ Destinations /\ MarkInv
<1>1. Init => I
  <2>1. Init => Destinations
    BY DEF Init, Destinations
  <2> QED
    BY <2>1, InitSync, InitSource, InitMarks
<1>2. I /\ [Next]_vars => I'
  BY NextSync, NextSource, OverwritesNothing, NextMarks
<1>3. I => EofMeansStored
  BY DEF MarkInv, EofMeansStored, Told, Announced, ToldIn, AnnouncedIn
<1> HIDE DEF I
<1> QED
  BY <1>1, <1>2, <1>3, PTL DEF Spec

-----------------------------------------------------------------------------
(***************************************************************************)
(* A download from a source that nobody changes: every readable file that  *)
(* is asked for is on its way, from the moment the list is given until it  *)
(* is stored.                                                              *)
(***************************************************************************)

\* The files of a node in the source dk, and the readable files of the list l.
FilesOn(dk, n) ==
    LET entered(k) == IF k \in Dirs /\ dk[k] = Folder THEN Kids[k] ELSE {}
        below == {m \in Nodes : \A S \in SUBSET Nodes :
                                   (n \in S /\ \A k \in S : entered(k) \subseteq S) => m \in S}
    IN {m \in below \ Dirs : dk[m] # Gone}

WantedOn(dk, l) ==
    {n \in Nodes : dk[n] \in Sizes /\ \E j \in DOMAIN l : n \in FilesOn(dk, l[j])}

LEMMA FilesAre == ASSUME NEW n PROVE Files(n) = FilesOn(disk, n)
  BY DEF Files, FilesOn, Below, Entered

Coming(n) ==
    \/ \E i \in 1 .. Len(todo) : n \in FilesOn(disk, todo[i]) /\ (snd = "send" => i # 1)
    \/ \E i \in 1 .. Len(net) : net[i] = Item("file", n, StatSize(n))
    \/ rcv = "content" /\ file = n /\ dst[n] \in Nat /\ dst[n] + want = StatSize(n)
    \/ dst[n] = StatSize(n) /\ ~(rcv = "content" /\ file = n)

MirrorInv ==
    mode = "download" /\ changes = 0 =>
        /\ snd # "exited" /\ rcv # "exited" => \A n \in WantedOn(disk, list) : Coming(n)
        /\ rcv = "done" => \A n \in WantedOn(disk, list) : dst[n] = StatSize(n)

LEMMA InitMirror == Init => MirrorInv
<1> SUFFICES ASSUME Init, NEW n \in WantedOn(disk, list) PROVE rcv # "done" /\ Coming(n)
  BY DEF MirrorInv
<1>1. todo = list /\ list \in Seq(Nodes) /\ snd = "count" /\ rcv = "totals"
  BY ConstantsAssumption DEF Init
<1>2. PICK j \in DOMAIN list : n \in FilesOn(disk, list[j])
  BY DEF WantedOn
<1>3. j \in 1 .. Len(todo)
  BY <1>1
<1> QED
  BY <1>1, <1>2, <1>3 DEF Coming

LEMMA TailHas ==
    ASSUME NEW s, IsSeq(s), s # << >>, NEW i \in 1 .. Len(s), i # 1
    PROVE  \E k \in 1 .. Len(Tail(s)) : Tail(s)[k] = s[i]
<1>1. /\ Len(s) \in Nat \ {0} /\ Len(Tail(s)) = Len(s) - 1
      /\ \A k \in 1 .. Len(s) - 1 : Tail(s)[k] = s[k + 1]
  BY SeqLess
<1>2. i - 1 \in 1 .. Len(s) - 1 /\ (i - 1) + 1 = i
  BY <1>1
<1> QED
  BY <1>1, <1>2

LEMMA WantedSize ==
    ASSUME SourceInv, NEW n \in WantedOn(disk, list)
    PROVE  n \in Nodes /\ StatSize(n) \in Nat /\ disk[n] \in Sizes /\ StatSize(n) # Absent
<1>1. n \in Nodes /\ disk[n] \in Sizes
  BY DEF WantedOn
<1>2. StatSize(n) \in Nat
  BY <1>1, ConstantsAssumption DEF StatSize, Sizes
<1> QED
  BY <1>1, <1>2, ConstantsAssumption

\* What a visit leaves out of the first item to visit: nothing that is wanted.
LEMMA LeafIsItself ==
    ASSUME SourceInv, todo # << >>, NEW n \in FilesOn(disk, todo[1]),
           ~(Head(todo) \in Dirs /\ disk[Head(todo)] = Folder)
    PROVE  n = Head(todo) /\ n \notin Dirs /\ disk[n] # Gone
<1>1. Head(todo) \in Nodes /\ todo[1] = Head(todo)
  BY DEF SourceInv
<1>2. n \in Files(Head(todo))
  BY <1>1, FilesAre
<1> QED
  BY <1>1, <1>2, FilesOfLeaf

\* The sender loses no file.
LEMMA SenderMirror ==
    ASSUME SourceInv, Sender, mode = "download", rcv # "exited", snd' # "exited",
           NEW n \in WantedOn(disk, list), Coming(n)
    PROVE  Coming(n)'
<1>0. n \in Nodes /\ StatSize(n) \in Nat /\ disk[n] \in Sizes
  BY WantedSize
<1>1. /\ UNCHANGED <<disk, rcv, file, want, dst>>
      /\ \E items : net' = net \o items /\ (items = << >> \/ \E x : items = <<x>>)
  BY DEF Sender, Announce, VisitGone, VisitDir, VisitEmptyDir, VisitFile, VisitLocked,
         SendPiece, ReadShort, EndFile, TellEnd, SendEnd, WriteFails, Sends, Transmit
<1>2. StatSize(n)' = StatSize(n)
  BY <1>1 DEF StatSize
<1>3. /\ IsSeq(net) /\ todo \in Seq(Nodes) /\ IsSeq(todo) /\ Len(todo) \in Nat
      /\ todo # << >> => /\ Head(todo) = todo[1] /\ Head(todo) \in Nodes
                         /\ Tail(todo) \in Seq(Nodes) /\ 1 \in 1 .. Len(todo)
  BY DEF SourceInv, IsSeq
<1>4. ASSUME NEW i \in 1 .. Len(net)
      PROVE  i \in 1 .. Len(net') /\ net'[i] = net[i]
  <2>1. CASE net' = net \o << >>
    <3>1. PICK T : net \in Seq(T)
      BY <1>3 DEF IsSeq
    <3> QED
      BY <2>1, <3>1
  <2>2. ASSUME NEW x, net' = net \o <<x>> PROVE i \in 1 .. Len(net') /\ net'[i] = net[i]
    BY <1>3, <2>2, SeqMore
  <2> QED
    BY <1>1, <2>1, <2>2
<1>5. CASE \/ rcv = "content" /\ file = n /\ dst[n] \in Nat /\ dst[n] + want = StatSize(n)
           \/ dst[n] = StatSize(n) /\ ~(rcv = "content" /\ file = n)
  BY <1>1, <1>2, <1>5 DEF Coming
<1>6. CASE \E i \in 1 .. Len(net) : net[i] = Item("file", n, StatSize(n))
  <2>1. PICK i \in 1 .. Len(net) : net[i] = Item("file", n, StatSize(n))
    BY <1>6
  <2>2. i \in 1 .. Len(net') /\ net'[i] = Item("file", n, StatSize(n)')
    BY <1>2, <1>4, <2>1
  <2> QED
    BY <2>2 DEF Coming
<1>7. ASSUME NEW i \in 1 .. Len(todo), n \in FilesOn(disk, todo[i]), snd = "send" => i # 1
      PROVE  Coming(n)'
  <2>1. todo # << >> /\ n \in FilesOn(disk', todo[i])
    BY <1>1, <1>7
  <2>2. CASE Announce \/ SendPiece \/ TellEnd \/ SendEnd
    <3>1. todo' = todo /\ (snd' = "send" => snd = "send")
      BY <2>2 DEF Announce, SendPiece, TellEnd, SendEnd, Sends, Then
    <3> QED
      BY <1>7, <2>1, <3>1 DEF Coming
  <2>3. CASE VisitGone \/ VisitLocked \/ VisitEmptyDir \/ EndFile
    <3>1. todo' = Tail(todo) /\ snd' # "send"
      BY <2>3 DEF VisitGone, VisitLocked, VisitEmptyDir, EndFile, Sends, Then
    <3>2. CASE i # 1
      <4>1. PICK k \in 1 .. Len(Tail(todo)) : Tail(todo)[k] = todo[i]
        BY <1>3, <2>1, <3>2, TailHas
      <4> QED
        BY <2>1, <3>1, <4>1 DEF Coming
    <3>3. CASE i = 1
      <4>1. CASE VisitGone \/ VisitLocked
        <5>1. disk[Head(todo)] \in {Gone, Locked}
          BY <4>1 DEF VisitGone, VisitLocked
        <5>2. disk[Head(todo)] # Folder /\ disk[Head(todo)] \notin Sizes
          BY <5>1, ConstantsAssumption DEF Sizes
        <5> QED
          BY <1>0, <1>7, <2>1, <3>3, <5>2, LeafIsItself
      <4>2. CASE VisitEmptyDir
        <5>1. Head(todo) \in Dirs
          BY <4>2 DEF VisitEmptyDir
        <5>2. CASE disk[Head(todo)] = Folder
          <6>1. Listed(Head(todo)) = {}
            BY <4>2, <5>2, ConstantsAssumption DEF VisitEmptyDir
          <6>2. n \in Files(Head(todo))
            BY <1>3, <1>7, <2>1, <3>3, FilesAre
          <6> QED
            BY <5>1, <5>2, <6>1, <6>2, FilesOfEntries
        <5>3. CASE disk[Head(todo)] # Folder
          BY <1>7, <2>1, <3>3, <5>1, <5>3, LeafIsItself
        <5> QED
          BY <5>2, <5>3
      <4>3. CASE EndFile
        BY <1>7, <3>3, <4>3 DEF EndFile
      <4> QED
        BY <2>3, <4>1, <4>2, <4>3
    <3> QED
      BY <3>2, <3>3
  <2>4. CASE VisitDir
    <3>1. PICK entries \in Orders(Listed(Head(todo))) : todo' = entries \o Tail(todo)
      BY <2>4 DEF VisitDir
    <3>2. Head(todo) \in Dirs /\ disk[Head(todo)] = Folder /\ snd' # "send"
      BY <2>4 DEF VisitDir, Sends, Then
    <3>3. entries \in Seq(Nodes) /\ ToSet(entries) = Listed(Head(todo))
      BY <3>2, OrdersValue
    <3>4. CASE i # 1
      <4>1. PICK k \in 1 .. Len(Tail(todo)) : Tail(todo)[k] = todo[i]
        BY <1>3, <2>1, <3>4, TailHas
      <4>2. Len(entries) + k \in 1 .. Len(todo') /\ todo'[Len(entries) + k] = todo[i]
        BY <1>3, <2>1, <3>1, <3>3, <4>1
      <4> QED
        BY <2>1, <3>2, <4>2 DEF Coming
    <3>5. CASE i = 1
      <4>1. n \in Files(Head(todo))
        BY <1>3, <1>7, <2>1, <3>5, FilesAre
      <4>2. PICK e \in Listed(Head(todo)) : n \in Files(e)
        BY <3>2, <4>1, FilesOfEntries
      <4>3. PICK k \in 1 .. Len(entries) : entries[k] = e
        BY <3>3, <4>2 DEF ToSet
      <4>4. k \in 1 .. Len(todo') /\ todo'[k] = e
        BY <1>3, <2>1, <3>1, <3>3, <4>3
      <4>5. n \in FilesOn(disk', e)
        BY <1>1, <4>2, FilesAre
      <4> QED
        BY <3>2, <4>4, <4>5 DEF Coming
    <3> QED
      BY <3>4, <3>5
  <2>5. CASE VisitFile
    <3>1. /\ todo' = todo /\ disk[Head(todo)] \in Sizes
          /\ net' = net \o <<Item("file", Head(todo), StatSize(Head(todo)))>>
      BY <2>5 DEF VisitFile, Sends, Transmit
    <3>2. CASE i # 1
      BY <1>7, <2>1, <3>1, <3>2 DEF Coming
    <3>3. CASE i = 1
      <4>1. disk[Head(todo)] # Folder
        BY <3>1, ConstantsAssumption DEF Sizes
      <4>2. n = Head(todo)
        BY <1>7, <2>1, <3>3, <4>1, LeafIsItself
      <4>3. /\ Len(net) + 1 \in 1 .. Len(net')
            /\ net'[Len(net) + 1] = Item("file", n, StatSize(n)')
        BY <1>2, <1>3, <3>1, <4>2, SeqMore
      <4> QED
        BY <4>3 DEF Coming
    <3> QED
      BY <3>2, <3>3
  <2>6. CASE ReadShort \/ WriteFails
    BY <2>6 DEF ReadShort, WriteFails
  <2> QED
    BY <2>2, <2>3, <2>4, <2>5, <2>6 DEF Sender
<1> QED
  BY <1>5, <1>6, <1>7 DEF Coming


\* The end of the list comes last.
LEMMA EndIsLast ==
    ASSUME SyncInv, SourceInv, rcv # "exited", net # << >>, Head(net).is = "end",
           snd # "exited"
    PROVE  Tail(net) = << >> /\ todo = << >> /\ snd = "done"
<1>1. /\ IsSeq(net) /\ Len(net) \in Nat \ {0} /\ Head(net) = net[1]
  BY SeqLess DEF SourceInv
<1>2. 1 \in 1 .. Len(net)
  BY <1>1
<1>3. todo = << >> /\ snd = "done"
  BY <1>1, <1>2 DEF SourceInv
<1>4. PICK c : Moves(ReceiverStage, Head(net), c) /\ Leads(Tail(net), c, SenderStage)
  BY LeadsOn DEF SyncInv
<1>5. c = Stage(-2, NoNode)
  BY <1>4 DEF Moves
<1>6. ASSUME Tail(net) # << >> PROVE FALSE
  <2>1. PICK b : Moves(c, Head(Tail(net)), b)
    BY <1>4, <1>6, LeadsOn
  <2>2. CASE Head(Tail(net)).is = "piece"
    <3>1. PICK k \in Nat : c = Stage(k + 1, Head(Tail(net)).node)
      BY <2>1, <2>2 DEF Moves
    <3>2. c.missing = k + 1 /\ c.missing = -2
      BY <1>5, <3>1 DEF Stage
    <3> QED
      BY <3>2
  <2>3. CASE Head(Tail(net)).is # "piece"
    <3>1. c \in {Stage(-1, NoNode), Between}
      BY <2>1, <2>3 DEF Moves
    <3>2. c.missing \in {-1, 0} /\ c.missing = -2
      BY <1>5, <3>1 DEF Stage, Between
    <3> QED
      BY <3>2
  <2> QED
    BY <2>2, <2>3
<1> QED
  BY <1>3, <1>6

\* Whatever leads to the end of the list is stored by then.
LEMMA EndComesLast ==
    ASSUME SyncInv, SourceInv, rcv = "header", net # << >>, Head(net).is = "end",
           snd # "exited", NEW n, Coming(n)
    PROVE  dst[n] = StatSize(n)
<1>1. IsSeq(net) /\ Head(net) = net[1]
  BY SeqLess DEF SourceInv
<1>2. todo = << >> /\ Len(todo) = 0 /\ Tail(net) = << >>
  BY EndIsLast
<1>3. ASSUME NEW i \in 1 .. Len(net) PROVE net[i] # Item("file", n, StatSize(n))
  <2>1. PICK T : net \in Seq(T)
    BY <1>1 DEF IsSeq
  <2>2. DOMAIN Tail(net) = 1 .. Len(net) - 1 /\ Len(net) \in Nat
    BY <2>1
  <2>3. DOMAIN Tail(net) = {}
    <3>1. DOMAIN << >> = {}
      OBVIOUS
    <3> QED
      BY <1>2, <3>1, Zenon
  <2>4. 1 \notin 1 .. Len(net) - 1
    BY <2>2, <2>3
  <2>5. i = 1
    BY <2>2, <2>4
  <2> QED
    BY <1>1, <2>5 DEF Item
<1> QED
  BY <1>2, <1>3 DEF Coming

\* The receiver loses no file.
LEMMA ReceiverMirror ==
    ASSUME SyncInv, SourceInv, Destinations, Receiver, mode = "download", rcv' # "exited",
           NEW n \in WantedOn(disk, list), Coming(n), snd # "exited"
    PROVE  /\ Coming(n)'
           /\ rcv' = "done" => dst'[n] = StatSize(n)
<1>0. n \in Nodes /\ StatSize(n) \in Nat /\ disk[n] \in Sizes /\ StatSize(n) # Absent
  BY WantedSize
<1>1. UNCHANGED <<disk, todo, snd>>
  BY DEF Receiver, ReadTotals, OpenFile, StoreFails, StorePiece, CloseFile, MakeDir, EndOfItems,
         ReadFails, SessionOver, Receives, sourceVars, senderVars
<1>2. StatSize(n)' = StatSize(n)
  BY <1>1 DEF StatSize
<1>3. IsSeq(net) /\ (net # << >> => Head(net) = net[1])
  BY SeqLess DEF SourceInv
<1>4. ASSUME NEW i \in 1 .. Len(todo), n \in FilesOn(disk, todo[i]), snd = "send" => i # 1
      PROVE  Coming(n)'
  BY <1>1, <1>4 DEF Coming
<1>5. ASSUME net # << >>, net' = Tail(net), NEW i \in 1 .. Len(net), i # 1,
             net[i] = Item("file", n, StatSize(n))
      PROVE  Coming(n)'
  <2>1. PICK k \in 1 .. Len(net') : net'[k] = Item("file", n, StatSize(n)')
    BY <1>2, <1>3, <1>5, TailHas
  <2> QED
    BY <2>1 DEF Coming
<1>6. CASE ReadTotals
  <2>1. /\ net # << >> /\ Head(net).is = "totals" /\ net' = Tail(net) /\ dst' = dst
        /\ rcv = "totals" /\ rcv' = "header"
    BY <1>6 DEF ReadTotals, Arrives, Receives, Then
  <2>2. CASE dst[n] = StatSize(n) /\ ~(rcv = "content" /\ file = n)
    BY <1>2, <2>1, <2>2 DEF Coming
  <2>3. ASSUME NEW i \in 1 .. Len(net), net[i] = Item("file", n, StatSize(n))
        PROVE  Coming(n)'
    <3>1. i # 1
      BY <1>3, <2>1, <2>3 DEF Item
    <3> QED
      BY <1>5, <2>1, <2>3, <3>1
  <2> QED
    BY <1>4, <2>1, <2>2, <2>3 DEF Coming
<1>7. CASE OpenFile
  <2>1. /\ net # << >> /\ Head(net).is = "file" /\ net' = Tail(net)
        /\ rcv = "header" /\ rcv' = "content"
        /\ dst[Head(net).node] = Absent /\ dst' = [dst EXCEPT ![Head(net).node] = 0]
        /\ file' = Head(net).node /\ want' = Head(net).count
    BY <1>7 DEF OpenFile, Arrives, Creates, Receives, Then
  <2>2. CASE dst[n] = StatSize(n)
    <3>1. Head(net).node # n
      BY <1>0, <2>1, <2>2
    <3>2. dst'[n] = dst[n]
      BY <1>0, <2>1, <3>1 DEF Destinations
    <3> QED
      BY <1>2, <2>1, <2>2, <3>1, <3>2 DEF Coming
  <2>3. ASSUME NEW i \in 1 .. Len(net), net[i] = Item("file", n, StatSize(n))
        PROVE  Coming(n)'
    <3>1. CASE i = 1
      <4>1. Head(net).node = n /\ Head(net).count = StatSize(n)
        BY <1>3, <2>1, <2>3, <3>1 DEF Item
      <4>2. dst'[n] = 0
        BY <1>0, <2>1, <4>1 DEF Destinations
      <4>3. 0 + StatSize(n) = StatSize(n)
        BY <1>0
      <4> QED
        BY <1>2, <2>1, <4>1, <4>2, <4>3 DEF Coming
    <3>2. CASE i # 1
      BY <1>5, <2>1, <2>3, <3>2
    <3> QED
      BY <3>1, <3>2
  <2> QED
    BY <1>4, <2>1, <2>2, <2>3 DEF Coming
<1>8. CASE StorePiece
  <2>1. /\ net # << >> /\ Head(net).is = "piece" /\ net' = Tail(net)
        /\ rcv = "content" /\ rcv' = "content" /\ want > 0
        /\ dst' = [dst EXCEPT ![file] = @ + 1] /\ want' = want - 1 /\ file' = file
    BY <1>8 DEF StorePiece, Arrives, Receives, Then
  <2>2. CASE file = n /\ dst[n] \in Nat /\ dst[n] + want = StatSize(n)
    <3>1. dst'[n] = dst[n] + 1
      BY <1>0, <2>1, <2>2 DEF Destinations
    <3>2. dst'[n] \in Nat /\ dst'[n] + want' = StatSize(n)
      BY <2>1, <2>2, <3>1 DEF SyncInv
    <3> QED
      BY <1>2, <2>1, <2>2, <3>2 DEF Coming
  <2>3. CASE dst[n] = StatSize(n) /\ file # n
    <3>1. dst'[n] = dst[n]
      BY <1>0, <2>1, <2>3 DEF Destinations
    <3> QED
      BY <1>2, <2>1, <2>3, <3>1 DEF Coming
  <2>4. ASSUME NEW i \in 1 .. Len(net), net[i] = Item("file", n, StatSize(n))
        PROVE  Coming(n)'
    <3>1. i # 1
      BY <1>3, <2>1, <2>4 DEF Item
    <3> QED
      BY <1>5, <2>1, <2>4, <3>1
  <2> QED
    BY <1>4, <2>1, <2>2, <2>3, <2>4 DEF Coming
<1>9. CASE CloseFile
  <2>1. /\ rcv = "content" /\ want = 0 /\ rcv' = "header" /\ net' = net /\ dst' = dst
    BY <1>9 DEF CloseFile, Then
  <2>2. CASE dst[n] \in Nat /\ dst[n] + want = StatSize(n)
    <3>1. dst[n] = StatSize(n)
      BY <2>1, <2>2
    <3> QED
      BY <1>2, <2>1, <3>1 DEF Coming
  <2>3. CASE dst[n] = StatSize(n)
    BY <1>2, <2>1, <2>3 DEF Coming
  <2>4. ASSUME NEW i \in 1 .. Len(net), net[i] = Item("file", n, StatSize(n))
        PROVE  Coming(n)'
    BY <1>2, <2>1, <2>4 DEF Coming
  <2> QED
    BY <1>4, <2>1, <2>2, <2>3, <2>4 DEF Coming
<1>10. CASE MakeDir
  <2>1. /\ net # << >> /\ Head(net).is = "dir" /\ net' = Tail(net)
        /\ rcv = "header" /\ rcv' = "header"
        /\ \/ dst' = [dst EXCEPT ![Head(net).node] = IF @ = Absent THEN Folder ELSE @]
           \/ dst' = dst
    BY <1>10 DEF MakeDir, Arrives, Receives, Then
  <2>2. CASE dst[n] = StatSize(n)
    <3>1. dst'[n] = dst[n]
      BY <1>0, <2>1, <2>2 DEF Destinations
    <3> QED
      BY <1>2, <2>1, <2>2, <3>1 DEF Coming
  <2>3. ASSUME NEW i \in 1 .. Len(net), net[i] = Item("file", n, StatSize(n))
        PROVE  Coming(n)'
    <3>1. i # 1
      BY <1>3, <2>1, <2>3 DEF Item
    <3> QED
      BY <1>5, <2>1, <2>3, <3>1
  <2> QED
    BY <1>4, <2>1, <2>2, <2>3 DEF Coming
<1>11. CASE EndOfItems
  <2>1. /\ rcv = "header" /\ net # << >> /\ Head(net).is = "end" /\ dst' = dst
        /\ rcv' = "done"
    BY <1>11 DEF EndOfItems, Arrives, Receives, Then
  <2>2. dst'[n] = StatSize(n)
    BY <2>1, EndComesLast
  <2> QED
    BY <1>2, <2>1, <2>2 DEF Coming
<1>12. CASE StoreFails \/ ReadFails
  BY <1>12 DEF StoreFails, ReadFails
<1> QED
  BY <1>6, <1>7, <1>8, <1>9, <1>10, <1>11, <1>12 DEF Receiver

LEMMA NextMirror ==
    ASSUME SyncInv, SourceInv, Destinations, MirrorInv, [Next]_vars
    PROVE  MirrorInv'
<1> SUFFICES ASSUME mode' = "download", changes' = 0
             PROVE  /\ snd' # "exited" /\ rcv' # "exited" =>
                          \A n \in WantedOn(disk', list') : Coming(n)'
                    /\ rcv' = "done" =>
                          \A n \in WantedOn(disk', list') : dst'[n] = StatSize(n)'
  BY DEF MirrorInv
<1>1. CASE Sender
  <2>1. /\ UNCHANGED <<mode, list, disk, changes, rcv, dst>> /\ snd # "exited"
    BY <1>1 DEF Sender, Announce, VisitGone, VisitDir, VisitEmptyDir, VisitFile, VisitLocked,
                SendPiece, ReadShort, EndFile, TellEnd, SendEnd, WriteFails, Sends
  <2>2. ASSUME snd' # "exited", rcv' # "exited", NEW n \in WantedOn(disk', list')
        PROVE  Coming(n)'
    <3>1. n \in WantedOn(disk, list) /\ Coming(n)
      BY <2>1, <2>2 DEF MirrorInv
    <3> QED
      BY <1>1, <2>1, <2>2, <3>1, SenderMirror
  <2>3. ASSUME rcv' = "done", NEW n \in WantedOn(disk', list')
        PROVE  dst'[n] = StatSize(n)'
    BY <2>1, <2>3 DEF MirrorInv, StatSize
  <2> QED
    BY <2>2, <2>3
<1>2. CASE Receiver
  <2>1. UNCHANGED <<mode, list, disk, changes, snd>> /\ rcv \notin {"done", "exited"}
    BY <1>2 DEF Receiver, ReadTotals, OpenFile, StoreFails, StorePiece, CloseFile, MakeDir,
                EndOfItems, ReadFails, SessionOver, Receives, sourceVars, senderVars
  <2>2. ASSUME snd # "exited", rcv' # "exited", NEW n \in WantedOn(disk', list')
        PROVE  Coming(n)' /\ (rcv' = "done" => dst'[n] = StatSize(n)')
    <3>1. n \in WantedOn(disk, list) /\ Coming(n)
      BY <2>1, <2>2 DEF MirrorInv
    <3>2. Coming(n)' /\ (rcv' = "done" => dst'[n] = StatSize(n))
      BY <1>2, <2>1, <2>2, <3>1, ReceiverMirror
    <3>3. StatSize(n)' = StatSize(n)
      BY <2>1 DEF StatSize
    <3> QED
      BY <3>2, <3>3
  <2>3. ASSUME rcv' = "done" PROVE snd # "exited"
    <3>1. net # << >> /\ Head(net).is = "end"
      BY <1>2, <2>3 DEF Receiver, ReadTotals, OpenFile, StoreFails, StorePiece, CloseFile,
         MakeDir, EndOfItems, ReadFails, SessionOver, Receives, Then, Arrives
    <3>2. 1 \in 1 .. Len(net) /\ Head(net) = net[1]
      BY <3>1, SeqLess DEF SourceInv
    <3> QED
      BY <3>1, <3>2 DEF SourceInv
  <2> QED
    BY <2>1, <2>2, <2>3
<1>3. CASE Disturb
  BY <1>3 DEF Disturb, SourceInv
<1>4. CASE MissesEnd \/ SenderLost \/ ReceiverLost
  <2>1. /\ UNCHANGED <<mode, list, disk, changes, dst>> /\ (rcv' = "done" => rcv = "done")
        /\ snd' = "exited" \/ rcv' = "exited"
    BY <1>4 DEF MissesEnd, SessionOver, SenderLost, ReceiverLost, sourceVars, senderVars,
                receiverVars
  <2>2. ASSUME rcv' = "done", NEW n \in WantedOn(disk', list')
        PROVE  dst'[n] = StatSize(n)'
    BY <2>1, <2>2 DEF MirrorInv, StatSize
  <2> QED
    BY <2>1, <2>2
<1>5. CASE JavaLeaves \/ UNCHANGED vars
  <2>1. UNCHANGED <<mode, list, disk, changes, snd, todo, net, rcv, file, want, dst>>
    BY <1>5 DEF JavaLeaves, vars, sourceVars, senderVars, receiverVars
  <2>2. ASSUME NEW n \in WantedOn(disk', list')
        PROVE  StatSize(n)' = StatSize(n) /\ (Coming(n) => Coming(n)')
    <3>1. StatSize(n)' = StatSize(n)
      BY <2>1 DEF StatSize
    <3> QED
      BY <2>1, <3>1 DEF Coming
  <2> QED
    BY <2>1, <2>2 DEF MirrorInv
<1> QED
  BY <1>1, <1>2, <1>3, <1>4, <1>5 DEF Next

\* A download from a source that nobody changed ends with every readable file of
\* the selection stored, whatever the tree, whatever the order the iterator
\* finds it in, and whatever the selection names twice.
THEOREM EndMeansAllStored == Spec => []EndMeansMirror
<1> DEFINE I == SyncInv /\ SourceInv /\ Destinations /\ MarkInv /\ MirrorInv
<1>1. Init => I
  <2>1. Init => Destinations
    BY DEF Init, Destinations
  <2> QED
    BY <2>1, InitSync, InitSource, InitMarks, InitMirror
<1>2. I /\ [Next]_vars => I'
  BY NextSync, NextSource, OverwritesNothing, NextMarks, NextMirror
<1>3. I => EndMeansMirror
  <2> SUFFICES ASSUME I, mode = "download", Told("end") # {}, changes = 0,
                      NEW n \in Selected, disk[n] \in Sizes
               PROVE  dst[n] = StatSize(n)
    BY DEF EndMeansMirror
  <2>1. rcv = "done"
    BY DEF MarkInv, Told, ToldIn
  <2>2. PICK j \in DOMAIN list : n \in Files(list[j])
    BY DEF Selected
  <2>3. n \in FilesOn(disk, list[j]) /\ n \in Nodes
    BY <2>2, FilesAre DEF Files, Below
  <2>4. n \in WantedOn(disk, list)
    BY <2>3 DEF WantedOn
  <2> QED
    BY <2>1, <2>4 DEF MirrorInv
<1> HIDE DEF I
<1> QED
  BY <1>1, <1>2, <1>3, PTL DEF Spec

-----------------------------------------------------------------------------
(***************************************************************************)
(* What is counted before a transfer, and what is told of it: every file   *)
(* counts once for each place in the list it is below.  The count of a     *)
(* list is the sum of the counts of its items, and the count of a          *)
(* directory the sum of the counts of its entries, because the source is a *)
(* tree.                                                                   *)
(***************************************************************************)

\* The pairs of a position of s and a member of the set F gives its item, and
\* their number.
Places(F, s) == UNION {{<<i, m>> : m \in F[s[i]]} : i \in DOMAIN s}
Tally(F, s) == Cardinality(Places(F, s))

LEMMA PlaceIs ==
    ASSUME NEW F, NEW s, NEW p
    PROVE  p \in Places(F, s) <=> \E i \in DOMAIN s : \E m \in F[s[i]] : p = <<i, m>>
BY DEF Places

LEMMA PlacesFinite ==
    ASSUME NEW F \in [Nodes -> SUBSET Nodes], NEW s \in Seq(Nodes)
    PROVE  IsFiniteSet(Places(F, s)) /\ Tally(F, s) \in Nat
<1>1. Places(F, s) \subseteq (1 .. Len(s)) \X Nodes
  <2> SUFFICES ASSUME NEW p \in Places(F, s) PROVE p \in (1 .. Len(s)) \X Nodes
    OBVIOUS
  <2>1. PICK i \in DOMAIN s : \E m \in F[s[i]] : p = <<i, m>>
    BY PlaceIs
  <2>2. i \in 1 .. Len(s) /\ s[i] \in Nodes
    OBVIOUS
  <2> QED
    BY <2>1, <2>2
<1>2. IsFiniteSet((1 .. Len(s)) \X Nodes)
  <2>1. Len(s) \in Int /\ 1 \in Int
    OBVIOUS
  <2>2. IsFiniteSet(1 .. Len(s))
    BY <2>1, FS_Interval
  <2>3. IsFiniteSet(Nodes)
    BY TreeAssumption
  <2> QED
    BY <2>2, <2>3, FS_Product
<1>3. IsFiniteSet(Places(F, s))
  BY <1>1, <1>2, FS_Subset
<1> QED
  BY <1>3, FS_CardinalityType DEF Tally

LEMMA TallyNone == ASSUME NEW F PROVE Tally(F, << >>) = 0
<1>1. Places(F, << >>) = {}
  BY DEF Places
<1> QED
  BY <1>1, FS_EmptySet DEF Tally

\* A one-to-one image has as many members.
LEMMA SameNumber ==
    ASSUME NEW S, NEW T, IsFiniteSet(S), NEW f \in [S -> T],
           \A a, b \in S : f[a] = f[b] => a = b,
           \A t \in T : \E a \in S : f[a] = t
    PROVE  IsFiniteSet(T) /\ Cardinality(T) = Cardinality(S)
<1>1. f \in Surjection(S, T) /\ f \in Injection(S, T)
  BY DEF Surjection, Injection, IsInjective
<1> QED
  BY <1>1, FS_Surjection, FS_CardinalityType

LEMMA TallyOne ==
    ASSUME NEW F \in [Nodes -> SUBSET Nodes], NEW n \in Nodes
    PROVE  Tally(F, <<n>>) = Cardinality(F[n])
<1> DEFINE f == [m \in F[n] |-> <<1, m>>]
           T == Places(F, <<n>>)
<1>0. DOMAIN <<n>> = {1} /\ <<n>>[1] = n
  OBVIOUS
<1>1. IsFiniteSet(F[n])
  BY TreeAssumption, FS_Subset
<1>2. \A p : p \in T <=> \E m \in F[n] : p = <<1, m>>
  BY <1>0, PlaceIs
<1>3. f \in [F[n] -> T]
  BY <1>2
<1>4. \A a, b \in F[n] : f[a] = f[b] => a = b
  OBVIOUS
<1>5. \A t \in T : \E a \in F[n] : f[a] = t
  BY <1>2
<1> HIDE DEF f, T
<1>6. Cardinality(T) = Cardinality(F[n])
  BY <1>1, <1>3, <1>4, <1>5, SameNumber
<1> QED
  BY <1>6 DEF T, Tally

LEMMA TallyJoin ==
    ASSUME NEW F \in [Nodes -> SUBSET Nodes], NEW s \in Seq(Nodes), NEW t \in Seq(Nodes)
    PROVE  Tally(F, s \o t) = Tally(F, s) + Tally(F, t)
<1> DEFINE A == Places(F, s)
           B == Places(F, t)
           k == Len(s)
           u == s \o t
           C == Places(F, u)
           f == [p \in B |-> <<k + p[1], p[2]>>]
           D == {f[p] : p \in B}
<1>1. /\ k \in Nat /\ Len(t) \in Nat
      /\ DOMAIN s = 1 .. k /\ DOMAIN t = 1 .. Len(t) /\ DOMAIN u = 1 .. k + Len(t)
      /\ \A i \in 1 .. k : u[i] = s[i]
      /\ \A i \in 1 .. Len(t) : u[k + i] = t[i]
  OBVIOUS
<1> HIDE DEF k, u
<1>2. \A p : /\ p \in A <=> \E i \in 1 .. k : \E m \in F[s[i]] : p = <<i, m>>
             /\ p \in B <=> \E i \in 1 .. Len(t) : \E m \in F[t[i]] : p = <<i, m>>
             /\ p \in C <=> \E i \in 1 .. k + Len(t) : \E m \in F[u[i]] : p = <<i, m>>
  <2> TAKE p
  <2>1. p \in A <=> \E i \in 1 .. k : \E m \in F[s[i]] : p = <<i, m>>
    <3>1. p \in A <=> \E i \in DOMAIN s : \E m \in F[s[i]] : p = <<i, m>>
      BY PlaceIs
    <3> HIDE DEF A
    <3> QED
      BY <1>1, <3>1
  <2>2. p \in B <=> \E i \in 1 .. Len(t) : \E m \in F[t[i]] : p = <<i, m>>
    <3>1. p \in B <=> \E i \in DOMAIN t : \E m \in F[t[i]] : p = <<i, m>>
      BY PlaceIs
    <3> HIDE DEF B
    <3> QED
      BY <1>1, <3>1
  <2>3. p \in C <=> \E i \in 1 .. k + Len(t) : \E m \in F[u[i]] : p = <<i, m>>
    <3>1. p \in C <=> \E i \in DOMAIN u : \E m \in F[u[i]] : p = <<i, m>>
      BY PlaceIs
    <3> HIDE DEF C
    <3> QED
      BY <1>1, <3>1
  <2> QED
    BY <2>1, <2>2, <2>3
<1>3. \A p : p \in D <=> \E i \in 1 .. Len(t) : \E m \in F[t[i]] : p = <<k + i, m>>
  <2> TAKE p
  <2>1. p \in D <=> \E b \in B : p = <<k + b[1], b[2]>>
    OBVIOUS
  <2> HIDE DEF A, B, C, D
  <2>2. ASSUME NEW b \in B, p = <<k + b[1], b[2]>>
        PROVE  \E i \in 1 .. Len(t) : \E m \in F[t[i]] : p = <<k + i, m>>
    <3>1. PICK i \in 1 .. Len(t) : \E m \in F[t[i]] : b = <<i, m>>
      BY <1>2
    <3>2. PICK m \in F[t[i]] : b = <<i, m>>
      BY <3>1
    <3> QED
      BY <2>2, <3>2
  <2>3. ASSUME NEW i \in 1 .. Len(t), NEW m \in F[t[i]], p = <<k + i, m>>
        PROVE  p \in D
    <3>1. <<i, m>> \in B
      BY <1>2
    <3> QED
      BY <2>1, <2>3, <3>1
  <2> QED
    BY <2>1, <2>2, <2>3
<1> HIDE DEF A, B, C
<1>4. C = A \cup D
  <2> HIDE DEF D
  <2>1. ASSUME NEW p \in C PROVE p \in A \cup D
    <3>1. PICK i \in 1 .. k + Len(t) : \E m \in F[u[i]] : p = <<i, m>>
      BY <1>2
    <3>2. CASE i \in 1 .. k
      <4>1. u[i] = s[i]
        BY <1>1, <3>2 DEF u
      <4> QED
        BY <1>2, <3>1, <3>2, <4>1
    <3>3. CASE i \notin 1 .. k
      <4>1. i - k \in 1 .. Len(t) /\ k + (i - k) = i
        BY <1>1, <3>3
      <4>2. u[i] = t[i - k]
        BY <1>1, <4>1 DEF u
      <4> QED
        BY <1>3, <3>1, <4>1, <4>2
    <3> QED
      BY <3>2, <3>3
  <2>2. ASSUME NEW p \in A PROVE p \in C
    <3>1. PICK i \in 1 .. k : \E m \in F[s[i]] : p = <<i, m>>
      BY <1>2
    <3>2. i \in 1 .. k + Len(t) /\ u[i] = s[i]
      BY <1>1 DEF u
    <3> QED
      BY <1>2, <3>1, <3>2
  <2>3. ASSUME NEW p \in D PROVE p \in C
    <3>1. PICK i \in 1 .. Len(t) : \E m \in F[t[i]] : p = <<k + i, m>>
      BY <1>3
    <3>2. k + i \in 1 .. k + Len(t) /\ u[k + i] = t[i]
      BY <1>1 DEF u
    <3> QED
      BY <1>2, <3>1, <3>2
  <2> QED
    BY <2>1, <2>2, <2>3
<1>5. A \cap D = {}
  <2> HIDE DEF D
  <2> SUFFICES ASSUME NEW p \in A, p \in D PROVE FALSE
    OBVIOUS
  <2>1. PICK i \in 1 .. k : \E m : p = <<i, m>>
    BY <1>2
  <2>2. PICK j \in 1 .. Len(t) : \E n : p = <<k + j, n>>
    BY <1>3
  <2>3. i = k + j
    BY <2>1, <2>2
  <2> QED
    BY <1>1, <2>3
<1>6. /\ IsFiniteSet(A) /\ Cardinality(A) \in Nat
      /\ IsFiniteSet(B) /\ Cardinality(B) \in Nat
  BY PlacesFinite DEF A, B, Tally
<1>7. IsFiniteSet(D) /\ Cardinality(D) = Cardinality(B)
  <2>1. f \in [B -> D] /\ \A t2 \in D : \E a \in B : f[a] = t2
    OBVIOUS
  <2>2. ASSUME NEW a \in B, NEW b \in B, f[a] = f[b] PROVE a = b
    <3>1. PICK i \in 1 .. Len(t) : \E m : a = <<i, m>>
      BY <1>2
    <3>2. PICK j \in 1 .. Len(t) : \E n : b = <<j, n>>
      BY <1>2
    <3> PICK m : a = <<i, m>>
      BY <3>1
    <3> PICK n : b = <<j, n>>
      BY <3>2
    <3>3. f[a] = <<k + i, m>> /\ f[b] = <<k + j, n>>
      BY <3>1, <3>2
    <3>4. k + i = k + j /\ m = n
      BY <2>2, <3>3
    <3>5. i = j
      BY <1>1, <3>4
    <3> QED
      BY <3>1, <3>2, <3>4, <3>5
  <2> HIDE DEF f, D
  <2> QED
    BY <1>6, <2>1, <2>2, SameNumber
<1> HIDE DEF D
<1>8. Cardinality(A \cup D) = Cardinality(A) + Cardinality(D) - Cardinality(A \cap D)
  BY <1>6, <1>7, FS_Union
<1>9. Cardinality(C) = Cardinality(A) + Cardinality(B)
  <2>1. Cardinality(A \cap D) = 0
    BY <1>5, FS_EmptySet
  <2> QED
    BY <1>4, <1>6, <1>7, <1>8, <2>1
<1> QED
  BY <1>9 DEF A, B, C, Tally, u

\* Of a list, the first item and the others.
LEMMA TallyFirst ==
    ASSUME NEW F \in [Nodes -> SUBSET Nodes], NEW s \in Seq(Nodes), s # << >>
    PROVE  /\ Head(s) \in Nodes /\ Tail(s) \in Seq(Nodes)
           /\ Tally(F, s) = Cardinality(F[Head(s)]) + Tally(F, Tail(s))
           /\ Cardinality(F[Head(s)]) \in Nat /\ Tally(F, Tail(s)) \in Nat
<1>1. Head(s) \in Nodes /\ Tail(s) \in Seq(Nodes) /\ <<Head(s)>> \in Seq(Nodes)
      /\ <<Head(s)>> \o Tail(s) = s
  OBVIOUS
<1>2. Tally(F, s) = Tally(F, <<Head(s)>>) + Tally(F, Tail(s))
  BY <1>1, TallyJoin
<1>3. IsFiniteSet(F[Head(s)])
  BY <1>1, TreeAssumption, FS_Subset
<1> QED
  BY <1>1, <1>2, <1>3, TallyOne, PlacesFinite, FS_CardinalityType

\* Of a list that names the members of a set once each, with disjoint values.
LEMMA TallyDisjoint ==
    ASSUME NEW F \in [Nodes -> SUBSET Nodes], NEW set \in SUBSET Nodes,
           NEW s \in Seq(Nodes), Len(s) = Cardinality(set), ToSet(s) = set,
           \A a, b \in set : a # b => F[a] \cap F[b] = {},
           NEW whole, whole = UNION {F[a] : a \in set}
    PROVE  Tally(F, s) = Cardinality(whole)
<1> DEFINE P == Places(F, s)
           f == [p \in P |-> p[2]]
<1>1. DOMAIN s = 1 .. Len(s) /\ Len(s) \in Nat /\ \A i \in 1 .. Len(s) : s[i] \in set
  BY DEF ToSet
<1>2. \A i, j \in 1 .. Len(s) : s[i] = s[j] => i = j
  <2>1. s \in [1 .. Len(s) -> set] /\ \A a \in set : \E i \in 1 .. Len(s) : s[i] = a
    BY <1>1 DEF ToSet
  <2>2. s \in Surjection(1 .. Len(s), set)
    BY <2>1 DEF Surjection
  <2>3. IsFiniteSet(1 .. Len(s)) /\ Cardinality(1 .. Len(s)) = Len(s)
    <3>1. 1 \in Int /\ Len(s) \in Int
      BY <1>1
    <3>2. Cardinality(1 .. Len(s)) = IF 1 > Len(s) THEN 0 ELSE Len(s) - 1 + 1
      BY <3>1, FS_Interval
    <3> QED
      BY <1>1, <3>1, <3>2, FS_Interval
  <2>4. s \in Injection(1 .. Len(s), set)
    BY <2>2, <2>3, FS_Surjection
  <2> QED
    BY <2>4 DEF Injection, IsInjective
<1>3. \A p : p \in P <=> \E i \in 1 .. Len(s) : \E m \in F[s[i]] : p = <<i, m>>
  BY <1>1, PlaceIs
<1> HIDE DEF P
<1>4. f \in [P -> whole]
  <2> SUFFICES ASSUME NEW p \in P PROVE p[2] \in whole
    OBVIOUS
  <2>1. PICK i \in 1 .. Len(s) : \E m \in F[s[i]] : p = <<i, m>>
    BY <1>3
  <2> QED
    BY <1>1, <2>1
<1>5. ASSUME NEW a \in P, NEW b \in P, f[a] = f[b] PROVE a = b
  <2>1. PICK i \in 1 .. Len(s) : \E m \in F[s[i]] : a = <<i, m>>
    BY <1>3
  <2>2. PICK m \in F[s[i]] : a = <<i, m>>
    BY <2>1
  <2>3. PICK j \in 1 .. Len(s) : \E n \in F[s[j]] : b = <<j, n>>
    BY <1>3
  <2>4. PICK n \in F[s[j]] : b = <<j, n>>
    BY <2>3
  <2>5. m = n
    BY <1>5, <2>2, <2>4
  <2>6. s[i] = s[j]
    BY <1>1, <2>2, <2>4, <2>5
  <2> QED
    BY <1>2, <2>2, <2>4, <2>5, <2>6
<1>6. ASSUME NEW t \in whole PROVE \E a \in P : f[a] = t
  <2>1. PICK e \in set : t \in F[e]
    OBVIOUS
  <2>2. PICK i \in 1 .. Len(s) : s[i] = e
    BY <1>1 DEF ToSet
  <2>3. <<i, t>> \in P
    BY <1>3, <2>1, <2>2
  <2>4. f[<<i, t>>] = t
    BY <2>3
  <2> QED
    BY <2>3, <2>4
<1>7. IsFiniteSet(P)
  BY PlacesFinite DEF P
<1> HIDE DEF f
<1>8. Cardinality(whole) = Cardinality(P)
  <2>1. \A a, b \in P : f[a] = f[b] => a = b
    BY <1>5
  <2>2. \A t \in whole : \E a \in P : f[a] = t
    BY <1>6
  <2> HIDE DEF f
  <2>3. f \in Surjection(P, whole) /\ f \in Injection(P, whole)
    BY <1>4, <2>1, <2>2 DEF Surjection, Injection, IsInjective
  <2> QED
    BY <1>7, <2>3, FS_Surjection
<1> QED
  BY <1>8 DEF P, Tally

\* Two entries of one directory share nothing that is below them.
LEMMA SiblingsApart ==
    ASSUME NEW d \in Dirs, NEW j \in Kids[d], NEW k \in Kids[d], j # k
    PROVE  Below(j) \cap Below(k) = {}
<1>1. PICK depth \in [Nodes -> 0 .. Cardinality(Nodes)] :
          \A e \in Dirs : \A x \in Kids[e] : depth[x] > depth[e]
  BY TreeAssumption
<1>2. /\ d \in Nodes /\ j \in Nodes /\ k \in Nodes
      /\ \A e \in Dirs : e \in Nodes /\ Kids[e] \subseteq Nodes
      /\ \A x \in Nodes : depth[x] \in Int
  <2>1. IsFiniteSet(Nodes) /\ Cardinality(Nodes) \in Nat
    BY TreeAssumption, FS_CardinalityType
  <2>2. /\ d \in Nodes /\ j \in Nodes /\ k \in Nodes
        /\ \A e \in Dirs : e \in Nodes /\ Kids[e] \subseteq Nodes
    BY ConstantsAssumption
  <2>3. \A x \in Nodes : depth[x] \in Int
    BY <1>1, <2>1
  <2> QED
    BY <2>2, <2>3
<1>3. \A e \in Nodes : \A x \in Entered(e) : e \in Dirs /\ x \in Kids[e]
  BY DEF Entered
\* What is below a node is at least as deep.
<1>4. ASSUME NEW n \in Nodes, NEW x \in Below(n) PROVE depth[x] >= depth[n]
  <2> DEFINE S == {y \in Nodes : depth[y] >= depth[n]}
  <2>1. ASSUME NEW e \in S, NEW y \in Entered(e) PROVE y \in S
    <3>1. e \in Dirs /\ y \in Kids[e]
      BY <1>3, <2>1
    <3>2. depth[y] > depth[e] /\ y \in Nodes
      BY <1>1, <1>2, <3>1
    <3> QED
      BY <1>2, <1>4, <2>1, <3>2
  <2>2. S \in SUBSET Nodes /\ n \in S /\ \A e \in S : Entered(e) \subseteq S
    BY <1>2, <1>4, <2>1
  <2> HIDE DEF S
  <2>3. x \in S
    BY <1>4, <2>2 DEF Below
  <2> QED
    BY <2>3 DEF S
<1>5. d \notin Below(j) /\ d \notin Below(k)
  <2>1. depth[j] > depth[d] /\ depth[k] > depth[d]
    BY <1>1
  <2> QED
    BY <1>2, <1>4, <2>1
\* What is entered from an entry of d and is below it has its directory below it.
<1>6. ASSUME NEW n \in Nodes, NEW x \in Below(n), x # n, NEW e \in Nodes, x \in Entered(e)
      PROVE  e \in Below(n)
  <2> SUFFICES ASSUME e \notin Below(n) PROVE FALSE
    OBVIOUS
  <2> DEFINE S == Below(n) \ {x}
  <2>1. ASSUME NEW f \in S, NEW y \in Entered(f) PROVE y \in S
    <3>1. f \in Nodes /\ f \in Below(n)
      BY <2>1 DEF Below
    <3>2. f \in Dirs /\ y \in Kids[f]
      BY <1>3, <2>1, <3>1
    <3>3. y \in Below(n)
      BY <1>2, <2>1, <3>1, <3>2 DEF Below
    <3>4. ASSUME y = x PROVE FALSE
      <4>1. e \in Dirs /\ x \in Kids[e]
        BY <1>3, <1>6
      <4>2. e = f
        BY <3>2, <3>4, <4>1, TreeAssumption
      <4> QED
        BY <3>1, <4>2
    <3> QED
      BY <3>3, <3>4
  <2>2. n \in Below(n)
    BY <1>6 DEF Below
  <2>3. S \in SUBSET Nodes /\ n \in S /\ \A f \in S : Entered(f) \subseteq S
    <3>1. Below(n) \subseteq Nodes
      BY DEF Below
    <3> QED
      BY <1>6, <2>1, <2>2, <3>1
  <2>4. x \in S
    <3> HIDE DEF S
    <3> QED
      BY <1>6, <2>3 DEF Below
  <2> QED
    BY <2>4
<1>7. k \notin Below(j)
  <2> SUFFICES ASSUME k \in Below(j) PROVE FALSE
    OBVIOUS
  <2> DEFINE S == Below(j) \ {k}
  <2>1. ASSUME NEW f \in S, NEW y \in Entered(f) PROVE y \in S
    <3>1. f \in Nodes /\ f \in Below(j)
      BY <2>1 DEF Below
    <3>2. f \in Dirs /\ y \in Kids[f]
      BY <1>3, <2>1, <3>1
    <3>3. y \in Below(j)
      BY <1>2, <2>1, <3>1, <3>2 DEF Below
    <3>4. ASSUME y = k PROVE FALSE
      <4>1. d = f
        BY <3>2, <3>4, TreeAssumption
      <4> QED
        BY <1>5, <3>1, <4>1
    <3> QED
      BY <3>3, <3>4
  <2>2. S \in SUBSET Nodes /\ j \in S /\ \A f \in S : Entered(f) \subseteq S
    <3>1. Below(j) \subseteq Nodes /\ j \in Below(j)
      BY <1>2 DEF Below
    <3> QED
      BY <2>1, <3>1
  <2>3. k \in S
    <3> HIDE DEF S
    <3> QED
      BY <2>2 DEF Below
  <2> QED
    BY <2>3
<1>8. Below(k) \subseteq Below(k) \ Below(j)
  <2> DEFINE S == Below(k) \ Below(j)
  <2>1. ASSUME NEW f \in S, NEW y \in Entered(f) PROVE y \in S
    <3>1. f \in Nodes /\ f \in Below(k) /\ f \notin Below(j)
      BY <2>1 DEF Below
    <3>2. f \in Dirs /\ y \in Kids[f]
      BY <1>3, <2>1, <3>1
    <3>3. y \in Below(k)
      BY <1>2, <2>1, <3>1, <3>2 DEF Below
    <3>4. ASSUME y \in Below(j) PROVE FALSE
      <4>1. CASE y = j
        <5>1. d = f
          BY <3>2, <4>1, TreeAssumption
        <5> QED
          BY <1>5, <3>1, <5>1
      <4>2. CASE y # j
        BY <1>2, <1>6, <2>1, <3>1, <3>4, <4>2
      <4> QED
        BY <4>1, <4>2
    <3> QED
      BY <3>3, <3>4
  <2>2. S \in SUBSET Nodes /\ k \in S /\ \A f \in S : Entered(f) \subseteq S
    <3>1. Below(k) \subseteq Nodes /\ k \in Below(k)
      BY <1>2 DEF Below
    <3> QED
      BY <1>7, <2>1, <3>1
  <2>3. \A x \in Below(k) : x \in S
    <3> HIDE DEF S
    <3> QED
      BY <2>2 DEF Below
  <2> QED
    BY <2>3
<1> QED
  BY <1>8

\* The files of a directory are the files of its entries.
LEMMA FilesOfDir ==
    ASSUME NEW d \in Dirs, disk[d] = Folder
    PROVE  Files(d) = UNION {Files(k) : k \in Listed(d)}
<1>1. ASSUME NEW n \in Files(d) PROVE \E k \in Listed(d) : n \in Files(k)
  BY FilesOfEntries
<1>2. ASSUME NEW k \in Listed(d), NEW n \in Files(k) PROVE n \in Files(d)
  <2>1. k \in Entered(d) /\ d \in Nodes
    BY ConstantsAssumption DEF Listed, Entered
  <2>2. n \in Nodes /\ \A S \in SUBSET Nodes :
            (d \in S /\ \A e \in S : Entered(e) \subseteq S) => n \in S
    <3> SUFFICES ASSUME NEW S \in SUBSET Nodes, d \in S, \A e \in S : Entered(e) \subseteq S
                 PROVE  n \in S
      BY DEF Files, Below
    <3>1. k \in S
      BY <2>1
    <3> QED
      BY <3>1 DEF Files, Below
  <2> QED
    BY <2>2 DEF Files, Below
<1> QED
  BY <1>1, <1>2

\* What there is to count below every node: all files, and the readable ones.
AllOn(dk) == [n \in Nodes |-> FilesOn(dk, n)]
ReadableOn(dk) == [n \in Nodes |-> {m \in FilesOn(dk, n) : dk[m] # Locked}]

LEMMA CountedAre ==
    /\ AllOn(disk) \in [Nodes -> SUBSET Nodes] /\ ReadableOn(disk) \in [Nodes -> SUBSET Nodes]
    /\ \A n \in Nodes : /\ AllOn(disk)[n] = Files(n)
                        /\ ReadableOn(disk)[n] = {m \in Files(n) : disk[m] # Locked}
<1>1. \A n \in Nodes : Files(n) = FilesOn(disk, n) /\ Files(n) \subseteq Nodes
  BY FilesAre DEF Files, Below
<1> QED
  BY <1>1 DEF AllOn, ReadableOn

\* A directory counts what its entries count.
LEMMA DirTally ==
    ASSUME NEW d \in Dirs, disk[d] = Folder, NEW entries \in Orders(Listed(d)),
           NEW F \in {AllOn(disk), ReadableOn(disk)}
    PROVE  entries \in Seq(Nodes) /\ Tally(F, entries) = Cardinality(F[d])
<1> DEFINE set == Listed(d)
<1>1. /\ d \in Nodes /\ set \in SUBSET Nodes /\ set \subseteq Kids[d] /\ IsFiniteSet(Kids[d])
  BY ConstantsAssumption DEF Listed
<1>2. entries \in Seq(Nodes) /\ ToSet(entries) = set
  BY OrdersValue
<1>3. Len(entries) = Cardinality(set)
  <2>1. Cardinality(set) \in Nat
    BY <1>1, FS_Subset, FS_CardinalityType
  <2>2. entries \in [1 .. Cardinality(set) -> set]
    BY DEF Orders
  <2> HIDE DEF set
  <2> QED
    BY <1>2, <2>1, <2>2
<1>4. F \in [Nodes -> SUBSET Nodes] /\ \A n \in Nodes : F[n] \subseteq Files(n)
  BY CountedAre
<1>5. ASSUME NEW a \in set, NEW b \in set, a # b PROVE F[a] \cap F[b] = {}
  <2>1. Below(a) \cap Below(b) = {}
    BY <1>1, <1>5, SiblingsApart
  <2>2. F[a] \subseteq Below(a) /\ F[b] \subseteq Below(b)
    BY <1>1, <1>4 DEF Files
  <2> QED
    BY <2>1, <2>2
<1>6. F[d] = UNION {F[a] : a \in set}
  <2>1. \A n : n \in Files(d) <=> \E a \in set : n \in Files(a)
    BY FilesOfDir
  <2>2. CASE F = AllOn(disk)
    <3>1. F[d] = Files(d) /\ \A a \in set : F[a] = Files(a)
      BY <1>1, <2>2, CountedAre
    <3> QED
      BY <2>1, <3>1
  <2>3. CASE F = ReadableOn(disk)
    <3>1. /\ \A n : n \in F[d] <=> n \in Files(d) /\ disk[n] # Locked
          /\ \A a \in set : \A n : n \in F[a] <=> n \in Files(a) /\ disk[n] # Locked
      BY <1>1, <2>3, CountedAre
    <3> QED
      BY <2>1, <3>1
  <2> QED
    BY <2>2, <2>3
<1> HIDE DEF set
<1>7. Tally(F, entries) = Cardinality(F[d])
  <2>1. \A a, b \in set : a # b => F[a] \cap F[b] = {}
    BY <1>5
  <2> QED
    BY <1>1, <1>2, <1>3, <1>4, <1>6, <2>1, TallyDisjoint
<1> QED
  BY <1>2, <1>7

\* A node that is no directory with entries counts itself if it is a file that is
\* there, and readable.
LEMMA LeafTally ==
    ASSUME SourceInv, NEW h \in Nodes, ~(h \in Dirs /\ disk[h] = Folder)
    PROVE  /\ Cardinality(AllOn(disk)[h]) = IF h \notin Dirs /\ disk[h] # Gone THEN 1 ELSE 0
           /\ Cardinality(ReadableOn(disk)[h]) =
                  IF h \notin Dirs /\ disk[h] \notin {Gone, Locked} THEN 1 ELSE 0
<1>1. \A n \in Files(h) : n = h /\ h \notin Dirs /\ disk[h] # Gone
  BY FilesOfLeaf
<1>2. h \notin Dirs /\ disk[h] # Gone => h \in Files(h)
  BY DEF Files, Below
<1>3. Files(h) = IF h \notin Dirs /\ disk[h] # Gone THEN {h} ELSE {}
  BY <1>1, <1>2
<1>4. /\ AllOn(disk)[h] = Files(h)
      /\ ReadableOn(disk)[h] = {m \in Files(h) : disk[m] # Locked}
  BY CountedAre
<1>5. ReadableOn(disk)[h] = IF h \notin Dirs /\ disk[h] \notin {Gone, Locked} THEN {h} ELSE {}
  BY <1>3, <1>4
<1> QED
  BY <1>3, <1>4, <1>5, FS_EmptySet, FS_Singleton

\* How many of the marks, or items, m are of one kind, and that a total is among
\* them.
HowMany(m, is) == Cardinality(ToldIn(m, is))
TotalIn(m, count) == \E i \in ToldIn(m, "totals") : m[i].count = count

LEMMA ToldFinite ==
    ASSUME NEW m, IsSeq(m), NEW is
    PROVE  /\ IsFiniteSet(ToldIn(m, is)) /\ HowMany(m, is) \in Nat
           /\ Len(m) + 1 \notin ToldIn(m, is)
<1>1. PICK T : m \in Seq(T)
  BY DEF IsSeq
<1>2. ToldIn(m, is) \subseteq 1 .. Len(m) /\ Len(m) \in Nat
  BY <1>1 DEF ToldIn
<1>3. IsFiniteSet(1 .. Len(m))
  <2>1. 1 \in Int /\ Len(m) \in Int
    BY <1>2
  <2> QED
    BY <2>1, FS_Interval
<1>4. IsFiniteSet(ToldIn(m, is))
  BY <1>2, <1>3, FS_Subset
<1> QED
  BY <1>2, <1>4, FS_CardinalityType DEF HowMany

LEMMA NoneTold ==
    ASSUME NEW is
    PROVE  ToldIn(<< >>, is) = {} /\ HowMany(<< >>, is) = 0 /\ IsSeq(<< >>)
<1>1. << >> \in Seq({}) /\ DOMAIN << >> = {}
  OBVIOUS
<1> QED
  BY <1>1, FS_EmptySet DEF ToldIn, HowMany, IsSeq

LEMMA OneMore ==
    ASSUME NEW m, NEW x, NEW t, Grown(m, x, t), NEW is
    PROVE  /\ IsSeq(t)
           /\ HowMany(t, is) = HowMany(m, is) + IF x.is = is THEN 1 ELSE 0
           /\ \A i \in ToldIn(t, is) : \/ i \in ToldIn(m, is) /\ t[i] = m[i]
                                       \/ x.is = is /\ t[i] = x
           /\ x.is # is => ToldIn(t, is) = ToldIn(m, is)
           /\ \A count : TotalIn(m, count) => TotalIn(t, count)
           /\ x.is = "totals" => TotalIn(t, x.count)
<1>1. IsSeq(m) /\ t = m \o <<x>>
  BY DEF Grown
<1>2. IsSeq(t) /\ t[Len(m) + 1] = x
  BY <1>1, SeqMore
<1>3. \A kind : /\ x.is # kind => ToldIn(t, kind) = ToldIn(m, kind)
                /\ x.is = kind => ToldIn(t, kind) = ToldIn(m, kind) \cup {Len(m) + 1}
                /\ \A i \in ToldIn(m, kind) : t[i] = m[i]
  BY MarkMore
<1>4. HowMany(t, is) = HowMany(m, is) + IF x.is = is THEN 1 ELSE 0
  <2>1. IsFiniteSet(ToldIn(m, is)) /\ HowMany(m, is) \in Nat /\ Len(m) + 1 \notin ToldIn(m, is)
    BY <1>1, ToldFinite
  <2>2. CASE x.is = is
    <3>1. ToldIn(t, is) = ToldIn(m, is) \cup {Len(m) + 1}
      BY <1>3, <2>2
    <3>2. Cardinality(ToldIn(m, is) \cup {Len(m) + 1}) = Cardinality(ToldIn(m, is)) + 1
      BY <2>1, FS_AddElement
    <3> QED
      BY <2>2, <3>1, <3>2 DEF HowMany
  <2>3. CASE x.is # is
    BY <1>3, <2>1, <2>3 DEF HowMany
  <2> QED
    BY <2>2, <2>3
<1>5. \A i \in ToldIn(t, is) : \/ i \in ToldIn(m, is) /\ t[i] = m[i]
                               \/ x.is = is /\ t[i] = x
  BY <1>2, <1>3
<1>6. ASSUME NEW count, TotalIn(m, count) PROVE TotalIn(t, count)
  <2>1. PICK i \in ToldIn(m, "totals") : m[i].count = count
    BY <1>6 DEF TotalIn
  <2>2. i \in ToldIn(t, "totals") /\ t[i] = m[i]
    BY <1>3
  <2> QED
    BY <2>1, <2>2 DEF TotalIn
<1>7. ASSUME x.is = "totals" PROVE TotalIn(t, x.count)
  <2>1. Len(m) + 1 \in ToldIn(t, "totals")
    BY <1>3, <1>7
  <2> QED
    BY <1>2, <2>1 DEF TotalIn
<1> QED
  BY <1>2, <1>3, <1>4, <1>5, <1>6, <1>7

LEMMA OneLess ==
    ASSUME NEW s, IsSeq(s), s # << >>, NEW is
    PROVE  /\ HowMany(s, is) = HowMany(Tail(s), is) + IF Head(s).is = is THEN 1 ELSE 0
           /\ \A i \in ToldIn(Tail(s), is) : i + 1 \in ToldIn(s, is) /\ Tail(s)[i] = s[i + 1]
           /\ Head(s).is = is => 1 \in ToldIn(s, is)
           /\ Head(s) = s[1]
<1> DEFINE t == Tail(s)
           A == ToldIn(t, is)
           f == [i \in A |-> i + 1]
           B == {f[i] : i \in A}
<1>1. /\ IsSeq(t) /\ Len(s) \in Nat \ {0} /\ Len(t) = Len(s) - 1
      /\ \A i \in 1 .. Len(s) - 1 : t[i] = s[i + 1]
      /\ Head(s) = s[1]
  BY SeqLess
<1>2. DOMAIN s = 1 .. Len(s) /\ DOMAIN t = 1 .. Len(s) - 1
  <2>1. PICK T : s \in Seq(T)
    BY DEF IsSeq
  <2>2. PICK U : t \in Seq(U)
    BY <1>1 DEF IsSeq
  <2> QED
    BY <1>1, <2>1, <2>2
<1> HIDE DEF t
<1>3. /\ \A i : i \in A <=> i \in 1 .. Len(s) - 1 /\ s[i + 1].is = is
      /\ \A i : i \in ToldIn(s, is) <=> i \in 1 .. Len(s) /\ s[i].is = is
  BY <1>1, <1>2 DEF ToldIn
<1>4. \A j : j \in B <=> j \in 2 .. Len(s) /\ s[j].is = is
  <2> TAKE j
  <2>1. j \in B <=> \E i \in A : j = i + 1
    OBVIOUS
  <2>2. ASSUME NEW i \in A, j = i + 1 PROVE j \in 2 .. Len(s) /\ s[j].is = is
    <3>1. i \in 1 .. Len(s) - 1 /\ s[i + 1].is = is
      BY <1>3
    <3> QED
      BY <1>1, <2>2, <3>1
  <2>3. ASSUME j \in 2 .. Len(s), s[j].is = is PROVE \E i \in A : j = i + 1
    <3>1. j - 1 \in 1 .. Len(s) - 1 /\ (j - 1) + 1 = j
      BY <1>1, <2>3
    <3>2. j - 1 \in A
      BY <1>3, <2>3, <3>1
    <3> QED
      BY <3>1, <3>2
  <2> HIDE DEF A, B
  <2> QED
    BY <2>1, <2>2, <2>3
<1>5. IsFiniteSet(A) /\ Cardinality(A) \in Nat
  BY <1>1, ToldFinite DEF HowMany
<1>6. IsFiniteSet(B) /\ Cardinality(B) = Cardinality(A)
  <2>1. f \in [A -> B] /\ \A b \in B : \E a \in A : f[a] = b
    OBVIOUS
  <2>2. \A a, b \in A : f[a] = f[b] => a = b
    <3>1. \A a \in A : a \in Int
      BY <1>3
    <3> QED
      BY <3>1
  <2> HIDE DEF f, A, B
  <2> QED
    BY <1>5, <2>1, <2>2, SameNumber
<1> HIDE DEF B
<1>7. CASE Head(s).is = is
  <2>1. ToldIn(s, is) = B \cup {1} /\ 1 \notin B
    BY <1>1, <1>3, <1>4, <1>7
  <2>2. Cardinality(B \cup {1}) = Cardinality(B) + 1
    BY <1>6, <2>1, FS_AddElement
  <2>3. \A i \in A : i + 1 \in ToldIn(s, is) /\ t[i] = s[i + 1]
    BY <1>1, <1>3
  <2>4. 1 \in ToldIn(s, is)
    BY <2>1
  <2>5. HowMany(s, is) = HowMany(t, is) + 1
    BY <1>6, <2>1, <2>2 DEF HowMany
  <2> QED
    BY <1>1, <1>7, <2>3, <2>4, <2>5 DEF t
<1>8. CASE Head(s).is # is
  <2>1. ToldIn(s, is) = B
    <3>1. \A j : j \in ToldIn(s, is) <=> j \in B
      BY <1>1, <1>3, <1>4, <1>8
    <3> QED
      BY <3>1
  <2>2. \A i \in A : i + 1 \in ToldIn(s, is) /\ t[i] = s[i + 1]
    BY <1>1, <1>3
  <2>3. HowMany(s, is) = HowMany(t, is) /\ HowMany(t, is) \in Nat
    BY <1>5, <1>6, <2>1 DEF HowMany
  <2>4. HowMany(s, is) = HowMany(t, is) + 0
    BY <2>3
  <2> QED
    BY <1>1, <1>8, <2>2, <2>4 DEF t
<1> QED
  BY <1>7, <1>8

\* What leaves the list of the nodes to visit, and what is counted for it.
LEMMA LeafLeaves ==
    ASSUME SourceInv, todo # << >>, ~(Head(todo) \in Dirs /\ disk[Head(todo)] = Folder)
    PROVE  /\ Tally(AllOn(disk), todo) = Tally(AllOn(disk), Tail(todo))
                + IF Head(todo) \notin Dirs /\ disk[Head(todo)] # Gone THEN 1 ELSE 0
           /\ Tally(ReadableOn(disk), todo) = Tally(ReadableOn(disk), Tail(todo))
                + IF Head(todo) \notin Dirs /\ disk[Head(todo)] \notin {Gone, Locked} THEN 1 ELSE 0
<1>1. todo \in Seq(Nodes)
  BY DEF SourceInv
<1>2. ASSUME NEW F \in [Nodes -> SUBSET Nodes]
      PROVE  /\ Head(todo) \in Nodes
             /\ Tally(F, todo) = Cardinality(F[Head(todo)]) + Tally(F, Tail(todo))
             /\ Cardinality(F[Head(todo)]) \in Nat /\ Tally(F, Tail(todo)) \in Nat
  BY <1>1, TallyFirst
<1>3. AllOn(disk) \in [Nodes -> SUBSET Nodes] /\ ReadableOn(disk) \in [Nodes -> SUBSET Nodes]
  BY CountedAre
<1>4. /\ Head(todo) \in Nodes
      /\ Tally(AllOn(disk), todo) =
             Cardinality(AllOn(disk)[Head(todo)]) + Tally(AllOn(disk), Tail(todo))
      /\ Tally(AllOn(disk), Tail(todo)) \in Nat
      /\ Tally(ReadableOn(disk), todo) =
             Cardinality(ReadableOn(disk)[Head(todo)]) + Tally(ReadableOn(disk), Tail(todo))
      /\ Tally(ReadableOn(disk), Tail(todo)) \in Nat
  BY <1>2, <1>3
<1>5. /\ Cardinality(AllOn(disk)[Head(todo)]) =
             IF Head(todo) \notin Dirs /\ disk[Head(todo)] # Gone THEN 1 ELSE 0
      /\ Cardinality(ReadableOn(disk)[Head(todo)]) =
             IF Head(todo) \notin Dirs /\ disk[Head(todo)] \notin {Gone, Locked} THEN 1 ELSE 0
  BY <1>4, LeafTally
<1> QED
  BY <1>4, <1>5

LEMMA GoneLeaves ==
    ASSUME SourceInv, VisitGone, mode # "fds", NEW F \in {AllOn(disk), ReadableOn(disk)}
    PROVE  Tally(F, todo') = Tally(F, todo)
<1>1. todo # << >> /\ disk[Head(todo)] = Gone /\ todo' = Tail(todo)
  BY DEF VisitGone
<1>2. disk[Head(todo)] # Folder
  BY <1>1, ConstantsAssumption
<1>3. /\ AllOn(disk) \in [Nodes -> SUBSET Nodes] /\ ReadableOn(disk) \in [Nodes -> SUBSET Nodes]
      /\ Tail(todo) \in Seq(Nodes)
  BY <1>1, CountedAre DEF SourceInv
<1>4. Tally(F, Tail(todo)) \in Nat
  BY <1>3, PlacesFinite
<1>5. Tally(F, todo) = Tally(F, Tail(todo)) + 0
  BY <1>1, <1>2, LeafLeaves
<1> QED
  BY <1>1, <1>4, <1>5

LEMMA DirOpens ==
    ASSUME SourceInv, VisitDir, NEW F \in {AllOn(disk), ReadableOn(disk)}
    PROVE  Tally(F, todo') = Tally(F, todo)
<1>1. /\ todo # << >> /\ Head(todo) \in Dirs /\ disk[Head(todo)] = Folder /\ todo \in Seq(Nodes)
  BY DEF VisitDir, SourceInv
<1>2. PICK entries \in Orders(Listed(Head(todo))) : todo' = entries \o Tail(todo)
  BY DEF VisitDir
<1>3. F \in [Nodes -> SUBSET Nodes]
  BY CountedAre
<1>4. entries \in Seq(Nodes) /\ Tally(F, entries) = Cardinality(F[Head(todo)])
  BY <1>1, DirTally
<1>5. /\ Tail(todo) \in Seq(Nodes)
      /\ Tally(F, todo) = Cardinality(F[Head(todo)]) + Tally(F, Tail(todo))
  BY <1>1, <1>3, TallyFirst
<1>6. Tally(F, entries \o Tail(todo)) = Tally(F, entries) + Tally(F, Tail(todo))
  BY <1>3, <1>4, <1>5, TallyJoin
<1> QED
  BY <1>2, <1>4, <1>5, <1>6

LEMMA EmptyDirLeaves ==
    ASSUME SourceInv, VisitEmptyDir, NEW F \in {AllOn(disk), ReadableOn(disk)}
    PROVE  Tally(F, todo') = Tally(F, todo)
<1>1. /\ todo # << >> /\ Head(todo) \in Dirs /\ todo' = Tail(todo) /\ todo \in Seq(Nodes)
      /\ disk[Head(todo)] = Locked \/ (disk[Head(todo)] = Folder /\ Listed(Head(todo)) = {})
  BY DEF VisitEmptyDir, SourceInv
<1>2. F \in [Nodes -> SUBSET Nodes] /\ Head(todo) \in Nodes /\ Tail(todo) \in Seq(Nodes)
  BY <1>1, CountedAre
<1>3. Tally(F, Tail(todo)) \in Nat
  BY <1>2, PlacesFinite
<1>4. CASE disk[Head(todo)] = Locked
  <2>1. disk[Head(todo)] # Folder
    BY <1>4, ConstantsAssumption
  <2>2. Tally(F, todo) = Tally(F, Tail(todo)) + 0
    BY <1>1, <2>1, LeafLeaves
  <2> QED
    BY <1>1, <1>3, <2>2
<1>5. CASE disk[Head(todo)] = Folder /\ Listed(Head(todo)) = {}
  <2>1. Files(Head(todo)) = {}
    BY <1>1, <1>5, FilesOfDir
  <2>2. F[Head(todo)] = {}
    BY <1>2, <2>1, CountedAre
  <2>3. Tally(F, todo) = Cardinality(F[Head(todo)]) + Tally(F, Tail(todo))
    BY <1>1, <1>2, TallyFirst
  <2>4. Tally(F, todo) = 0 + Tally(F, Tail(todo))
    BY <2>2, <2>3, FS_EmptySet
  <2> QED
    BY <1>1, <1>3, <2>4
<1> QED
  BY <1>1, <1>4, <1>5

\* A file that is read counts once, in both counts.
LEMMA FileLeaves ==
    ASSUME SourceInv, todo # << >>, disk[Head(todo)] \in Sizes,
           NEW F \in {AllOn(disk), ReadableOn(disk)}
    PROVE  Tally(F, todo) = Tally(F, Tail(todo)) + 1
<1>1. disk[Head(todo)] \notin {Gone, Locked, Folder}
  BY ConstantsAssumption DEF Sizes
<1>2. Head(todo) \in Nodes
  BY DEF SourceInv
<1>3. Head(todo) \notin Dirs
  BY <1>1, <1>2 DEF SourceInv, Contents
<1> QED
  BY <1>1, <1>3, LeafLeaves

\* A file that cannot be opened counts in the total only.
LEMMA LockedLeaves ==
    ASSUME SourceInv, VisitLocked
    PROVE  /\ Tally(AllOn(disk), todo) = Tally(AllOn(disk), todo') + 1
           /\ Tally(ReadableOn(disk), todo') = Tally(ReadableOn(disk), todo)
<1>1. todo # << >> /\ Head(todo) \notin Dirs /\ disk[Head(todo)] = Locked /\ todo' = Tail(todo)
  BY DEF VisitLocked
<1>2. disk[Head(todo)] \notin {Gone, Folder}
  BY <1>1, ConstantsAssumption
<1>3. /\ Tally(AllOn(disk), todo) = Tally(AllOn(disk), Tail(todo)) + 1
      /\ Tally(ReadableOn(disk), todo) = Tally(ReadableOn(disk), Tail(todo)) + 0
  BY <1>1, <1>2, LeafLeaves
<1>4. Tail(todo) \in Seq(Nodes) /\ ReadableOn(disk) \in [Nodes -> SUBSET Nodes]
  BY <1>1, CountedAre DEF SourceInv
<1>5. Tally(ReadableOn(disk), Tail(todo)) \in Nat
  BY <1>4, PlacesFinite
<1> QED
  BY <1>1, <1>3, <1>5

\* The sender announces the number of the files of the list, and reads what it opened.
CountInv ==
    /\ mode \in {"upload", "fds", "download"}
    /\ changes = 0 =>
          /\ snd = "count" => todo = list /\ (mode # "download" => ToldIn(marks, "eof") = {})
          /\ snd = "send" => disk[Head(todo)] \in Sizes

LEMMA InitCount == Init => CountInv
BY ConstantsAssumption, NoneTold DEF Init, CountInv

LEMMA NextCount ==
    ASSUME SourceInv, CountInv, [Next]_vars PROVE CountInv'
<1> SUFFICES ASSUME changes' = 0
             PROVE  /\ mode' = mode
                    /\ snd' = "count" => /\ snd = "count" /\ UNCHANGED <<todo, list>>
                                         /\ mode # "download" => marks' = marks
                    /\ snd' = "send" => disk'[Head(todo')] \in Sizes
  <2>1. mode' = mode /\ (changes' = 0 => changes = 0)
    BY DEF Next, Sender, Receiver, Announce, VisitGone, VisitDir, VisitEmptyDir, VisitFile,
      VisitLocked, SendPiece, ReadShort, EndFile, TellEnd, SendEnd, WriteFails, Sends,
      ReadTotals, OpenFile, StoreFails, StorePiece, CloseFile, MakeDir, EndOfItems, ReadFails,
      Receives, MissesEnd, Disturb, SenderLost,
      ReceiverLost, JavaLeaves, sourceVars, vars, SourceInv
  <2> QED
    BY <2>1 DEF CountInv
<1>0. changes = 0
  BY DEF Next, Sender, Receiver, Announce, VisitGone, VisitDir, VisitEmptyDir, VisitFile,
      VisitLocked, SendPiece, ReadShort, EndFile, TellEnd, SendEnd, WriteFails, Sends,
      ReadTotals, OpenFile, StoreFails, StorePiece, CloseFile, MakeDir, EndOfItems, ReadFails,
      Receives, MissesEnd, Disturb, SenderLost,
      ReceiverLost, JavaLeaves, sourceVars, vars, SourceInv
<1>1. CASE Sender
  <2>1. mode' = mode /\ disk' = disk /\ snd' # "count"
    BY <1>1 DEF Sender, Announce, VisitGone, VisitDir, VisitEmptyDir, VisitFile,
      VisitLocked, SendPiece, ReadShort, EndFile, TellEnd, SendEnd, WriteFails, Sends, Then
  <2>2. CASE VisitFile
    <3>1. disk[Head(todo)] \in Sizes /\ todo' = todo
      BY <2>2 DEF VisitFile
    <3> QED
      BY <2>1, <3>1
  <2>3. CASE SendPiece
    <3>1. snd = "send" /\ todo' = todo
      BY <2>3 DEF SendPiece
    <3> QED
      BY <1>0, <2>1, <3>1 DEF CountInv
  <2>4. CASE ~VisitFile /\ ~SendPiece
    <3>1. snd' # "send"
      BY <1>1, <2>4 DEF Sender, Announce, VisitGone, VisitDir, VisitEmptyDir,
        VisitLocked, ReadShort, EndFile, TellEnd, SendEnd, WriteFails, Sends, Then
    <3> QED
      BY <2>1, <3>1
  <2> QED
    BY <2>2, <2>3, <2>4
<1>2. CASE Receiver
  <2>1. UNCHANGED <<mode, list, disk, snd, todo>>
    BY <1>2 DEF Receiver, ReadTotals, OpenFile, StoreFails, StorePiece, CloseFile, MakeDir,
                EndOfItems, ReadFails, SessionOver, Receives, sourceVars, senderVars
  <2>2. mode # "download" => marks' = marks
    BY <1>2 DEF Receiver, ReadTotals, OpenFile, StoreFails, StorePiece, CloseFile, MakeDir,
                EndOfItems, ReadFails, SessionOver, Receives, Says, Attached
  <2> QED
    BY <1>0, <2>1, <2>2 DEF CountInv
<1>3. CASE Disturb
  BY <1>3, <1>0 DEF Disturb
<1>4. CASE MissesEnd \/ SenderLost \/ ReceiverLost \/ JavaLeaves \/ UNCHANGED vars
  <2>1. UNCHANGED <<mode, list, disk, todo, marks>> /\ (snd' = snd \/ snd' = "exited")
    BY <1>4 DEF MissesEnd, SenderLost, ReceiverLost, JavaLeaves, vars, sourceVars, senderVars
  <2> QED
    BY <1>0, <2>1 DEF CountInv
<1> QED
  BY <1>1, <1>2, <1>3, <1>4 DEF Next

LEMMA FilesInIs ==
    ASSUME NEW s \in Seq(Nodes)
    PROVE  Counted(s) = Places(AllOn(disk), s) /\ FilesIn(s) = Tally(AllOn(disk), s)
<1>1. \A i \in DOMAIN s : Files(s[i]) = AllOn(disk)[s[i]]
  BY CountedAre
<1>2. \A p : p \in Counted(s) <=> p \in Places(AllOn(disk), s)
  <2> TAKE p
  <2>1. p \in Counted(s) <=> \E i \in DOMAIN s : \E m \in Files(s[i]) : p = <<i, m>>
    BY DEF Counted
  <2>2. p \in Places(AllOn(disk), s) <=>
            \E i \in DOMAIN s : \E m \in AllOn(disk)[s[i]] : p = <<i, m>>
    BY PlaceIs
  <2> QED
    BY <1>1, <2>1, <2>2
<1>3. Counted(s) = Places(AllOn(disk), s)
  BY <1>2
<1> QED
  BY <1>3 DEF FilesIn, Tally

\* In an upload: what is told of the ends of files, and what is still to visit, add
\* up to the total.
UploadInv ==
    mode = "upload" /\ changes = 0 =>
        /\ ToldIn(marks, "end") # {} => todo = << >> /\ snd \in {"endlist", "done", "exited"}
        /\ ToldIn(marks, "end") # {} \/ snd \notin {"count", "exited"} =>
              TotalIn(marks, HowMany(marks, "eof") + Tally(AllOn(disk), todo))

LEMMA InitUpload == Init => UploadInv
BY NoneTold DEF Init, UploadInv

\* A step of the sender that tells nothing, or one thing.
LEMMA UploadSends ==
    ASSUME UploadInv, MarkInv, mode = "upload", changes = 0,
           NEW items, NEW words, NEW next, Sends(items, words, next),
           snd \in {"visit", "send", "endlist"}, next # "exited",
           snd = "endlist" => todo' = todo /\ next = "done" /\ words = << >>,
           NEW more \in {0, 1}, NEW rest \in Nat, rest = Tally(AllOn(disk), todo'),
           Tally(AllOn(disk), todo) = rest + more,
           \/ words = << >> /\ more = 0
           \/ \E x : /\ words = <<x>>
                     /\ more = IF x.is = "eof" THEN 1 ELSE 0
                     /\ x.is = "end" => todo' = << >> /\ next = "endlist"
    PROVE  UploadInv'
<1>1. /\ UNCHANGED <<mode, disk, changes>>
      /\ snd' = IF ~java /\ words # << >> THEN "exited" ELSE next
      /\ marks' = IF java THEN marks \o words ELSE marks
  BY DEF Sends, Says, Then, Attached
<1>2. /\ IsSeq(marks) /\ HowMany(marks, "eof") \in Nat /\ marks \o << >> = marks
  <2>1. IsSeq(marks)
    BY DEF MarkInv
  <2>2. PICK T : marks \in Seq(T)
    BY <2>1 DEF IsSeq
  <2> QED
    BY <2>1, <2>2, ToldFinite
<1>3. /\ TotalIn(marks, HowMany(marks, "eof") + (rest + more))
      /\ ToldIn(marks, "end") # {} => todo = << >> /\ snd = "endlist"
  BY DEF UploadInv
<1>4. Tally(AllOn(disk'), todo') = rest
  BY <1>1
<1>5. CASE words = << >> /\ more = 0
  <2>1. marks' = marks /\ snd' = next
    BY <1>1, <1>2, <1>5
  <2>2. rest + more = rest
    BY <1>5
  <2> QED
    BY <1>1, <1>3, <1>4, <1>5, <2>1, <2>2 DEF UploadInv
<1>6. ASSUME NEW x, words = <<x>>, more = IF x.is = "eof" THEN 1 ELSE 0,
             x.is = "end" => todo' = << >> /\ next = "endlist"
      PROVE  UploadInv'
  <2>1. snd # "endlist" /\ ToldIn(marks, "end") = {}
    <3>1. words # << >>
      BY <1>6
    <3> QED
      BY <1>3, <3>1
  <2>2. CASE ~java
    <3>1. snd' = "exited" /\ marks' = marks
      BY <1>1, <1>6, <2>2
    <3> QED
      BY <2>1, <3>1 DEF UploadInv
  <2>3. CASE java
    <3>1. Grown(marks, x, marks') /\ snd' = next
      BY <1>1, <1>2, <1>6, <2>3 DEF Grown
    <3>2. /\ HowMany(marks', "eof") = HowMany(marks, "eof") + more
          /\ TotalIn(marks', HowMany(marks, "eof") + (rest + more))
          /\ x.is # "end" => ToldIn(marks', "end") = {}
      BY <1>3, <1>6, <2>1, <3>1, OneMore
    <3>3. HowMany(marks', "eof") + rest = HowMany(marks, "eof") + (rest + more)
      BY <1>2, <3>2
    <3>4. TotalIn(marks', HowMany(marks', "eof") + Tally(AllOn(disk'), todo'))
      BY <1>4, <3>2, <3>3
    <3> QED
      BY <1>1, <1>6, <3>1, <3>2, <3>4 DEF UploadInv
  <2> QED
    BY <2>2, <2>3
<1> QED
  BY <1>5, <1>6

LEMMA UploadAnnounce ==
    ASSUME SourceInv, CountInv, UploadInv, MarkInv, mode = "upload", changes = 0, Announce
    PROVE  UploadInv'
<1> DEFINE x == Item("totals", NoNode, FilesIn(todo))
<1>1. /\ snd = "count" /\ todo' = todo /\ UNCHANGED <<mode, disk, changes>>
      /\ snd' = IF ~java THEN "exited" ELSE "visit"
      /\ marks' = IF java THEN marks \o <<x>> ELSE marks
  BY DEF Announce, Sends, Says, Then, Attached
<1>2. x.is = "totals" /\ x.count = Tally(AllOn(disk), todo) /\ x.count \in Nat
  <2>1. todo \in Seq(Nodes) /\ AllOn(disk) \in [Nodes -> SUBSET Nodes]
    BY CountedAre DEF SourceInv
  <2>2. Tally(AllOn(disk), todo) \in Nat /\ FilesIn(todo) = Tally(AllOn(disk), todo)
    BY <2>1, PlacesFinite, FilesInIs
  <2> QED
    BY <2>2 DEF Item
<1> HIDE DEF x
<1>3. IsSeq(marks) /\ ToldIn(marks, "eof") = {} /\ ToldIn(marks, "end") = {}
  BY <1>1 DEF MarkInv, CountInv, UploadInv
<1>4. CASE ~java
  <2>1. snd' = "exited" /\ marks' = marks
    BY <1>1, <1>4
  <2> QED
    BY <1>3, <2>1 DEF UploadInv
<1>5. CASE java
  <2>1. Grown(marks, x, marks') /\ snd' = "visit"
    BY <1>1, <1>3, <1>5 DEF Grown
  <2>2. /\ TotalIn(marks', x.count)
        /\ ToldIn(marks', "eof") = {} /\ ToldIn(marks', "end") = {}
    BY <1>2, <1>3, <2>1, OneMore
  <2>3. HowMany(marks', "eof") + x.count = x.count
    BY <1>2, <2>2, FS_EmptySet DEF HowMany
  <2>4. x.count = Tally(AllOn(disk'), todo')
    BY <1>1, <1>2
  <2>5. TotalIn(marks', HowMany(marks', "eof") + Tally(AllOn(disk'), todo'))
    BY <2>2, <2>3, <2>4
  <2> QED
    BY <2>2, <2>5 DEF UploadInv
<1> QED
  BY <1>4, <1>5

LEMMA UploadSender ==
    ASSUME SourceInv, CountInv, UploadInv, MarkInv, mode = "upload", changes = 0, Sender
    PROVE  UploadInv'
<1> DEFINE F == AllOn(disk)
<1>1. /\ todo \in Seq(Nodes) /\ F \in [Nodes -> SUBSET Nodes] /\ mode # "fds"
      /\ \A s \in Seq(Nodes) : Tally(F, s) \in Nat
      /\ todo # << >> => Tail(todo) \in Seq(Nodes)
      /\ snd = "send" => todo # << >> /\ disk[Head(todo)] \in Sizes
      /\ snd = "endlist" => todo = << >>
  <2>1. todo \in Seq(Nodes) /\ F \in [Nodes -> SUBSET Nodes]
    BY CountedAre DEF SourceInv
  <2> HIDE DEF F
  <2>2. \A s \in Seq(Nodes) : Tally(F, s) \in Nat
    BY <2>1, PlacesFinite
  <2> QED
    BY <2>1, <2>2 DEF SourceInv, CountInv
<1> HIDE DEF F
<1>2. ASSUME NEW items, NEW words, NEW next, Sends(items, words, next),
             snd \in {"visit", "send", "endlist"}, next # "exited",
             snd = "endlist" => todo' = todo /\ next = "done" /\ words = << >>,
             NEW more \in {0, 1}, Tally(F, todo') \in Nat, Tally(F, todo) = Tally(F, todo') + more,
             \/ words = << >> /\ more = 0
             \/ \E x : /\ words = <<x>>
                       /\ more = IF x.is = "eof" THEN 1 ELSE 0
                       /\ x.is = "end" => todo' = << >> /\ next = "endlist"
      PROVE  UploadInv'
  BY <1>2, UploadSends DEF F
<1>same. todo' = todo => Tally(F, todo') \in Nat /\ Tally(F, todo) = Tally(F, todo') + 0
  <2>1. Tally(F, todo) \in Nat
    BY <1>1
  <2>2. Tally(F, todo) = Tally(F, todo) + 0
    BY <2>1
  <2> QED
    BY <2>1, <2>2
<1>3. CASE Announce
  BY <1>3, UploadAnnounce
<1>4. CASE VisitGone \/ VisitDir \/ VisitEmptyDir
  <2>1. /\ snd = "visit" /\ \E items : Sends(items, << >>, "visit")
    BY <1>4 DEF VisitGone, VisitDir, VisitEmptyDir
  <2>2. Tally(F, todo') = Tally(F, todo)
    BY <1>1, <1>4, GoneLeaves, DirOpens, EmptyDirLeaves DEF F
  <2>3. Tally(F, todo') \in Nat /\ Tally(F, todo) = Tally(F, todo') + 0
    BY <1>1, <2>2
  <2> QED
    BY <1>2, <2>1, <2>3
<1>5. CASE VisitFile \/ SendPiece
  <2>1. /\ snd \in {"visit", "send"} /\ todo' = todo
        /\ \E items, kind, n, c : /\ kind \in {"size", "progress"}
                                  /\ Sends(items, <<Item(kind, n, c)>>, "send")
    <3>1. CASE VisitFile
      <4>1. /\ snd = "visit" /\ todo' = todo
            /\ Sends(<<Item("file", Head(todo), left')>>, <<Item("size", Head(todo), left')>>,
                     "send")
        BY <3>1 DEF VisitFile
      <4> QED
        BY <4>1
    <3>2. CASE SendPiece
      <4>1. /\ snd = "send" /\ todo' = todo
            /\ Sends(<<Item("piece", Head(todo), 0)>>, <<Item("progress", Head(todo), 0)>>, "send")
        BY <3>2 DEF SendPiece
      <4> QED
        BY <4>1
    <3> QED
      BY <1>5, <3>1, <3>2
  <2>2. PICK items, kind, n, c : /\ kind \in {"size", "progress"}
                                 /\ Sends(items, <<Item(kind, n, c)>>, "send")
    BY <2>1
  <2>3. Tally(F, todo') \in Nat /\ Tally(F, todo) = Tally(F, todo') + 0
    BY <1>same, <2>1
  <2>4. Item(kind, n, c).is \notin {"eof", "end"}
    BY <2>2 DEF Item
  <2>5. \E x : /\ <<Item(kind, n, c)>> = <<x>>
               /\ 0 = IF x.is = "eof" THEN 1 ELSE 0
               /\ x.is = "end" => todo' = << >> /\ "send" = "endlist"
    BY <2>4
  <2> QED
    BY <1>2, <2>1, <2>2, <2>3, <2>5
<1>6. CASE VisitLocked \/ EndFile
  <2>1. /\ snd \in {"visit", "send"} /\ todo # << >> /\ todo' = Tail(todo)
        /\ \E n : Sends(<< >>, <<Item("eof", n, 0)>>, "visit")
    BY <1>1, <1>6 DEF VisitLocked, EndFile
  <2>2. PICK n : Sends(<< >>, <<Item("eof", n, 0)>>, "visit")
    BY <2>1
  <2>3. Tally(F, todo) = Tally(F, todo') + 1
    <3>1. CASE VisitLocked
      BY <3>1, LockedLeaves DEF F
    <3>2. CASE EndFile
      <4>1. snd = "send"
        BY <3>2 DEF EndFile
      <4> QED
        BY <1>1, <2>1, <4>1, FileLeaves DEF F
    <3> QED
      BY <1>6, <3>1, <3>2
  <2>4. Tally(F, todo') \in Nat
    BY <1>1, <2>1
  <2>5. \E x : /\ <<Item("eof", n, 0)>> = <<x>>
               /\ 1 = IF x.is = "eof" THEN 1 ELSE 0
               /\ x.is = "end" => todo' = << >> /\ "visit" = "endlist"
    <3>1. Item("eof", n, 0).is = "eof"
      BY DEF Item
    <3> QED
      BY <3>1
  <2> QED
    BY <1>2, <2>1, <2>2, <2>3, <2>4, <2>5
<1>7. CASE TellEnd
  <2>1. /\ snd = "visit" /\ todo = << >> /\ todo' = todo
        /\ Sends(<< >>, <<Item("end", NoNode, 0)>>, "endlist")
    BY <1>7 DEF TellEnd
  <2>2. Tally(F, todo') \in Nat /\ Tally(F, todo) = Tally(F, todo') + 0
    BY <1>same, <2>1
  <2>3. \E x : /\ <<Item("end", NoNode, 0)>> = <<x>>
               /\ 0 = IF x.is = "eof" THEN 1 ELSE 0
               /\ x.is = "end" => todo' = << >> /\ "endlist" = "endlist"
    <3>1. Item("end", NoNode, 0).is = "end"
      BY DEF Item
    <3> QED
      BY <2>1, <3>1
  <2> QED
    BY <1>2, <2>1, <2>2, <2>3
<1>8. CASE SendEnd
  <2>1. /\ snd = "endlist" /\ todo' = todo /\ Sends(<<Item("end", NoNode, 0)>>, << >>, "done")
    BY <1>8 DEF SendEnd
  <2>2. Tally(F, todo') \in Nat /\ Tally(F, todo) = Tally(F, todo') + 0
    BY <1>same, <2>1
  <2> QED
    BY <1>2, <2>1, <2>2
<1>9. CASE ReadShort \/ WriteFails
  <2>1. snd' = "exited" /\ UNCHANGED <<mode, disk, changes, todo, marks>> /\ snd # "exited"
    BY <1>9 DEF ReadShort, WriteFails
  <2>2. ToldIn(marks, "end") # {} =>
            todo = << >> /\ TotalIn(marks, HowMany(marks, "eof") + Tally(AllOn(disk), todo))
    BY DEF UploadInv
  <2> QED
    BY <2>1, <2>2 DEF UploadInv
<1> QED
  BY <1>3, <1>4, <1>5, <1>6, <1>7, <1>8, <1>9 DEF Sender

LEMMA NextUpload ==
    ASSUME SourceInv, CountInv, UploadInv, MarkInv, [Next]_vars
    PROVE  UploadInv'
<1> SUFFICES ASSUME mode' = "upload", changes' = 0 PROVE UploadInv'
  BY DEF UploadInv
<1>1. mode = "upload" /\ changes = 0 /\ ~Disturb
  BY DEF Next, Sender, Receiver, Announce, VisitGone, VisitDir, VisitEmptyDir, VisitFile,
      VisitLocked, SendPiece, ReadShort, EndFile, TellEnd, SendEnd, WriteFails, Sends,
      ReadTotals, OpenFile, StoreFails, StorePiece, CloseFile, MakeDir, EndOfItems, ReadFails,
      Receives, MissesEnd, Disturb, SenderLost,
      ReceiverLost, JavaLeaves, sourceVars, vars, SourceInv
<1>2. CASE Sender
  BY <1>1, <1>2, UploadSender
<1>3. CASE Receiver \/ MissesEnd \/ ReceiverLost \/ JavaLeaves \/ UNCHANGED vars
  <2>1. UNCHANGED <<mode, disk, changes, snd, todo>>
    BY <1>3 DEF Receiver, ReadTotals, OpenFile, StoreFails, StorePiece, CloseFile, MakeDir,
        EndOfItems, ReadFails, MissesEnd, Receives, ReceiverLost, JavaLeaves, sourceVars, senderVars,
        vars
  <2>2. marks' = marks
    BY <1>1, <1>3 DEF Receiver, ReadTotals, OpenFile, StoreFails, StorePiece, CloseFile, MakeDir,
        EndOfItems, ReadFails, MissesEnd, Receives, Says, Attached, ReceiverLost, JavaLeaves, vars
  <2> QED
    BY <2>1, <2>2 DEF UploadInv
<1>4. CASE SenderLost
  <2>1. /\ snd \notin {"done", "exited"} /\ snd' = "exited"
        /\ UNCHANGED <<mode, disk, changes, todo, marks>>
    BY <1>4 DEF SenderLost, sourceVars
  <2>2. ToldIn(marks, "end") # {} =>
            todo = << >> /\ TotalIn(marks, HowMany(marks, "eof") + Tally(AllOn(disk), todo))
    BY <1>1 DEF UploadInv
  <2> QED
    BY <2>1, <2>2 DEF UploadInv
<1> QED
  BY <1>1, <1>2, <1>3, <1>4 DEF Next

\* The nodes still to visit after the open file.
Rest == IF snd = "send" THEN Tail(todo) ELSE todo

\* In a download: the ends of files that were told, the open file, the files under
\* way and the readable ones still to visit add up to the readable files of the list.
Balance ==
    Tally(ReadableOn(disk), list) =
        HowMany(marks, "eof") + (IF rcv = "content" THEN 1 ELSE 0)
            + HowMany(net, "file") + Tally(ReadableOn(disk), Rest)

DownloadInv ==
    mode = "download" /\ changes = 0 =>
        /\ \A i \in ToldIn(net, "totals") : net[i].count = Tally(AllOn(disk), list)
        /\ rcv \in {"header", "content", "done"} => TotalIn(marks, Tally(AllOn(disk), list))
        /\ snd # "exited" /\ rcv \notin {"exited", "done"} => Balance
        /\ rcv = "done" => Tally(ReadableOn(disk), list) = HowMany(marks, "eof")

LEMMA InitDownload == Init => DownloadInv
<1> SUFFICES ASSUME Init PROVE DownloadInv
  OBVIOUS
<1>1. /\ snd = "count" /\ rcv = "totals" /\ todo = list /\ net = << >> /\ marks = << >>
      /\ list \in Seq(Nodes)
  BY ConstantsAssumption DEF Init
<1>2. Tally(ReadableOn(disk), list) \in Nat
  BY <1>1, CountedAre, PlacesFinite
<1>3. HowMany(marks, "eof") = 0 /\ HowMany(net, "file") = 0 /\ ToldIn(net, "totals") = {}
  BY <1>1, NoneTold
<1>4. Balance
  BY <1>1, <1>2, <1>3 DEF Balance, Rest
<1> QED
  BY <1>1, <1>3, <1>4 DEF DownloadInv

\* What is counted is a number.
LEMMA Numbers ==
    ASSUME SourceInv, MarkInv
    PROVE  /\ IsSeq(net) /\ IsSeq(marks)
           /\ \A is : HowMany(marks, is) \in Nat /\ HowMany(net, is) \in Nat
           /\ Tally(ReadableOn(disk), Rest) \in Nat /\ Tally(ReadableOn(disk), list) \in Nat
           /\ Tally(ReadableOn(disk), todo) \in Nat
<1>1. IsSeq(net) /\ IsSeq(marks) /\ todo \in Seq(Nodes) /\ list \in Seq(Nodes)
  BY DEF SourceInv, MarkInv
<1>2. Rest \in Seq(Nodes)
  BY <1>1 DEF Rest, SourceInv
<1>3. \A is : HowMany(marks, is) \in Nat /\ HowMany(net, is) \in Nat
  BY <1>1, ToldFinite
<1>4. ReadableOn(disk) \in [Nodes -> SUBSET Nodes]
  BY CountedAre
<1>5. \A s \in Seq(Nodes) : Tally(ReadableOn(disk), s) \in Nat
  BY <1>4, PlacesFinite
<1> QED
  BY <1>1, <1>2, <1>3, <1>5

\* A step of the sender that sends nothing, or one item.
LEMMA DownloadSends ==
    ASSUME SourceInv, MarkInv, DownloadInv, mode = "download", changes = 0,
           NEW items, NEW words, NEW next, Sends(items, words, next),
           snd # "exited", NEW more \in {0, 1}, NEW rest \in Nat,
           snd' = next => Tally(ReadableOn(disk), Rest') = rest,
           Tally(ReadableOn(disk), Rest) = rest + more,
           \/ items = << >> /\ more = 0
           \/ \E x : /\ items = <<x>>
                     /\ more = IF x.is = "file" THEN 1 ELSE 0
                     /\ x.is = "totals" => x.count = Tally(AllOn(disk), list)
    PROVE  DownloadInv'
<1>1. /\ UNCHANGED <<mode, disk, changes, list, rcv, marks>>
      /\ snd' = next
      /\ net' = IF rcv = "exited" THEN net ELSE net \o items
  BY DEF Sends, Says, Then, Attached, Transmit
<1>2. /\ IsSeq(net) /\ HowMany(marks, "eof") \in Nat /\ HowMany(net, "file") \in Nat
  BY Numbers
<1>3. net \o << >> = net
  <2>1. PICK T : net \in Seq(T)
    BY <1>2 DEF IsSeq
  <2> QED
    BY <2>1
<1>4. /\ \A i \in ToldIn(net, "totals") : net[i].count = Tally(AllOn(disk), list)
      /\ rcv \in {"header", "content", "done"} => TotalIn(marks, Tally(AllOn(disk), list))
      /\ rcv \notin {"exited", "done"} => Balance
      /\ rcv = "done" => Tally(ReadableOn(disk), list) = HowMany(marks, "eof")
  BY DEF DownloadInv
<1>5. /\ \A i \in ToldIn(net', "totals") : net'[i].count = Tally(AllOn(disk), list)
      /\ rcv # "exited" => HowMany(net', "file") = HowMany(net, "file") + more
  <2>1. CASE net' = net /\ (more = 0 \/ rcv = "exited")
    BY <1>2, <1>4, <2>1
  <2>2. ASSUME NEW x, net' = net \o <<x>>, more = IF x.is = "file" THEN 1 ELSE 0,
               x.is = "totals" => x.count = Tally(AllOn(disk), list)
        PROVE  /\ \A i \in ToldIn(net', "totals") : net'[i].count = Tally(AllOn(disk), list)
               /\ HowMany(net', "file") = HowMany(net, "file") + more
    <3>1. Grown(net, x, net')
      BY <1>2, <2>2 DEF Grown
    <3>2. HowMany(net', "file") = HowMany(net, "file") + IF x.is = "file" THEN 1 ELSE 0
      BY <3>1, OneMore
    <3>3. \A i \in ToldIn(net', "totals") : \/ i \in ToldIn(net, "totals") /\ net'[i] = net[i]
                                            \/ x.is = "totals" /\ net'[i] = x
      BY <3>1, OneMore
    <3> QED
      BY <1>4, <2>2, <3>2, <3>3
  <2> QED
    BY <1>1, <1>3, <2>1, <2>2
<1>6. ASSUME rcv \notin {"exited", "done"} PROVE Balance'
  <2>1. Tally(ReadableOn(disk), list) =
          HowMany(marks, "eof") + (IF rcv = "content" THEN 1 ELSE 0)
            + HowMany(net, "file") + (rest + more)
    BY <1>4, <1>6 DEF Balance
  <2>2. HowMany(net', "file") = HowMany(net, "file") + more
    BY <1>5, <1>6
  <2>3. Tally(ReadableOn(disk), list) =
          HowMany(marks, "eof") + (IF rcv = "content" THEN 1 ELSE 0)
            + HowMany(net', "file") + rest
    BY <1>2, <2>1, <2>2
  <2>4. Tally(ReadableOn(disk), Rest') = rest
    BY <1>1
  <2> QED
    BY <1>1, <2>3, <2>4 DEF Balance
<1> QED
  BY <1>1, <1>4, <1>5, <1>6 DEF DownloadInv

LEMMA DownloadSender ==
    ASSUME SourceInv, CountInv, MarkInv, DownloadInv, mode = "download", changes = 0, Sender
    PROVE  DownloadInv'
<1> DEFINE R == ReadableOn(disk)
<1>0. /\ Tally(R, Rest) \in Nat /\ Tally(R, todo) \in Nat
      /\ snd = "send" => todo # << >> /\ disk[Head(todo)] \in Sizes
  BY Numbers DEF SourceInv, CountInv
<1>1. /\ snd # "send" => Tally(R, Rest) = Tally(R, todo)
      /\ snd = "send" => Tally(R, Rest) = Tally(R, Tail(todo))
      /\ snd' # "send" => Tally(R, Rest') = Tally(R, todo')
      /\ snd' = "send" => Tally(R, Rest') = Tally(R, Tail(todo'))
  BY DEF Rest
<1> HIDE DEF R
<1>2. ASSUME NEW items, NEW words, NEW next, Sends(items, words, next), snd # "exited",
             snd' = next => Tally(R, Rest') = Tally(R, Rest),
             \/ items = << >>
             \/ \E x : /\ items = <<x>> /\ x.is # "file"
                       /\ x.is = "totals" => x.count = Tally(AllOn(disk), list)
      PROVE  DownloadInv'
  <2>1. Tally(R, Rest) = Tally(R, Rest) + 0
    BY <1>0
  <2>2. \/ items = << >> /\ 0 = 0
        \/ \E x : /\ items = <<x>>
                  /\ 0 = IF x.is = "file" THEN 1 ELSE 0
                  /\ x.is = "totals" => x.count = Tally(AllOn(disk), list)
    BY <1>2
  <2> QED
    BY <1>0, <1>2, <2>1, <2>2, DownloadSends DEF R
<1>3. CASE Announce
  <2> DEFINE x == Item("totals", NoNode, FilesIn(todo))
  <2>1. /\ snd = "count" /\ todo' = todo /\ Sends(<<x>>, <<x>>, "visit")
    BY <1>3 DEF Announce
  <2>2. x.is = "totals" /\ x.count = Tally(AllOn(disk), list)
    <3>1. todo = list /\ list \in Seq(Nodes)
      BY <2>1 DEF CountInv, SourceInv
    <3> QED
      BY <3>1, FilesInIs DEF Item
  <2>3. snd' = "visit" => Tally(R, Rest') = Tally(R, Rest)
    BY <1>1, <2>1
  <2> HIDE DEF x
  <2> QED
    BY <1>2, <2>1, <2>2, <2>3
<1>4. CASE VisitGone \/ VisitDir \/ VisitLocked
  <2>1. snd = "visit" /\ \E words : Sends(<< >>, words, "visit")
    BY <1>4 DEF VisitGone, VisitDir, VisitLocked
  <2>2. Tally(R, todo') = Tally(R, todo)
    BY <1>4, GoneLeaves, DirOpens, LockedLeaves DEF R
  <2>3. snd' = "visit" => Tally(R, Rest') = Tally(R, Rest)
    BY <1>1, <2>1, <2>2
  <2> QED
    BY <1>2, <2>1, <2>3
<1>5. CASE VisitEmptyDir
  <2> DEFINE x == Item("dir", Head(todo), 0)
  <2>1. snd = "visit" /\ Sends(<<x>>, << >>, "visit")
    BY <1>5 DEF VisitEmptyDir
  <2>2. Tally(R, todo') = Tally(R, todo)
    BY <1>5, EmptyDirLeaves DEF R
  <2>3. snd' = "visit" => Tally(R, Rest') = Tally(R, Rest)
    BY <1>1, <2>1, <2>2
  <2>4. x.is \notin {"file", "totals"}
    BY DEF Item
  <2> HIDE DEF x
  <2> QED
    BY <1>2, <2>1, <2>3, <2>4
<1>6. CASE VisitFile
  <2> DEFINE x == Item("file", Head(todo), left')
  <2>1. /\ snd = "visit" /\ todo # << >> /\ disk[Head(todo)] \in Sizes /\ todo' = todo
        /\ Sends(<<x>>, <<Item("size", Head(todo), left')>>, "send")
    BY <1>6 DEF VisitFile
  <2>2. Tally(R, todo) = Tally(R, Tail(todo)) + 1
    BY <2>1, FileLeaves DEF R
  <2>3. Tally(R, Tail(todo)) \in Nat
    <3>1. Tail(todo) \in Seq(Nodes) /\ R \in [Nodes -> SUBSET Nodes]
      BY <2>1, CountedAre DEF SourceInv, R
    <3> QED
      BY <3>1, PlacesFinite
  <2>4. /\ snd' = "send" => Tally(R, Rest') = Tally(R, Tail(todo))
        /\ Tally(R, Rest) = Tally(R, Tail(todo)) + 1
    BY <1>1, <2>1, <2>2
  <2>5. x.is = "file"
    BY DEF Item
  <2> HIDE DEF x
  <2>6. \E y : /\ <<x>> = <<y>>
               /\ 1 = IF y.is = "file" THEN 1 ELSE 0
               /\ y.is = "totals" => y.count = Tally(AllOn(disk), list)
    BY <2>5
  <2> QED
    BY <2>1, <2>3, <2>4, <2>6, DownloadSends DEF R
<1>7. CASE SendPiece
  <2> DEFINE x == Item("piece", Head(todo), 0)
  <2>1. /\ snd = "send" /\ todo' = todo
        /\ Sends(<<x>>, <<Item("progress", Head(todo), 0)>>, "send")
    BY <1>7 DEF SendPiece
  <2>2. snd' = "send" => Tally(R, Rest') = Tally(R, Rest)
    BY <1>1, <2>1
  <2>3. x.is \notin {"file", "totals"}
    BY DEF Item
  <2> HIDE DEF x
  <2> QED
    BY <1>2, <2>1, <2>2, <2>3
<1>8. CASE EndFile
  <2>1. /\ snd = "send" /\ todo' = Tail(todo) /\ \E words : Sends(<< >>, words, "visit")
    BY <1>8 DEF EndFile
  <2>2. snd' = "visit" => Tally(R, Rest') = Tally(R, Rest)
    BY <1>1, <2>1
  <2> QED
    BY <1>2, <2>1, <2>2
<1>9. CASE TellEnd
  <2>1. /\ snd = "visit" /\ todo' = todo /\ \E words : Sends(<< >>, words, "endlist")
    BY <1>9 DEF TellEnd
  <2>2. snd' = "endlist" => Tally(R, Rest') = Tally(R, Rest)
    BY <1>1, <2>1
  <2> QED
    BY <1>2, <2>1, <2>2
<1>10. CASE SendEnd
  <2> DEFINE x == Item("end", NoNode, 0)
  <2>1. /\ snd = "endlist" /\ todo' = todo /\ Sends(<<x>>, << >>, "done")
    BY <1>10 DEF SendEnd
  <2>2. snd' = "done" => Tally(R, Rest') = Tally(R, Rest)
    BY <1>1, <2>1
  <2>3. x.is \notin {"file", "totals"}
    BY DEF Item
  <2> HIDE DEF x
  <2> QED
    BY <1>2, <2>1, <2>2, <2>3
<1>11. CASE ReadShort \/ WriteFails
  <2>1. snd' = "exited" /\ UNCHANGED <<mode, disk, changes, list, rcv, net, marks>>
    BY <1>11 DEF ReadShort, WriteFails
  <2> QED
    BY <2>1 DEF DownloadInv
<1> QED
  BY <1>3, <1>4, <1>5, <1>6, <1>7, <1>8, <1>9, <1>10, <1>11 DEF Sender

\* The receiver takes an item that leaves the balance as it is.
LEMMA DownloadReceives ==
    ASSUME SourceInv, MarkInv, DownloadInv, mode = "download", changes = 0,
           NEW words, NEW next, Receives(words, next), net # << >>,
           rcv \notin {"exited", "done"}, next \in {"header", "content"},
           \/ words = << >>
           \/ \E x : words = <<x>> /\ x.is # "eof",
           (IF next = "content" THEN 1 ELSE 0) =
               (IF rcv = "content" THEN 1 ELSE 0) + (IF Head(net).is = "file" THEN 1 ELSE 0),
           rcv \in {"header", "content"} \/ (words = <<Head(net)>> /\ Head(net).is = "totals")
    PROVE  DownloadInv'
<1>1. /\ UNCHANGED <<mode, disk, changes, list, snd, todo>> /\ net' = Tail(net)
      /\ rcv' = IF ~java /\ words # << >> THEN "exited" ELSE next
      /\ marks' = IF java THEN marks \o words ELSE marks
  BY DEF Receives, Says, Then, Attached, sourceVars
<1>2. /\ IsSeq(net) /\ IsSeq(marks)
      /\ \A is : HowMany(marks, is) \in Nat /\ HowMany(net, is) \in Nat
      /\ Tally(ReadableOn(disk), Rest) \in Nat /\ Tally(ReadableOn(disk), list) \in Nat
  BY Numbers
<1>3. marks \o << >> = marks
  <2>1. PICK T : marks \in Seq(T)
    BY <1>2 DEF IsSeq
  <2> QED
    BY <2>1
<1>4. /\ \A i \in ToldIn(net, "totals") : net[i].count = Tally(AllOn(disk), list)
      /\ rcv \in {"header", "content"} => TotalIn(marks, Tally(AllOn(disk), list))
      /\ snd # "exited" => Balance
  BY DEF DownloadInv
<1>5. /\ HowMany(net, "file") = HowMany(net', "file") + IF Head(net).is = "file" THEN 1 ELSE 0
      /\ \A i \in ToldIn(net', "totals") : net'[i].count = Tally(AllOn(disk), list)
      /\ Head(net).is = "totals" => Head(net).count = Tally(AllOn(disk), list)
  <2>1. \A i \in ToldIn(Tail(net), "totals") :
            i + 1 \in ToldIn(net, "totals") /\ Tail(net)[i] = net[i + 1]
    BY <1>2, OneLess
  <2>2. /\ HowMany(net, "file") =
               HowMany(Tail(net), "file") + IF Head(net).is = "file" THEN 1 ELSE 0
        /\ Head(net).is = "totals" => 1 \in ToldIn(net, "totals")
        /\ Head(net) = net[1]
    BY <1>2, OneLess
  <2> QED
    BY <1>1, <1>4, <2>1, <2>2
<1>6. CASE rcv' = "exited"
  BY <1>1, <1>5, <1>6 DEF DownloadInv
<1>7. CASE rcv' # "exited"
  <2>1. rcv' = next /\ (words = << >> \/ java)
    BY <1>1, <1>7
  <2>2. HowMany(marks', "eof") = HowMany(marks, "eof") /\ TotalIn(marks', Tally(AllOn(disk), list))
    <3>1. CASE words = << >>
      BY <1>1, <1>3, <1>4, <3>1
    <3>2. ASSUME NEW x, words = <<x>>, x.is # "eof"
          PROVE  /\ HowMany(marks', "eof") = HowMany(marks, "eof")
                 /\ TotalIn(marks', Tally(AllOn(disk), list))
      <4>1. Grown(marks, x, marks')
        BY <1>1, <1>2, <2>1, <3>2 DEF Grown
      <4>2. /\ HowMany(marks', "eof") = HowMany(marks, "eof") + 0
            /\ \A count : TotalIn(marks, count) => TotalIn(marks', count)
            /\ x.is = "totals" => TotalIn(marks', x.count)
        BY <3>2, <4>1, OneMore
      <4>3. HowMany(marks', "eof") = HowMany(marks, "eof")
        BY <1>2, <4>2
      <4>4. \/ rcv \in {"header", "content"}
            \/ x.is = "totals" /\ x.count = Tally(AllOn(disk), list)
        BY <1>5, <3>2
      <4> QED
        BY <1>4, <4>2, <4>3, <4>4
    <3> QED
      BY <3>1, <3>2
  <2>3. ASSUME snd # "exited" PROVE Balance'
    <3>1. HowMany(net', "file") \in Nat
      <4>1. IsSeq(net')
        BY <1>1, <1>2, SeqLess
      <4> QED
        BY <4>1, ToldFinite
    <3>2. Tally(ReadableOn(disk), list) =
            HowMany(marks', "eof") + (IF rcv = "content" THEN 1 ELSE 0)
              + (HowMany(net', "file") + IF Head(net).is = "file" THEN 1 ELSE 0)
              + Tally(ReadableOn(disk), Rest)
      BY <1>4, <1>5, <2>2, <2>3 DEF Balance
    <3>3. Tally(ReadableOn(disk), list) =
            HowMany(marks', "eof") + (IF rcv' = "content" THEN 1 ELSE 0)
              + HowMany(net', "file") + Tally(ReadableOn(disk), Rest)
      <4>1. HowMany(marks', "eof") \in Nat
        BY <1>2, <2>2
      <4> QED
        BY <1>2, <2>1, <3>1, <3>2, <4>1
    <3>4. Rest' = Rest
      BY <1>1 DEF Rest
    <3> QED
      BY <1>1, <3>3, <3>4 DEF Balance
  <2> QED
    BY <1>1, <1>5, <2>1, <2>2, <2>3 DEF DownloadInv
<1> QED
  BY <1>6, <1>7

LEMMA DownloadReceiver ==
    ASSUME SyncInv, SourceInv, MarkInv, DownloadInv, mode = "download", changes = 0, Receiver
    PROVE  DownloadInv'
<1>1. CASE ReadTotals
  <2>1. /\ rcv = "totals" /\ net # << >> /\ Head(net).is = "totals"
        /\ Receives(<<Head(net)>>, "header")
    BY <1>1 DEF ReadTotals, Arrives
  <2>2. (IF "header" = "content" THEN 1 ELSE 0) =
            (IF rcv = "content" THEN 1 ELSE 0) + (IF Head(net).is = "file" THEN 1 ELSE 0)
    BY <2>1
  <2>3. \E x : <<Head(net)>> = <<x>> /\ x.is # "eof"
    BY <2>1
  <2> QED
    BY <2>1, <2>2, <2>3, DownloadReceives
<1>2. CASE OpenFile
  <2> DEFINE x == Item("size", Head(net).node, Head(net).count)
  <2>1. /\ rcv = "header" /\ net # << >> /\ Head(net).is = "file" /\ Receives(<<x>>, "content")
    BY <1>2 DEF OpenFile, Arrives
  <2>2. (IF "content" = "content" THEN 1 ELSE 0) =
            (IF rcv = "content" THEN 1 ELSE 0) + (IF Head(net).is = "file" THEN 1 ELSE 0)
    BY <2>1
  <2>3. x.is # "eof"
    BY DEF Item
  <2> HIDE DEF x
  <2>4. \E y : <<x>> = <<y>> /\ y.is # "eof"
    BY <2>3
  <2> QED
    BY <2>1, <2>2, <2>4, DownloadReceives
<1>3. CASE StorePiece
  <2> DEFINE x == Item("progress", file, 0)
  <2>1. /\ rcv = "content" /\ net # << >> /\ Head(net).is = "piece" /\ Receives(<<x>>, "content")
    BY <1>3 DEF StorePiece, Arrives
  <2>2. (IF "content" = "content" THEN 1 ELSE 0) =
            (IF rcv = "content" THEN 1 ELSE 0) + (IF Head(net).is = "file" THEN 1 ELSE 0)
    BY <2>1
  <2>3. x.is # "eof"
    BY DEF Item
  <2> HIDE DEF x
  <2>4. \E y : <<x>> = <<y>> /\ y.is # "eof"
    BY <2>3
  <2> QED
    BY <2>1, <2>2, <2>4, DownloadReceives
<1>4. CASE MakeDir
  <2>1. /\ rcv = "header" /\ net # << >> /\ Head(net).is = "dir" /\ Receives(<< >>, "header")
    BY <1>4 DEF MakeDir, Arrives
  <2>2. (IF "header" = "content" THEN 1 ELSE 0) =
            (IF rcv = "content" THEN 1 ELSE 0) + (IF Head(net).is = "file" THEN 1 ELSE 0)
    BY <2>1
  <2> QED
    BY <2>1, <2>2, DownloadReceives
<1>5. CASE CloseFile
  <2> DEFINE x == Item("eof", file, 0)
  <2>1. /\ rcv = "content" /\ UNCHANGED <<mode, disk, changes, list, snd, todo, net>>
        /\ rcv' = IF ~java THEN "exited" ELSE "header"
        /\ marks' = IF java THEN marks \o <<x>> ELSE marks
    BY <1>5 DEF CloseFile, Says, Then, Attached, sourceVars, senderVars
  <2>2. x.is = "eof"
    BY DEF Item
  <2> HIDE DEF x
  <2>3. /\ \A i \in ToldIn(net, "totals") : net[i].count = Tally(AllOn(disk), list)
        /\ TotalIn(marks, Tally(AllOn(disk), list))
        /\ snd # "exited" => Balance
    BY <2>1 DEF DownloadInv
  <2>4. CASE ~java
    BY <2>1, <2>3, <2>4 DEF DownloadInv
  <2>5. CASE java
    <3>1. /\ IsSeq(marks) /\ HowMany(marks, "eof") \in Nat /\ HowMany(net, "file") \in Nat
          /\ Tally(ReadableOn(disk), Rest) \in Nat
      BY Numbers
    <3>2. Grown(marks, x, marks') /\ rcv' = "header"
      BY <2>1, <2>5, <3>1 DEF Grown
    <3>3. HowMany(marks', "eof") = HowMany(marks, "eof") + 1
      BY <2>2, <3>2, OneMore
    <3>4. TotalIn(marks', Tally(AllOn(disk), list))
      BY <2>3, <3>2, OneMore
    <3>5. ASSUME snd # "exited" PROVE Balance'
      <4>1. Tally(ReadableOn(disk), list) =
              HowMany(marks, "eof") + 1 + HowMany(net, "file") + Tally(ReadableOn(disk), Rest)
        BY <2>1, <2>3, <3>5 DEF Balance
      <4>2. Tally(ReadableOn(disk), list) =
              HowMany(marks', "eof") + 0 + HowMany(net, "file") + Tally(ReadableOn(disk), Rest)
        BY <3>1, <3>3, <4>1
      <4>3. Rest' = Rest
        BY <2>1 DEF Rest
      <4> QED
        BY <2>1, <3>2, <4>2, <4>3 DEF Balance
    <3> QED
      BY <2>1, <2>3, <3>2, <3>4, <3>5 DEF DownloadInv
  <2> QED
    BY <2>4, <2>5
<1>6. CASE EndOfItems
  <2>1. /\ rcv = "header" /\ net # << >> /\ Head(net).is = "end"
        /\ UNCHANGED <<mode, disk, changes, list, snd, todo>> /\ net' = Tail(net)
        /\ rcv' = IF ~java THEN "exited" ELSE "done"
        /\ marks' = IF java THEN marks \o <<Head(net)>> ELSE marks
    BY <1>6 DEF EndOfItems, Arrives, Receives, Says, Then, Attached, sourceVars
  <2>2. snd # "exited"
    <3>1. 1 \in 1 .. Len(net) /\ Head(net) = net[1]
      BY <2>1, SeqLess DEF SourceInv
    <3> QED
      BY <2>1, <3>1 DEF SourceInv
  <2>3. Tail(net) = << >> /\ todo = << >> /\ snd = "done"
    BY <2>1, <2>2, EndIsLast
  <2>4. ToldIn(net', "totals") = {}
    BY <2>1, <2>3, NoneTold
  <2>5. CASE ~java
    BY <2>1, <2>4, <2>5 DEF DownloadInv
  <2>6. CASE java
    <3>1. IsSeq(marks) /\ HowMany(marks, "eof") \in Nat /\ IsSeq(net)
      BY Numbers
    <3>2. Grown(marks, Head(net), marks') /\ rcv' = "done"
      BY <2>1, <2>6, <3>1 DEF Grown
    <3>3. HowMany(marks', "eof") = HowMany(marks, "eof") + 0
      BY <2>1, <3>2, OneMore
    <3>4. TotalIn(marks', Tally(AllOn(disk), list))
      <4>1. TotalIn(marks, Tally(AllOn(disk), list))
        BY <2>1 DEF DownloadInv
      <4> QED
        BY <3>2, <4>1, OneMore
    <3>5. HowMany(net, "file") = 0
      <4>1. HowMany(net, "file") =
                HowMany(Tail(net), "file") + IF Head(net).is = "file" THEN 1 ELSE 0
        BY <2>1, <3>1, OneLess
      <4>2. HowMany(Tail(net), "file") = 0
        BY <2>3, NoneTold
      <4> QED
        BY <2>1, <4>1, <4>2
    <3>6. Tally(ReadableOn(disk), Rest) = 0
      BY <2>3, TallyNone DEF Rest
    <3>7. Balance
      BY <2>1, <2>2 DEF DownloadInv
    <3>8. Tally(ReadableOn(disk), list) = HowMany(marks, "eof") + 0 + 0 + 0
      BY <2>1, <3>5, <3>6, <3>7 DEF Balance
    <3>9. Tally(ReadableOn(disk), list) = HowMany(marks', "eof")
      BY <3>1, <3>3, <3>8
    <3> QED
      BY <2>1, <2>4, <3>2, <3>4, <3>9 DEF DownloadInv
  <2> QED
    BY <2>5, <2>6
<1>7. CASE StoreFails \/ ReadFails
  <2>1. /\ rcv' = "exited" /\ UNCHANGED <<mode, disk, changes, list>> /\ net' \in {net, << >>}
    BY <1>7 DEF StoreFails, ReadFails, sourceVars
  <2>2. \A i \in ToldIn(net', "totals") : net'[i].count = Tally(AllOn(disk), list)
    BY <2>1, NoneTold DEF DownloadInv
  <2> QED
    BY <2>1, <2>2 DEF DownloadInv
<1> QED
  BY <1>1, <1>2, <1>3, <1>4, <1>5, <1>6, <1>7 DEF Receiver

LEMMA NextDownload ==
    ASSUME SyncInv, SourceInv, CountInv, MarkInv, DownloadInv, [Next]_vars
    PROVE  DownloadInv'
<1> SUFFICES ASSUME mode' = "download", changes' = 0 PROVE DownloadInv'
  BY DEF DownloadInv
<1>1. mode = "download" /\ changes = 0 /\ ~Disturb
  BY DEF Next, Sender, Receiver, Announce, VisitGone, VisitDir, VisitEmptyDir, VisitFile,
      VisitLocked, SendPiece, ReadShort, EndFile, TellEnd, SendEnd, WriteFails, Sends,
      ReadTotals, OpenFile, StoreFails, StorePiece, CloseFile, MakeDir, EndOfItems, ReadFails,
      Receives, MissesEnd, Disturb, SenderLost,
      ReceiverLost, JavaLeaves, sourceVars, vars, SourceInv
<1>2. CASE Sender
  BY <1>1, <1>2, DownloadSender
<1>3. CASE Receiver
  BY <1>1, <1>3, DownloadReceiver
<1>4. CASE MissesEnd \/ SenderLost \/ ReceiverLost
  <2>1. /\ UNCHANGED <<mode, disk, changes, list, marks>> /\ net' \in {net, << >>}
        /\ \/ snd' = "exited" /\ rcv' \in {rcv, "deaf"}
           \/ rcv' = "exited"
    BY <1>4 DEF MissesEnd, SessionOver, SenderLost, ReceiverLost, sourceVars, senderVars,
                receiverVars
  <2>2. \A i \in ToldIn(net', "totals") : net'[i].count = Tally(AllOn(disk), list)
    BY <1>1, <2>1, NoneTold DEF DownloadInv
  <2> QED
    BY <1>1, <2>1, <2>2 DEF DownloadInv
<1>5. CASE JavaLeaves \/ UNCHANGED vars
  <2>1. UNCHANGED <<mode, list, disk, changes, snd, todo, net, rcv, marks>>
    BY <1>5 DEF JavaLeaves, vars, sourceVars, senderVars, receiverVars
  <2>2. Balance => Balance'
    <3>1. Rest' = Rest
      BY <2>1 DEF Rest
    <3> QED
      BY <2>1, <3>1 DEF Balance
  <2> QED
    BY <1>1, <2>1, <2>2 DEF DownloadInv
<1> QED
  BY <1>1, <1>2, <1>3, <1>4, <1>5 DEF Next

\* All files of the list are readable or are not.
LEMMA ReadableOrNot ==
    ASSUME SourceInv
    PROVE  Tally(AllOn(disk), list) = Tally(ReadableOn(disk), list) + Unreadable
<1> DEFINE A == Places(ReadableOn(disk), list)
           B == {c \in Counted(list) : disk[c[2]] = Locked}
<1>1. list \in Seq(Nodes) /\ \A i \in DOMAIN list : list[i] \in Nodes
  BY DEF SourceInv
<1>2. /\ AllOn(disk) \in [Nodes -> SUBSET Nodes]
      /\ \A n \in Nodes : ReadableOn(disk)[n] = {m \in AllOn(disk)[n] : disk[m] # Locked}
  BY CountedAre
<1>3. Counted(list) = Places(AllOn(disk), list) /\ IsFiniteSet(Counted(list))
  BY <1>1, <1>2, FilesInIs, PlacesFinite
<1>4. A = {c \in Counted(list) : disk[c[2]] # Locked}
  <2>1. ASSUME NEW c PROVE c \in A <=> c \in Counted(list) /\ disk[c[2]] # Locked
    <3>1. c \in A <=> \E i \in DOMAIN list : \E m \in ReadableOn(disk)[list[i]] : c = <<i, m>>
      BY PlaceIs
    <3>2. c \in Counted(list) <=>
              \E i \in DOMAIN list : \E m \in AllOn(disk)[list[i]] : c = <<i, m>>
      BY <1>3, PlaceIs
    <3> HIDE DEF A
    <3>3. ASSUME c \in A PROVE c \in Counted(list) /\ disk[c[2]] # Locked
      <4>1. PICK i \in DOMAIN list : \E m \in ReadableOn(disk)[list[i]] : c = <<i, m>>
        BY <3>1, <3>3
      <4>2. PICK m \in ReadableOn(disk)[list[i]] : c = <<i, m>>
        BY <4>1
      <4>3. m \in AllOn(disk)[list[i]] /\ disk[m] # Locked /\ c[2] = m
        BY <1>1, <1>2, <4>2
      <4> QED
        BY <3>2, <4>2, <4>3
    <3>4. ASSUME c \in Counted(list), disk[c[2]] # Locked PROVE c \in A
      <4>1. PICK i \in DOMAIN list : \E m \in AllOn(disk)[list[i]] : c = <<i, m>>
        BY <3>2, <3>4
      <4>2. PICK m \in AllOn(disk)[list[i]] : c = <<i, m>>
        BY <4>1
      <4>3. m \in ReadableOn(disk)[list[i]]
        BY <1>1, <1>2, <3>4, <4>2
      <4> QED
        BY <3>1, <4>2, <4>3
    <3> QED
      BY <3>3, <3>4
  <2> HIDE DEF A
  <2> QED
    BY <2>1
<1> HIDE DEF A
<1>5. A \cup B = Counted(list) /\ A \cap B = {} /\ A \subseteq Counted(list) /\ B \subseteq Counted(list)
  BY <1>4
<1> HIDE DEF B
<1>6. /\ IsFiniteSet(A) /\ IsFiniteSet(B) /\ Cardinality(A) \in Nat /\ Cardinality(B) \in Nat
  BY <1>3, <1>5, FS_Subset, FS_CardinalityType
<1>7. Cardinality(A \cup B) = Cardinality(A) + Cardinality(B) - Cardinality(A \cap B)
  BY <1>6, FS_Union
<1>8. Cardinality(A \cap B) = 0
  BY <1>5, FS_EmptySet
<1>9. Cardinality(Counted(list)) = Cardinality(A) + Cardinality(B)
  BY <1>5, <1>6, <1>7, <1>8
<1>10. /\ Tally(AllOn(disk), list) = Cardinality(Counted(list))
       /\ Tally(ReadableOn(disk), list) = Cardinality(A) /\ Unreadable = Cardinality(B)
  BY <1>3 DEF Tally, Unreadable, A, B
<1> QED
  BY <1>9, <1>10

\* In a transfer from a source that nobody changed the ends of files that the local
\* client is told add up to the announced total, in a download but for the files that
\* cannot be opened: whatever the tree, whatever the selection names twice.
THEOREM OuterProgressAddsUp == Spec => []OuterProgress
<1> DEFINE I == /\ SyncInv /\ SourceInv /\ Destinations /\ MarkInv
                /\ CountInv /\ UploadInv /\ DownloadInv
<1>1. Init => I
  <2>1. Init => Destinations
    BY DEF Init, Destinations
  <2> QED
    BY <2>1, InitSync, InitSource, InitMarks, InitCount, InitUpload, InitDownload
<1>2. I /\ [Next]_vars => I'
  BY NextSync, NextSource, OverwritesNothing, NextMarks, NextCount, NextUpload, NextDownload
<1>3. I => OuterProgress
  <2> SUFFICES ASSUME I, mode # "fds", Told("end") # {}, changes = 0
               PROVE  \E i \in Told("totals") : marks[i].count =
                          Cardinality(Told("eof")) + IF mode = "download" THEN Unreadable ELSE 0
    BY DEF OuterProgress
  <2>1. \A is : Told(is) = ToldIn(marks, is)
    BY DEF Told, ToldIn
  <2>2. HowMany(marks, "eof") = Cardinality(Told("eof")) /\ HowMany(marks, "eof") \in Nat
    BY <2>1, Numbers DEF HowMany
  <2>3. CASE mode = "upload"
    <3>1. todo = << >> /\ TotalIn(marks, HowMany(marks, "eof") + Tally(AllOn(disk), todo))
      BY <2>1, <2>3 DEF UploadInv
    <3>2. Tally(AllOn(disk), todo) = 0
      BY <3>1, TallyNone
    <3>3. TotalIn(marks, Cardinality(Told("eof")) + 0)
      BY <2>2, <3>1, <3>2
    <3> QED
      BY <2>1, <2>3, <3>3 DEF TotalIn
  <2>4. CASE mode = "download"
    <3>1. rcv = "done"
      BY <2>1, <2>4 DEF MarkInv
    <3>2. /\ TotalIn(marks, Tally(AllOn(disk), list))
          /\ Tally(ReadableOn(disk), list) = HowMany(marks, "eof")
      BY <2>4, <3>1 DEF DownloadInv
    <3>3. TotalIn(marks, Cardinality(Told("eof")) + Unreadable)
      BY <2>2, <3>2, ReadableOrNot
    <3> QED
      BY <2>1, <2>4, <3>3 DEF TotalIn
  <2> QED
    BY <2>3, <2>4 DEF CountInv
<1> HIDE DEF I
<1> QED
  BY <1>1, <1>2, <1>3, PTL DEF Spec

=============================================================================
