------------------------------- MODULE Transfer -------------------------------
(***************************************************************************)
(* The transfer of files and directories between the two ends of a TLS     *)
(* session: genericUploadBasicRecursiveImplWithProgress on the side that   *)
(* has them, downloadRemoteItems on the side that stores them              *)
(* (RootHelper/Utils.h), and the requests that start them                  *)
(* (RootHelper/r.cpp).  In an upload, also of file descriptors, the sender *)
(* is the client process and reports its progress to the local client      *)
(* ("java"); in a download the receiver is.  The source may change while   *)
(* it is read, the destination may be occupied, and everybody may leave.   *)
(***************************************************************************)
EXTENDS Integers, Sequences, FiniteSets, SequencesExt

CONSTANTS
    Nodes,          \* the source: files, symbolic links and directories
    Links, Dirs,    \* which of them are links, and directories
    Kids,           \* directory |-> its entries
    LinkSize,       \* the size lstat reports for a link: the length of its text
    Selections,     \* the lists of sources a client may ask for
    Modes,          \* "upload", "fds" (client_upload_from_fds), "download"
    MaxSize,        \* bound: pieces (whole chunks and a remainder) of a file
    NetCap,         \* items under way before the sender blocks
    MaxDisturb,     \* bound: changes of the source during a transfer
    NoNode,
    Gone, Locked,   \* of a source: no such name; it cannot be opened (or dangles)
    Absent, Foreign,\* of a destination: nothing there; something of before
    Folder

ASSUME ConstantsAssumption ==
    /\ Links \subseteq Nodes /\ Dirs \subseteq Nodes /\ Links \cap Dirs = {}
    /\ Kids \in [Dirs -> SUBSET Nodes] /\ \A d \in Dirs : IsFiniteSet(Kids[d])
    /\ Selections \subseteq Seq(Nodes)
    /\ Modes \subseteq {"upload", "fds", "download"} /\ NoNode \notin Nodes
    /\ LinkSize \in Nat /\ MaxSize \in Nat /\ NetCap \in Nat \ {0} /\ MaxDisturb \in Nat
    /\ {Gone, Locked, Absent, Foreign, Folder} \cap Int = {}
    /\ Gone \notin {Locked, Folder} /\ Locked # Folder
    /\ Absent \notin {Foreign, Folder} /\ Foreign # Folder

\* The source is a tree: a node is an entry of one directory at most, and deeper
\* than that.
ASSUME TreeAssumption ==
    /\ IsFiniteSet(Nodes)
    /\ \A d, e \in Dirs : d # e => Kids[d] \cap Kids[e] = {}
    /\ \E depth \in [Nodes -> 0 .. Cardinality(Nodes)] :
          \A d \in Dirs : \A k \in Kids[d] : depth[k] > depth[d]

VARIABLES
    mode,      \* which request this is
    list,      \* the sources it names
    disk,      \* node |-> Gone, Locked, Folder or the size of its content
    changes,   \* changes of the source so far
    snd,       \* sender: "count", "visit", "send", "endlist", "done", "exited"
    todo,      \* sender: the nodes still to visit, the open file first
    left,      \* sender: pieces of the open file still to send
    read,      \* sender: pieces of the open file already read
    net,       \* what is under way to the receiver
    rcv,       \* receiver: "totals", "header", "content", "done", "exited", "deaf"
    file,      \* receiver: the file it is writing
    want,      \* receiver: pieces of that file still to come
    dst,       \* destination of a node |-> Absent, Foreign, Folder or the pieces stored
    java,      \* the local client is there
    marks      \* what the local client was told

sourceVars == <<mode, list, disk, changes>>
senderVars == <<snd, todo, left, read>>
receiverVars == <<rcv, file, want, dst>>
vars == <<mode, list, disk, changes, snd, todo, left, read, net, rcv, file, want, dst, java, marks>>

Sizes == 0 .. MaxSize
Contents(n) == IF n \in Dirs THEN {Gone, Locked, Folder} ELSE {Gone, Locked} \cup Sizes

Item(is, n, count) == [is |-> is, node |-> n, count |-> count]

Init ==
    /\ mode \in Modes
    /\ disk \in [Nodes -> {Gone, Locked, Folder} \cup Sizes]
    /\ \A n \in Nodes : disk[n] \in Contents(n)
    /\ changes = 0 /\ snd = "count" /\ left = 0 /\ read = 0
    /\ list \in Selections /\ todo = list
    /\ mode = "fds" => \A i \in DOMAIN list : disk[list[i]] \in Sizes
    /\ net = << >> /\ rcv = "totals" /\ file = NoNode /\ want = 0
    /\ \E occupied \in SUBSET Nodes :
          /\ Cardinality(occupied) <= 1
          /\ dst = [n \in Nodes |-> IF n \in occupied THEN Foreign ELSE Absent]
    /\ java = TRUE /\ marks = << >>

-----------------------------------------------------------------------------
\* Writes.  The progress goes to the side that has the local client; a failed
\* write ends that side's session.

Attached(side) == side = IF mode = "download" THEN "receiver" ELSE "sender"

Says(side, words) == marks' = IF Attached(side) /\ java THEN marks \o words ELSE marks

Then(side, words, next) ==
    IF Attached(side) /\ ~java /\ words # << >> THEN "exited" ELSE next

\* The write blocks while the session is full; towards a receiver that is gone
\* it may still seem to succeed.
Transmit(items) ==
    /\ rcv = "exited" \/ Len(net) < NetCap
    /\ net' = IF rcv = "exited" THEN net ELSE net \o items

Sends(items, words, next) ==
    /\ Transmit(items) /\ Says("sender", words) /\ snd' = Then("sender", words, next)
    /\ UNCHANGED <<mode, list, disk, changes, rcv, file, want, dst, java>>

-----------------------------------------------------------------------------
\* The sender.

\* What lstat finds in a directory, in the order of the iterator.
Listed(d) == {k \in Kids[d] : disk[k] # Gone}
Orders(set) == {s \in [1 .. Cardinality(set) -> set] : ToSet(s) = set}

\* What the iterator leads to from a name, and from a directory on: the least set
\* that holds the node and the entries of each directory in it.
Entered(n) == IF n \in Dirs /\ disk[n] = Folder THEN Kids[n] ELSE {}

Below(n) == {m \in Nodes : \A S \in SUBSET Nodes :
                              (n \in S /\ \A k \in S : Entered(k) \subseteq S) => m \in S}

\* countTotalStatsIntoMap: what counts as a file.
Files(n) == {m \in Below(n) \ Dirs : disk[m] # Gone}

\* A file counts once for each of the names it is below.
Counted(items) == UNION {{<<i, m>> : m \in Files(items[i])} : i \in DOMAIN items}
FilesIn(items) == Cardinality(Counted(items))

\* The totals of the selection; the ones of file descriptors are not counted.
Announce ==
    /\ snd = "count"
    /\ LET total == IF mode = "fds" THEN 0 ELSE FilesIn(todo)
       IN Sends(<<Item("totals", NoNode, total)>>,
                IF mode = "fds" THEN << >> ELSE <<Item("totals", NoNode, total)>>, "visit")
    /\ UNCHANGED <<todo, left, read>>

\* lstat fails, or the local client has no descriptor to pass: the item is
\* skipped without a word.
VisitGone ==
    /\ snd = "visit" /\ todo # << >>
    /\ disk[Head(todo)] = Gone \/ (mode = "fds" /\ disk[Head(todo)] = Locked)
    /\ todo' = Tail(todo) /\ Sends(<< >>, << >>, "visit")
    /\ UNCHANGED <<left, read>>

\* Mutant: only one entry of a directory is visited.
VisitDirFirst ==
    /\ snd = "visit" /\ todo # << >> /\ Head(todo) \in Dirs
    /\ disk[Head(todo)] = Folder
    /\ \E k \in Listed(Head(todo)) : todo' = <<k>> \o Tail(todo)
    /\ Sends(<< >>, << >>, "visit") /\ UNCHANGED <<left, read>>

VisitDir ==
    /\ snd = "visit" /\ todo # << >> /\ Head(todo) \in Dirs
    /\ disk[Head(todo)] = Folder /\ Listed(Head(todo)) # {}
    /\ \E entries \in Orders(Listed(Head(todo))) : todo' = entries \o Tail(todo)
    /\ Sends(<< >>, << >>, "visit") /\ UNCHANGED <<left, read>>

\* "treat also non-listable folders as empty ones".
VisitEmptyDir ==
    /\ snd = "visit" /\ todo # << >> /\ Head(todo) \in Dirs
    /\ disk[Head(todo)] = Locked \/ (disk[Head(todo)] = Folder /\ Listed(Head(todo)) = {})
    /\ todo' = Tail(todo)
    /\ Sends(<<Item("dir", Head(todo), 0)>>, << >>, "visit")
    /\ UNCHANGED <<left, read>>

\* lstat measures the link, open and read follow it.
StatSize(n) == IF n \in Links THEN LinkSize ELSE disk[n]

VisitFile ==
    /\ snd = "visit" /\ todo # << >> /\ disk[Head(todo)] \in Sizes
    /\ left' = StatSize(Head(todo)) /\ read' = 0
    /\ Sends(<<Item("file", Head(todo), left')>>, <<Item("size", Head(todo), left')>>, "send")
    /\ UNCHANGED todo

\* Mutant: the end of a file is not told when it could not be opened.
VisitLockedSilent ==
    /\ snd = "visit" /\ todo # << >> /\ mode # "fds"
    /\ Head(todo) \notin Dirs /\ disk[Head(todo)] = Locked
    /\ todo' = Tail(todo) /\ Sends(<< >>, << >>, "visit")
    /\ UNCHANGED <<left, read>>

\* open fails: nothing is sent, and the local client is told the end of the
\* file nevertheless.
VisitLocked ==
    /\ snd = "visit" /\ todo # << >> /\ mode # "fds"
    /\ Head(todo) \notin Dirs /\ disk[Head(todo)] = Locked
    /\ todo' = Tail(todo)
    /\ Sends(<< >>, <<Item("eof", Head(todo), 0)>>, "visit")
    /\ UNCHANGED <<left, read>>

SendPiece ==
    /\ snd = "send" /\ left > 0 /\ read < disk[Head(todo)]
    /\ left' = left - 1 /\ read' = read + 1
    /\ Sends(<<Item("piece", Head(todo), 0)>>, <<Item("progress", Head(todo), 0)>>, "send")
    /\ UNCHANGED todo

\* Mutant: a short read ends the file and not the session.
ReadShortGoesOn ==
    /\ snd = "send" /\ left > 0 /\ read >= disk[Head(todo)]
    /\ left' = 0 /\ Sends(<< >>, << >>, "send") /\ UNCHANGED <<todo, read>>

\* input.readAllOrExit: the content is shorter than its size.
ReadShort ==
    /\ snd = "send" /\ left > 0 /\ read >= disk[Head(todo)]
    /\ snd' = "exited"
    /\ UNCHANGED <<todo, left, read, net, java, marks>>
    /\ UNCHANGED <<mode, list, disk, changes, rcv, file, want, dst>>

EndFile ==
    /\ snd = "send" /\ left = 0
    /\ todo' = Tail(todo)
    /\ Sends(<< >>, <<Item("eof", Head(todo), 0)>>, "visit")
    /\ UNCHANGED <<left, read>>

\* The local client is told the end before the receiver is.
TellEnd ==
    /\ snd = "visit" /\ todo = << >>
    /\ Sends(<< >>, <<Item("end", NoNode, 0)>>, "endlist") /\ UNCHANGED <<todo, left, read>>

SendEnd ==
    /\ snd = "endlist"
    /\ Sends(<<Item("end", NoNode, 0)>>, << >>, "done") /\ UNCHANGED <<todo, left, read>>

\* A write that fails because the receiver is gone.
WriteFails ==
    /\ snd \notin {"done", "exited"} /\ rcv = "exited"
    /\ snd' = "exited"
    /\ UNCHANGED <<todo, left, read, net, java, marks>>
    /\ UNCHANGED <<mode, list, disk, changes, rcv, file, want, dst>>

Sender ==
    \/ Announce \/ VisitGone \/ VisitDir \/ VisitEmptyDir \/ VisitFile \/ VisitLocked
    \/ SendPiece \/ ReadShort \/ EndFile \/ TellEnd \/ SendEnd \/ WriteFails

-----------------------------------------------------------------------------
\* The receiver.

Arrives(is) == net # << >> /\ Head(net).is = is

Receives(words, next) ==
    /\ net' = Tail(net) /\ Says("receiver", words)
    /\ rcv' = Then("receiver", words, next)
    /\ UNCHANGED <<mode, list, disk, changes, snd, todo, left, read, java>>

ReadTotals ==
    /\ rcv = "totals" /\ Arrives("totals")
    /\ Receives(<<Head(net)>>, "header") /\ UNCHANGED <<file, want, dst>>

\* Mutant: an existing file is opened and truncated.
CreatesAnyway(n) == dst' = [dst EXCEPT ![n] = 0]

\* FileOpenMode::XCL.
Creates(n) == dst[n] = Absent /\ dst' = [dst EXCEPT ![n] = 0]

OpenFile ==
    /\ rcv = "header" /\ Arrives("file")
    /\ Creates(Head(net).node)
    /\ file' = Head(net).node /\ want' = Head(net).count
    /\ Receives(<<Item("size", Head(net).node, Head(net).count)>>, "content")

\* The parent directory, the file or its content cannot be written.
StoreFails ==
    /\ \/ (rcv = "header" /\ Arrives("file"))
       \/ (rcv = "content" /\ want > 0 /\ Arrives("piece"))
    /\ rcv' = "exited" /\ net' = << >>
    /\ UNCHANGED <<sourceVars, senderVars, file, want, dst, java, marks>>

StorePiece ==
    /\ rcv = "content" /\ want > 0 /\ Arrives("piece")
    /\ dst' = [dst EXCEPT ![file] = @ + 1] /\ want' = want - 1
    /\ Receives(<<Item("progress", file, 0)>>, "content") /\ UNCHANGED file

\* Mutant: the end of the file is told when its last piece is still missing.
CloseFileEarly ==
    /\ rcv = "content" /\ want <= 1 /\ want' = 0
    /\ Says("receiver", <<Item("eof", file, 0)>>)
    /\ rcv' = Then("receiver", <<Item("eof", file, 0)>>, "header") /\ file' = NoNode
    /\ UNCHANGED <<sourceVars, senderVars, net, dst, java>>

CloseFile ==
    /\ rcv = "content" /\ want = 0
    /\ Says("receiver", <<Item("eof", file, 0)>>)
    /\ rcv' = Then("receiver", <<Item("eof", file, 0)>>, "header") /\ file' = NoNode
    /\ UNCHANGED <<sourceVars, senderVars, net, want, dst, java>>

\* The result of mkpath is not looked at.
MakeDir ==
    /\ rcv = "header" /\ Arrives("dir")
    /\ \/ dst' = [dst EXCEPT ![Head(net).node] = IF @ = Absent THEN Folder ELSE @]
       \/ UNCHANGED dst
    /\ Receives(<< >>, "header") /\ UNCHANGED <<file, want>>

EndOfItems ==
    /\ rcv = "header" /\ Arrives("end")
    /\ Receives(<<Head(net)>>, "done") /\ UNCHANGED <<file, want, dst>>

\* Mutant: the end of the session is not noticed inside a file.
ReadFailsHeader ==
    /\ rcv \in {"totals", "header"}
    /\ net = << >> /\ snd = "exited"
    /\ rcv' = "exited"
    /\ UNCHANGED <<sourceVars, senderVars, net, file, want, dst, java, marks>>

\* The receiver reads for more than will ever come.
SessionOver ==
    /\ rcv \in {"totals", "header"} \/ (rcv = "content" /\ want > 0)
    /\ net = << >> /\ snd = "exited"

\* readAllOrExit: the sender is gone.
ReadFails ==
    /\ SessionOver /\ rcv' = "exited"
    /\ UNCHANGED <<sourceVars, senderVars, net, file, want, dst, java, marks>>

\* The receiver reads the ring buffer of its TLS session, whose close may fall
\* between the test and the wait of read: nobody notifies it again.
MissesEnd ==
    /\ SessionOver /\ rcv' = "deaf"
    /\ UNCHANGED <<sourceVars, senderVars, net, file, want, dst, java, marks>>

Receiver ==
    \/ ReadTotals \/ OpenFile \/ StoreFails \/ StorePiece \/ CloseFile \/ MakeDir
    \/ EndOfItems \/ ReadFails

-----------------------------------------------------------------------------
\* Another process changes the source.  An open file can still be read when its
\* name is gone.
Disturb ==
    /\ changes < MaxDisturb /\ changes' = changes + 1
    /\ \E n \in Nodes : \E c \in Contents(n) :
          /\ (snd = "send" /\ n = Head(todo)) => c \in Sizes
          /\ disk' = [disk EXCEPT ![n] = c]
    /\ UNCHANGED <<mode, list, senderVars, net, receiverVars, java, marks>>

\* A process is killed, a connection breaks; what is under way may be lost.  For
\* the receiver this is also the spurious wakeup of a read: of an open session it
\* aborts, of a closed one it reads the end.
SenderLost ==
    /\ snd \notin {"done", "exited"} /\ snd' = "exited"
    /\ net' \in {net, << >>}
    /\ UNCHANGED <<sourceVars, todo, left, read, receiverVars, java, marks>>

ReceiverLost ==
    /\ rcv \notin {"done", "exited"} /\ rcv' = "exited" /\ net' = << >>
    /\ UNCHANGED <<sourceVars, senderVars, file, want, dst, java, marks>>

JavaLeaves ==
    /\ java /\ java' = FALSE
    /\ UNCHANGED <<sourceVars, senderVars, net, receiverVars, marks>>

Next ==
    Sender \/ Receiver \/ MissesEnd \/ Disturb \/ SenderLost \/ ReceiverLost \/ JavaLeaves

Spec == Init /\ [][Next]_vars
FairSpec == Spec /\ WF_vars(Sender) /\ WF_vars(Receiver)

-----------------------------------------------------------------------------
\* What the local client was told of one kind.
Told(is) == {i \in DOMAIN marks : marks[i].is = is}

\* The receiver finds a header where it reads a header and content where it
\* reads content, whatever happens to the source and to the sender.
InStep ==
    net # << >> =>
        /\ rcv = "totals" => Head(net).is = "totals"
        /\ rcv = "header" => Head(net).is \in {"file", "dir", "end"}
        /\ (rcv = "content" /\ want > 0) => Head(net).is = "piece" /\ Head(net).node = file
        /\ rcv = "done" => FALSE

\* What was at the destination before, and what this transfer has stored there,
\* is never touched by another item.
NothingOverwritten ==
    [][\A n \in Nodes : (dst[n] # Absent /\ dst'[n] # dst[n]) =>
          rcv = "content" /\ file = n /\ dst'[n] = dst[n] + 1]_vars

\* The number of pieces announced to the local client for the file n.
Announced(n) == {marks[i].count : i \in {j \in Told("size") : marks[j].node = n}}

\* The end of a file in a download is told once all the pieces that were
\* announced for it are stored, whatever happened to its source.
EofMeansStored ==
    mode = "download" =>
        \A i \in Told("eof") : Announced(marks[i].node) = {dst[marks[i].node]}

Selected == UNION {Files(list[i]) : i \in DOMAIN list}

\* At the end of a download from a source that nobody changed, every readable
\* file of the selection is stored, with the size lstat found.
EndMeansMirror ==
    mode = "download" /\ Told("end") # {} /\ changes = 0 =>
        \A n \in Selected : disk[n] \in Sizes => dst[n] = StatSize(n)

Unreadable == Cardinality({c \in Counted(list) : disk[c[2]] = Locked})

\* "implicitly increments outer progress by 1": the ends of files add up to the
\* announced total; in a download the files that cannot be opened are missing.
OuterProgress ==
    mode # "fds" /\ Told("end") # {} /\ changes = 0 =>
        \E i \in Told("totals") : marks[i].count =
            Cardinality(Told("eof")) + IF mode = "download" THEN Unreadable ELSE 0

Deaf == rcv = "deaf"

\* Every transfer comes to its end on both sides, however one of them fails; only
\* a receiver that has missed the close of its session may wait for ever.
TransferEnds == <>[](snd \in {"done", "exited"} /\ (rcv \in {"done", "exited"} \/ Deaf))

=============================================================================
