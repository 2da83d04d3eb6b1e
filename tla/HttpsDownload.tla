---------------------------- MODULE HttpsDownload -----------------------------
(***************************************************************************)
(* A download or an upload over HTTP(S) for a local client ("java"):       *)
(* httpsUrlDownload and httpsUpload of RootHelper/r.cpp and the functions  *)
(* of tls/basic_https_client.h they call.  A download follows redirects;   *)
(* every hop has a connection of its own, but all hops that use TLS read   *)
(* through one ring buffer, which is reset in between.                     *)
(*                                                                         *)
(* An answer of the remote server is a head (part 0) followed by pieces of *)
(* the body (parts 1, 2, ...); every item carries the hop that asked for   *)
(* it.  The number of the local connection is an object of its own: once   *)
(* closed, it may come to name the connection of another client.           *)
(*                                                                         *)
(* A connection that ends with "fin" ended in order (FIN or close_notify), *)
(* one that ends with "rst" did not.  The two waits of the ring buffer and *)
(* its close(), which takes no mutex, are as in module RingBuffer, with a  *)
(* step for each store of close() that the session may see.                *)
(***************************************************************************)
EXTENDS Integers, Sequences, SequencesExt

CONSTANTS
    Modes,      \* "file", "memory" (downloads), "upload"
    MaxHops,    \* redirect limit; 5 in the code
    MaxBody,    \* bound: pieces of a body
    Chunk,      \* items one read may return
    RingCap,    \* items the ring buffer holds
    NoLength    \* no Content-Length: parsedContentLength = maxuint

ASSUME HttpsAssumption ==
    /\ Modes \subseteq {"file", "memory", "upload"} /\ MaxHops \in Nat \ {0}
    /\ MaxBody \in Nat /\ Chunk \in Nat \ {0} /\ RingCap \in Nat \ {0}
    /\ NoLength \notin Nat

VARIABLES
    mode,      \* what was asked for
    hop,       \* iteration of the redirect loop
    pc, ret,   \* session thread; what httpsUrlDownload_internal returned
    tls,       \* this hop's connection uses TLS
    answer,    \* what the remote will answer on this connection
    sent, net, \* parts it has sent; those not yet taken off the socket
    asked,     \* it has got the whole request
    link,      \* "open", or how the connection ended
    incoming,  \* incoming thread of the TLS descriptor
    ring, inRb,\* content and flag of the ring buffer, shared by all hops
    brokenConnection, \* how it was closed; not cleared by its reset()
    deaf,      \* the session has tested inRb and waits, and missed the close
    flaw,      \* history: why this hop's end is not what it seems
    hdrs,      \* what was read up to and with the end of the headers
    body,      \* stored in the file, or passed on to the local client
    progress,  \* currentProgress
    cl,        \* what the number of the local connection names
    java,      \* the local client is there
    said       \* what it was told

remoteVars == <<answer, sent, net, asked>>
bufferVars == <<incoming, ring, inRb, brokenConnection, deaf>>
ringVars == <<bufferVars, flaw>>
bodyVars == <<hdrs, body, progress>>
localVars == <<cl, said>>
vars == <<mode, hop, pc, ret, tls, remoteVars, link, ringVars, bodyVars, localVars, java>>

Item(h, i) == [hop |-> h, part |-> i]

\* length is the announced one, which only a 200 is asked for; pieces what the
\* remote has to send; upload the pieces of the local file.
Answers ==
    {a \in [code : {"ok", "moved", "refused", "malformed"}, pieces : 0 .. MaxBody,
            length : {NoLength} \cup 0 .. MaxBody, upload : 0 .. MaxBody] :
        a.code = "ok" \/ a.length = NoLength}

Init ==
    /\ mode \in Modes /\ hop = 1 /\ pc = "connect" /\ ret = "none" /\ tls = FALSE
    /\ answer = [code |-> "refused", pieces |-> 0, length |-> NoLength, upload |-> 0]
    /\ sent = 0 /\ net = << >> /\ asked = FALSE /\ link = "fin"
    /\ incoming = "none" /\ ring = << >> /\ inRb = "open"
    /\ brokenConnection = FALSE /\ deaf = FALSE /\ flaw = "none"
    /\ hdrs = << >> /\ body = << >> /\ progress = 0
    /\ cl = "own" /\ java = TRUE /\ said = << >>

-----------------------------------------------------------------------------
Running == pc # "exited"   \* the process was not ended by an exception or _Exit

\* Where a step of the session thread leads.

Goes(p) == pc' = p /\ UNCHANGED <<ret, link>>

\* return r: the destructor of the descriptor is next.
Returns(r) == pc' = "cleanup" /\ ret' = r /\ UNCHANGED link

\* An exception within the try block: a download shuts the socket down.
Caught ==
    /\ pc' = "cleanup" /\ ret' = "fail"
    /\ link' = IF mode # "upload" /\ link = "open" THEN "fin" ELSE link

\* writeAllOrExit to the number of the local connection: received, also by a
\* client that has got the number since, or failed, which closes the number.
Told(m) ==
    \/ cl = "own" /\ java /\ said' = Append(said, m) /\ UNCHANGED cl
    \/ cl = "other" /\ UNCHANGED localVars

Untold ==
    /\ cl = "closed" \/ (cl = "own" /\ ~java)
    /\ cl' = "closed" /\ UNCHANGED said

\* Outside of the try block a failed write leaves all functions.
Tells(m, good, bad) == (Told(m) /\ good) \/ (Untold /\ bad)

CloseLocal == cl' = "closed" /\ UNCHANGED said

-----------------------------------------------------------------------------
\* Reading from the connection of this hop: from the ring buffer with TLS.

Readable == IF tls THEN ring ELSE net

\* read() returns k items; it wakes an incoming thread that waits for room.
Takes(k) ==
    /\ k <= Len(Readable)
    /\ IF tls
       THEN /\ ring' = SubSeq(ring, k + 1, Len(ring))
            /\ UNCHANGED <<net, inRb, brokenConnection, deaf, flaw>>
            /\ incoming' = IF incoming = "blocked" THEN "loop" ELSE incoming
       ELSE net' = SubSeq(net, k + 1, Len(net)) /\ UNCHANGED ringVars
    /\ UNCHANGED <<answer, sent, asked>>

\* read() returns 0 or -1, unless it waits and missed the close.
AtEnd == Readable = << >> /\ IF tls THEN inRb = "closed" /\ ~deaf ELSE link # "open"
EndedCleanly == IF tls THEN ~brokenConnection ELSE link = "fin"

\* The session waits, or is about to, for an open and empty ring buffer.
MayWait == tls /\ pc \in {"headers", "body"} /\ ring = << >> /\ inRb = "open"

-----------------------------------------------------------------------------
\* httpsUrlDownload_internal, httpsUrlUpload_internal: the connection.

AfterCall == IF mode = "upload" THEN "closing" ELSE "outer"

\* getHttpInfo refuses plain HTTP with httpsOnly.
RefusePlain ==
    /\ pc = "connect" /\ mode # "upload"
    /\ pc' = "outer" /\ ret' = "fail"
    /\ UNCHANGED <<mode, hop, tls, remoteVars, link, ringVars, bodyVars, localVars, java>>

\* std::stoi of the port of a URL, the client's or a redirect's, throws outside
\* of every try block.
PortMalformed ==
    /\ pc = "connect" /\ mode # "upload" /\ pc' = "exited"
    /\ UNCHANGED <<mode, hop, ret, tls, remoteVars, link, ringVars, bodyVars, localVars, java>>

\* No connection, or no path to download to.
CannotConnect ==
    /\ pc = "connect" /\ UNCHANGED link
    /\ Tells("err", pc' = AfterCall /\ ret' = "fail", pc' = "unwind" /\ UNCHANGED ret)
    /\ UNCHANGED <<mode, hop, tls, remoteVars, ringVars, bodyVars, java>>

\* Connected; with TLS the ClientHello is sent, which may throw past the
\* function, and setup() starts the incoming thread.
Connect ==
    /\ pc = "connect" /\ answer' \in Answers
    /\ mode = "upload" \/ answer'.upload = 0
    /\ tls' \in (IF mode = "upload" THEN {TRUE} ELSE BOOLEAN)
    /\ sent' = 0 /\ net' = << >> /\ asked' = FALSE /\ link' = "open"
    /\ \/ tls' /\ incoming' = "loop" /\ pc' = "setup"
       \/ tls' /\ incoming' = "none" /\ pc' = "unwind"
       \/ ~tls' /\ incoming' = "none" /\ pc' = "request"
    /\ flaw' = "none"
    /\ UNCHANGED <<mode, hop, ret, ring, inRb, brokenConnection, deaf, bodyVars,
                   localVars, java>>

\* The handshake fails, or it succeeds and the client gets the session's hash.
\* A handshake message that cannot be sent, as after a rejected certificate,
\* throws in the incoming thread, which ends the process.
Setup ==
    /\ pc = "setup"
    /\ \/ Tells("err", Returns("fail"), Returns("throw"))
       \/ Tells("secure", Goes("request"), Returns("throw"))
       \/ Goes("exited") /\ UNCHANGED localVars
    /\ UNCHANGED <<mode, hop, tls, remoteVars, ringVars, bodyVars, java>>

\* GET; or the size of the file to upload and the header of the POST.
Request ==
    /\ pc = "request"
    /\ \/ mode = "upload" /\ Tells("size", Goes("post"), Caught) /\ UNCHANGED asked
       \/ mode # "upload" /\ Goes("headers") /\ asked' = TRUE /\ UNCHANGED localVars
       \/ (link # "open" \/ inRb = "closed") /\ Caught /\ UNCHANGED <<asked, localVars>>
    /\ UNCHANGED <<mode, hop, tls, answer, sent, net, ringVars, bodyVars, java>>

\* One piece of the file; reading it or sending it may fail.
Post ==
    /\ pc = "post" /\ progress < answer.upload
    /\ \/ progress' = progress + 1 /\ Tells("progress", Goes("post"), Caught)
       \/ Caught /\ UNCHANGED <<progress, localVars>>
    /\ UNCHANGED <<mode, hop, tls, remoteVars, ringVars, hdrs, body, java>>

PostEnd ==
    /\ pc = "post" /\ progress = answer.upload
    /\ progress' = 0 /\ asked' = TRUE
    /\ Tells("posted", Goes("headers"), Caught)
    /\ UNCHANGED <<mode, hop, tls, answer, sent, net, ringVars, hdrs, body, java>>

-----------------------------------------------------------------------------
\* parseHttpResponseHeadersAndBody.

IsHead(item) == item.part = 0
HeadFound(items) == \E i \in DOMAIN items : IsHead(items[i])
FirstPart == SubSeq(hdrs, SelectInSeq(hdrs, IsHead) + 1, Len(hdrs))

ReadHeaders(k) ==
    /\ pc = "headers" /\ Takes(k)
    /\ hdrs' = hdrs \o SubSeq(Readable, 1, k)
    /\ Goes(IF HeadFound(hdrs') THEN "judge" ELSE "headers")
    /\ UNCHANGED <<mode, hop, tls, body, progress, localVars, java>>

\* Headers of more than 1 MiB throw.
HeadersTooLarge(k) ==
    /\ pc = "headers" /\ Takes(k) /\ Caught
    /\ UNCHANGED <<mode, hop, tls, bodyVars, localVars, java>>

\* Mutant: the end of the stream is not an error.
HeadersEndIgnored ==
    /\ pc = "headers" /\ AtEnd /\ Goes("headers")
    /\ UNCHANGED <<mode, hop, tls, remoteVars, ringVars, bodyVars, localVars, java>>

HeadersEnd ==
    /\ pc = "headers" /\ AtEnd /\ Returns("fail")
    /\ UNCHANGED <<mode, hop, tls, remoteVars, ringVars, bodyVars, localVars, java>>

\* The response code; a redirect without a location throws.
Judge ==
    /\ pc = "judge"
    /\ \/ /\ answer.code = "ok" /\ Tells("last", Goes("open"), Caught)
       \/ /\ answer.code \in {"moved", "refused"} /\ Returns(answer.code)
          /\ UNCHANGED localVars
       \/ answer.code = "malformed" /\ Caught /\ UNCHANGED localVars
    /\ UNCHANGED <<mode, hop, tls, remoteVars, ringVars, bodyVars, java>>

\* The destination: it may not open (return -1, the remote descriptor closed)
\* or not take the first part; a malformed length throws.  Then the name and the
\* size are told.
OpenFails ==
    /\ pc = "open" /\ (Caught \/ (mode = "file" /\ Returns("fail")))
    /\ UNCHANGED <<mode, hop, tls, remoteVars, ringVars, bodyVars, localVars, java>>

Open ==
    /\ pc = "open" /\ progress' = Len(FirstPart)
    /\ body' = IF mode = "file" THEN FirstPart ELSE << >>
    /\ Tells("size", Goes(IF mode = "file" THEN "body" ELSE "first"), Caught)
    /\ UNCHANGED <<mode, hop, tls, remoteVars, ringVars, hdrs, java>>

PassFirst ==
    /\ pc = "first" /\ body' = FirstPart
    /\ Tells("data", Goes("body"), Caught)
    /\ UNCHANGED <<mode, hop, tls, remoteVars, ringVars, hdrs, progress, java>>

\* One read of the body loop.  Whether a progress is due depends on sizes.
ReadBody(k) ==
    /\ pc = "body" /\ Takes(k) /\ progress' = progress + k
    /\ body' = body \o SubSeq(Readable, 1, k)
    /\ \/ mode = "file" /\ Goes("body") /\ UNCHANGED localVars
       \/ Tells(IF mode = "file" THEN "progress" ELSE "data", Goes("body"), Caught)
    /\ UNCHANGED <<mode, hop, tls, hdrs, java>>

StoreFails(k) ==
    /\ pc = "body" /\ mode = "file" /\ Takes(k) /\ progress' = progress + k /\ Caught
    /\ UNCHANGED <<mode, hop, tls, hdrs, body, localVars, java>>

\* Mutant: without an announced length every end is taken for complete.
SoundTrusting == answer.length # NoLength => progress = answer.length

\* parsedContentLength against currentProgress, or how the connection ended.
Sound ==
    IF answer.length # NoLength THEN progress = answer.length ELSE EndedCleanly

Broken == CloseLocal /\ Returns("fail")

\* The end was read before the incoming thread stored that it is a broken one.
FlawFound == IF tls /\ incoming = "breaks" THEN "unstored" ELSE flaw

\* Mutant: the return after the end mark is missing.
BodyEndFallsThrough ==
    /\ pc = "body" /\ AtEnd
    /\ \/ Sound /\ mode = "file" /\ Tells("end", Returns("fail"), Caught)
       \/ Sound /\ mode # "file" /\ Returns("ok") /\ UNCHANGED localVars
       \/ ~Sound /\ Broken
    /\ flaw' = FlawFound
    /\ UNCHANGED <<mode, hop, tls, remoteVars, bufferVars, bodyVars, java>>

\* The end of the stream: complete, or a broken download, which closes the
\* local connection without a word.
BodyEnd ==
    /\ pc = "body" /\ AtEnd
    /\ \/ Sound /\ mode = "file" /\ Tells("end", Returns("ok"), Caught)
       \/ Sound /\ mode # "file" /\ Returns("ok") /\ UNCHANGED localVars
       \/ ~Sound /\ Broken
    /\ flaw' = FlawFound
    /\ UNCHANGED <<mode, hop, tls, remoteVars, bufferVars, bodyVars, java>>

-----------------------------------------------------------------------------
\* ~TLSDescriptor: the ring buffer is closed, the socket shut down, the
\* incoming thread joined.  Without TLS there is nothing to do.
Cleanup ==
    /\ pc = "cleanup"
    /\ IF tls
       THEN /\ pc' = "join"
            /\ inRb' = "closed"
            /\ brokenConnection' = (brokenConnection /\ inRb = "closed")
            /\ link' = IF link = "open" THEN "fin" ELSE link
       ELSE pc' = AfterCall /\ UNCHANGED <<inRb, brokenConnection, link>>
    /\ UNCHANGED <<mode, hop, ret, tls, remoteVars, incoming, ring, deaf, flaw, bodyVars,
                   localVars, java>>

Join ==
    /\ pc = "join" /\ incoming = "done"
    /\ pc' = IF ret = "throw" THEN "unwind" ELSE AfterCall
    /\ UNCHANGED <<mode, hop, ret, tls, remoteVars, link, ringVars, bodyVars, localVars, java>>

\* Mutant: one redirect too many.
NextCallLate ==
    /\ pc = "outer" /\ ret = "moved" /\ hop <= MaxHops
    /\ hop' = hop + 1 /\ pc' = "connect"
    /\ hdrs' = << >> /\ body' = << >> /\ progress' = 0
    /\ UNCHANGED <<mode, ret, tls, remoteVars, link, incoming, brokenConnection, deaf, flaw,
                   localVars, java>>

\* httpsUrlDownload, after each hop.  The next call has its own locals.
NextCall ==
    /\ pc = "outer" /\ ret = "moved" /\ hop < MaxHops
    /\ hop' = hop + 1 /\ pc' = "connect"
    /\ hdrs' = << >> /\ body' = << >> /\ progress' = 0
    /\ UNCHANGED <<mode, ret, tls, remoteVars, link, incoming, brokenConnection, deaf, flaw,
                   localVars, java>>

\* Mutant: the ring buffer is reopened with what is left in it.
AgainUnreset == NextCall /\ inRb' = "open" /\ UNCHANGED ring

\* A redirect resets the ring buffer.
Again == NextCall /\ inRb' = "open" /\ ring' = << >>

\* The last redirect ends the loop without an answer, as success does.
LoopEnds ==
    /\ pc = "outer" /\ (ret = "ok" \/ (ret = "moved" /\ hop = MaxHops))
    /\ pc' = "closing"
    /\ UNCHANGED <<mode, hop, ret, tls, remoteVars, link, ringVars, bodyVars, localVars, java>>

\* Also when an error was sent, or the number closed, within the call.
LoopFails ==
    /\ pc = "outer" /\ ret \in {"fail", "refused"}
    /\ Tells("err", Goes("closing"), Goes("unwind"))
    /\ UNCHANGED <<mode, hop, tls, remoteVars, ringVars, bodyVars, java>>

\* cl.close(), then threadExit and the close at the end of the session.
Close ==
    /\ pc \in {"closing", "unwind"} /\ CloseLocal
    /\ Goes(IF pc = "closing" THEN "unwind" ELSE "gone")
    /\ UNCHANGED <<mode, hop, tls, remoteVars, ringVars, bodyVars, java>>

-----------------------------------------------------------------------------
\* The incoming thread of the TLS descriptor.  A write to a closed buffer
\* drops the item; a full one blocks until somebody reads.
Deliver ==
    /\ incoming = "loop" /\ net # << >>
    /\ \/ inRb = "closed" /\ net' = Tail(net) /\ UNCHANGED <<incoming, ring>>
       \/ /\ inRb = "open" /\ Len(ring) < RingCap /\ net' = Tail(net)
          /\ ring' = Append(ring, Head(net)) /\ UNCHANGED incoming
       \/ /\ inRb = "open" /\ Len(ring) = RingCap
          /\ incoming' = "blocked" /\ UNCHANGED <<net, ring>>
    /\ UNCHANGED <<mode, hop, pc, ret, tls, answer, sent, asked, link, inRb,
                   brokenConnection, deaf, flaw, bodyVars, localVars, java>>

\* inRb.close(broken) on a buffer that is open: closed is set first, and its
\* notification is missed by a session that is between its test and its wait.
Closes(broken) ==
    /\ inRb' = "closed" /\ deaf' \in {FALSE, MayWait}
    /\ incoming' = IF inRb = "closed" THEN "done" ELSE IF broken THEN "breaks" ELSE "ends"
    /\ UNCHANGED <<mode, hop, pc, ret, tls, remoteVars, link, ring, brokenConnection,
                   bodyVars, localVars, java>>

\* netsock.read returns 0 or -1.
SocketEnds ==
    /\ incoming = "loop" /\ net = << >> /\ link # "open"
    /\ Closes(link = "rst") /\ UNCHANGED flaw

\* The next record does not authenticate, or is a fatal alert: the exception of
\* the TLS library is caught and the thread ends like after a complete answer.
Damaged ==
    /\ Running /\ incoming = "loop" /\ link # "rst"
    /\ Closes(FALSE) /\ flaw' = IF inRb = "open" THEN "damaged" ELSE flaw

\* ... then brokenConnection, and the thread ends.
StoreBroken ==
    /\ incoming \in {"breaks", "ends"} /\ incoming' = "done"
    /\ brokenConnection' = (incoming = "breaks")
    /\ UNCHANGED <<mode, hop, pc, ret, tls, remoteVars, link, ring, inRb, deaf, flaw,
                   bodyVars, localVars, java>>

\* A wait of the ring buffer ends by itself, and neither is in a loop: a session
\* that missed the close sees it; on a buffer that is still empty, or still full,
\* read() and writeAll() exit.
SpuriousWakeup ==
    /\ Running
    /\ \/ deaf /\ deaf' = FALSE /\ UNCHANGED <<pc, incoming>>
       \/ /\ MayWait \/ (incoming = "blocked" /\ inRb = "open")
          /\ pc' = "exited" /\ UNCHANGED <<deaf, incoming>>
       \/ /\ incoming = "blocked" /\ inRb = "closed" /\ incoming' = "loop"
          /\ UNCHANGED <<pc, deaf>>
    /\ UNCHANGED <<mode, hop, ret, tls, remoteVars, link, ring, inRb, brokenConnection,
                   flaw, bodyVars, localVars, java>>

\* The remote server: sends its answer, or ends the connection at any point.
RemoteSends ==
    /\ asked /\ link = "open" /\ sent <= answer.pieces
    /\ net' = Append(net, Item(hop, sent)) /\ sent' = sent + 1
    /\ UNCHANGED <<mode, hop, pc, ret, tls, answer, asked, link, ringVars, bodyVars, localVars, java>>

RemoteEnds ==
    /\ link = "open"
    /\ \/ link' = "fin" /\ UNCHANGED net
       \/ link' = "rst" /\ net' = << >>
    /\ UNCHANGED <<mode, hop, pc, ret, tls, answer, sent, asked, ringVars, bodyVars, localVars, java>>

JavaLeaves ==
    /\ Running /\ java /\ java' = FALSE
    /\ UNCHANGED <<mode, hop, pc, ret, tls, remoteVars, link, ringVars, bodyVars, localVars>>

\* Another client is accepted and gets the number.
Reuse ==
    /\ cl = "closed" /\ pc # "gone" /\ Running /\ cl' = "other"
    /\ UNCHANGED <<mode, hop, pc, ret, tls, remoteVars, link, ringVars, bodyVars, java, said>>

-----------------------------------------------------------------------------
Session ==
    \/ RefusePlain \/ PortMalformed \/ CannotConnect \/ Connect \/ Setup \/ Request \/ Post \/ PostEnd
    \/ (\E k \in 1 .. Chunk : ReadHeaders(k) \/ HeadersTooLarge(k) \/ ReadBody(k)
                               \/ StoreFails(k))
    \/ HeadersEnd \/ Judge \/ OpenFails \/ Open \/ PassFirst \/ BodyEnd
    \/ Cleanup \/ Join \/ Again \/ LoopEnds \/ LoopFails \/ Close

Incoming == Running /\ (Deliver \/ SocketEnds \/ StoreBroken)
Remote == Running /\ (RemoteSends \/ RemoteEnds)

Next ==
    \/ Session \/ Incoming \/ Remote
    \/ Damaged \/ SpuriousWakeup \/ JavaLeaves \/ Reuse

Spec == Init /\ [][Next]_vars

\* Threads are scheduled; the remote server ends its connection at last (the
\* code has no time limit of its own for an answer).
FairSpec ==
    Spec /\ WF_vars(Session) /\ WF_vars(Incoming) /\ WF_vars(Remote)

-----------------------------------------------------------------------------
(***************************************************************************)
(* Properties.                                                             *)
(***************************************************************************)

\* What the local client may be told.
Words == {"err", "secure", "last", "size", "data", "progress", "posted", "end"}

Parts == [hop : 1 .. MaxHops, part : 0 .. MaxBody]

\* Every variable stays in its range.
TypeOK ==
    /\ mode \in Modes /\ hop \in 1 .. MaxHops
    /\ pc \in {"connect", "setup", "request", "post", "headers", "judge", "open", "first",
               "body", "cleanup", "join", "outer", "closing", "unwind", "gone", "exited"}
    /\ ret \in {"none", "ok", "moved", "refused", "fail", "throw"}
    /\ tls \in BOOLEAN /\ asked \in BOOLEAN /\ java \in BOOLEAN /\ answer \in Answers
    /\ sent \in 0 .. MaxBody + 1 /\ progress \in 0 .. MaxBody
    /\ net \in Seq(Parts) /\ ring \in Seq(Parts) /\ hdrs \in Seq(Parts) /\ body \in Seq(Parts)
    /\ link \in {"open", "fin", "rst"} /\ inRb \in {"open", "closed"}
    /\ brokenConnection \in BOOLEAN /\ deaf \in BOOLEAN
    /\ flaw \in {"none", "damaged", "unstored"}
    /\ incoming \in {"none", "loop", "blocked", "breaks", "ends", "done"} /\ Len(ring) <= RingCap
    /\ cl \in {"own", "closed", "other"} /\ said \in Seq(Words)

\* What is parsed as headers and what is stored comes, in order and without a
\* gap, from the connection of the current hop: nothing a redirect left behind
\* in the shared ring buffer (inRb.reset() in httpsUrlDownload) gets into it.
OwnAnswer ==
    /\ hdrs = [i \in DOMAIN hdrs |-> Item(hop, i - 1)]
    /\ body = [i \in DOMAIN body |-> Item(hop, i)]

Ended == "end" \in ToSet(said)

\* When the end mark of a download is sent, the file holds every piece of an
\* answer whose announced length it has; or, without a length, everything the
\* server sent before it ended the connection and not a piece less
\* (parseHttpResponseHeadersAndBody, "deduce valid or broken download").  Two
\* flaws of a TLS connection defeat the second half, and nothing else does: a
\* record that was damaged ends the answer like its last one, and a reset may be
\* read as an end before close() has stored that it is one.
EndMeansComplete ==
    (Ended /\ mode = "file") =>
        /\ answer.code = "ok"
        /\ body = [i \in 1 .. progress |-> Item(hop, i)]
        /\ IF answer.length # NoLength THEN progress = answer.length
           ELSE flaw = "none" => link = "fin" /\ progress = sent - 1

\* After an error only the same error may follow, and after the end mark
\* nothing: the client cannot take a failed download for a finished one.
VerdictIsLast ==
    [][said' # said =>
          /\ ~Ended
          /\ "err" \in ToSet(said) => Last(said') = "err"]_vars

\* The join waits for an incoming thread that waits for room in a ring buffer
\* nobody will read; or the session waits for an answer whose end it has missed.
Stuck == (pc = "join" /\ incoming = "blocked") \/ deaf

\* Every request ends, when the remote server ends its connections, or it ends
\* the process, or it is stuck for good in one of the two waits of the ring
\* buffer named above.
RequestEnds == <>[](pc \in {"gone", "exited"} \/ Stuck)

=============================================================================
