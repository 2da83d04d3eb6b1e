---------------------------- MODULE FindSearchProofs ----------------------------
(***************************************************************************)
(* For any number of clients, descriptor numbers and directory entries:    *)
(* the types of FindSearch, and that a search that was cancelled can send  *)
(* its client nothing more.                                                *)
(***************************************************************************)
EXTENDS FindSearch, ClientSessionsProofs

Messages == {"find", "body", "cancel", "plain"}

\* What a thread reads is a request of the connection its read() began on.
RequestInv ==
    /\ inbox \in [Clients -> Seq(Messages)]
    /\ \A t \in Clients : pc[t] = "reading" => from[t] \in Clients

\* A connection has one number, the one its thread was given; it gets it when
\* it is accepted and never again.
NumberInv ==
    /\ \A n \in Fds : fdTable[n] # NoOne =>
          cl[fdTable[n]] = n /\ peer[fdTable[n]] \notin {"away", "refused"}
    /\ \A t \in Clients : pc[t] # "none" => peer[t] \notin {"away", "refused"}

\* Only a search that runs is the current one, and only such a one is cut.
CutInv ==
    /\ current # NoOne => peer[current] \notin {"away", "refused"}
    /\ \A t \in cut : peer[t] \notin {"away", "refused"}

FInv == FTypeOK /\ RequestInv /\ NumberInv /\ CutInv /\ CancelIsFinal

-----------------------------------------------------------------------------
LEMMA InitFInv == FInit => FInv
<1> SUFFICES ASSUME FInit PROVE FInv
  OBVIOUS
<1>1. (CHOOSE n \in Fds : TRUE) \in Fds
  BY FdsAssumption
<1>2. FTypeOK
  BY <1>1, MaxSentAssumption, MaxEntriesAssumption
  DEF FInit, SessionsInit, FTypeOK, SessionsTypeOK
<1>3. inbox \in [Clients -> Seq(Messages)]
  <2>1. << >> \in Seq(Messages)
    OBVIOUS
  <2> QED
    BY <2>1 DEF FInit, SessionsInit
<1>4. RequestInv
  BY <1>3 DEF FInit, SessionsInit, RequestInv
<1>5. NumberInv
  BY DEF FInit, SessionsInit, NumberInv
<1>6. CutInv /\ CancelIsFinal
  BY DEF FInit, CutInv, CancelIsFinal
<1> QED
  BY <1>2, <1>4, <1>5, <1>6 DEF FInv

\* The clients, and the acceptance of a connection.
LEMMA ClientFInv ==
    ASSUME FInv, NEW c \in Clients, UNCHANGED searchVars,
           \/ Leave(c) \/ (\E r \in Requests : Send(c, r)) \/ Accept(c) \/ Refuse(c)
    PROVE  FInv'
<1>1. CASE Leave(c)
  BY <1>1, ClientsAssumption DEF Leave, searchVars, threadVars, FInv, FTypeOK, SessionsTypeOK,
              RequestInv, NumberInv, CutInv, CancelIsFinal
<1>2. CASE Refuse(c)
  BY <1>2, ClientsAssumption DEF Refuse, searchVars, threadVars, FInv, FTypeOK, SessionsTypeOK,
              RequestInv, NumberInv, CutInv, CancelIsFinal
<1>3. CASE \E r \in Requests : Send(c, r)
  <2> PICK r \in Requests : Send(c, r)
    BY <1>3
  <2>1. r \in Seq(Messages) /\ Head(r) \in Messages
    <3>1. r = <<"find", "body">> \/ r = <<"cancel">> \/ r = <<"plain">>
      BY DEF Requests
    <3>2. {"find", "body", "cancel", "plain"} \subseteq Messages
      BY DEF Messages
    <3>3. CASE r = <<"find", "body">>
      BY <3>2, <3>3
    <3>4. CASE r = <<"cancel">>
      BY <3>2, <3>4
    <3>5. CASE r = <<"plain">>
      BY <3>2, <3>5
    <3> QED
      BY <3>1, <3>3, <3>4, <3>5
  <2>2. inbox' \in [Clients -> Seq(Messages)]
    <3>1. inbox[c] \o r \in Seq(Messages) /\ Append(inbox[c], Head(r)) \in Seq(Messages)
      BY <2>1 DEF FInv, RequestInv
    <3> QED
      BY <3>1 DEF Send, FInv, RequestInv
  <2>3. /\ peer' \in [Clients -> {"away", "refused", "open", "left"}]
        /\ \A s \in Clients : peer[s] \notin {"away", "refused"} => peer'[s] \notin {"away", "refused"}
        /\ sent' \in 0 .. MaxSent /\ UNCHANGED <<fdTable, threadVars>>
    BY MaxSentAssumption DEF Send, FInv, FTypeOK, SessionsTypeOK
  <2> QED
    BY <2>2, <2>3, ClientsAssumption DEF searchVars, threadVars, FInv, FTypeOK, SessionsTypeOK, RequestInv,
                        NumberInv, CutInv, CancelIsFinal
<1>4. CASE Accept(c)
  <2>1. /\ LowestFree \in Fds /\ peer[c] = "away" /\ pc[c] = "none" /\ FreeNumbers # {}
        /\ fdTable' = [fdTable EXCEPT ![LowestFree] = c]
        /\ cl' = [cl EXCEPT ![c] = LowestFree]
        /\ peer' = [peer EXCEPT ![c] = "open"]
        /\ pc' = [pc EXCEPT ![c] = "idle"]
        /\ UNCHANGED <<inbox, sent, from, mutex, current, entries, cut>>
    BY <1>4, LowestFreeIsFree DEF Accept, searchVars, FInv, NumberInv
  <2>2. FTypeOK'
    BY <2>1 DEF FInv, FTypeOK, SessionsTypeOK
  <2>3. RequestInv'
    BY <2>1 DEF FInv, FTypeOK, SessionsTypeOK, RequestInv
  <2>4. NumberInv'
    BY <2>1, ClientsAssumption DEF FInv, FTypeOK, SessionsTypeOK, NumberInv
  <2>5. CutInv' /\ CancelIsFinal'
    BY <2>1, ClientsAssumption DEF FInv, FTypeOK, SessionsTypeOK, CutInv, CancelIsFinal
  <2> QED
    BY <2>2, <2>3, <2>4, <2>5 DEF FInv
<1> QED
  BY <1>1, <1>2, <1>3, <1>4

-----------------------------------------------------------------------------
\* What a thread may do with the numbers: it closes some, and when it clears
\* another thread's search it closes the number of that search.
Closes(t) ==
    /\ UNCHANGED <<peer, cl>> /\ pc[t] # "none"
    /\ \E w : w # "none" /\ Goes(t, w)
    /\ fdTable' = fdTable \/ \E n \in Fds : fdTable' = Closed(n)
    /\ current' \in {current, NoOne, t}
    /\ \/ cut' = cut
       \/ /\ current # NoOne /\ cut' = cut \cup {current}
          /\ fdTable' = Closed(cl[current])

LEMMA ClosesNumbers ==
    ASSUME FInv, NEW t \in Clients, Closes(t)
    PROVE  NumberInv' /\ CutInv' /\ CancelIsFinal'
<1>1. /\ fdTable \in [Fds -> Clients \cup {NoOne}] /\ cl \in [Clients -> Fds]
      /\ pc' = [pc EXCEPT ![t] = pc'[t]] /\ pc'[t] # "none" /\ pc[t] # "none"
      /\ peer' = peer /\ cl' = cl /\ current \in Clients \cup {NoOne} /\ cut \subseteq Clients
      /\ NoOne \notin Clients
  BY ClientsAssumption DEF Closes, Goes, FInv, FTypeOK, SessionsTypeOK
<1>2. \A n \in Fds : fdTable'[n] = fdTable[n] \/ fdTable'[n] = NoOne
  BY <1>1, ClosedEffect DEF Closes
<1>3. /\ \A s \in Clients : peer[s] \notin {"away", "refused"} \/ pc[s] = "none"
      /\ pc \in [Clients -> {pc[s] : s \in Clients}]
  BY DEF FInv, NumberInv, FTypeOK, SessionsTypeOK
<1>4. NumberInv'
  BY <1>1, <1>2, <1>3 DEF FInv, NumberInv
<1>5. CutInv'
  BY <1>1, <1>3 DEF Closes, FInv, CutInv
<1>6. CancelIsFinal'
  <2>1. CASE cut' = cut
    BY <1>1, <1>2, <2>1 DEF FInv, CancelIsFinal
  <2>2. CASE /\ current # NoOne /\ cut' = cut \cup {current}
             /\ fdTable' = Closed(cl[current])
    <3>1. fdTable'[cl[current]] = NoOne /\ current \in Clients
      BY <1>1, <2>2, ClosedEffect
    <3> QED
      BY <1>1, <1>2, <2>2, <3>1 DEF FInv, CancelIsFinal
  <2> QED
    BY <2>1, <2>2 DEF Closes
<1> QED
  BY <1>4, <1>5, <1>6

\* The places of a session thread, and how one goes to another.
Places == {"find", "cancel", "plain", "cancelled", "body", "found0", "search", "match",
           "finished", "findexit", "none", "idle", "reading", "unexpected", "failclose",
           "lastclose", "ended"}

\* The part of the types and of RequestInv that a thread's step leaves alone
\* unless it begins to read or takes a message.
LEMMA ThreadTypes ==
    ASSUME FInv, NEW t \in Clients, Closes(t), pc'[t] \in Places, pc'[t] # "reading",
           UNCHANGED <<inbox, sent, from>>,
           entries' \in [Clients -> 0 .. MaxEntries],
           \/ UNCHANGED mutex /\ mutex # t
           \/ mutex' = NoOne
           \/ mutex' = t /\ pc'[t] \in {"cancelled", "body"}
    PROVE  FInv'
<1>1. /\ fdTable \in [Fds -> Clients \cup {NoOne}] /\ cl \in [Clients -> Fds]
      /\ pc' = [pc EXCEPT ![t] = pc'[t]] /\ pc \in [Clients -> Places]
      /\ mutex \in Clients \cup {NoOne} /\ current \in Clients \cup {NoOne}
      /\ cut \subseteq Clients /\ NoOne \notin Clients
  BY ClientsAssumption DEF Closes, Goes, FInv, FTypeOK, SessionsTypeOK, Places
<1>2. fdTable' \in [Fds -> Clients \cup {NoOne}]
  BY <1>1, ClosedEffect DEF Closes
<1>3. pc' \in [Clients -> Places]
  BY <1>1
<1>4. mutex' # NoOne => pc'[mutex'] \in {"cancelled", "body"}
  BY <1>1 DEF FInv, FTypeOK
<1>5. FTypeOK'
  BY <1>1, <1>2, <1>3, <1>4 DEF Closes, FInv, FTypeOK, SessionsTypeOK, Places
<1>6. RequestInv'
  BY <1>1 DEF FInv, RequestInv
<1> QED
  BY <1>5, <1>6, ClosesNumbers DEF FInv

-----------------------------------------------------------------------------
\* The session: reading a header, and the ways it ends.
LEMMA SessionFInv ==
    ASSUME FInv, NEW t \in Clients, FindRequest(t) \/ (SessionStep(t) /\ UNCHANGED searchVars)
    PROVE  FInv'
<1>1. /\ cl[t] \in Fds /\ fdTable[cl[t]] \in Clients \cup {NoOne}
      /\ mutex = t => pc[t] \in {"cancelled", "body"}
      /\ entries \in [Clients -> 0 .. MaxEntries]
  BY ClientsAssumption DEF FInv, FTypeOK, SessionsTypeOK
<1>2. CASE ReadFails(t) \/ FailClose(t) \/ LastClose(t) \/ Unexpected(t)
  <2>1. /\ pc[t] \in {"reading", "failclose", "lastclose", "unexpected"}
        /\ \E w \in {"failclose", "lastclose", "ended"} : Goes(t, w)
        /\ fdTable' \in {fdTable, Closed(cl[t])}
        /\ UNCHANGED <<peer, cl, inbox, sent, from, mutex, current, entries, cut>>
    BY <1>2 DEF ReadFails, FailClose, LastClose, Unexpected, FindRequest, GetRequest,
                clientVars, searchVars, SessionStep, BeginRead
  <2>2. pc'[t] \in {"failclose", "lastclose", "ended"}
    BY <2>1 DEF Goes, FInv, FTypeOK, SessionsTypeOK
  <2>3. Closes(t)
    BY <1>1, <2>1 DEF Closes
  <2> QED
    BY <1>1, <2>1, <2>2, <2>3, ThreadTypes DEF Places
<1>3. CASE BeginRead(t)
  <2>1. /\ pc[t] = "idle" /\ UNCHANGED <<fdTable, peer, inbox, sent, cl>>
        /\ UNCHANGED <<mutex, current, entries, cut>>
        /\ \/ Goes(t, "reading") /\ from' = [from EXCEPT ![t] = fdTable[cl[t]]]
              /\ fdTable[cl[t]] \in Clients
           \/ Goes(t, "failclose") /\ UNCHANGED from
    BY <1>1, <1>3 DEF BeginRead, Named, clientVars, searchVars, SessionStep, FindRequest,
                      GetRequest, ReadFails, FailClose, LastClose, Unexpected
  <2>2. Closes(t)
    BY <2>1 DEF Closes
  <2>3. FTypeOK'
    BY <2>1, ClientsAssumption DEF Goes, FInv, FTypeOK, SessionsTypeOK
  <2>4. RequestInv'
    BY <2>1 DEF Goes, FInv, FTypeOK, SessionsTypeOK, RequestInv
  <2> QED
    BY <2>2, <2>3, <2>4, ClosesNumbers DEF FInv
<1>4. CASE FindRequest(t)
  <2>1. /\ pc[t] = "reading" /\ from[t] \in Clients /\ inbox[from[t]] # << >>
        /\ \E kind \in Kinds(Head(inbox[from[t]])) : Goes(t, kind)
        /\ inbox' = [inbox EXCEPT ![from[t]] = Tail(@)]
        /\ UNCHANGED <<fdTable, peer, sent, cl, from, mutex, current, entries, cut>>
    BY <1>4 DEF FindRequest, GetRequest, searchVars, FInv, RequestInv
  <2>2. Head(inbox[from[t]]) \in Messages /\ Tail(inbox[from[t]]) \in Seq(Messages)
    BY <2>1 DEF FInv, RequestInv
  <2>3. PICK kind \in Headers : Goes(t, kind)
    BY <2>1, <2>2 DEF Kinds, Messages, Headers
  <2>4. Closes(t)
    BY <2>1, <2>3 DEF Closes, Headers
  <2>5. FTypeOK'
    BY <1>1, <2>1, <2>3, ClientsAssumption DEF Goes, Headers, FInv, FTypeOK, SessionsTypeOK
  <2>6. RequestInv'
    BY <2>1, <2>2, <2>3 DEF Goes, Headers, FInv, FTypeOK, SessionsTypeOK, RequestInv
  <2> QED
    BY <2>4, <2>5, <2>6, ClosesNumbers DEF FInv
<1> QED
  BY <1>2, <1>3, <1>4 DEF SessionStep

\* A search and its cancellation.
LEMMA SearchFInv ==
    ASSUME FInv, NEW t \in Clients,
           \/ Plain(t) \/ Cancel(t) \/ CancelReply(t) \/ FindBusy(t) \/ FindFree(t)
           \/ ReadBody(t) \/ FindOk(t) \/ Visit(t) \/ WriteEntry(t) \/ EndOfList(t)
           \/ Finish(t) \/ FindExit(t)
    PROVE  FInv'
<1>1. /\ cl \in [Clients -> Fds] /\ cl[t] \in Fds /\ pc \in [Clients -> Places]
      /\ mutex = t => pc[t] \in {"cancelled", "body"}
      /\ entries \in [Clients -> 0 .. MaxEntries] /\ MaxEntries \in Nat
      /\ current \in Clients \cup {NoOne} /\ NoOne \notin Clients
      /\ mutex \in Clients \cup {NoOne}
  BY ClientsAssumption, MaxEntriesAssumption DEF FInv, FTypeOK, SessionsTypeOK, Places
<1>2. CASE Cancel(t) \/ Finish(t) \/ FindExit(t)
  <2>1. /\ pc[t] \in {"cancel", "finished", "findexit"} /\ ClearSearch /\ CutBy(t)
        /\ \/ Goes(t, "cancelled") /\ mutex' = t
           \/ (Goes(t, "idle") \/ Goes(t, "lastclose")) /\ mutex' = mutex /\ mutex = NoOne
        /\ UNCHANGED <<peer, cl, inbox, sent, from, entries>>
    BY <1>2 DEF Cancel, Finish, FindExit, clientVars
  <2>2. pc'[t] \in {"cancelled", "idle", "lastclose"} /\ (mutex' = t => pc'[t] = "cancelled")
    BY <1>1, <2>1 DEF Goes
  <2>3. /\ current' = NoOne
        /\ \/ fdTable' = fdTable /\ cut' = cut
           \/ /\ current # NoOne /\ fdTable' = Closed(cl[current])
              /\ cut' = cut \/ cut' = cut \cup {current}
    BY <2>1 DEF ClearSearch, CutBy
  <2>4. Closes(t)
    BY <1>1, <2>1, <2>3 DEF Closes
  <2> QED
    BY <1>1, <2>1, <2>2, <2>4, ThreadTypes DEF Places
<1>3. CASE \/ Plain(t) \/ CancelReply(t) \/ FindBusy(t) \/ FindFree(t)
           \/ FindOk(t) \/ WriteEntry(t) \/ EndOfList(t)
  <2>1. /\ pc[t] \in {"plain", "cancelled", "find", "found0", "match", "search"}
        /\ \/ \E w \in {"idle", "lastclose", "findexit", "search", "finished"} : Goes(t, w)
              /\ (mutex' = NoOne \/ (UNCHANGED mutex /\ pc[t] # "cancelled"))
           \/ Goes(t, "body") /\ mutex' = t
        /\ fdTable' \in {fdTable, Closed(cl[t])}
        /\ UNCHANGED <<peer, cl, inbox, sent, from, entries, current, cut>>
    BY <1>3 DEF Plain, CancelReply, FindBusy, FindFree, FindOk, WriteEntry, EndOfList, Reply,
                Unlocked, clientVars, searchVars
  <2>2. /\ pc'[t] \in {"idle", "lastclose", "findexit", "search", "finished", "body"}
        /\ mutex' = NoOne \/ (UNCHANGED mutex /\ mutex # t) \/ (mutex' = t /\ pc'[t] = "body")
    BY <1>1, <2>1 DEF Goes
  <2>3. Closes(t)
    BY <1>1, <2>1 DEF Closes
  <2> QED
    BY <1>1, <2>1, <2>2, <2>3, ThreadTypes DEF Places
<1>4. CASE Visit(t)
  <2>1. /\ pc[t] = "search" /\ mutex' = mutex
        /\ \E w \in {"findexit", "search", "match"} : Goes(t, w)
        /\ UNCHANGED <<fdTable, peer, cl, inbox, sent, from, current, cut>>
        /\ entries' = entries \/ (entries[t] > 0 /\ entries' = [entries EXCEPT ![t] = @ - 1])
    BY <1>4 DEF Visit, clientVars
  <2>2. pc'[t] \in {"findexit", "search", "match"} /\ mutex # t
    BY <1>1, <2>1 DEF Goes
  <2>3. entries' \in [Clients -> 0 .. MaxEntries]
    BY <1>1, <2>1
  <2>4. Closes(t)
    BY <1>1, <2>1 DEF Closes
  <2> QED
    BY <1>1, <2>1, <2>2, <2>3, <2>4, ThreadTypes DEF Places
<1>5. CASE ReadBody(t)
  <2>1. /\ pc[t] = "body" /\ mutex' = NoOne
        /\ \/ /\ Named(t) # NoOne /\ inbox[Named(t)] # << >>
              /\ inbox' = [inbox EXCEPT ![Named(t)] = Tail(@)]
              /\ current' = t /\ entries' = [entries EXCEPT ![t] = MaxEntries]
              /\ Goes(t, "found0") /\ fdTable' = fdTable
           \/ /\ Goes(t, "findexit") /\ fdTable' = Closed(cl[t])
              /\ UNCHANGED <<inbox, current, entries>>
        /\ UNCHANGED <<peer, sent, cl, from, cut>>
    BY <1>5 DEF ReadBody, Unlocked
  <2>2. Closes(t)
    BY <1>1, <2>1 DEF Closes
  <2>3. pc' = [pc EXCEPT ![t] = pc'[t]] /\ pc'[t] \in {"found0", "findexit"}
    BY <1>1, <2>1 DEF Goes
  <2>4. inbox' \in [Clients -> Seq(Messages)]
    <3>1. inbox \in [Clients -> Seq(Messages)] /\ Named(t) \in Clients \cup {NoOne}
      BY <1>1 DEF Named, FInv, FTypeOK, SessionsTypeOK, RequestInv
    <3>2. Named(t) \in Clients /\ inbox[Named(t)] # << >> => Tail(inbox[Named(t)]) \in Seq(Messages)
      BY <3>1
    <3>3. CASE inbox' = inbox
      BY <3>1, <3>3
    <3>4. CASE /\ Named(t) # NoOne /\ inbox[Named(t)] # << >>
               /\ inbox' = [inbox EXCEPT ![Named(t)] = Tail(@)]
      BY <3>1, <3>2, <3>4
    <3> QED
      BY <2>1, <3>3, <3>4, Zenon
  <2>5. RequestInv'
    <3>1. from' = from /\ \A s \in Clients : pc[s] = "reading" => from[s] \in Clients
      BY <2>1 DEF FInv, RequestInv
    <3>2. \A s \in Clients : pc'[s] = "reading" => pc[s] = "reading"
      BY <1>1, <2>3
    <3> QED
      BY <2>4, <3>1, <3>2 DEF RequestInv
  <2>6. /\ fdTable' \in [Fds -> Clients \cup {NoOne}] /\ pc' \in [Clients -> Places]
        /\ entries' \in [Clients -> 0 .. MaxEntries]
    <3>1. fdTable \in [Fds -> Clients \cup {NoOne}]
      BY DEF FInv, FTypeOK, SessionsTypeOK
    <3>2. Closed(cl[t]) \in [Fds -> Clients \cup {NoOne}]
      BY <1>1, <3>1, ClosedEffect
    <3>3. entries' \in [Clients -> 0 .. MaxEntries]
      BY <1>1, <2>1
    <3>4. pc' \in [Clients -> Places]
      BY <1>1, <2>3 DEF Places
    <3> QED
      BY <2>1, <3>1, <3>2, <3>3, <3>4, Zenon
  <2>7. FTypeOK'
    BY <1>1, <2>1, <2>3, <2>6 DEF FInv, FTypeOK, SessionsTypeOK, Places
  <2> QED
    BY <2>2, <2>5, <2>7, ClosesNumbers DEF FInv
<1> QED
  BY <1>2, <1>3, <1>4, <1>5

LEMMA NextFInv == FInv /\ [FNext]_findVars => FInv'
<1> SUFFICES ASSUME FInv, [FNext]_findVars PROVE FInv'
  OBVIOUS
<1>1. CASE UNCHANGED findVars
  BY <1>1 DEF findVars, FInv, FTypeOK, SessionsTypeOK, RequestInv, NumberInv, CutInv,
              CancelIsFinal
<1>2. CASE (ClientStep(Requests) \/ Main) /\ UNCHANGED searchVars
  BY <1>2, ClientFInv DEF ClientStep, Main
<1>3. CASE \E t \in Clients : ThreadStep(t)
  BY <1>3, SessionFInv, SearchFInv DEF ThreadStep, FindStep
<1> QED
  BY <1>1, <1>2, <1>3 DEF FNext

LEMMA FInvAlways == FSpec => []FInv
BY InitFInv, NextFInv, PTL DEF FSpec

\* Every variable stays in its range, and only a thread that cancels or reads
\* the parameters of a search holds the mutex (findNamesAndContent).
THEOREM FindTypes == FSpec => []FTypeOK
<1>1. FInv => FTypeOK
  BY DEF FInv
<1> QED
  BY <1>1, FInvAlways, PTL

\* A search that another thread has cleared can never send its client anything
\* more, although the number it writes to is given away again.
THEOREM CancelIsForGood == FSpec => []CancelIsFinal
<1>1. FInv => CancelIsFinal
  BY DEF FInv
<1> QED
  BY <1>1, FInvAlways, PTL

=============================================================================
