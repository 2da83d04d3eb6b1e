------------------------------ MODULE FindSearch ------------------------------
(***************************************************************************)
(* The search for file names (findNamesAndContent in RootHelper/r.cpp) and *)
(* its cancellation from another client's session, over the sessions of    *)
(* ClientSessions.  The global currentSearchInOutDesc holds the descriptor *)
(* NUMBER of the running search; a mutex protects its updates, but the     *)
(* search tests it without the mutex, and cancelling closes the number     *)
(* under the thread that searches.                                         *)
(***************************************************************************)
EXTENDS ClientSessions

CONSTANTS MaxEntries   \* bound: directory entries a search visits
ASSUME MaxEntriesAssumption == MaxEntries \in Nat

VARIABLES
    mutex,     \* currentSearchInOutDesc_mx: NoOne or the thread that holds it
    current,   \* currentSearchInOutDesc: NoOne (nullptr) or the thread that set it
    entries,   \* thread |-> entries left to visit
    cut        \* history: the threads whose search was cleared from outside

searchVars == <<mutex, current, entries, cut>>
findVars == <<fdTable, peer, inbox, sent, cl, pc, from,
              mutex, current, entries, cut>>

FInit ==
    /\ SessionsInit
    /\ mutex = NoOne /\ current = NoOne
    /\ entries = [t \in Clients |-> 0] /\ cut = {}

Requests == {<<"find", "body">>, <<"cancel">>, <<"plain">>}
Headers == {"find", "cancel", "plain", "unexpected"}

\* The request in a header; parameters taken for a header can be anything.
Kinds(message) == IF message = "body" THEN Headers ELSE {message}

FindRequest(t) ==
    /\ GetRequest(t, Kinds(Head(inbox[from[t]])))
    /\ UNCHANGED searchVars

\* Every other request, answered at once.
Plain(t) ==
    /\ pc[t] = "plain" /\ Reply(t, "idle", "lastclose")
    /\ UNCHANGED <<clientVars, cl, from, searchVars>>

\* Mutant: the lock is kept.
StillLocked == UNCHANGED mutex

Unlocked == mutex' = NoOne

\* Mutant: the pointer is cleared but the descriptor stays open.
ForgetSearch ==
    /\ current' = NoOne
    /\ UNCHANGED fdTable

\* find_thread_exit_function_unsafe.
ClearSearch ==
    /\ fdTable' = IF current = NoOne THEN fdTable ELSE Closed(cl[current])
    /\ current' = NoOne

CutBy(t) == cut' = IF current \in {NoOne, t} THEN cut ELSE cut \cup {current}

\* The request flag "cancel": close, free and clear under the mutex.
Cancel(t) ==
    /\ pc[t] = "cancel" /\ mutex = NoOne
    /\ ClearSearch /\ CutBy(t) /\ mutex' = t /\ Goes(t, "cancelled")
    /\ UNCHANGED <<clientVars, cl, from, entries>>

CancelReply(t) ==
    /\ pc[t] = "cancelled" /\ Reply(t, "idle", "findexit") /\ Unlocked
    /\ UNCHANGED <<clientVars, cl, from, current, entries, cut>>

\* A search is active: EAGAIN, and the parameters stay unread.
FindBusy(t) ==
    /\ pc[t] = "find" /\ mutex = NoOne /\ current # NoOne
    /\ Reply(t, "idle", "findexit")
    /\ UNCHANGED <<clientVars, cl, from, searchVars>>

FindFree(t) ==
    /\ pc[t] = "find" /\ mutex = NoOne /\ current = NoOne
    /\ mutex' = t /\ Goes(t, "body")
    /\ UNCHANGED <<fdTable, clientVars, cl, from, current, entries, cut>>

\* The parameters are read under the mutex; then the global is set.
ReadBody(t) ==
    /\ pc[t] = "body" /\ Unlocked
    /\ \/ /\ Named(t) # NoOne /\ inbox[Named(t)] # << >>
          /\ inbox' = [inbox EXCEPT ![Named(t)] = Tail(@)]
          /\ current' = t /\ entries' = [entries EXCEPT ![t] = MaxEntries]
          /\ Goes(t, "found0") /\ UNCHANGED fdTable
       \/ /\ IF Named(t) = NoOne THEN TRUE
             ELSE inbox[Named(t)] = << >> /\ peer[Named(t)] = "left"
          /\ Goes(t, "findexit") /\ fdTable' = Closed(cl[t])
          /\ UNCHANGED <<inbox, current, entries>>
    /\ UNCHANGED <<peer, sent, cl, from, cut>>

FindOk(t) ==
    /\ pc[t] = "found0" /\ Reply(t, "search", "findexit")
    /\ UNCHANGED <<clientVars, cl, from, searchVars>>

\* One directory entry: the test of the global, then the match.
Visit(t) ==
    /\ pc[t] = "search" /\ entries[t] > 0
    /\ \/ current = NoOne /\ Goes(t, "findexit") /\ UNCHANGED entries
       \/ /\ current # NoOne
          /\ entries' = [entries EXCEPT ![t] = @ - 1]
          /\ Goes(t, "search") \/ Goes(t, "match")
    /\ UNCHANGED <<fdTable, clientVars, cl, from, mutex, current, cut>>

\* writefind_resp; a failure throws without closing.
WriteEntry(t) ==
    /\ pc[t] = "match" /\ Goes(t, IF CanWrite(t) THEN "search" ELSE "findexit")
    /\ UNCHANGED <<fdTable, clientVars, cl, from, searchVars>>

EndOfList(t) ==
    /\ pc[t] = "search" /\ entries[t] = 0
    /\ Reply(t, "finished", "findexit")
    /\ UNCHANGED <<clientVars, cl, from, searchVars>>

\* on_find_thread_exit_function: at the end of a search, which goes on to read
\* from the number it has just closed ...
Finish(t) ==
    /\ pc[t] = "finished" /\ mutex = NoOne
    /\ ClearSearch /\ CutBy(t) /\ Goes(t, "idle")
    /\ UNCHANGED <<clientVars, cl, from, mutex, entries>>

\* Mutant: serveRequest does not catch what a search throws.
FindExitMissing(t) ==
    /\ pc[t] = "findexit" /\ Goes(t, "lastclose")
    /\ UNCHANGED <<fdTable, clientVars, cl, from, mutex, current, entries, cut>>

\* ... and in serveRequest, for every exception of findNamesAndContent.
FindExit(t) ==
    /\ pc[t] = "findexit" /\ mutex = NoOne
    /\ ClearSearch /\ CutBy(t) /\ Goes(t, "lastclose")
    /\ UNCHANGED <<clientVars, cl, from, mutex, entries>>

FindStep(t) ==
    \/ FindRequest(t) \/ Plain(t)
    \/ Cancel(t) \/ CancelReply(t) \/ FindBusy(t) \/ FindFree(t) \/ ReadBody(t)
    \/ FindOk(t) \/ Visit(t) \/ WriteEntry(t) \/ EndOfList(t)
    \/ Finish(t) \/ FindExit(t)

ThreadStep(t) == FindStep(t) \/ (SessionStep(t) /\ UNCHANGED searchVars)

FNext ==
    \/ (ClientStep(Requests) \/ Main) /\ UNCHANGED searchVars
    \/ \E t \in Clients : ThreadStep(t)

FSpec == FInit /\ [][FNext]_findVars

\* Threads are scheduled, and one that waits for the mutex again and again
\* gets it in the end.
FFairSpec == FSpec /\ \A t \in Trusted : WF_findVars(ThreadStep(t)) /\ SF_findVars(FindStep(t))

-----------------------------------------------------------------------------
\* Ranges of the variables; the mutex is held only inside findNamesAndContent.
FTypeOK ==
    /\ SessionsTypeOK({"find", "cancel", "plain", "cancelled", "body", "found0",
                       "search", "match", "finished", "findexit"})
    /\ mutex \in Clients \cup {NoOne} /\ current \in Clients \cup {NoOne}
    /\ entries \in [Clients -> 0 .. MaxEntries] /\ cut \subseteq Clients
    /\ mutex # NoOne => pc[mutex] \in {"cancelled", "body"}

\* A search cleared by another thread can never send its client anything more:
\* "force close of currently open search descriptor".
CancelIsFinal == \A t \in cut : fdTable[cl[t]] # t

\* The slot of "the" search is always given back, however searches end, are
\* cancelled and fail at the same time: new searches are not refused for ever.
SearchSlotFreed == current # NoOne ~> current = NoOne

\* The search tests the global at every entry so that a cancelled one ends
\* even if it finds nothing: it visits no entry after it was cleared.
CutSearchStops ==
    [][\A t \in cut \ {current} : entries'[t] = entries[t]]_findVars

=============================================================================
