---------------------------- MODULE ClientSessions ----------------------------
(***************************************************************************)
(* The helper process as its local clients meet it (RootHelper/r.cpp):     *)
(* rhMain accepts Unix-domain connections and starts one detached thread   *)
(* clientSession per client; the threads share the process's table of      *)
(* descriptor numbers.  A session knows its client by number only, the     *)
(* kernel gives a new connection the lowest number that is free, and       *)
(* closing a number twice is closing whatever it names the second time.    *)
(*                                                                         *)
(* A thread is named after the client it was started for.  What a request  *)
(* does is the business of the modules that extend this one.               *)
(***************************************************************************)
EXTENDS Naturals, Sequences, FiniteSets

CONSTANTS
    Clients,   \* the connections that can be made to the socket
    Trusted,   \* those whose uid is CALLER_EUID
    Fds,       \* the descriptor numbers available for connections
    MaxSent,   \* bound: requests sent by all clients
    NoOne

ASSUME ClientsAssumption == Trusted \subseteq Clients /\ NoOne \notin Clients
ASSUME FdsAssumption == Fds \subseteq Nat /\ Fds # {} /\ IsFiniteSet(Fds)
ASSUME MaxSentAssumption == MaxSent \in Nat

VARIABLES
    fdTable,   \* number |-> the connection it names
    peer,      \* client |-> its end of the connection
    inbox,     \* client |-> what it sent and nobody has read
    sent,      \* number of requests sent
    cl,        \* thread |-> the number clientSession was given
    pc,        \* thread |-> where it is
    from       \* thread |-> the connection its blocked read() is on

clientVars == <<peer, inbox, sent>>
threadVars == <<cl, pc, from>>
sessionsVars == <<fdTable, peer, inbox, sent, cl, pc, from>>

SessionsInit ==
    /\ fdTable = [n \in Fds |-> NoOne]
    /\ peer = [c \in Clients |-> "away"]
    /\ inbox = [c \in Clients |-> << >>]
    /\ sent = 0
    /\ cl = [t \in Clients |-> CHOOSE n \in Fds : TRUE]
    /\ pc = [t \in Clients |-> "none"]
    /\ from = [t \in Clients |-> NoOne]

(***************************************************************************)
(* The clients.  A request is sent whole, header and parameters; a client  *)
(* may also leave when only the header is out.                             *)
(***************************************************************************)
Send(c, request) ==
    /\ peer[c] = "open" /\ sent < MaxSent /\ sent' = sent + 1
    /\ \/ inbox' = [inbox EXCEPT ![c] = @ \o request] /\ UNCHANGED peer
       \/ /\ inbox' = [inbox EXCEPT ![c] = Append(@, Head(request))]
          /\ peer' = [peer EXCEPT ![c] = "left"]
    /\ UNCHANGED <<fdTable, threadVars>>

Leave(c) ==
    /\ peer[c] = "open" /\ peer' = [peer EXCEPT ![c] = "left"]
    /\ UNCHANGED <<fdTable, inbox, sent, threadVars>>

(***************************************************************************)
(* rhMain: accept, authenticatePeer, the thread.  A client that is "away"  *)
(* may be in the backlog of the socket.                                    *)
(***************************************************************************)
FreeNumbers == {n \in Fds : fdTable[n] = NoOne}
LowestFree == CHOOSE n \in FreeNumbers : \A m \in FreeNumbers : n <= m

Accept(c) ==
    /\ peer[c] = "away" /\ c \in Trusted /\ FreeNumbers # {}
    /\ peer' = [peer EXCEPT ![c] = "open"]
    /\ fdTable' = [fdTable EXCEPT ![LowestFree] = c]
    /\ cl' = [cl EXCEPT ![c] = LowestFree]
    /\ pc' = [pc EXCEPT ![c] = "idle"]
    /\ UNCHANGED <<inbox, sent, from>>

Refuse(c) ==
    /\ peer[c] = "away" /\ c \notin Trusted /\ FreeNumbers # {}
    /\ peer' = [peer EXCEPT ![c] = "refused"]
    /\ UNCHANGED <<fdTable, inbox, sent, threadVars>>

(***************************************************************************)
(* Descriptor calls of a session thread.                                   *)
(***************************************************************************)
Named(t) == fdTable[cl[t]]   \* the connection its number names now

\* Mutant: close() does nothing.
NotClosed(n) == fdTable

\* The table after ::close(n); on a free number it fails, unnoticed.
Closed(n) == [fdTable EXCEPT ![n] = NoOne]

Goes(t, where) == pc' = [pc EXCEPT ![t] = where]

\* A write fails on a free number and once the other end is closed.
CanWrite(t) == Named(t) # NoOne /\ peer[Named(t)] # "left"

\* writeAllOrExit on the client's descriptor: on failure it is closed and
\* threadExitThrowable flies to the handler "failed".
Reply(t, next, failed) ==
    \/ CanWrite(t) /\ Goes(t, next) /\ UNCHANGED fdTable
    \/ ~CanWrite(t) /\ Goes(t, failed) /\ fdTable' = Closed(cl[t])

(***************************************************************************)
(* clientSession: the loop that reads request headers, and its end.        *)
(***************************************************************************)
\* read() looks the number up once, and then sleeps on the connection.
BeginRead(t) ==
    /\ pc[t] = "idle"
    /\ \/ Named(t) # NoOne /\ Goes(t, "reading") /\ from' = [from EXCEPT ![t] = Named(t)]
       \/ Named(t) = NoOne /\ Goes(t, "failclose") /\ UNCHANGED from
    /\ UNCHANGED <<fdTable, clientVars, cl>>

\* A header arrives; "kinds" are the requests serveRequest would see in it.
GetRequest(t, kinds) ==
    /\ pc[t] = "reading" /\ inbox[from[t]] # << >>
    /\ \E kind \in kinds : Goes(t, kind)
    /\ inbox' = [inbox EXCEPT ![from[t]] = Tail(@)]
    /\ UNCHANGED <<fdTable, peer, sent, cl, from>>

\* The client's end is closed and everything it sent has been read.
ReadFails(t) ==
    /\ pc[t] = "reading" /\ inbox[from[t]] = << >> /\ peer[from[t]] = "left"
    /\ Goes(t, "failclose")
    /\ UNCHANGED <<fdTable, clientVars, cl, from>>

\* readAllOrExit closes the number before it throws ...
FailClose(t) ==
    /\ pc[t] = "failclose" /\ Goes(t, "lastclose")
    /\ fdTable' = Closed(cl[t])
    /\ UNCHANGED <<clientVars, cl, from>>

\* ... and clientSession closes it again when it has caught the exception.
LastClose(t) ==
    /\ pc[t] = "lastclose" /\ Goes(t, "ended")
    /\ fdTable' = Closed(cl[t])
    /\ UNCHANGED <<clientVars, cl, from>>

\* serveRequest, default: an unknown header closes and ends the session.
Unexpected(t) ==
    /\ pc[t] = "unexpected" /\ Goes(t, "lastclose")
    /\ fdTable' = Closed(cl[t])
    /\ UNCHANGED <<clientVars, cl, from>>

ClientStep(requests) ==
    \E c \in Clients : Leave(c) \/ \E r \in requests : Send(c, r)
Main == \E c \in Clients : Accept(c) \/ Refuse(c)
SessionStep(t) ==
    BeginRead(t) \/ ReadFails(t) \/ FailClose(t) \/ LastClose(t) \/ Unexpected(t)

-----------------------------------------------------------------------------
SessionsTypeOK(places) ==
    /\ fdTable \in [Fds -> Clients \cup {NoOne}]
    /\ peer \in [Clients -> {"away", "refused", "open", "left"}]
    /\ sent \in 0 .. MaxSent
    /\ cl \in [Clients -> Fds]
    /\ from \in [Clients -> Clients \cup {NoOne}]
    /\ pc \in [Clients -> places \cup
                 {"none", "idle", "reading", "unexpected", "failclose", "lastclose", "ended"}]

\* However a session ends, and although numbers are closed twice and closed
\* by other threads, the connection of a client that has left is released:
\* the process, which runs for months, does not run out of descriptors.
NoDescriptorLeak ==
    \A c \in Clients : peer[c] = "left" ~> \A n \in Fds : fdTable[n] # c

=============================================================================
