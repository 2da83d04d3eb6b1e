------------------------- MODULE ChildProcessesProofs -------------------------
(***************************************************************************)
(* For any number of clients, processes and descriptors: the types of      *)
(* ChildProcesses, that there is never a second xre server, that no thread *)
(* waits without a child to wait for, and whom a stop interrupts.          *)
(***************************************************************************)
EXTENDS ChildProcesses, ClientSessionsProofs, FiniteSetTheorems

Requests == {"p7zip", "start", "stop", "status"}

\* The places of a thread between its bind and the close of its socket.
Starting == {"fork", "store", "closecl", "closeport"}

\* What a thread reads is a request of the connection its read() began on; a
\* client that is not accepted has no thread.
SessionInv ==
    /\ inbox \in [Clients -> Seq(Requests)]
    /\ \A c \in Clients : peer[c] = "away" => pc[c] = "none"
    /\ \A t \in Clients : pc[t] = "reading" => from[t] \in Clients

\* The listening socket excludes: one thread at a time has it, a server has
\* a copy of it, and there is none while a thread is about to fork one.
PortInv ==
    /\ \A s, t \in tmp_rhss : s = t
    /\ \A t \in Clients : pc[t] \in Starting => t \in tmp_rhss
    /\ \A p \in Pids : Running(p) /\ kind[p] = "xre" =>
          /\ p \in hasPort
          /\ \A t \in Clients : pc[t] # "fork"

Waiting == {t \in Clients : pc[t] = "wait"}
Unreaped == {p \in Pids : kind[p] = "p7zip" /\ proc[p] \in {"running", "zombie"}}

WaitInv ==
    /\ IsFiniteSet(Waiting) /\ IsFiniteSet(Unreaped)
    /\ Cardinality(Waiting) <= Cardinality(Unreaped)

CInv == CTypeOK /\ SessionInv /\ PortInv /\ OneServer /\ WaitInv

-----------------------------------------------------------------------------
\* A thread that goes to w leaves the others where they are.
LEMMA GoesEffect ==
    ASSUME CTypeOK, NEW t \in Clients, NEW w, Goes(t, w)
    PROVE  /\ pc' = [s \in Clients |-> IF s = t THEN w ELSE pc[s]]
           /\ Waiting' = IF w = "wait" THEN Waiting \cup {t} ELSE Waiting \ {t}
BY DEF CTypeOK, SessionsTypeOK, Goes, Waiting

-----------------------------------------------------------------------------
(***************************************************************************)
(* Most steps concern neither the children nor the listening socket.       *)
(***************************************************************************)
Quiet(t) ==
    /\ \E w : w \notin Starting \cup {"wait"} /\ Goes(t, w)
    /\ pc[t] # "wait"
    /\ UNCHANGED <<proc, kind, hasPort, tmp_rhss>>

\* Steps that move no thread.
Still == UNCHANGED <<pc, proc, kind, hasPort, tmp_rhss>>

LEMMA QuietKeepsAll ==
    ASSUME CInv, NEW t \in Clients, Quiet(t) \/ Still
    PROVE  PortInv' /\ OneServer' /\ WaitInv'
<1>1. CASE Still
  BY <1>1 DEF Still, CInv, PortInv, OneServer, WaitInv, Waiting, Unreaped, Running
<1>2. CASE Quiet(t)
  <2>1. PICK w : w \notin Starting \cup {"wait"} /\ Goes(t, w)
    BY <1>2 DEF Quiet
  <2>2. /\ pc' = [s \in Clients |-> IF s = t THEN w ELSE pc[s]]
        /\ Waiting' = Waiting \ {t}
    BY <2>1, GoesEffect DEF CInv
  <2>3. Waiting' = Waiting
    BY <1>2, <2>2 DEF Quiet, Waiting
  <2>4. WaitInv'
    BY <1>2, <2>3 DEF Quiet, CInv, WaitInv, Unreaped
  <2>5. OneServer'
    BY <1>2 DEF Quiet, CInv, OneServer, Running
  <2>6. PortInv'
    BY <1>2, <2>1, <2>2 DEF Quiet, CInv, PortInv, Running, Starting
  <2> QED
    BY <2>4, <2>5, <2>6
<1> QED
  BY <1>1, <1>2

-----------------------------------------------------------------------------
(***************************************************************************)
(* Types, action by action.                                                *)
(***************************************************************************)
Places == {"none", "idle", "reading", "unexpected", "failclose", "lastclose", "ended",
           "p7zip", "wait", "start", "fork", "store", "closecl", "closeport",
           "stop", "kill", "forget", "status"}

\* A thread that goes anywhere but into a read, with the table as it was or
\* with its own number closed.
Moves(t) ==
    /\ pc[t] # "none"
    /\ \E w \in Places \ {"none", "reading"} : Goes(t, w)
    /\ fdTable' = fdTable \/ fdTable' = Closed(cl[t])
    /\ UNCHANGED <<clientVars, cl, from>>

LEMMA MovesKeepsSessions ==
    ASSUME CInv, NEW t \in Clients, Moves(t)
    PROVE  /\ SessionsTypeOK(Places)'
           /\ SessionInv'
<1>1. PICK w \in Places \ {"none", "reading"} : Goes(t, w)
  BY DEF Moves
<1>2. pc' = [s \in Clients |-> IF s = t THEN w ELSE pc[s]]
  BY <1>1, GoesEffect DEF CInv
<1>3. pc' \in [Clients -> Places]
  BY <1>2 DEF CInv, CTypeOK, SessionsTypeOK, Places
<1>4. fdTable' \in [Fds -> Clients \cup {NoOne}]
  BY DEF Moves, Closed, CInv, CTypeOK, SessionsTypeOK
<1>5. SessionsTypeOK(Places)'
  BY <1>3, <1>4 DEF Moves, clientVars, CInv, CTypeOK, SessionsTypeOK, Places
<1>6. SessionInv'
  BY <1>2 DEF Moves, clientVars, CInv, SessionInv
<1> QED
  BY <1>5, <1>6

\* Only a read goes into "reading", and it begins on a connection.
LEMMA BeginReadKeepsSessions ==
    ASSUME CInv, NEW t \in Clients, BeginRead(t)
    PROVE  /\ SessionsTypeOK(Places)'
           /\ SessionInv'
<1>1. Named(t) \in Clients \cup {NoOne}
  BY DEF Named, CInv, CTypeOK, SessionsTypeOK
<1>2. PICK w \in {"reading", "failclose"} :
        /\ Goes(t, w)
        /\ from' = IF w = "reading" THEN [from EXCEPT ![t] = Named(t)] ELSE from
        /\ w = "reading" => Named(t) \in Clients
  BY <1>1 DEF BeginRead
<1>3. pc' = [s \in Clients |-> IF s = t THEN w ELSE pc[s]]
  BY <1>2, GoesEffect DEF CInv
<1>4. from' \in [Clients -> Clients \cup {NoOne}]
  BY <1>2 DEF CInv, CTypeOK, SessionsTypeOK
<1>5. pc' \in [Clients -> Places]
  BY <1>3 DEF CInv, CTypeOK, SessionsTypeOK, Places
<1>6. SessionsTypeOK(Places)'
  BY <1>4, <1>5 DEF BeginRead, clientVars, CInv, CTypeOK, SessionsTypeOK
<1>7. SessionInv'
  <2>1. \A s \in Clients : pc'[s] = "reading" => from'[s] \in Clients
    BY <1>2, <1>3 DEF CInv, SessionInv, CTypeOK, SessionsTypeOK
  <2> QED
    BY <1>3, <2>1 DEF BeginRead, clientVars, CInv, SessionInv
<1> QED
  BY <1>6, <1>7

\* A request takes the thread to the place of its handler.
LEMMA RequestGoes ==
    ASSUME CInv, NEW t \in Clients, ChildRequest(t)
    PROVE  /\ \E w \in Requests : Goes(t, w)
           /\ pc[t] = "reading"
           /\ inbox' \in [Clients -> Seq(Requests)]
<1>1. from[t] \in Clients /\ inbox[from[t]] \in Seq(Requests) /\ inbox[from[t]] # << >>
  BY DEF ChildRequest, GetRequest, CInv, SessionInv
<1>2. Head(inbox[from[t]]) \in Requests /\ Tail(inbox[from[t]]) \in Seq(Requests)
  BY <1>1
<1>3. Goes(t, Head(inbox[from[t]]))
  BY DEF ChildRequest, GetRequest
<1>4. inbox' = [inbox EXCEPT ![from[t]] = Tail(@)]
  BY DEF ChildRequest, GetRequest
<1> QED
  BY <1>1, <1>2, <1>3, <1>4 DEF ChildRequest, GetRequest, CInv, SessionInv

LEMMA ChildRequestKeepsSessions ==
    ASSUME CInv, NEW t \in Clients, ChildRequest(t)
    PROVE  /\ SessionsTypeOK(Places)'
           /\ SessionInv'
<1>1. PICK w \in Requests : Goes(t, w)
  BY RequestGoes
<1>2. pc' = [s \in Clients |-> IF s = t THEN w ELSE pc[s]]
  BY <1>1, GoesEffect DEF CInv
<1>3. pc' \in [Clients -> Places]
  BY <1>2 DEF CInv, CTypeOK, SessionsTypeOK, Places, Requests
<1>4. UNCHANGED <<fdTable, peer, sent, cl, from>>
  BY DEF ChildRequest, GetRequest
<1>5. SessionsTypeOK(Places)'
  BY <1>3, <1>4 DEF CInv, CTypeOK, SessionsTypeOK
<1>6. SessionInv'
  BY <1>2, <1>4, RequestGoes DEF CInv, SessionInv, Requests
<1> QED
  BY <1>5, <1>6

-----------------------------------------------------------------------------
(***************************************************************************)
(* Clients and the accept loop.                                            *)
(***************************************************************************)
LEMMA ClientStepKeepsSessions ==
    ASSUME CInv, ClientStep(CRequests)
    PROVE  /\ SessionsTypeOK(Places)'
           /\ SessionInv'
           /\ UNCHANGED pc
<1>1. PICK c \in Clients : Leave(c) \/ \E r \in CRequests : Send(c, r)
  BY DEF ClientStep
<1>2. UNCHANGED <<fdTable, threadVars>>
  BY <1>1 DEF Leave, Send
<1>3. /\ peer[c] = "open"
      /\ peer' = peer \/ peer' = [peer EXCEPT ![c] = "left"]
  BY <1>1 DEF Leave, Send
<1>4. sent' \in 0 .. MaxSent
  BY <1>1, MaxSentAssumption DEF Leave, Send, CInv, CTypeOK, SessionsTypeOK
<1>5. inbox' \in [Clients -> Seq(Requests)]
  <2>1. CASE Leave(c)
    BY <2>1 DEF Leave, CInv, SessionInv
  <2>2. CASE \E r \in CRequests : Send(c, r)
    <3>1. PICK r \in CRequests : Send(c, r)
      BY <2>2
    <3>2. r \in Seq(Requests) /\ Head(r) \in Requests
      <4>1. PICK q \in Requests : r = <<q>>
        BY DEF CRequests, Requests
      <4> QED
        BY <4>1
    <3>3. inbox[c] \in Seq(Requests)
      BY DEF CInv, SessionInv
    <3>4. inbox[c] \o r \in Seq(Requests) /\ Append(inbox[c], Head(r)) \in Seq(Requests)
      BY <3>2, <3>3
    <3>5. \/ inbox' = [inbox EXCEPT ![c] = inbox[c] \o r]
          \/ inbox' = [inbox EXCEPT ![c] = Append(inbox[c], Head(r))]
      BY <3>1 DEF Send
    <3> QED
      BY <3>4, <3>5 DEF CInv, SessionInv
  <2> QED
    BY <1>1, <2>1, <2>2
<1>6. SessionsTypeOK(Places)'
  BY <1>2, <1>3, <1>4 DEF threadVars, CInv, CTypeOK, SessionsTypeOK, Places
<1>7. SessionInv'
  BY <1>2, <1>3, <1>5 DEF threadVars, CInv, CTypeOK, SessionsTypeOK, SessionInv
<1> QED
  BY <1>2, <1>6, <1>7 DEF threadVars

LEMMA AcceptKeepsSessions ==
    ASSUME CInv, NEW c \in Clients, Accept(c)
    PROVE  /\ SessionsTypeOK(Places)'
           /\ SessionInv'
           /\ pc[c] = "none" /\ Goes(c, "idle")
<1>1. pc[c] = "none" /\ Goes(c, "idle")
  BY DEF Accept, Goes, CInv, SessionInv
<1>2. pc' = [s \in Clients |-> IF s = c THEN "idle" ELSE pc[s]]
  BY <1>1, GoesEffect DEF CInv
<1>3. LowestFree \in Fds
  BY LowestFreeIsFree DEF Accept
<1>4. /\ pc' \in [Clients -> Places]
      /\ cl' \in [Clients -> Fds]
      /\ fdTable' \in [Fds -> Clients \cup {NoOne}]
      /\ peer' = [peer EXCEPT ![c] = "open"]
  BY <1>2, <1>3 DEF Accept, CInv, CTypeOK, SessionsTypeOK, Places
<1>5. SessionsTypeOK(Places)'
  BY <1>4 DEF Accept, CInv, CTypeOK, SessionsTypeOK
<1>6. SessionInv'
  BY <1>2, <1>4 DEF Accept, CInv, CTypeOK, SessionsTypeOK, SessionInv
<1> QED
  BY <1>1, <1>5, <1>6

LEMMA RefuseKeepsSessions ==
    ASSUME CInv, NEW c \in Clients, Refuse(c)
    PROVE  /\ SessionsTypeOK(Places)'
           /\ SessionInv'
           /\ UNCHANGED pc
<1>1. SessionsTypeOK(Places)'
  BY DEF Refuse, threadVars, CInv, CTypeOK, SessionsTypeOK, Places
<1> QED
  BY <1>1 DEF Refuse, threadVars, CInv, CTypeOK, SessionsTypeOK, SessionInv

-----------------------------------------------------------------------------
(***************************************************************************)
(* The steps of a session and of a request that leave the children alone.  *)
(***************************************************************************)
\* The variables of the children.
ChildTypeOK ==
    /\ proc \in [Pids -> {"unused", "running", "zombie", "reaped", "stranger"}]
    /\ kind \in [Pids -> {"p7zip", "xre"}]
    /\ by \in [Pids -> Clients \cup {NoOne}]
    /\ \A p \in hasPort : p \in Pids /\ Running(p)
    /\ \A p \in doomed : p \in Pids /\ Alive(p)
    /\ rhss_pid \in Pids \cup {NoPid}
    /\ tmp_rhss \subseteq Clients /\ pid \in [Clients -> Pids \cup {NoPid}]

LEMMA TypesKept ==
    ASSUME SessionsTypeOK(Places)', ChildTypeOK'
    PROVE  CTypeOK'
BY DEF CTypeOK, ChildTypeOK, SessionsTypeOK, Places

LEMMA ChildVarsUnchanged ==
    ASSUME CInv, UNCHANGED childVars
    PROVE  ChildTypeOK'
BY DEF CInv, CTypeOK, ChildTypeOK, childVars, Running, Alive

LEMMA ReplyMoves ==
    ASSUME NEW t \in Clients, NEW v, NEW w, Reply(t, v, w)
    PROVE  /\ Goes(t, v) \/ Goes(t, w)
           /\ fdTable' = fdTable \/ fdTable' = Closed(cl[t])
BY DEF Reply

\* The steps of the session loop.
LEMMA SessionStepKeepsAll ==
    ASSUME CInv, NEW t \in Clients, SessionStep(t), UNCHANGED childVars
    PROVE  CInv'
<1>1. CASE BeginRead(t)
  <2>1. Quiet(t)
    BY <1>1 DEF BeginRead, Quiet, Starting, childVars
  <2> QED
    BY <1>1, <2>1, BeginReadKeepsSessions, ChildVarsUnchanged, QuietKeepsAll, TypesKept DEF CInv
<1>2. CASE ReadFails(t) \/ FailClose(t) \/ LastClose(t) \/ Unexpected(t)
  <2>1. Moves(t)
    BY <1>2 DEF ReadFails, FailClose, LastClose, Unexpected, Moves, Places
  <2>2. Quiet(t)
    BY <1>2 DEF ReadFails, FailClose, LastClose, Unexpected, Quiet, Starting, childVars
  <2> QED
    BY <2>1, <2>2, MovesKeepsSessions, ChildVarsUnchanged, QuietKeepsAll, TypesKept DEF CInv
<1> QED
  BY <1>1, <1>2 DEF SessionStep

\* The steps of a request that leave the children alone ...
LEMMA AnswerKeepsAll ==
    ASSUME CInv, NEW t \in Clients,
           \/ ForkFails(t) \/ BindFails(t) \/ ForkServerFails(t)
           \/ KillFails(t) \/ KillNothing(t) \/ Status(t)
    PROVE  CInv'
<1>1. UNCHANGED childVars
  BY DEF ForkFails, BindFails, ForkServerFails, KillFails, KillNothing, Status
<1>2. Moves(t) /\ Quiet(t)
  <2>1. \E w \in {"idle", "lastclose"} : Goes(t, w)
    BY ReplyMoves DEF ForkFails, BindFails, ForkServerFails, KillFails, KillNothing, Status
  <2>2. fdTable' = fdTable \/ fdTable' = Closed(cl[t])
    BY ReplyMoves DEF ForkFails, BindFails, ForkServerFails, KillFails, KillNothing, Status
  <2>3. pc[t] \notin {"none", "wait"} /\ UNCHANGED <<clientVars, cl, from>>
    BY DEF ForkFails, BindFails, ForkServerFails, KillFails, KillNothing, Status
  <2> QED
    BY <1>1, <2>1, <2>2, <2>3 DEF Moves, Quiet, Places, Starting, childVars
<1> QED
  BY <1>1, <1>2, MovesKeepsSessions, ChildVarsUnchanged, QuietKeepsAll, TypesKept DEF CInv

\* ... and those that only signal or forget the server.
LEMMA StopKeepsAll ==
    ASSUME CInv, NEW t \in Clients, StopKnown(t) \/ Kill(t) \/ ForgetPid(t)
    PROVE  CInv'
<1>1. Moves(t) /\ Quiet(t)
  <2>1. CASE StopKnown(t)
    BY <2>1 DEF StopKnown, Moves, Quiet, Places, Starting
  <2>2. CASE Kill(t)
    BY <2>2 DEF Kill, Moves, Quiet, Places, Starting
  <2>3. CASE ForgetPid(t)
    BY <2>3, ReplyMoves DEF ForgetPid, Moves, Quiet, Places, Starting
  <2> QED
    BY <2>1, <2>2, <2>3
<1>2. ChildTypeOK'
  <2>1. CASE StopKnown(t)
    BY <2>1 DEF StopKnown, CInv, CTypeOK, ChildTypeOK, Running, Alive
  <2>2. CASE Kill(t)
    BY <2>2 DEF Kill, CInv, CTypeOK, ChildTypeOK, Running, Alive
  <2>3. CASE ForgetPid(t)
    BY <2>3 DEF ForgetPid, CInv, CTypeOK, ChildTypeOK, Running, Alive
  <2> QED
    BY <2>1, <2>2, <2>3
<1> QED
  BY <1>1, <1>2, MovesKeepsSessions, QuietKeepsAll, TypesKept DEF CInv

LEMMA RequestKeepsAll ==
    ASSUME CInv, NEW t \in Clients, ChildRequest(t)
    PROVE  CInv'
<1>1. UNCHANGED childVars
  BY DEF ChildRequest
<1>2. Quiet(t)
  <2>1. PICK w \in Requests : Goes(t, w)
    BY RequestGoes
  <2>2. w \notin Starting \cup {"wait"} /\ pc[t] # "wait"
    BY RequestGoes DEF Requests, Starting
  <2> QED
    BY <1>1, <2>1, <2>2 DEF Quiet, childVars
<1> QED
  BY <1>1, <1>2, ChildRequestKeepsSessions, ChildVarsUnchanged, QuietKeepsAll, TypesKept DEF CInv

-----------------------------------------------------------------------------
(***************************************************************************)
(* Operations: a fork adds a child before a thread waits; a wait that ends *)
(* takes at most one of them.                                              *)
(***************************************************************************)
LEMMA ForkP7ZipKeepsAll ==
    ASSUME CInv, NEW t \in Clients, ForkP7Zip(t)
    PROVE  CInv'
<1>1. PICK p \in Pids : Fork(t, p, "p7zip")
  BY DEF ForkP7Zip
<1>2. pc[t] = "p7zip" /\ Goes(t, "wait") /\ Moves(t)
  BY DEF ForkP7Zip, Moves, Places
<1>3. /\ proc[p] = "unused"
      /\ proc' = [q \in Pids |-> IF q = p THEN "running" ELSE proc[q]]
      /\ kind' = [q \in Pids |-> IF q = p THEN "p7zip" ELSE kind[q]]
  BY <1>1 DEF Fork, CInv, CTypeOK
<1>4. ChildTypeOK'
  BY <1>1, <1>3 DEF Fork, ForkP7Zip, CInv, CTypeOK, ChildTypeOK, Running, Alive
<1>5. pc' = [s \in Clients |-> IF s = t THEN "wait" ELSE pc[s]] /\ Waiting' = Waiting \cup {t}
  BY <1>2, GoesEffect DEF CInv
<1>6. PortInv' /\ OneServer'
  BY <1>1, <1>3, <1>5 DEF Fork, ForkP7Zip, CInv, PortInv, OneServer, Running, Starting
<1>7. WaitInv'
  <2>1. Unreaped' = Unreaped \cup {p} /\ p \notin Unreaped
    BY <1>3 DEF Unreaped
  <2>2. t \notin Waiting
    BY <1>2 DEF Waiting
  <2>3. /\ IsFiniteSet(Waiting') /\ Cardinality(Waiting') = Cardinality(Waiting) + 1
    BY <1>5, <2>2, FS_AddElement DEF CInv, WaitInv
  <2>4. /\ IsFiniteSet(Unreaped') /\ Cardinality(Unreaped') = Cardinality(Unreaped) + 1
    BY <2>1, FS_AddElement DEF CInv, WaitInv
  <2>5. Cardinality(Waiting) \in Nat /\ Cardinality(Unreaped) \in Nat
    BY FS_CardinalityType DEF CInv, WaitInv
  <2> QED
    BY <2>3, <2>4, <2>5 DEF CInv, WaitInv
<1> QED
  BY <1>2, <1>4, <1>6, <1>7, MovesKeepsSessions, TypesKept DEF CInv

LEMMA WaitKeepsAll ==
    ASSUME CInv, NEW t \in Clients, Wait(t)
    PROVE  CInv'
<1>1. pc[t] = "wait" /\ Goes(t, "idle") /\ Moves(t)
  BY DEF Wait, Moves, Places
<1>2. /\ pc' = [s \in Clients |-> IF s = t THEN "idle" ELSE pc[s]]
      /\ Waiting' = Waiting \ {t}
  BY <1>1, GoesEffect DEF CInv
<1>3. t \in Waiting
  BY <1>1 DEF Waiting
<1>4. Cardinality(Waiting) \in Nat /\ Cardinality(Unreaped) \in Nat
  BY FS_CardinalityType DEF CInv, WaitInv
<1>5. IsFiniteSet(Waiting') /\ Cardinality(Waiting') = Cardinality(Waiting) - 1
  BY <1>2, <1>3, FS_RemoveElement DEF CInv, WaitInv
<1>6. Unreaped # {}
  BY <1>3, <1>4, FS_EmptySet DEF CInv, WaitInv
<1>7. PICK p \in Pids : proc[p] = "zombie" /\ proc' = [proc EXCEPT ![p] = "reaped"]
  BY <1>6 DEF Wait, Unreaped
<1>8. proc' = [q \in Pids |-> IF q = p THEN "reaped" ELSE proc[q]]
  BY <1>7 DEF CInv, CTypeOK
<1>9. ChildTypeOK'
  BY <1>7, <1>8 DEF Wait, CInv, CTypeOK, ChildTypeOK, Running, Alive
<1>10. PortInv' /\ OneServer'
  BY <1>2, <1>8 DEF Wait, CInv, PortInv, OneServer, Running, Starting
<1>11. WaitInv'
  <2>1. Unreaped' = Unreaped \ {p}
    BY <1>8 DEF Wait, Unreaped
  <2>2. IsFiniteSet(Unreaped') /\ Cardinality(Unreaped') >= Cardinality(Unreaped) - 1
    <3>1. CASE p \in Unreaped
      <4>1. /\ IsFiniteSet(Unreaped \ {p})
            /\ Cardinality(Unreaped \ {p}) = Cardinality(Unreaped) - 1
        BY <3>1, FS_RemoveElement DEF CInv, WaitInv
      <4> QED
        BY <1>4, <2>1, <4>1
    <3>2. CASE p \notin Unreaped
      <4>1. Unreaped' = Unreaped
        BY <2>1, <3>2
      <4> QED
        BY <1>4, <4>1 DEF CInv, WaitInv
    <3> QED
      BY <3>1, <3>2
  <2>3. Cardinality(Unreaped') \in Nat
    BY <2>2, FS_CardinalityType
  <2> QED
    BY <1>4, <1>5, <2>2, <2>3 DEF CInv, WaitInv
<1> QED
  BY <1>1, <1>9, <1>10, <1>11, MovesKeepsSessions, TypesKept DEF CInv

-----------------------------------------------------------------------------
(***************************************************************************)
(* The start of a server.                                                  *)
(***************************************************************************)
\* Waits are not disturbed by threads that do not begin or end one.
LEMMA OthersWait ==
    ASSUME CInv, NEW t \in Clients, pc[t] # "wait",
           NEW w, w # "wait", Goes(t, w), Unreaped' = Unreaped
    PROVE  WaitInv'
<1>1. Waiting' = Waiting \ {t}
  BY GoesEffect DEF CInv
<1>2. Waiting' = Waiting
  BY <1>1 DEF Waiting
<1> QED
  BY <1>2 DEF CInv, WaitInv

LEMMA BindKeepsAll ==
    ASSUME CInv, NEW t \in Clients, Bind(t)
    PROVE  CInv'
<1>1. PICK w \in {"fork", "lastclose"} : Goes(t, w)
  BY ReplyMoves DEF Bind
<1>2. Moves(t)
  BY ReplyMoves DEF Bind, Moves, Places
<1>3. pc' = [s \in Clients |-> IF s = t THEN w ELSE pc[s]]
  BY <1>1, GoesEffect DEF CInv
<1>4. ChildTypeOK'
  BY DEF Bind, CInv, CTypeOK, ChildTypeOK, Running, Alive
<1>5. tmp_rhss' = {t} /\ hasPort = {}
  BY DEF Bind, PortFree
<1>6. \A p \in Pids : ~(Running(p) /\ kind[p] = "xre")
  BY <1>5 DEF CInv, PortInv
<1>7. \A s \in Clients : pc[s] \notin Starting
  BY DEF Bind, PortFree, CInv, PortInv
<1>8. PortInv' /\ OneServer'
  BY <1>3, <1>5, <1>6, <1>7 DEF Bind, PortInv, OneServer, Running, Starting
<1>9. WaitInv'
  <2>1. Unreaped' = Unreaped /\ pc[t] # "wait" /\ w # "wait"
    BY DEF Bind, Unreaped
  <2> QED
    BY <1>1, <2>1, OthersWait
<1> QED
  BY <1>2, <1>4, <1>8, <1>9, MovesKeepsSessions, TypesKept DEF CInv

\* Here the second server would come from: the socket of t kept others out.
LEMMA ForkServerKeepsAll ==
    ASSUME CInv, NEW t \in Clients, ForkServer(t)
    PROVE  CInv'
<1>1. PICK p \in Pids : Fork(t, p, "xre") /\ pid' = [pid EXCEPT ![t] = p]
  BY DEF ForkServer
<1>2. pc[t] = "fork" /\ Goes(t, "store") /\ Moves(t)
  BY DEF ForkServer, Moves, Places
<1>3. /\ proc[p] = "unused"
      /\ proc' = [q \in Pids |-> IF q = p THEN "running" ELSE proc[q]]
      /\ kind' = [q \in Pids |-> IF q = p THEN "xre" ELSE kind[q]]
  BY <1>1 DEF Fork, CInv, CTypeOK
<1>4. ChildTypeOK'
  BY <1>1, <1>3 DEF Fork, ForkServer, CInv, CTypeOK, ChildTypeOK, Running, Alive
<1>5. pc' = [s \in Clients |-> IF s = t THEN "store" ELSE pc[s]]
  BY <1>2, GoesEffect DEF CInv
<1>6. t \in tmp_rhss /\ \A s \in Clients : pc[s] \in Starting => s = t
  BY <1>2 DEF CInv, PortInv, Starting
<1>7. p \in hasPort'
  BY <1>1, <1>6 DEF Fork
<1>8. \A q \in Pids : ~(Running(q) /\ kind[q] = "xre")
  BY <1>2 DEF CInv, PortInv
<1>9. \A q \in Pids : Running(q)' /\ kind'[q] = "xre" => q = p
  BY <1>3, <1>8 DEF Running
<1>10. OneServer'
  BY <1>9 DEF OneServer
<1>11. \A s \in Clients : pc'[s] # "fork"
  BY <1>5, <1>6 DEF Starting
<1>12. PortInv'
  BY <1>5, <1>6, <1>7, <1>9, <1>11 DEF ForkServer, CInv, PortInv, Starting
<1>13. WaitInv'
  <2>1. Unreaped' = Unreaped
    BY <1>3 DEF Unreaped
  <2> QED
    BY <1>2, <2>1, OthersWait
<1> QED
  BY <1>2, <1>4, <1>10, <1>12, <1>13, MovesKeepsSessions, TypesKept DEF CInv

\* The parent goes on without the child.
LEMMA ParentKeepsAll ==
    ASSUME CInv, NEW t \in Clients, StorePid(t) \/ CloseLocal(t) \/ ClosePort(t)
    PROVE  CInv'
<1>1. PICK w \in {"closecl", "closeport", "lastclose"} : Goes(t, w)
  BY DEF StorePid, CloseLocal, ClosePort
<1>2. Moves(t)
  BY DEF StorePid, CloseLocal, ClosePort, Moves, Places
<1>3. /\ pc[t] \in {"store", "closecl", "closeport"}
      /\ \/ tmp_rhss' = tmp_rhss
         \/ tmp_rhss' = tmp_rhss \ {t} /\ Goes(t, "lastclose")
      /\ UNCHANGED <<proc, kind, by, hasPort, doomed, pid>>
      /\ rhss_pid' \in {rhss_pid, pid[t]}
  BY DEF StorePid, CloseLocal, ClosePort, childVars
<1>4. ChildTypeOK'
  BY <1>3 DEF CInv, CTypeOK, ChildTypeOK, Running, Alive
<1>5. OneServer'
  BY <1>3 DEF CInv, OneServer, Running
<1>6. t \in tmp_rhss /\ \A s \in Clients : pc[s] \in Starting => s = t
  BY <1>3 DEF CInv, PortInv, Starting
<1>7. PortInv'
  <2>1. CASE tmp_rhss' = tmp_rhss
    <3>1. pc' = [s \in Clients |-> IF s = t THEN w ELSE pc[s]]
      BY <1>1, GoesEffect DEF CInv
    <3> QED
      BY <1>3, <1>6, <2>1, <3>1 DEF CInv, PortInv, Running, Starting
  <2>2. CASE tmp_rhss' = tmp_rhss \ {t} /\ Goes(t, "lastclose")
    <3>1. pc' = [s \in Clients |-> IF s = t THEN "lastclose" ELSE pc[s]]
      BY <2>2, GoesEffect DEF CInv
    <3> QED
      BY <1>3, <1>6, <2>2, <3>1 DEF CInv, PortInv, Running, Starting
  <2> QED
    BY <1>3, <2>1, <2>2
<1>8. WaitInv'
  <2>1. Unreaped' = Unreaped /\ pc[t] # "wait" /\ w # "wait"
    BY <1>3 DEF Unreaped
  <2> QED
    BY <1>1, <2>1, OthersWait
<1> QED
  BY <1>2, <1>4, <1>5, <1>7, <1>8, MovesKeepsSessions, TypesKept DEF CInv

\* A child that ends, for whatever reason, takes its copy of the socket along.
LEMMA DiesKeepsAll ==
    ASSUME CInv, NEW p \in Pids, Dies(p)
    PROVE  CInv'
<1>1. /\ Running(p)
      /\ proc' = [q \in Pids |-> IF q = p THEN "zombie" ELSE proc[q]]
      /\ hasPort' = hasPort \ {p} /\ doomed' = doomed \ {p}
      /\ UNCHANGED <<sessionsVars, kind, by, rhss_pid, tmp_rhss, pid>>
  BY DEF Dies, CInv, CTypeOK
<1>2. SessionsTypeOK(Places)' /\ SessionInv'
  BY <1>1 DEF sessionsVars, CInv, CTypeOK, SessionsTypeOK, SessionInv, Places
<1>3. ChildTypeOK'
  BY <1>1 DEF CInv, CTypeOK, ChildTypeOK, Running, Alive
<1>4. PortInv' /\ OneServer'
  BY <1>1 DEF sessionsVars, CInv, PortInv, OneServer, Running
<1>5. WaitInv'
  <2>1. Unreaped' = Unreaped /\ Waiting' = Waiting
    BY <1>1 DEF sessionsVars, Unreaped, Waiting, Running
  <2> QED
    BY <2>1 DEF CInv, WaitInv
<1> QED
  BY <1>2, <1>3, <1>4, <1>5, TypesKept DEF CInv

\* The id of a child that is gone passes to another program and back.
LEMMA ReuseKeepsAll ==
    ASSUME CInv, NEW p \in Pids, Reused(p) \/ StrangerEnds(p)
    PROVE  CInv'
<1>1. PICK life \in {"reaped", "stranger"} :
        /\ proc[p] \in {"reaped", "stranger"}
        /\ proc' = [q \in Pids |-> IF q = p THEN life ELSE proc[q]]
        /\ doomed' = IF life = "stranger" THEN doomed ELSE doomed \ {p}
  BY DEF Reused, StrangerEnds, CInv, CTypeOK
<1>2. UNCHANGED <<sessionsVars, kind, by, hasPort, rhss_pid, tmp_rhss, pid>>
  BY DEF Reused, StrangerEnds
<1>3. SessionsTypeOK(Places)' /\ SessionInv'
  BY <1>2 DEF sessionsVars, CInv, CTypeOK, SessionsTypeOK, SessionInv, Places
<1>4. ChildTypeOK'
  BY <1>1, <1>2 DEF CInv, CTypeOK, ChildTypeOK, Running, Alive
<1>5. PortInv' /\ OneServer'
  BY <1>1, <1>2 DEF sessionsVars, CInv, PortInv, OneServer, Running
<1>6. WaitInv'
  <2>1. Unreaped' = Unreaped /\ Waiting' = Waiting
    BY <1>1, <1>2 DEF sessionsVars, Unreaped, Waiting
  <2> QED
    BY <2>1 DEF CInv, WaitInv
<1> QED
  BY <1>3, <1>4, <1>5, <1>6, TypesKept DEF CInv

-----------------------------------------------------------------------------
(***************************************************************************)
(* The invariant of the whole.                                             *)
(***************************************************************************)
LEMMA InitHolds == CInit => CInv
<1> SUFFICES ASSUME CInit
             PROVE  CInv
  OBVIOUS
<1>1. SessionsTypeOK(Places) /\ SessionInv
  <2>1. (CHOOSE n \in Fds : TRUE) \in Fds
    BY FdsAssumption
  <2> QED
    BY <2>1, MaxSentAssumption DEF CInit, SessionsInit, SessionsTypeOK, SessionInv, Places
<1>2. CTypeOK
  BY <1>1 DEF CInit, CTypeOK, SessionsTypeOK, Places, Running, Alive
<1>3. PortInv /\ OneServer
  BY DEF CInit, SessionsInit, PortInv, OneServer, Running, Starting
<1>4. WaitInv
  <2>1. Waiting = {} /\ Unreaped = {}
    BY DEF CInit, SessionsInit, Waiting, Unreaped
  <2> QED
    BY <2>1, FS_EmptySet DEF WaitInv
<1> QED
  BY <1>1, <1>2, <1>3, <1>4 DEF CInv

LEMMA StepHolds == CInv /\ [CNext]_cpVars => CInv'
<1> SUFFICES ASSUME CInv, [CNext]_cpVars
             PROVE  CInv'
  OBVIOUS
<1>1. CASE ClientStep(CRequests) /\ UNCHANGED childVars
  <2>1. UNCHANGED pc
    BY <1>1, ClientStepKeepsSessions
  <2>2. Still
    BY <1>1, <2>1 DEF Still, childVars
  <2>3. Clients # {}
    BY <1>1 DEF ClientStep
  <2> QED
    BY <1>1, <2>2, <2>3, ClientStepKeepsSessions, ChildVarsUnchanged, QuietKeepsAll, TypesKept DEF CInv
<1>2. CASE Main /\ UNCHANGED childVars
  <2>1. PICK c \in Clients : Accept(c) \/ Refuse(c)
    BY <1>2 DEF Main
  <2>2. CASE Accept(c)
    <3>1. Quiet(c)
      BY <1>2, <2>2, AcceptKeepsSessions DEF Quiet, Starting, childVars
    <3> QED
      BY <1>2, <2>2, <3>1, AcceptKeepsSessions, ChildVarsUnchanged, QuietKeepsAll, TypesKept DEF CInv
  <2>3. CASE Refuse(c)
    <3>1. Still
      BY <1>2, <2>3, RefuseKeepsSessions DEF Still, childVars
    <3> QED
      BY <1>2, <2>3, <3>1, RefuseKeepsSessions, ChildVarsUnchanged, QuietKeepsAll, TypesKept DEF CInv
  <2> QED
    BY <2>1, <2>2, <2>3
<1>3. ASSUME NEW t \in Clients, ProcessStep(t)
      PROVE  CInv'
  BY <1>3, RequestKeepsAll, ForkP7ZipKeepsAll, AnswerKeepsAll, WaitKeepsAll, BindKeepsAll,
     ForkServerKeepsAll, ParentKeepsAll, StopKeepsAll DEF ProcessStep
<1>4. ASSUME NEW t \in Clients, SessionStep(t), UNCHANGED childVars
      PROVE  CInv'
  BY <1>4, SessionStepKeepsAll
<1>5. ASSUME NEW p \in Pids, ChildStep(p)
      PROVE  CInv'
  BY <1>5, DiesKeepsAll DEF ChildStep, P7ZipEnds, ServerSeesClient, Interrupted
<1>6. ASSUME NEW p \in Pids, Reused(p) \/ StrangerEnds(p)
      PROVE  CInv'
  BY <1>6, ReuseKeepsAll
<1>7. CASE UNCHANGED cpVars
  <2>1. SessionsTypeOK(Places)' /\ SessionInv'
    BY <1>7 DEF cpVars, CInv, CTypeOK, SessionsTypeOK, SessionInv, Places
  <2>2. ChildTypeOK'
    BY <1>7, ChildVarsUnchanged DEF cpVars, childVars
  <2>3. PortInv' /\ OneServer' /\ WaitInv'
    BY <1>7 DEF cpVars, CInv, PortInv, OneServer, WaitInv, Waiting, Unreaped, Running
  <2> QED
    BY <2>1, <2>2, <2>3, TypesKept DEF CInv
<1> QED
  BY <1>1, <1>2, <1>3, <1>4, <1>5, <1>6, <1>7 DEF CNext

LEMMA InvariantHolds == CSpec => []CInv
<1>1. CInit => CInv
  BY InitHolds
<1>2. CInv /\ [CNext]_cpVars => CInv'
  BY StepHolds
<1> QED
  BY <1>1, <1>2, PTL DEF CSpec

-----------------------------------------------------------------------------
(***************************************************************************)
(* The ids kept for stopping name servers, and a thread calls kill() only  *)
(* after a server was known.                                               *)
(***************************************************************************)
Server(p) == kind[p] = "xre" /\ proc[p] # "unused"

SignalInv ==
    /\ rhss_pid # NoPid => Server(rhss_pid)
    /\ \A t \in Clients : pid[t] # NoPid => Server(pid[t])
    /\ \A t \in Clients : pc[t] = "kill" => pid[t] # NoPid

\* Steps that fork nothing, keep no id they did not have, and send no thread to kill().
Aside ==
    /\ kind' = kind /\ pid' = pid
    /\ \A p \in Pids : proc[p] # "unused" => proc'[p] # "unused"
    /\ rhss_pid' \in {rhss_pid, NoPid} \cup {pid[t] : t \in Clients}
    /\ \A t \in Clients : pc'[t] = "kill" => pc[t] = "kill"

LEMMA AsideKeepsSignal ==
    ASSUME CTypeOK, SignalInv, Aside
    PROVE  SignalInv'
BY DEF Aside, SignalInv, Server, CTypeOK

LEMMA GoesAside ==
    ASSUME CTypeOK, NEW t \in Clients, NEW w, w # "kill", Goes(t, w)
    PROVE  \A s \in Clients : pc'[s] = "kill" => pc[s] = "kill"
BY GoesEffect

\* A fork takes an id that nobody knows yet.
LEMMA ForkKeepsSignal ==
    ASSUME CTypeOK, SignalInv, NEW t \in Clients, ForkP7Zip(t) \/ ForkServer(t)
    PROVE  SignalInv'
<1>1. PICK p \in Pids, what \in {"p7zip", "xre"} :
        /\ Fork(t, p, what)
        /\ \/ what = "p7zip" /\ pid' = pid
           \/ what = "xre" /\ pid' = [pid EXCEPT ![t] = p]
  BY DEF ForkP7Zip, ForkServer
<1>2. /\ proc[p] = "unused" /\ p # NoPid
      /\ proc' = [q \in Pids |-> IF q = p THEN "running" ELSE proc[q]]
      /\ kind' = [q \in Pids |-> IF q = p THEN what ELSE kind[q]]
  BY <1>1, PidsAssumption DEF Fork, CTypeOK
<1>3. \A q \in Pids : Server(q) => kind'[q] = "xre" /\ proc'[q] # "unused"
  BY <1>2 DEF Server
<1>4. rhss_pid' = rhss_pid
  BY DEF ForkP7Zip, ForkServer
<1>5. ASSUME NEW s \in Clients, pid'[s] # NoPid
      PROVE  kind'[pid'[s]] = "xre" /\ proc'[pid'[s]] # "unused"
  <2>1. CASE pid'[s] = pid[s]
    BY <1>3, <1>5, <2>1 DEF SignalInv, CTypeOK
  <2>2. CASE pid'[s] = p /\ what = "xre"
    BY <1>2, <2>2
  <2>3. pid'[s] = pid[s] \/ (pid'[s] = p /\ what = "xre")
    BY <1>1 DEF CTypeOK
  <2> QED
    BY <2>1, <2>2, <2>3
<1>6. \A s \in Clients : pc'[s] = "kill" => pc[s] = "kill"
  BY GoesAside DEF ForkP7Zip, ForkServer
<1>7. \A s \in Clients : pc'[s] = "kill" => pid'[s] # NoPid
  BY <1>1, <1>2, <1>6 DEF SignalInv, CTypeOK
<1> QED
  <2>1. rhss_pid' # NoPid => kind'[rhss_pid'] = "xre" /\ proc'[rhss_pid'] # "unused"
    BY <1>3, <1>4 DEF SignalInv, CTypeOK
  <2> QED
    BY <2>1, <1>5, <1>7 DEF SignalInv, Server

\* The test of a stop, and the only way to kill().
LEMMA StopKnownKeepsSignal ==
    ASSUME CTypeOK, SignalInv, NEW t \in Clients, StopKnown(t)
    PROVE  SignalInv'
<1>1. /\ UNCHANGED <<proc, kind, rhss_pid>> /\ rhss_pid # NoPid
      /\ pid' = [s \in Clients |-> IF s = t THEN rhss_pid ELSE pid[s]]
      /\ pc' = [s \in Clients |-> IF s = t THEN "kill" ELSE pc[s]]
  <2>1. /\ UNCHANGED <<proc, kind, rhss_pid>> /\ rhss_pid # NoPid
        /\ pid' = [pid EXCEPT ![t] = rhss_pid] /\ Goes(t, "kill")
    BY DEF StopKnown
  <2>2. pc' = [s \in Clients |-> IF s = t THEN "kill" ELSE pc[s]]
    BY <2>1, GoesEffect
  <2> QED
    BY <2>1, <2>2 DEF CTypeOK
<1> QED
  BY <1>1 DEF SignalInv, Server

\* Every other step of a request.
LEMMA RequestIsAside ==
    ASSUME CInv, NEW t \in Clients, ProcessStep(t),
           ~ForkP7Zip(t), ~ForkServer(t), ~StopKnown(t)
    PROVE  Aside
<1>1. CASE ChildRequest(t)
  <2>1. \A s \in Clients : pc'[s] = "kill" => pc[s] = "kill"
    BY <1>1, RequestGoes, GoesAside DEF Requests, CInv
  <2> QED
    BY <1>1, <2>1 DEF ChildRequest, childVars, Aside
<1>2. CASE ForkFails(t) \/ BindFails(t) \/ ForkServerFails(t) \/ KillFails(t)
           \/ KillNothing(t) \/ Status(t) \/ ForgetPid(t) \/ Bind(t)
  <2>1. \E w \in {"idle", "lastclose", "fork"} : Goes(t, w)
    BY <1>2, ReplyMoves DEF ForkFails, BindFails, ForkServerFails, KillFails, KillNothing,
       Status, ForgetPid, Bind
  <2>2. \A s \in Clients : pc'[s] = "kill" => pc[s] = "kill"
    BY <2>1, GoesAside DEF CInv
  <2> QED
    BY <1>2, <2>2 DEF ForkFails, BindFails, ForkServerFails, KillFails, KillNothing,
       Status, ForgetPid, Bind, childVars, Aside
<1>3. CASE StorePid(t) \/ CloseLocal(t) \/ ClosePort(t) \/ Kill(t)
  <2>1. \E w \in {"closecl", "closeport", "lastclose", "forget"} : Goes(t, w)
    BY <1>3 DEF StorePid, CloseLocal, ClosePort, Kill
  <2>2. \A s \in Clients : pc'[s] = "kill" => pc[s] = "kill"
    BY <2>1, GoesAside DEF CInv
  <2> QED
    BY <1>3, <2>2 DEF StorePid, CloseLocal, ClosePort, Kill, childVars, Aside
<1>4. CASE Wait(t)
  <2>1. \A s \in Clients : pc'[s] = "kill" => pc[s] = "kill"
    BY <1>4, GoesAside DEF Wait, CInv
  <2>2. \A p \in Pids : proc[p] # "unused" => proc'[p] # "unused"
    BY <1>4 DEF Wait, CInv, CTypeOK
  <2> QED
    BY <1>4, <2>1, <2>2 DEF Wait, Aside
<1> QED
  BY <1>1, <1>2, <1>3, <1>4 DEF ProcessStep

LEMMA SignalStep == CInv /\ SignalInv /\ [CNext]_cpVars => SignalInv'
<1> SUFFICES ASSUME CInv, SignalInv, [CNext]_cpVars
             PROVE  SignalInv'
  OBVIOUS
<1>1. CASE (ClientStep(CRequests) \/ Main) /\ UNCHANGED childVars
  <2>1. \A s \in Clients : pc'[s] = "kill" => pc[s] = "kill"
    <3>1. CASE ClientStep(CRequests)
      BY <3>1 DEF ClientStep, Leave, Send, threadVars
    <3>2. CASE Main
      BY <3>2, AcceptKeepsSessions, GoesAside DEF Main, Refuse, threadVars, CInv
    <3> QED
      BY <1>1, <3>1, <3>2
  <2> QED
    BY <1>1, <2>1, AsideKeepsSignal DEF Aside, childVars, CInv
<1>2. ASSUME NEW t \in Clients, ProcessStep(t)
      PROVE  SignalInv'
  BY <1>2, RequestIsAside, AsideKeepsSignal, ForkKeepsSignal, StopKnownKeepsSignal DEF CInv
<1>3. ASSUME NEW t \in Clients, SessionStep(t), UNCHANGED childVars
      PROVE  SignalInv'
  <2>1. \E w \in {"reading", "failclose", "unexpected", "lastclose", "ended"} : Goes(t, w)
    BY <1>3 DEF SessionStep, BeginRead, ReadFails, FailClose, LastClose, Unexpected
  <2>2. \A s \in Clients : pc'[s] = "kill" => pc[s] = "kill"
    BY <2>1, GoesAside DEF CInv
  <2> QED
    BY <1>3, <2>2, AsideKeepsSignal DEF Aside, childVars, CInv
<1>4. ASSUME NEW p \in Pids, ChildStep(p) \/ Reused(p) \/ StrangerEnds(p)
      PROVE  SignalInv'
  <2>1. UNCHANGED <<kind, pid, rhss_pid, pc>>
    BY <1>4 DEF ChildStep, P7ZipEnds, ServerSeesClient, Interrupted, Dies, Reused,
       StrangerEnds, sessionsVars
  <2>2. \A q \in Pids : proc[q] # "unused" => proc'[q] # "unused"
    BY <1>4 DEF ChildStep, P7ZipEnds, ServerSeesClient, Interrupted, Dies, Reused,
       StrangerEnds, CInv, CTypeOK
  <2> QED
    BY <2>1, <2>2, AsideKeepsSignal DEF Aside, CInv
<1>5. CASE UNCHANGED cpVars
  BY <1>5 DEF cpVars, SignalInv, Server
<1> QED
  BY <1>1, <1>2, <1>3, <1>4, <1>5 DEF CNext

\* Only kill() dooms anybody, and what it is given is a server or the sentinel
\* that another stop has put there since the test.
LEMMA StopHits ==
    CInv /\ SignalInv /\ [CNext]_cpVars =>
        \A p \in doomed' \ doomed :
            \/ kind[p] = "xre"
            \/ proc[p] = "stranger"
            \/ \E t \in Clients : Raced(t) /\ pc'[t] = "forget"
<1> SUFFICES ASSUME CInv, SignalInv, [CNext]_cpVars, NEW p \in doomed' \ doomed
             PROVE  kind[p] = "xre" \/ \E t \in Clients : Raced(t) /\ pc'[t] = "forget"
  OBVIOUS
<1>1. PICK t \in Clients : Kill(t)
  <2>1. doomed' # doomed
    OBVIOUS
  <2>2. ~UNCHANGED childVars /\ ~UNCHANGED cpVars
    BY <2>1 DEF childVars, cpVars
  <2>3. \A q \in Pids : ~ChildStep(q) /\ ~Reused(q) /\ ~StrangerEnds(q)
    BY DEF ChildStep, P7ZipEnds, ServerSeesClient, Interrupted, Dies, Reused, StrangerEnds
  <2>4. PICK t \in Clients : ProcessStep(t)
    BY <2>2, <2>3 DEF CNext
  <2> QED
    BY <2>1, <2>2, <2>4 DEF ProcessStep, ChildRequest, ForkP7Zip, ForkFails, Wait, Bind,
       BindFails, ForkServer, ForkServerFails, StorePid, CloseLocal, ClosePort, StopKnown,
       KillFails, KillNothing, ForgetPid, Status
<1>2. PICK v \in Targets(t) : doomed' = doomed \cup {q \in Pids : Alive(q) /\ v \in {q, NoPid}}
  BY <1>1 DEF Kill
<1>3. pc[t] = "kill" /\ pid[t] # NoPid
  BY <1>1 DEF Kill, SignalInv
<1>4. p \in Pids /\ v \in {p, NoPid}
  BY <1>2
<1>5. CASE v = p
  <2>1. p # NoPid
    BY <1>4, PidsAssumption
  <2> QED
    BY <1>2, <1>5, <2>1 DEF Targets, SignalInv, Server
<1>6. CASE v = NoPid
  <2>1. rhss_pid = NoPid
    BY <1>2, <1>3, <1>6 DEF Targets
  <2>2. pc'[t] = "forget"
    BY <1>1, GoesEffect DEF Kill, CInv
  <2> QED
    BY <1>3, <2>1, <2>2 DEF Raced
<1> QED
  BY <1>4, <1>5, <1>6

\* Every variable keeps its range, and only processes that are alive hold the
\* listening socket or have a signal to come.
THEOREM ChildTypesCorrect == CSpec => []CTypeOK
<1>1. CInv => CTypeOK
  BY DEF CInv
<1> QED
  BY <1>1, InvariantHolds, PTL

\* forkServerAcceptor never leads to two servers, although the bind, the fork
\* and the store of rhss_pid are separate steps of threads that share them.
THEOREM NeverTwoServers == CSpec => []OneServer
<1>1. CInv => OneServer
  BY DEF CInv
<1> QED
  BY <1>1, InvariantHolds, PTL

\* wait() in forkP7ZipSession always has a child to take, whoever's it is.
THEOREM NobodyWaitsInVain == CSpec => []WaitersHaveChildren
<1>1. CInv => WaitersHaveChildren
  BY DEF CInv, WaitInv, Waiting, Unreaped, WaitersHaveChildren
<1> QED
  BY <1>1, InvariantHolds, PTL

\* killServerAcceptor interrupts servers only: a p7zip operation in progress gets
\* a signal in no way but the one of two stops, between whose test and call
\* rhss_pid went back to -1.
THEOREM StopsHitServers == CSpec => StopHitsServer
<1>1. CInit => SignalInv
  BY DEF CInit, SessionsInit, SignalInv
<1>2. CInv /\ SignalInv /\ [CNext]_cpVars => SignalInv'
  BY SignalStep
<1>3. CSpec => []SignalInv
  BY <1>1, <1>2, InvariantHolds, PTL DEF CSpec
<1>4. CInv /\ SignalInv /\ [CNext]_cpVars =>
        [\A p \in doomed' \ doomed :
            \/ kind[p] = "xre"
            \/ proc[p] = "stranger"
            \/ \E t \in Clients : Raced(t) /\ pc'[t] = "forget"]_cpVars
  BY StopHits
<1> QED
  BY <1>3, <1>4, InvariantHolds, PTL DEF CSpec, StopHitsServer

=============================================================================
