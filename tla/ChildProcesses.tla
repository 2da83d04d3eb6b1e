---------------------------- MODULE ChildProcesses ----------------------------
(***************************************************************************)
(* The processes the helper forks (RootHelper/r.cpp, xre.h): one for every *)
(* p7zip operation, which the session thread waits for, and at most one    *)
(* xre server, started and stopped on request and watching its client's    *)
(* socket in selectLoop.  Children of every kind belong to the one parent  *)
(* process, so wait() of any thread may reap any of them, and every fork   *)
(* copies all the descriptors that are open at that moment.                *)
(***************************************************************************)
EXTENDS ClientSessions

CONSTANTS Pids,    \* bound: the processes that can be forked
          NoPid    \* the negative sentinels of rhss_pid; for kill() everybody
ASSUME PidsAssumption == Pids \subseteq Nat /\ NoPid \notin Pids

VARIABLES
    proc,       \* pid |-> its life
    kind,       \* pid |-> what it was forked for
    by,         \* pid |-> the thread that forked it
    hasPort,    \* the processes with a copy of the listening xre socket
    doomed,     \* the processes SIGINT was sent to
    rhss_pid,   \* the process id kept for stopping the server
    tmp_rhss,   \* the threads whose listening socket is open in the parent
    pid         \* thread |-> the pid its start has just forked, or its stop has tested

childVars == <<proc, kind, by, hasPort, doomed, rhss_pid, tmp_rhss, pid>>
cpVars == <<fdTable, peer, inbox, sent, cl, pc, from,
            proc, kind, by, hasPort, doomed, rhss_pid, tmp_rhss, pid>>

CInit ==
    /\ SessionsInit
    /\ proc = [p \in Pids |-> "unused"]
    /\ kind = [p \in Pids |-> "p7zip"]
    /\ by = [p \in Pids |-> NoOne]
    /\ hasPort = {} /\ doomed = {} /\ tmp_rhss = {}
    /\ rhss_pid = NoPid /\ pid = [t \in Clients |-> NoPid]

CRequests == {<<"p7zip">>, <<"start">>, <<"stop">>, <<"status">>}

ChildRequest(t) ==
    /\ GetRequest(t, {Head(inbox[from[t]])})
    /\ UNCHANGED childVars

Running(p) == proc[p] = "running"

\* Once its child was reaped an id may belong to a process of somebody else.
Alive(p) == proc[p] \in {"running", "stranger"}

\* fork(), with ids in increasing order: the child gets a copy of every open
\* descriptor, the listening socket of a start in progress included.
Fork(t, p, what) ==
    /\ proc[p] = "unused" /\ \A q \in Pids : q < p => proc[q] # "unused"
    /\ proc' = [proc EXCEPT ![p] = "running"]
    /\ kind' = [kind EXCEPT ![p] = what]
    /\ by' = [by EXCEPT ![p] = t]
    /\ hasPort' = IF tmp_rhss = {} THEN hasPort ELSE hasPort \cup {p}

\* The end of a process, whatever ends it.
Dies(p) ==
    /\ Running(p)
    /\ proc' = [proc EXCEPT ![p] = "zombie"]
    /\ hasPort' = hasPort \ {p} /\ doomed' = doomed \ {p}
    /\ UNCHANGED <<sessionsVars, kind, by, rhss_pid, tmp_rhss, pid>>

(***************************************************************************)
(* forkP7ZipSession.                                                       *)
(***************************************************************************)
ForkP7Zip(t) ==
    /\ pc[t] = "p7zip"
    /\ \E p \in Pids : Fork(t, p, "p7zip")
    /\ Goes(t, "wait")
    /\ UNCHANGED <<fdTable, clientVars, cl, from, doomed, rhss_pid, tmp_rhss, pid>>

\* Mutant: the parent branch is taken for a failed fork too.
ForkFailsAndWaits(t) ==
    /\ pc[t] = "p7zip" /\ Goes(t, "wait")
    /\ UNCHANGED <<fdTable, clientVars, cl, from, childVars>>

ForkFails(t) ==
    /\ pc[t] = "p7zip" /\ Reply(t, "idle", "lastclose")
    /\ UNCHANGED <<clientVars, cl, from, childVars>>

\* wait() takes any child that has ended; it fails at once without children.
Wait(t) ==
    /\ pc[t] = "wait" /\ Goes(t, "idle")
    /\ IF \A p \in Pids : proc[p] \in {"unused", "reaped", "stranger"}
       THEN UNCHANGED proc
       ELSE \E p \in Pids : /\ proc[p] = "zombie"
                            /\ proc' = [proc EXCEPT ![p] = "reaped"]
    /\ UNCHANGED <<fdTable, clientVars, cl, from, kind, by, hasPort, doomed,
                   rhss_pid, tmp_rhss, pid>>

P7ZipEnds(p) == kind[p] = "p7zip" /\ Dies(p)

(***************************************************************************)
(* forkServerAcceptor.                                                     *)
(***************************************************************************)
PortFree == tmp_rhss = {} /\ hasPort = {}

\* Mutant: the port is not tested, as with SO_REUSEPORT.
BindShared(t) ==
    /\ pc[t] = "start"
    /\ \/ CanWrite(t) /\ Goes(t, "fork") /\ UNCHANGED fdTable
       \/ ~CanWrite(t) /\ Goes(t, "lastclose") /\ fdTable' = Closed(cl[t])
    /\ tmp_rhss' = tmp_rhss \cup {t}
    /\ UNCHANGED <<clientVars, cl, from, proc, kind, by, hasPort, doomed, rhss_pid, pid>>

\* getServerSocket binds, listens and already answers OK.
Bind(t) ==
    /\ pc[t] = "start" /\ PortFree
    /\ Reply(t, "fork", "lastclose")
    /\ tmp_rhss' = tmp_rhss \cup {t}
    /\ UNCHANGED <<clientVars, cl, from, proc, kind, by, hasPort, doomed, rhss_pid, pid>>

\* No certificate, or the address is in use: an error, and the session ends.
BindFails(t) ==
    /\ pc[t] = "start" /\ Reply(t, "lastclose", "lastclose")
    /\ UNCHANGED <<clientVars, cl, from, childVars>>

ForkServer(t) ==
    /\ pc[t] = "fork"
    /\ \E p \in Pids : Fork(t, p, "xre") /\ pid' = [pid EXCEPT ![t] = p]
    /\ Goes(t, "store")
    /\ UNCHANGED <<fdTable, clientVars, cl, from, doomed, rhss_pid, tmp_rhss>>

\* fork() failed: an error after the OK, and tmp_rhss stays open.
ForkServerFails(t) ==
    /\ pc[t] = "fork" /\ Reply(t, "lastclose", "lastclose")
    /\ UNCHANGED <<clientVars, cl, from, childVars>>

\* The parent: rhss_pid = pid, then the two closes, then threadExit.
StorePid(t) ==
    /\ pc[t] = "store" /\ rhss_pid' = pid[t] /\ Goes(t, "closecl")
    /\ UNCHANGED <<fdTable, clientVars, cl, from, proc, kind, by, hasPort,
                   doomed, tmp_rhss, pid>>

CloseLocal(t) ==
    /\ pc[t] = "closecl" /\ Goes(t, "closeport") /\ fdTable' = Closed(cl[t])
    /\ UNCHANGED <<clientVars, cl, from, childVars>>

ClosePort(t) ==
    /\ pc[t] = "closeport" /\ Goes(t, "lastclose") /\ tmp_rhss' = tmp_rhss \ {t}
    /\ UNCHANGED <<fdTable, clientVars, cl, from, proc, kind, by, hasPort,
                   doomed, rhss_pid, pid>>

\* selectLoop ends the server when its local client disconnects or sends.
ServerSeesClient(p) ==
    /\ kind[p] = "xre" /\ Dies(p)
    /\ peer[by[p]] = "left" \/ inbox[by[p]] # << >>

Interrupted(p) == p \in doomed /\ Dies(p)

(***************************************************************************)
(* killServerAcceptor and getServerAcceptorStatus.                         *)
(***************************************************************************)
\* Mutant: kill() is called whether or not a server is known.
StopUntested(t) ==
    /\ pc[t] = "stop" /\ Goes(t, "kill") /\ pid' = [pid EXCEPT ![t] = rhss_pid]
    /\ UNCHANGED <<fdTable, clientVars, cl, from, proc, kind, by, hasPort, doomed,
                   rhss_pid, tmp_rhss>>

\* rhss_pid is tested, without a lock ...
StopKnown(t) ==
    /\ pc[t] = "stop" /\ rhss_pid # NoPid
    /\ Goes(t, "kill") /\ pid' = [pid EXCEPT ![t] = rhss_pid]
    /\ UNCHANGED <<fdTable, clientVars, cl, from, proc, kind, by, hasPort, doomed,
                   rhss_pid, tmp_rhss>>

\* ... and named again in the call: the value is the one tested or the one that is
\* there by now, as the compiler pleases.
Targets(t) == {pid[t], rhss_pid}

\* Mutant: a signal stays pending on a dead process.
KillZombie(t) ==
    /\ pc[t] = "kill" /\ Goes(t, "forget")
    /\ \E v \in Targets(t) : doomed' = doomed \cup ({v} \ {NoPid})
    /\ UNCHANGED <<fdTable, clientVars, cl, from, proc, kind, by, hasPort,
                   rhss_pid, tmp_rhss, pid>>

\* kill() succeeds on a running process and on a zombie; with the sentinel -1 of
\* another stop it signals every process there is.
Kill(t) ==
    /\ pc[t] = "kill" /\ Goes(t, "forget")
    /\ \E v \in Targets(t) :
          /\ v # NoPid => proc[v] # "reaped"
          /\ doomed' = doomed \cup {p \in Pids : Alive(p) /\ v \in {p, NoPid}}
    /\ UNCHANGED <<fdTable, clientVars, cl, from, proc, kind, by, hasPort,
                   rhss_pid, tmp_rhss, pid>>

KillFails(t) ==
    /\ pc[t] = "kill" /\ \E v \in Targets(t) \ {NoPid} : proc[v] = "reaped"
    /\ Reply(t, "idle", "lastclose")
    /\ UNCHANGED <<clientVars, cl, from, childVars>>

\* No server is known: nothing is answered.
KillNothing(t) ==
    /\ pc[t] = "stop" /\ rhss_pid = NoPid /\ Goes(t, "idle")
    /\ UNCHANGED <<fdTable, clientVars, cl, from, childVars>>

\* rhss_pid = -1 and the answer.
ForgetPid(t) ==
    /\ pc[t] = "forget" /\ rhss_pid' = NoPid /\ Reply(t, "idle", "lastclose")
    /\ UNCHANGED <<clientVars, cl, from, proc, kind, by, hasPort, doomed,
                   tmp_rhss, pid>>

Status(t) ==
    /\ pc[t] = "status" /\ Reply(t, "idle", "lastclose")
    /\ UNCHANGED <<clientVars, cl, from, childVars>>

-----------------------------------------------------------------------------
\* The id of a child that was reaped is given to another program, which ends on
\* its own or by a signal.
Reused(p) ==
    /\ proc[p] = "reaped" /\ proc' = [proc EXCEPT ![p] = "stranger"]
    /\ UNCHANGED <<sessionsVars, kind, by, hasPort, doomed, rhss_pid, tmp_rhss, pid>>

StrangerEnds(p) ==
    /\ proc[p] = "stranger" /\ proc' = [proc EXCEPT ![p] = "reaped"]
    /\ doomed' = doomed \ {p}
    /\ UNCHANGED <<sessionsVars, kind, by, hasPort, rhss_pid, tmp_rhss, pid>>

-----------------------------------------------------------------------------
ProcessStep(t) ==
    \/ ChildRequest(t) \/ ForkP7Zip(t) \/ ForkFails(t) \/ Wait(t)
    \/ Bind(t) \/ BindFails(t) \/ ForkServer(t) \/ ForkServerFails(t)
    \/ StorePid(t) \/ CloseLocal(t) \/ ClosePort(t)
    \/ StopKnown(t) \/ Kill(t) \/ KillFails(t) \/ KillNothing(t) \/ ForgetPid(t) \/ Status(t)

ChildStep(p) == P7ZipEnds(p) \/ ServerSeesClient(p) \/ Interrupted(p)

CNext ==
    \/ (ClientStep(CRequests) \/ Main) /\ UNCHANGED childVars
    \/ \E t \in Clients :
          ProcessStep(t) \/ (SessionStep(t) /\ UNCHANGED childVars)
    \/ \E p \in Pids : ChildStep(p) \/ Reused(p) \/ StrangerEnds(p)

CSpec == CInit /\ [][CNext]_cpVars

\* Session threads run; a p7zip operation ends, a server reacts to its client
\* and to SIGINT.
CFairSpec ==
    /\ CSpec
    /\ \A t \in Trusted : WF_cpVars(ProcessStep(t))
    /\ \A p \in Pids : WF_cpVars(ChildStep(p))

-----------------------------------------------------------------------------
\* Ranges; only a child that runs holds the port, and only the living are doomed.
CTypeOK ==
    /\ SessionsTypeOK({"p7zip", "wait", "start", "fork", "store", "closecl",
                       "closeport", "stop", "kill", "forget", "status"})
    /\ proc \in [Pids -> {"unused", "running", "zombie", "reaped", "stranger"}]
    /\ kind \in [Pids -> {"p7zip", "xre"}]
    /\ by \in [Pids -> Clients \cup {NoOne}]
    /\ \A p \in hasPort : p \in Pids /\ Running(p)
    /\ \A p \in doomed : p \in Pids /\ Alive(p)
    /\ rhss_pid \in Pids \cup {NoPid}
    /\ tmp_rhss \subseteq Clients /\ pid \in [Clients -> Pids \cup {NoPid}]

\* Another stop has reset rhss_pid between the test and the call.
Raced(t) == pc[t] = "kill" /\ pid[t] # NoPid /\ rhss_pid = NoPid

\* "DO NOT USE -1 or any other negative number as sentinel value here": a stop
\* interrupts the server and no operation in progress, but for the two ways the
\* code leaves open: two stops that overtake each other, and an id that has
\* outlived its server.
StopHitsServer ==
    [][\A p \in doomed' \ doomed :
          \/ kind[p] = "xre"
          \/ proc[p] = "stranger"
          \/ \E t \in Clients : Raced(t) /\ pc'[t] = "forget"]_cpVars

\* wait() never fails for want of children: although a thread may reap another
\* thread's child, or a server, at least as many operations are unreaped as
\* threads wait, so none returns early or for ever.
WaitersHaveChildren ==
    Cardinality({t \in Clients : pc[t] = "wait"})
        <= Cardinality({p \in Pids : kind[p] = "p7zip" /\ proc[p] \in {"running", "zombie"}})

\* Every thread that waits goes on.
WaitReturns == \A t \in Trusted : pc[t] = "wait" ~> pc[t] # "wait"

\* Two starts never end in two servers: only one process that was forked as a
\* server is alive, whatever fails between the bind and the fork.
OneServer ==
    \A p, q \in Pids : (Running(p) /\ Running(q) /\ kind[p] = "xre" /\ kind[q] = "xre") => p = q

\* "Wait for child process termination in order to avoid this pthread go serve
\* next requests while the long term process is active."
WaitsForOwnChild ==
    \A p \in Pids : Running(p) /\ kind[p] = "p7zip" => pc[by[p]] = "wait"

=============================================================================
