---------------------------- MODULE RemoteRequests ----------------------------
(***************************************************************************)
(* The requests a local client ("java") makes of a remote machine: the     *)
(* forwarders of tlsClientSessionEventLoop (RootHelper/r.cpp) between the  *)
(* local socket and the TLS session, the request loop of the xre server    *)
(* (RootHelper/xre.h) with its handlers (RootHelper/Utils.h), and the      *)
(* thread that samples the progress of a file creation                     *)
(* (RootHelper/progressHook.h).                                            *)
(*                                                                         *)
(* A handler is the set of conversations it can hold: sequences of steps   *)
(* <<"get" or "put", channel, item>>.  A put is its own choice, a get must *)
(* match what the other side sent: if it does not, the code takes one      *)
(* field for another, and the party is Lost.  The loops, the interleaving, *)
(* the blocking and the ways to leave are actions on the channels.         *)
(***************************************************************************)
EXTENDS Integers, Sequences, FiniteSets, SequencesExt

CONSTANTS
    Requests,      \* the kinds of request the local client makes
    MaxList,       \* bound: entries of a listing, progress values, listed paths
    Cap,           \* what a socket or the ring buffer holds before a writer blocks
    MaxRequests    \* bound: requests of one session

ASSUME BoundsAssumption ==
    MaxList \in Nat /\ Cap \in Nat \ {0} /\ MaxRequests \in Nat \ {0}

AllRequests == {"ls", "home", "create", "createFast", "createHashed", "createInvalid",
                "link", "statFile", "statDir", "statMany", "hash"}
ASSUME RequestsAssumption == Requests \subseteq AllRequests

\* jp, pj: the Unix socket; ps, sp: the TLS session; tick, tock: the shared
\* curSize and the join of the sampling thread.
Reader == [jp |-> "proxy", pj |-> "java", ps |-> "server", sp |-> "proxy",
           tick |-> "sampler", tock |-> "server"]
Writer == [jp |-> "java", pj |-> "proxy", ps |-> "proxy", sp |-> "server",
           tick |-> "server", tock |-> "sampler"]
Parties == {"java", "proxy", "server", "sampler"}

-----------------------------------------------------------------------------
\* Conversations.

Gets(c, items) == [i \in DOMAIN items |-> <<"get", c, items[i]>>]
Puts(c, items) == [i \in DOMAIN items |-> <<"put", c, items[i]>>]
UpTo(item) == {[i \in 1 .. k |-> item] : k \in 0 .. MaxList}

ErrorResponse == <<"error", "errno">>
BaseResponses == {<<"ok">>, ErrorResponse}

\* One request read and one answer written.
Reply(in, out, items, answers) == {Gets(in, items) \o Puts(out, a) : a \in answers}

listDir(in, out) ==
    LET List(response) == {response \o e \o <<"endlist">> : e \in UpTo("entry")}
    IN Reply(in, out, <<"path">>, List(<<"ok">>) \cup {ErrorResponse})
       \cup Reply(in, out, <<"nopath">>,
                  List(<<"redirect", "path">>) \cup {ErrorResponse})

retrieveHomePath(in, out) == Reply(in, out, <<"path">>, {<<"ok", "path">>})

createPlain(in, out) == Reply(in, out, <<"path", "mode">>, BaseResponses)

\* rhss_checkAccess refuses before the advanced options are read.
Refused(in, out) == Reply(in, out, <<"path", "mode">>, {ErrorResponse})

\* createEmptyFile, createRandomFile: "during" is what happens between the
\* response and the end mark; the mark and the hash come after an error too.
createAdvanced(in, out, options, result, during) ==
    LET read == Gets(in, <<"path", "mode", "strategy", "size">> \o options)
        last == Puts(out, <<"maxuint">> \o result)
    IN {read \o Puts(out, ErrorResponse) \o last}
       \cup {read \o Puts(out, <<"ok">>) \o d \o last : d \in during}

\* A strategy with neither of the bits 1 and 2: the end mark comes without a
\* response before it, and is taken for one.
createInvalid(in, out) ==
    Reply(in, out, <<"path", "mode", "strategy", "size">>, {<<"maxuint">>})

createHardOrSoftLink(in, out) == Reply(in, out, <<"paths">>, BaseResponses)

stats_file(in, out) ==
    Reply(in, out, <<"path">>, {ErrorResponse, <<"ok", "stats">>})

stats_dir(in, out) ==
    Reply(in, out, <<"path">>, {b \o <<"folderStats">> : b \in BaseResponses})

stats_multiple(in, out) ==
    UNION {Reply(in, out, paths \o <<"nopath">>,
                 {b \o <<"folderStats">> : b \in BaseResponses}) : paths \in UpTo("path")}

\* An unknown algorithm is refused before the path is read.
hashFile(in, out) ==
    Reply(in, out, <<"algorithm", "path">>, {ErrorResponse, <<"ok", "digest">>})
    \cup Reply(in, out, <<"noalgorithm">>, {ErrorResponse})

\* The handler of a request, on whatever descriptor it was read from.
Handler(r, in, out, during) ==
    CASE r = "ls" -> listDir(in, out)
      [] r = "home" -> retrieveHomePath(in, out)
      [] r = "create" -> createPlain(in, out)
      [] r = "createFast" -> createAdvanced(in, out, << >>, << >>, during)
      [] r = "createHashed" ->
            createAdvanced(in, out, <<"hashname">>, <<"hexhash">>, during)
      [] r = "createInvalid" -> createInvalid(in, out)
      [] r = "link" -> createHardOrSoftLink(in, out)
      [] r = "statFile" -> stats_file(in, out)
      [] r = "statDir" -> stats_dir(in, out)
      [] r = "statMany" -> stats_multiple(in, out)
      [] r = "hash" -> hashFile(in, out)

\* Mutant: the end mark does not wait for the sampling thread.
SampledNoJoin == {<< <<"put", "tick", "start">>, <<"put", "tick", "stop">> >>}

\* The sampling thread is started after the response; the destructor of the
\* hook tells it to stop and joins it before the end mark is written.
Sampled == {<< <<"put", "tick", "start">>, <<"put", "tick", "stop">>,
               <<"get", "tock", "joined">> >>}

\* A sample that cannot be written ends the thread: for the server, which joins it
\* after telling it to stop, it then has nothing more to say.  The exception of a
\* closed channel, which ends the server, is a HangUp (module TlsSession).
tfn == {<< <<"get", "tick", "start">> >> \o Puts("sp", progress)
        \o << <<"get", "tick", "stop">>, <<"put", "tock", "joined">> >> :
        progress \in UpTo("progress")}

\* A server may be restricted to one directory (denials with no parameters left
\* unread are errors like the others).
Denied(r) ==
    CASE r \in {"createFast", "createHashed", "createInvalid"} -> Refused("ps", "sp")
      [] r = "statDir" -> Reply("ps", "sp", <<"path">>, {ErrorResponse})
      [] OTHER -> {}

tlsServerSessionEventLoop ==
    UNION {{<< <<"get", "ps", r>> >> \o c :
            c \in Handler(r, "ps", "sp", Sampled) \cup Denied(r)} : r \in Requests}

-----------------------------------------------------------------------------
\* The forwarders.  A BufferedWriteDescriptor collects the request until flush:
\* nothing is sent before all of it was read from the local client.

Forward(r, items) == Gets("jp", items) \o Puts("ps", <<r>> \o items)
Pass(items) == Gets("sp", items) \o Puts("pj", items)
Relay(items) == FlattenSeq([i \in DOMAIN items |-> Pass(<<items[i]>>)])

\* Mutant: the path of a redirection is not passed on.
client_ls_nopath(r) ==
    LET Lists(response) == {response \o Relay(e \o <<"endlist">>) : e \in UpTo("entry")}
    IN {Forward(r, <<p>>) \o a : p \in {"path", "nopath"},
            a \in {Pass(ErrorResponse)} \cup Lists(Pass(<<"ok">>))
                  \cup Lists(Gets("sp", <<"redirect", "path">>) \o Puts("pj", <<"redirect">>))}

client_ls(r) ==
    LET Lists(response) == {response \o Relay(e \o <<"endlist">>) : e \in UpTo("entry")}
    IN {Forward(r, <<p>>) \o a : p \in {"path", "nopath"},
            a \in {Pass(ErrorResponse)} \cup Lists(Pass(<<"ok">>))
                  \cup Lists(Pass(<<"redirect", "path">>))}

client_home(r) == {Forward(r, <<"path">>) \o Relay(<<"ok", "path">>),
                   Forward(r, <<"path">>) \o Pass(ErrorResponse)}

\* Mutant: the request stays in the write buffer.
client_create_unflushed(r) ==
    {Gets("jp", <<"path", "mode">>) \o Pass(b) : b \in BaseResponses}

client_create(r) == {Forward(r, <<"path", "mode">>) \o Pass(b) : b \in BaseResponses}

\* The hash is read from the local client, and written to a buffer that is
\* dropped.
client_createAdvanced(r, options, result) ==
    LET sent == Forward(r, <<"path", "mode", "strategy", "size">> \o options)
    IN {sent \o Pass(ErrorResponse)}
       \cup {sent \o Pass(<<"ok">>) \o Relay(p \o <<"maxuint">>) \o Gets("jp", result) :
             p \in UpTo("progress")}

client_createHardOrSoftLink(r) == {Forward(r, <<"paths">>) \o Pass(b) : b \in BaseResponses}

client_stats(r, result) ==
    {Forward(r, <<"path">>) \o Pass(a) : a \in {ErrorResponse, <<"ok", result>>}}

\* One path is sent, whatever it is, and the answer to it is dropped.
client_stats_multiple(r) ==
    {Forward(r, <<p>>) \o a : p \in {"path", "nopath"},
        a \in {Pass(ErrorResponse), Gets("sp", <<"ok">>) \o Puts("pj", ErrorResponse)}}

\* Mutant: the errno of an error is left in the session.
client_hash_noerrno(r) ==
    {Forward(r, <<"algorithm", "path">>) \o a : a \in
        {Gets("sp", <<"error">>) \o Puts("pj", ErrorResponse), Pass(<<"ok", "digest">>)}}

\* An unknown algorithm is refused here; the server never hears of it.
client_hash(r) ==
    {Forward(r, <<"algorithm", "path">>) \o Pass(a) : a \in
        {ErrorResponse, <<"ok", "digest">>}}
    \cup Reply("jp", "pj", <<"noalgorithm">>, {ErrorResponse})

Forwarder(r) ==
    CASE r = "ls" -> client_ls(r)
      [] r = "home" -> client_home(r)
      [] r = "create" -> client_create(r)
      [] r \in {"createFast", "createInvalid"} -> client_createAdvanced(r, << >>, << >>)
      [] r = "createHashed" -> client_createAdvanced(r, <<"hashname">>, <<"hexhash">>)
      [] r = "link" -> client_createHardOrSoftLink(r)
      [] r = "statFile" -> client_stats(r, "stats")
      [] r = "statDir" -> client_stats(r, "folderStats")
      [] r = "statMany" -> client_stats_multiple(r)
      [] r = "hash" -> client_hash(r)

tlsClientSessionEventLoop ==
    UNION {{<< <<"get", "jp", r>> >> \o c : c \in Forwarder(r)} : r \in Requests}

-----------------------------------------------------------------------------
\* The local client speaks the protocol of the local handlers: where they read
\* it writes, where they write it reads.

Mirror(steps) ==
    [i \in DOMAIN steps |->
        <<IF steps[i][1] = "get" THEN "put" ELSE "get", steps[i][2], steps[i][3]>>]

javaSession ==
    UNION {{<< <<"put", "jp", r>> >> \o Mirror(c) :
            c \in Handler(r, "jp", "pj", {Puts("pj", p) : p \in UpTo("progress")})} :
           r \in Requests}

Script == [java |-> javaSession, proxy |-> tlsClientSessionEventLoop,
           server |-> tlsServerSessionEventLoop, sampler |-> tfn]

-----------------------------------------------------------------------------
VARIABLES
    at,       \* party |-> the steps of its current conversation
    chan,     \* channel |-> the items written and not yet read
    gone,     \* the parties that have left
    asked,    \* history: the requests of the local client
    failed    \* history: the server has answered a request with an error

vars == <<at, chan, gone, asked, failed>>

Init ==
    /\ at = [p \in Parties |-> << >>]
    /\ chan = [c \in DOMAIN Reader |-> << >>]
    /\ gone = {} /\ asked = << >> /\ failed = FALSE

Here(p) == p \notin gone

\* What p may do next.
Steps(p) == {t[Len(at[p]) + 1] : t \in {u \in Script[p] : IsStrictPrefix(at[p], u)}}

Does(p, step) == at' = [at EXCEPT ![p] = Append(@, step)]

Put(p) ==
    /\ Here(p)
    /\ \E s \in Steps(p) :
          /\ s[1] = "put" /\ Len(chan[s[2]]) < Cap
          /\ p = "java" /\ at[p] = << >> => Len(asked) < MaxRequests
          /\ chan' = [chan EXCEPT ![s[2]] = Append(@, s[3])] /\ Does(p, s)
          /\ asked' = IF p = "java" /\ at[p] = << >> THEN Append(asked, s[3]) ELSE asked
          /\ failed' = (failed \/ (p = "server" /\ s[3] = "error"))
    /\ UNCHANGED gone

\* The local client reads whatever comes; the others know what they expect.
Take(p) ==
    /\ Here(p)
    /\ \E s \in Steps(p) :
          /\ s[1] = "get" /\ chan[s[2]] # << >>
          /\ p = "java" \/ Head(chan[s[2]]) = s[3]
          /\ Does(p, <<"get", s[2], Head(chan[s[2]])>>)
          /\ chan' = [chan EXCEPT ![s[2]] = Tail(@)]
    /\ UNCHANGED <<gone, asked, failed>>

\* The handler returns: back to the request loop.
Return(p) ==
    /\ Here(p) /\ at[p] \in Script[p]
    /\ at' = [at EXCEPT ![p] = << >>]
    /\ UNCHANGED <<chan, gone, asked, failed>>

\* The hook, and with it the sampling thread, is unwound with its owner.
Leaves(p) == gone' = gone \cup (IF p = "server" THEN {"server", "sampler"} ELSE {p})

\* readAllOrExit and writeAllOrExit: the other end is gone.
Exit(p) ==
    /\ Here(p) /\ p # "sampler"
    /\ \E s \in Steps(p) :
          \/ s[1] = "get" /\ chan[s[2]] = << >> /\ ~Here(Writer[s[2]])
          \/ s[1] = "put" /\ ~Here(Reader[s[2]])
    /\ Leaves(p) /\ UNCHANGED <<at, chan, asked, failed>>

\* A process or a connection may end at any moment.
HangUp(p) ==
    /\ Here(p) /\ p # "sampler"
    /\ Leaves(p) /\ UNCHANGED <<at, chan, asked, failed>>

Works(p) == Put(p) \/ Take(p) \/ Return(p)

Next == \E p \in Parties : Works(p) \/ Exit(p) \/ HangUp(p)

Spec == Init /\ [][Next]_vars

\* Every thread is scheduled.  That the server notices the end of a client is
\* not assumed: it depends on the TLS session (module TlsSession).
FairSpec ==
    /\ Spec
    /\ \A p \in Parties : WF_vars(Works(p) /\ (p = "java" => at[p] # << >>))
    /\ WF_vars(Exit("proxy"))

-----------------------------------------------------------------------------
\* p waits for a field and finds another one.
Lost(p) ==
    /\ Here(p) /\ Steps(p) # {}
    /\ \A s \in Steps(p) :
          s[1] = "get" /\ chan[s[2]] # << >> /\ Head(chan[s[2]]) # s[3]

\* The requests that the two sides understand differently, the last two only
\* when they fail: the hash of a new file, the end mark without a response, the
\* list of paths, the end mark and the numbers that follow an error.
Diverged ==
    \/ \E i \in DOMAIN asked : asked[i] \in {"createHashed", "createInvalid", "statMany"}
    \/ failed /\ \E i \in DOMAIN asked : asked[i] \in {"createFast", "statDir"}

\* Nobody takes one field of the protocol for another, in this request or in a
\* later one, as long as no request was made that the sides understand differently.
InStep == (\E p \in Parties : Lost(p)) => Diverged

\* When all loops wait for a request, nothing of an earlier one is left in a
\* socket: the next request is read from its first byte.
Drained ==
    (\A p \in Parties : at[p] = << >>) /\ ~Diverged =>
        \A c \in DOMAIN chan : chan[c] = << >>

\* A remote request looks like a local one: the client hears what a local
\* handler could have told it, whoever leaves and whenever.
Local == INSTANCE LocalSession WITH
    Conversations <- javaSession,
    heard <- IF Diverged THEN << <<"undefined", "undefined", "undefined">> >> ELSE at["java"],
    open <- (gone = {})

LooksLocal == Local!LSpec

\* A request is answered to its end, unless somebody leaves.
Answered == at["java"] # << >> ~> (at["java"] = << >> \/ gone # {} \/ Diverged)

\* "use both for storing the hash type requested, and for returning the hash
\* hex string": a creation with a hash comes to its end.
HashReturned == at["java"] # << >> ~> (at["java"] = << >> \/ gone # {})

=============================================================================
