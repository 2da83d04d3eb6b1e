------------------------------ MODULE FileCopier ------------------------------
(***************************************************************************)
(* A copy of files and directories with its conversation with the client:  *)
(* class FileCopier of RootHelper/FileCopier.h, and the file operations it *)
(* uses from Utils.h.  A stack of path pairs is worked off; a destination  *)
(* that exists is a conflict, which the client or a permanent decision     *)
(* resolves by skipping, deleting, renaming or merging, after which the    *)
(* pair is usually pushed again; an error is reported and acknowledged.    *)
(*                                                                         *)
(* A name is a string and the numbers appended to it with TO_STR.  A path  *)
(* is a sequence of names.  What a file contains is known by where it was  *)
(* at the start, with a mark on copies.                                    *)
(***************************************************************************)
EXTENDS Integers, SequencesExt

CONSTANTS
    Bases,       \* the strings that names start with
    InitialFs,   \* path |-> Dir or <<"orig", path>>
    CopyList,    \* the source and destination pairs the client sent
    NewNames,    \* the names the client may type when it renames
    MaxAnswers,  \* bound: decisions before the client only skips or cancels
    Faults       \* whether system calls may fail for reasons of their own

Names == Bases \X Seq(Nat)
Paths == Seq(Names) \ {<< >>}
Dir == <<"dir">>

\* Every entry of the file system is reached through directories.
ASSUME FilesAssumption ==
    /\ IsFiniteSet(DOMAIN InitialFs)
    /\ InitialFs = [p \in DOMAIN InitialFs |-> InitialFs[p]]
    /\ \A p \in DOMAIN InitialFs :
          /\ p \in Paths
          /\ \A n \in 1 .. Len(p) - 1 :
                SubSeq(p, 1, n) \in DOMAIN InitialFs /\ InitialFs[SubSeq(p, 1, n)] = Dir
ASSUME RequestAssumption == CopyList \in Seq(Paths \X Paths) /\ NewNames \subseteq Names
ASSUME MaxAnswersAssumption == MaxAnswers \in Nat
ASSUME FaultsAssumption == Faults \in BOOLEAN

VARIABLES
    fs,             \* the file system
    S,              \* the stack of pairs, its top first
    pair,           \* the pair being processed
    permanentDecs,  \* conflict type |-> the decision for all, or NO_PREV_DEC
    pc, conflict, dec, newname,
    left,           \* the client has closed its end
    answers,        \* bound: decisions so far
    vanished,       \* a source path was removed by somebody else
    told,           \* history: source file |-> what the client was told, or "dropped"
    outer,          \* history: the files the client counts as dealt with
    granted         \* history: what the client allowed to be overwritten

local == <<pair, permanentDecs, pc, conflict, dec, newname>>
fcVars == <<fs, S, pair, permanentDecs, pc, conflict, dec, newname,
            left, answers, vanished, told, outer, granted>>

NO_PREV_DEC == "none"
Partial == <<"partial">>
ForAll == {"skip_all", "overwrite_all", "ren_src_all", "ren_dest_all", "merge_all"}
Single == {"skip", "overwrite", "ren_src", "ren_dest", "merge", "merge_recursive", "cancel"}

-----------------------------------------------------------------------------
(***************************************************************************)
(* The file system.                                                        *)
(***************************************************************************)
Exists(p) == p \in DOMAIN fs
IsDir(p) == Exists(p) /\ fs[p] = Dir
IsFile(p) == Exists(p) /\ fs[p] # Dir
Within(p) == {q \in DOMAIN fs : IsPrefix(p, q)}
Children(p) == {q \in Within(p) : Len(q) = Len(p) + 1}
FilesIn(p) == {q \in Within(p) : fs[q] # Dir}
Ancestors(p) == {SubSeq(p, 1, n) : n \in 1 .. Len(p)}
Moved(q, from, to) == to \o SubSeq(q, Len(from) + 1, Len(q))

WithFile(p, content) == [q \in DOMAIN fs \cup {p} |-> IF q = p THEN content ELSE fs[q]]

\* What the deletion of a file or a whole directory leaves.
Without(p) == [q \in DOMAIN fs \ Within(p) |-> fs[q]]

\* mkpath: every missing ancestor, and the directory itself.
CanMkpath(p) == \A q \in Ancestors(p) : Exists(q) => IsDir(q)
mkpath(p) == [q \in DOMAIN fs \cup Ancestors(p) |-> IF Exists(q) THEN fs[q] ELSE Dir]

\* rename(2): a file replaces a file, a directory an empty directory.
CanRename(p, q) ==
    \/ ~Exists(q) \/ p = q
    \/ IsFile(p) /\ IsFile(q)
    \/ IsDir(p) /\ IsDir(q) /\ Children(q) = {}
rename(p, q) ==
    LET kept == DOMAIN fs \ (Within(p) \cup {q})
    IN  [x \in kept \cup {Moved(y, p, q) : y \in Within(p)} |->
            IF x \in kept THEN fs[x] ELSE fs[Moved(x, q, p)]]

\* The first of name0, name1, ... that does not exist beside p.
FreeName(p) ==
    LET candidate(k) == Append(Front(p), <<Last(p)[1], Append(Last(p)[2], k)>>)
        first == CHOOSE k \in 0 .. Cardinality(DOMAIN fs) :
                    /\ ~Exists(candidate(k))
                    /\ \A j \in 0 .. k - 1 : Exists(candidate(j))
    IN  candidate(first)

\* descendantCountMap: the files below a path when the copy was requested.
FilesAtStart(p) == {q \in DOMAIN InitialFs : IsPrefix(p, q) /\ InitialFs[q] # Dir}
Total == Cardinality(UNION {FilesAtStart(CopyList[i][1]) : i \in DOMAIN CopyList})

Init ==
    /\ fs = InitialFs
    /\ S = Reverse(CopyList)
    /\ pair = << >> /\ pc = "totals" /\ conflict = "file"
    /\ dec = NO_PREV_DEC /\ newname = << >>
    /\ permanentDecs = [type \in {"file", "dir"} |-> NO_PREV_DEC]
    /\ left = FALSE /\ answers = 0 /\ vanished = FALSE
    /\ told = [f \in UNION {FilesAtStart(CopyList[i][1]) : i \in DOMAIN CopyList} |-> "nothing"]
    /\ outer = 0 /\ granted = {}

src == pair[1]
dest == pair[2]

-----------------------------------------------------------------------------
(***************************************************************************)
(* maincopy.                                                               *)
(***************************************************************************)
\* writeAllOrExit to the client: it throws when the client has left, and
\* maincopy then closes the socket.
Sent(next) == pc' = IF left THEN "closed" ELSE next
Go(next) == pc' = next

Totals ==
    /\ pc = "totals" /\ Sent("next")
    /\ UNCHANGED <<fs, S, pair, permanentDecs, conflict, dec, newname,
                   left, answers, vanished, told, outer, granted>>

Pop ==
    /\ pc = "next" /\ S # << >>
    /\ pair' = Head(S) /\ S' = Tail(S) /\ Go("item")
    /\ UNCHANGED <<fs, permanentDecs, conflict, dec, newname,
                   left, answers, vanished, told, outer, granted>>

\* A source that is gone: return, without closing and without an end mark.
SourceMissing ==
    /\ pc = "item" /\ ~Exists(src) /\ Go("returned")
    /\ UNCHANGED <<fs, S, pair, permanentDecs, conflict, dec, newname,
                   left, answers, vanished, told, outer, granted>>

\* EOFs_ind and the base response, then close.
Finish ==
    /\ pc = "next" /\ S = << >> /\ Sent("done")
    /\ UNCHANGED <<fs, S, pair, permanentDecs, conflict, dec, newname,
                   left, answers, vanished, told, outer, granted>>

TypeOfSource == IF IsDir(src) THEN "dir" ELSE "file"

\* Mutant: the decision for the other type of conflict is taken.
ConflictOtherType ==
    /\ pc = "item" /\ Exists(src) /\ Exists(dest)
    /\ conflict' = TypeOfSource
    /\ dec' = permanentDecs[IF IsDir(src) THEN "file" ELSE "dir"]
    /\ Go(IF dec' = NO_PREV_DEC THEN "ask" ELSE "handle")
    /\ UNCHANGED <<fs, S, pair, permanentDecs, newname, left, answers, vanished,
                   told, outer, granted>>

\* The destination exists: a permanent decision, or a question.
Conflict ==
    /\ pc = "item" /\ Exists(src) /\ Exists(dest)
    /\ conflict' = TypeOfSource
    /\ dec' = permanentDecs[TypeOfSource]
    /\ Go(IF dec' = NO_PREV_DEC THEN "ask" ELSE "handle")
    /\ UNCHANGED <<fs, S, pair, permanentDecs, newname, left, answers, vanished,
                   told, outer, granted>>

\* oscopyfile up to the file size it announces.
CopyStart ==
    /\ pc = "item" /\ IsFile(src) /\ ~Exists(dest)
    /\ \/ /\ IsDir(Front(dest))
          /\ fs' = WithFile(dest, Partial) /\ Sent("copying")
       \/ /\ Faults \/ ~IsDir(Front(dest))
          /\ Go("error") /\ UNCHANGED fs
    /\ UNCHANGED <<S, pair, permanentDecs, conflict, dec, newname,
                   left, answers, vanished, told, outer, granted>>

\* The chunks and EOF_ind, which is sent too when sendfile fails half-way.
CopyEnd ==
    /\ pc = "copying" /\ Sent("next")
    /\ IF left THEN UNCHANGED <<fs, told, outer>>
       ELSE /\ \/ fs' = WithFile(dest, <<"copy", src>>)
               \/ Faults /\ UNCHANGED fs
            /\ told' = [told EXCEPT ![src] = "copied"]
            /\ outer' = outer + 1
    /\ UNCHANGED <<S, pair, permanentDecs, conflict, dec, newname,
                   left, answers, vanished, granted>>

\* The pair is passed over without a word to the client.
DropPair ==
    /\ told' = [f \in DOMAIN told |-> IF f \in FilesIn(src) THEN "dropped" ELSE told[f]]
    /\ UNCHANGED S

\* listChildrenPairs, in the order of the directory.
PushListed ==
    /\ \E order \in SetToSeqs(Children(src)) :
          S' = [i \in 1 .. Len(order) |-> <<order[i], Moved(order[i], src, dest)>>] \o S
    /\ UNCHANGED told

\* pushChildrenPairs: a directory that cannot be opened for listing has no children.
PushChildren == PushListed \/ (Faults /\ DropPair)

MakeDir ==
    /\ pc = "item" /\ IsDir(src) /\ ~Exists(dest)
    /\ \/ /\ CanMkpath(dest)
          /\ fs' = mkpath(dest) /\ PushChildren /\ Go("next")
       \/ /\ Faults \/ ~CanMkpath(dest)
          /\ Go("error") /\ UNCHANGED <<S, told>>
          /\ \E made \in {q \in Ancestors(dest) \ {dest} : CanMkpath(q)} : fs' = mkpath(made)
    /\ UNCHANGED <<pair, permanentDecs, conflict, dec, newname,
                   left, answers, vanished, outer, granted>>

-----------------------------------------------------------------------------
(***************************************************************************)
(* waitConflictOrErrorDec, for a conflict and for an error.                *)
(***************************************************************************)
Ask ==
    /\ \/ pc = "ask" /\ Sent("wait")
       \/ pc = "error" /\ Sent("errwait")
    /\ UNCHANGED <<fs, S, pair, permanentDecs, conflict, dec, newname,
                   left, answers, vanished, told, outer, granted>>

\* The decisions a client has for a conflict: merging is for directories.
Decisions ==
    IF answers >= MaxAnswers THEN {"skip", "cancel"}
    ELSE (Single \cup ForAll) \
            (IF IsDir(src) /\ IsDir(dest) THEN {} ELSE {"merge", "merge_recursive", "merge_all"})

\* History: the destination, or all conflicts of this type.
Grant(d) ==
    granted' = granted \cup
        CASE d = "overwrite" -> {<<"path", dest>>}
          [] d = "overwrite_all" -> {<<"path", dest>>, <<"all", conflict>>}
          [] OTHER -> {}

Answer ==
    /\ pc = "wait" /\ ~left /\ Go("handle")
    /\ \E d \in Decisions : dec' = d /\ Grant(d)
    /\ newname' \in IF dec' \in {"ren_src", "ren_dest"} THEN NewNames ELSE {<< >>}
    /\ answers' = IF answers < MaxAnswers THEN answers + 1 ELSE answers
    /\ UNCHANGED <<fs, S, pair, permanentDecs, conflict,
                   left, vanished, told, outer>>

\* The client is gone: read() is not checked and "ret" was never set.
AnswerUnset ==
    /\ pc = "wait" /\ left /\ Go("handle")
    /\ dec' \in Single \cup ForAll \cup {"unknown"}
    /\ UNCHANGED <<fs, S, pair, permanentDecs, conflict, newname,
                   left, answers, vanished, told, outer, granted>>

\* unsolvableError: cancel, or go on with the next item.
ErrorAnswer ==
    /\ pc = "errwait"
    /\ \/ Go("closed") /\ UNCHANGED told
       \/ /\ Go("next")
          /\ told' = [f \in DOMAIN told |-> IF f \in FilesIn(src) THEN "error" ELSE told[f]]
    /\ UNCHANGED <<fs, S, pair, permanentDecs, conflict, dec, newname,
                   left, answers, vanished, outer, granted>>

-----------------------------------------------------------------------------
(***************************************************************************)
(* handleConflict.                                                         *)
(***************************************************************************)
Remember ==
    permanentDecs' = IF dec \in ForAll THEN [permanentDecs EXCEPT ![conflict] = dec]
                                       ELSE permanentDecs

Handling(decs) == pc = "handle" /\ dec \in decs /\ Remember
HandleUnchanged == UNCHANGED <<pair, conflict, dec, newname, left, answers, vanished, granted>>

\* sendSkipInfo, with the counts of descendantCountMap.
Skip ==
    /\ Handling({"skip", "skip_all"}) /\ Sent("next")
    /\ told' = [f \in DOMAIN told |-> IF ~left /\ f \in FilesAtStart(src) THEN "skipped" ELSE told[f]]
    /\ outer' = IF left THEN outer ELSE outer + Cardinality(FilesAtStart(src))
    /\ UNCHANGED <<fs, S>> /\ HandleUnchanged

\* Mutant: the pair is not pushed again after the deletion.
OverwriteForgotten ==
    /\ Handling({"overwrite", "overwrite_all"})
    /\ fs' = Without(dest) /\ Go("next") /\ UNCHANGED S
    /\ UNCHANGED <<told, outer>> /\ HandleUnchanged

\* Mutant: the pair is pushed again and nothing was deleted.
OverwriteUndeleted ==
    /\ Handling({"overwrite", "overwrite_all"})
    /\ S' = <<pair>> \o S /\ Go("next")
    /\ UNCHANGED <<fs, told, outer>> /\ HandleUnchanged

\* genericDeleteBasicImpl: after an error it goes on, and what could not be
\* deleted stays, with the directories it is in.
Overwrite ==
    /\ Handling({"overwrite", "overwrite_all"})
    /\ \/ fs' = Without(dest) /\ S' = <<pair>> \o S /\ Go("next")
       \/ /\ Faults /\ Go("error") /\ UNCHANGED S
          /\ \E kept \in SUBSET Within(dest) \ {{}} :
                LET remains == (UNION {Ancestors(q) : q \in kept}) \cap DOMAIN fs
                IN  fs' = [q \in (DOMAIN fs \ Within(dest)) \cup remains |-> fs[q]]
    /\ UNCHANGED <<told, outer>> /\ HandleUnchanged

RenameDestTo(new) ==
    \/ CanRename(dest, new) /\ fs' = rename(dest, new) /\ S' = <<pair>> \o S /\ Go("next")
    \/ (Faults \/ ~CanRename(dest, new)) /\ Go("error") /\ UNCHANGED <<fs, S>>

\* autoRenameDest.
RenameDestAll ==
    /\ Handling({"ren_dest_all"}) /\ RenameDestTo(FreeName(dest))
    /\ UNCHANGED <<told, outer>> /\ HandleUnchanged

\* CD_REN_DEST: the client's name may exist, and rename(2) replaces it.
RenameDest ==
    /\ Handling({"ren_dest"})
    /\ IF left THEN Go("closed") /\ UNCHANGED <<fs, S>>
       ELSE RenameDestTo(Append(Front(dest), newname))
    /\ UNCHANGED <<told, outer>> /\ HandleUnchanged

\* autoRenameSrc and CD_REN_SRC: the same source with another destination.
RenameSrcAll ==
    /\ Handling({"ren_src_all"}) /\ Go("next")
    /\ S' = <<<<src, FreeName(dest)>>>> \o S
    /\ UNCHANGED <<fs, told, outer>> /\ HandleUnchanged

RenameSrc ==
    /\ Handling({"ren_src"})
    /\ IF left THEN Go("closed") /\ UNCHANGED S
       ELSE Go("next") /\ S' = <<<<src, Append(Front(dest), newname)>>>> \o S
    /\ UNCHANGED <<fs, told, outer>> /\ HandleUnchanged

Merge ==
    /\ Handling({"merge", "merge_all"}) /\ PushChildren /\ Go("next")
    /\ UNCHANGED <<fs, outer>> /\ HandleUnchanged

Cancel ==
    /\ Handling({"cancel"}) /\ Go("closed")
    /\ UNCHANGED <<fs, S, told, outer>> /\ HandleUnchanged

\* CD_MERGE_RECURSIVE, and a byte that is no decision, are no case of the switch.
Unknown ==
    /\ Handling({"merge_recursive", "unknown"}) /\ DropPair /\ Go("next")
    /\ UNCHANGED <<fs, outer>> /\ HandleUnchanged

HandleConflict ==
    \/ Skip \/ Overwrite \/ RenameDestAll \/ RenameDest
    \/ RenameSrcAll \/ RenameSrc \/ Merge \/ Cancel \/ Unknown

-----------------------------------------------------------------------------
(***************************************************************************)
(* The client's disconnection, and another program at work in the source.  *)
(***************************************************************************)
ClientLeaves ==
    /\ ~left /\ pc \notin {"done", "closed", "returned"} /\ left' = TRUE
    /\ UNCHANGED <<fs, S, local, answers, vanished, told, outer, granted>>

SourceVanishes ==
    /\ Faults /\ ~vanished /\ vanished' = TRUE
    /\ \E i \in DOMAIN CopyList : fs' = Without(CopyList[i][1])
    /\ pc = "next"
    /\ UNCHANGED <<S, local, left, answers, told, outer, granted>>

CopierStep ==
    \/ Totals \/ Pop \/ SourceMissing \/ Finish
    \/ Conflict \/ CopyStart \/ CopyEnd \/ MakeDir
    \/ Ask \/ AnswerUnset \/ HandleConflict

ClientAnswers == Answer \/ ErrorAnswer

Next == CopierStep \/ ClientAnswers \/ ClientLeaves \/ SourceVanishes

Spec == Init /\ [][Next]_fcVars

\* The thread runs; the user answers what he is asked, or leaves.
FairSpec == Spec /\ WF_fcVars(CopierStep) /\ WF_fcVars(ClientAnswers)

-----------------------------------------------------------------------------
\* What a file contains, source, destination or finished copy, is gone only
\* when a connected client allowed that destination, or every conflict of the
\* type in hand, to be overwritten, or itself typed the name of the file for a
\* rename: the user's decisions are applied to what he decided about, also
\* when a pair comes back from the stack with another destination, and when a
\* source is its own destination.
Lost(p) == IsFile(p) /\ fs[p] # Partial /\ \A q \in DOMAIN fs' : fs'[q] # fs[p]
NothingOverwrittenUnasked ==
    [][\A p \in DOMAIN fs : Lost(p) =>
          \/ left \/ vanished' # vanished
          \/ /\ pc = "handle"
             /\ \/ <<"all", conflict>> \in granted
                \/ \E q \in Ancestors(p) : <<"path", q>> \in granted
                \/ dec = "ren_dest" /\ p = Append(Front(dest), newname)]_fcVars

\* When the copy reports its end, the client knows the fate of every file: none
\* is forgotten on the way from the stack and back, and the outer progress bar
\* has reached its total unless errors were acknowledged.  Two kinds of pair are
\* excused, which the code drops without a word: a directory that cannot be
\* listed, and one that was to be merged recursively (DropPair).
NothingForgotten ==
    (pc = "done" /\ ~vanished) =>
        /\ \A f \in DOMAIN told : told[f] # "nothing"
        /\ (\A f \in DOMAIN told : told[f] \notin {"error", "dropped"}) => outer = Total

\* The stack is worked off whatever the decisions: no conflict is pushed again
\* and again, and the thread does not wait for a client that has left.
ConversationEnds == <>(pc \in {"done", "closed", "returned"})

=============================================================================
