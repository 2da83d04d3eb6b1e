----------------------------- MODULE LocalSession -----------------------------
(***************************************************************************)
(* What a session promises to the local client: it hears a conversation    *)
(* that a handler of this machine could hold with it, one after another,   *)
(* until somebody leaves.  No channel and no proxy appears here.           *)
(***************************************************************************)
EXTENDS Sequences, SequencesExt

CONSTANT Conversations   \* the whole conversations of the client, as step sequences

VARIABLES heard,   \* the steps of the client in its current request
          open     \* nobody has left

localVars == <<heard, open>>

\* A request the proxies do not carry: from it on nothing is promised.
Unpromised == << <<"undefined", "undefined", "undefined">> >>

LInit == heard = << >> /\ open = TRUE

Exchange ==
    /\ \E whole \in Conversations :
          /\ IsStrictPrefix(heard, whole)
          /\ heard' = SubSeq(whole, 1, Len(heard) + 1)
    /\ UNCHANGED open

EndOfRequest == heard \in Conversations /\ heard' = << >> /\ UNCHANGED open

Forfeit == heard' = Unpromised /\ UNCHANGED open

Close == open' = FALSE /\ UNCHANGED heard

LNext == Exchange \/ EndOfRequest \/ Forfeit \/ Close

LSpec == LInit /\ [][LNext]_localVars

=============================================================================
