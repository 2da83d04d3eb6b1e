------------------------------ MODULE ByteChannel ------------------------------
(***************************************************************************)
(* What the incoming thread and the session thread of a TLS descriptor may *)
(* rely on, without indices, locks and waits: a bounded pipe of bytes with *)
(* an end.  A byte is its position in the stream.  RingBuffer implements   *)
(* this module.                                                            *)
(***************************************************************************)
EXTENDS Integers, Sequences

CONSTANT Room   \* the most bytes that may be in the channel, at least one

VARIABLES
    sent,    \* how many bytes the writer has put in
    got,     \* the bytes the reader has taken out
    over,    \* somebody closed the channel
    ended    \* the reader was told of the end

channelVars == <<sent, got, over, ended>>

Init == sent = 0 /\ got = << >> /\ over = FALSE /\ ended = FALSE

\* A write takes what there is room for, and nothing once the end was told.
Put ==
    /\ ~ended
    /\ sent' \in sent .. Len(got) + Room
    /\ UNCHANGED <<got, over, ended>>

\* A read returns the next bytes of the stream.
Take ==
    /\ \E n \in Len(got) .. sent : got' = [i \in 1 .. n |-> i]
    /\ UNCHANGED <<sent, over, ended>>

Close == over' = TRUE /\ UNCHANGED <<sent, got, ended>>

\* The end is told of a closed channel that was emptied.
End ==
    /\ over /\ sent = Len(got)
    /\ ended' = TRUE
    /\ UNCHANGED <<sent, got, over>>

\* A new stream in the same channel.
Renew == sent' = 0 /\ got' = << >> /\ over' = FALSE /\ ended' = FALSE

Next == Put \/ Take \/ Close \/ End \/ Renew

Spec == Init /\ [][Next]_channelVars

=============================================================================
