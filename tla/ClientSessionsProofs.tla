-------------------------- MODULE ClientSessionsProofs --------------------------
(***************************************************************************)
(* Facts about the table of descriptor numbers, for the proofs about the   *)
(* requests of the sessions.                                               *)
(***************************************************************************)
EXTENDS ClientSessions, TLAPS, WellFoundedInduction

\* The kernel has a lowest free number to give whenever one is free.
LEMMA LowestFreeIsFree ==
    ASSUME FreeNumbers # {}
    PROVE  LowestFree \in Fds
<1>1. FreeNumbers \in SUBSET Nat
  BY FdsAssumption DEF FreeNumbers
<1>2. PICK n \in FreeNumbers : \A m \in FreeNumbers : ~(<<m, n>> \in OpToRel(<, Nat))
  BY <1>1, NatLessThanWellFounded, WFMin, Zenon
<1>3. \A m \in FreeNumbers : ~(m < n)
  BY <1>1, <1>2, Zenon DEF OpToRel
<1>4. \A m \in FreeNumbers : n <= m
  BY <1>1, <1>3
<1> QED
  BY <1>4 DEF LowestFree, FreeNumbers

\* Closing a number releases it and no other.
LEMMA ClosedEffect ==
    ASSUME fdTable \in [Fds -> Clients \cup {NoOne}], NEW n \in Fds
    PROVE  Closed(n) = [m \in Fds |-> IF m = n THEN NoOne ELSE fdTable[m]]
BY DEF Closed

=============================================================================
