------------------------------ MODULE Delivery ------------------------------
(***************************************************************************)
(* What the buffer manager promises about the records it is given, with no *)
(* map, channel, goroutine or retry in sight: a record is accepted once,   *)
(* is pending until it is stored or lost, and is stored at most MaxCopies  *)
(* times.  A record may still be stored after it was settled or lost: a    *)
(* database call that nobody waits for any more can commit late.           *)
(***************************************************************************)
EXTENDS Integers

CONSTANTS Recs, MaxCopies

VARIABLES fresh,    \* records not accepted yet
          pending,  \* accepted records whose fate is open
          lost,     \* accepted records that were given up
          copies    \* copies[r]: how often r is in the table

dvars == <<fresh, pending, lost, copies>>

Init == /\ fresh = Recs
        /\ pending = {}
        /\ lost = {}
        /\ copies = [r \in Recs |-> 0]

\* A record is accepted; the pending records R it replaces are lost.
Accept(r, R) ==
    /\ r \in fresh
    /\ fresh' = fresh \ {r}
    /\ pending' = (pending \cup {r}) \ R
    /\ lost' = lost \cup R
    /\ UNCHANGED copies

\* All of R is stored once more, or none of it is.
Store(R) ==
    /\ R \cap fresh = {}
    /\ copies' = [r \in Recs |-> IF r \in R THEN copies[r] + 1 ELSE copies[r]]
    /\ \A r \in R : copies[r] < MaxCopies
    /\ UNCHANGED <<fresh, pending, lost>>

\* Only what is in the table may be forgotten ...
Settle(R) ==
    /\ \A r \in R : copies[r] > 0
    /\ pending' = pending \ R
    /\ UNCHANGED <<fresh, lost, copies>>

\* ... everything else has to be given up.
Lose(R) ==
    /\ pending' = pending \ R
    /\ lost' = lost \cup R
    /\ UNCHANGED <<fresh, copies>>

Next ==
    \/ \E R \in SUBSET (Recs \ fresh) : Store(R)
    \/ \E R \in SUBSET pending : Settle(R) \/ Lose(R)
    \/ \E r \in fresh, R \in SUBSET pending : Accept(r, R)

Spec == Init /\ [][Next]_dvars
=============================================================================
