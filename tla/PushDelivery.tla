---------------------------- MODULE PushDelivery ----------------------------
(***************************************************************************)
(* What the growlio outbox promises, without the requests, retries, tokens *)
(* and lost answers that make the promise hard to keep: a movement is      *)
(* queued by a committed ledger edit, growlio applies it to the account    *)
(* balance at most once, and the household is told "sent" only of a        *)
(* movement growlio has applied.  GrowlioPush implements this module.      *)
(***************************************************************************)
EXTENDS Naturals

CONSTANT RowIds         \* the ids a queue row can get

VARIABLES
    queued,             \* the movements some committed edit asked for
    applied,            \* how many times growlio applied each of them
    confirmed           \* the movements reported as sent

vars == <<queued, applied, confirmed>>

Init ==
    /\ queued = {}
    /\ applied = [i \in RowIds |-> 0]
    /\ confirmed = {}

\* One committed edit queues one or more movements together.
Queue(R) ==
    /\ R # {} /\ R \cap queued = {}
    /\ queued' = queued \cup R
    /\ UNCHANGED <<applied, confirmed>>

\* growlio applies a queued movement, the first time it sees it.
Apply(i) ==
    /\ i \in queued /\ applied[i] = 0
    /\ applied' = [applied EXCEPT ![i] = 1]
    /\ UNCHANGED <<queued, confirmed>>

\* The household's own books note that the movement has arrived.
Confirm(i) ==
    /\ applied[i] = 1 /\ i \notin confirmed
    /\ confirmed' = confirmed \cup {i}
    /\ UNCHANGED <<queued, applied>>

Next ==
    \/ \E R \in SUBSET RowIds : Queue(R)
    \/ \E i \in RowIds : Apply(i) \/ Confirm(i)

Spec == Init /\ [][Next]_vars
=============================================================================
