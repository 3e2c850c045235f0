---------------------------- MODULE NoticeFanOut ----------------------------
(***************************************************************************)
(* What the fan-out of a notice promises, without batches, marks, clocks   *)
(* and crashes: a message is handed over for a recipient only while his    *)
(* case is open, a decision about him is made once and is final, and a     *)
(* notice is closed only when no case that is not excused is open. A       *)
(* recipient is excused when there is no way to reach a decision on him.   *)
(***************************************************************************)
EXTENDS Naturals

CONSTANTS
    Notices,        \* notice ids
    Users,          \* user ids
    Addressees      \* Addressees[n]: the recipients of the notice n

VARIABLES
    copies,         \* copies[n, u]: messages handed over for the recipient
    fate,           \* fate[n, u]: what was decided about him
    excused,        \* pairs on which nothing has to be decided
    closed          \* notices that have left the queue

vars == <<copies, fate, excused, closed>>

Open == "NO_MARK"
Fates == {"REJECTED_USER", "REJECTED_NODATA", "QUEUED"}
Pairs == Notices \X Users

Init ==
    /\ copies = [p \in Pairs |-> 0]
    /\ fate = [p \in Pairs |-> Open]
    /\ excused \subseteq Pairs
    /\ closed = {}

\* A message for the recipient is put into a queue.
Hand(p) ==
    /\ fate[p] = Open
    /\ copies' = [copies EXCEPT ![p] = @ + 1]
    /\ UNCHANGED <<fate, excused, closed>>

\* The decision is recorded.
Decide(p, f) ==
    /\ fate[p] = Open
    /\ fate' = [fate EXCEPT ![p] = f]
    /\ UNCHANGED <<copies, excused, closed>>

\* Some recipients of a notice need no decision any more.
Excuse(S) ==
    /\ excused' = excused \cup S
    /\ UNCHANGED <<copies, fate, closed>>

\* The notice leaves the queue for good.
Close(n) ==
    /\ \A u \in Addressees[n] : fate[<<n, u>>] # Open \/ <<n, u>> \in excused
    /\ closed' = closed \cup {n}
    /\ UNCHANGED <<copies, fate, excused>>

Next ==
    \/ \E p \in Pairs : Hand(p)
    \/ \E p \in Pairs, f \in Fates : Decide(p, f)
    \/ \E S \in SUBSET Pairs : Excuse(S)
    \/ \E n \in Notices : Close(n)

Spec == Init /\ [][Next]_vars

=============================================================================
