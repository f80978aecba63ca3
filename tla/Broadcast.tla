----------------------------- MODULE Broadcast -----------------------------
(***************************************************************************)
(* What src/flow.rs promises its users: a log of bounded lag that every    *)
(* stage reads in order, a stage never ahead of the stages it depends on.  *)
(* Slots, charges, wakeups and reclamation do not appear.                  *)
(***************************************************************************)
EXTENDS Integers, Sequences

CONSTANTS Producers, NumStages, Deps, Capacity, Cancelled, None

VARIABLES
    log,     \* what was published; None while its claim is open
    got,     \* got[s]: the values that stage s was given
    done,    \* done[s]: how many of them it is done with
    closed   \* no further claims

vars == <<log, got, done, closed>>

Init ==
    /\ log = <<>>
    /\ got = [s \in 1..NumStages |-> <<>>]
    /\ done = [s \in 1..NumStages |-> 0]
    /\ closed = FALSE

\* No stage lags more than Capacity behind the newest claim.
Claim ==
    /\ ~closed
    /\ \A s \in 1..NumStages : Len(log) - done[s] < Capacity
    /\ log' = Append(log, None)
    /\ UNCHANGED <<got, done, closed>>

Publish(n) ==
    /\ log[n] = None
    /\ \E v \in Producers \cup {Cancelled} : log' = [log EXCEPT ![n] = v]
    /\ UNCHANGED <<got, done, closed>>

Deliver(s) ==
    LET n == Len(got[s]) + 1
    IN  /\ n <= Len(log)
        /\ log[n] # None
        /\ \A d \in Deps[s] : done[d] >= n
        /\ got' = [got EXCEPT ![s] = Append(@, log[n])]
        /\ UNCHANGED <<log, done, closed>>

Finish(s) ==
    /\ done[s] < Len(got[s])
    /\ done' = [done EXCEPT ![s] = Len(got[s])]
    /\ UNCHANGED <<log, got, closed>>

Close ==
    /\ closed' = TRUE
    /\ UNCHANGED <<log, got, done>>

Next ==
    \/ Claim
    \/ Close
    \/ \E n \in DOMAIN log : Publish(n)
    \/ \E s \in 1..NumStages : Deliver(s) \/ Finish(s)

Spec == Init /\ [][Next]_vars

=============================================================================
