----------------------------- MODULE DurableLog -----------------------------
(***************************************************************************)
(* What the segmented journal (src/src/journal.rs) promises its caller,    *)
(* without segments, files or crashes.  log is everything a caller was     *)
(* ever shown: by a receipt, or by the replay that follows an open.  It    *)
(* only grows, and only by a whole group that was really submitted.        *)
(* inflight is the group of an append whose fate is not yet known.         *)
(***************************************************************************)
EXTENDS Sequences, Integers

CONSTANTS Values, MaxRecords

VARIABLES log, inflight

vars == <<log, inflight>>

Groups == {[k \in 1..n |-> v] : n \in 1..MaxRecords, v \in Values}

Init == log = <<>> /\ inflight = <<>>

\* A caller starts an append of one group.
Submit ==
  /\ inflight = <<>>
  /\ inflight' \in Groups
  /\ log' = log

\* The append returns its receipt.
Receipt ==
  /\ inflight # <<>>
  /\ log' = log \o inflight
  /\ inflight' = <<>>

\* A reopened journal settles an ambiguous append one way or the other: the
\* group is there as a whole, or it is not there at all.
Reopen ==
  /\ log' \in {log, log \o inflight}
  /\ inflight' = <<>>

Next == Submit \/ Receipt \/ Reopen

Spec == Init /\ [][Next]_vars
=============================================================================
