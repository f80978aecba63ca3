----------------------------- MODULE FlowProofs -----------------------------
(***************************************************************************)
(* Theorems about Flow for any number of producers, stages and slots, any  *)
(* dependency graph that bounded() accepts, any charges and any last       *)
(* sequence number.                                                        *)
(***************************************************************************)
EXTENDS FlowStages

\* The initial state.
LEMMA InitInd == Init => IndInv
<1> SUFFICES ASSUME Init PROVE IndInv
  OBVIOUS
<1>1. SEQUENCE_MASK \in Nat /\ Capacity \in Nat \ {0}
  BY FlowAssumption
<1>2. TypeOK
  <2>1. /\ prod \in [Producers -> Claims]
        /\ log \in [1..SEQUENCE_MASK -> Values \cup {None}]
        /\ entry \in [Slots -> Entry \cup {None}]
        /\ gate \in Stages \cup {None}
        /\ wake \in [Stages -> BOOLEAN] /\ closed \in BOOLEAN /\ fenced \in BOOLEAN
    BY IdleClaimType, Zenon DEF Init
  <2>2. got \in [Stages -> Seq(Values)]
    BY DEF Init
  <2>3. stage \in [Stages -> Deliveries]
    BY <1>1 DEF Init, Deliveries, StagePC
  <2>4. /\ head \in 0..SEQUENCE_MASK /\ reclaimed \in 0..SEQUENCE_MASK /\ charged \in Int
        /\ published \in [Slots -> 0..SEQUENCE_MASK]
        /\ finished \in [Stages -> 0..SEQUENCE_MASK]
        /\ gateView \in [Stages -> 0..SEQUENCE_MASK]
    BY <1>1 DEF Init
  <2>5. QED
    BY <2>1, <2>2, <2>3, <2>4 DEF TypeOK
<1>3. GateInv
  BY FlowAssumption DEF Init, GateInv, GateHolder
<1>4. CursorInv
  BY FlowAssumption DEF Init, CursorInv, GateHolder
<1>5. SlotInv
  <2>1. ~Taking /\ OldestLive = 1
    BY DEF Init, Taking, OldestLive
  <2>2. \A n \in 1..Capacity : published[SlotOf(n)] = 0 /\ entry[SlotOf(n)] = None
    BY SlotOfType, FlowAssumption, SMTT(30) DEF Init
  <2>3. \A p \in Producers : ~Holds(prod[p])
    BY IdleClaimType DEF Init
  <2>4. QED
    BY <2>1, <2>2, <2>3, FlowAssumption, SMTT(30) DEF Init, SlotInv, Holds
<1>6. LogInv
  BY FlowAssumption, IdleClaimType, SMTT(30) DEF Init, LogInv, Holds
<1>7. QED
  BY <1>2, <1>3, <1>4, <1>5, <1>6 DEF IndInv

\* Every step keeps the invariant.
LEMMA NextInd == IndInv /\ [Next]_vars => IndInv'
<1> SUFFICES ASSUME IndInv, [Next]_vars PROVE IndInv'
  OBVIOUS
<1>1. ASSUME NEW p \in Producers, Start(p) \/ GiveUp(p) \/ ProducerStep(p) PROVE IndInv'
  <2>1. CASE Start(p) \/ CheckAdmission(p) \/ TakeCharge(p) \/ GiveUp(p) \/ Observe(p)
    BY <2>1, UnclaimedSteps
  <2>2. CASE ClaimSequence(p)
    BY <2>2, ClaimStep
  <2>3. CASE Refund(p)
    BY <2>3, NotifyingSteps
  <2>4. CASE FillSlot(p)
    BY <2>4, FillStep
  <2>5. CASE PublishSlot(p)
    BY <2>5, PublishStep
  <2>6. QED
    BY <1>1, <2>1, <2>2, <2>3, <2>4, <2>5 DEF ProducerStep
<1>2. ASSUME NEW s \in Stages,
             coalesce(s) \/ Abandon(s) \/ DropStage(s) \/ StageDeadline(s) \/ StageStep(s)
      PROVE  IndInv'
  <2>1. CASE Abandon(s) \/ DropStage(s) \/ StageDeadline(s) \/ Unpark(s) \/ next_until(s)
    <3>1. \/ next_until(s)
          \/ PollSlot(s) /\ stage'[s].pc # "holding"
          \/ Unpark(s) \/ StageDeadline(s) \/ Abandon(s) \/ DropStage(s)
          \/ LockGate(s) /\ gate' = None
      BY <2>1
    <3>2. QED
      BY <3>1, PcSteps
  <2>2. CASE PollSlot(s)
    <3>1. CASE stage'[s].pc # "holding"
      BY <2>2, <3>1, PcSteps
    <3>2. CASE stage'[s].pc = "holding"
      <4>1. stage[s].pc = "polling" /\ finished[s] = stage[s].last
        BY <2>2 DEF PollSlot, IndInv, CursorInv
      <4>2. PICK n : n = finished[s] + 1
        OBVIOUS
      <4>3. ASSUME SetStage(s, "parked") PROVE FALSE
        <5>1. stage'[s] = [stage[s] EXCEPT !.pc = "parked"] /\ stage[s] \in Deliveries
          BY <4>3 DEF SetStage, IndInv, TypeOK
        <5>2. QED
          BY <3>2, <5>1 DEF Deliveries
      <4>4. Ready(s, n) /\ Deliver(s, n)
        BY <2>2, <4>2, <4>3 DEF PollSlot
      <4>5. UNCHANGED <<ring, closed, fenced, wake, gate, gateView, prod, log>>
        BY <2>2 DEF PollSlot
      <4>6. QED
        BY <4>1, <4>2, <4>4, <4>5, DeliverStep, SMTT(30)
    <3>3. QED
      BY <3>1, <3>2
  <2>3. CASE coalesce(s)
    <3>1. PICK n : n = stage[s].last + 1
      OBVIOUS
    <3>2. QED
      BY <2>3, <3>1, DeliverStep DEF coalesce
  <2>4. CASE Finish(s)
    BY <2>4, FinishStep
  <2>5. CASE LockGate(s)
    BY <2>5, LockStep, PcSteps
  <2>6. CASE TakeEntry(s)
    BY <2>6, TakeStep
  <2>7. CASE AdvanceReclaimed(s)
    BY <2>7, AdvanceStep
  <2>8. QED
    BY <1>2, <2>1, <2>2, <2>3, <2>4, <2>5, <2>6, <2>7, SMTT(30) DEF StageStep
<1>3. CASE Close \/ Fence
  BY <1>3, NotifyingSteps, SMTT(30)
<1>4. CASE UNCHANGED vars
  <2>1. UNCHANGED <<head, closed, fenced, reclaimed, charged, published, entry, finished,
                    wake, gate, gateView, prod, stage, log, got>>
    BY <1>4 DEF vars
  <2>2. SameClaims
    BY <2>1 DEF SameClaims
  <2>3. QED
    BY <2>1, <2>2, ProducerFrame, SMTT(30) DEF IndInv, TypeOK
<1>5. QED
  BY <1>1, <1>2, <1>3, <1>4 DEF Next

\* In every reachable state of the ring the inductive invariant holds.
THEOREM Invariance == Spec => []IndInv
<1>1. Init => IndInv
  BY InitInd
<1>2. IndInv /\ [Next]_vars => IndInv'
  BY NextInd
<1>3. QED
  BY <1>1, <1>2, PTL DEF Spec

\* Every variable of the ring always has its type; in particular no sequence
\* number passes SEQUENCE_MASK, so the CLOSED bit of head is never corrupted.
THEOREM TypeCorrect == Spec => []TypeOK
<1>1. IndInv => TypeOK
  BY DEF IndInv
<1>2. QED
  BY <1>1, Invariance, PTL

\* A live sequence number owns its slot alone, for any number of producers and
\* stages: try_claim never hands out a slot that is still in use, and the two
\* "expect" calls of flow.rs cannot panic.
THEOREM Ownership == Spec => []SlotOwnership
<1>1. ASSUME IndInv PROVE SlotOwnership
  <2>1. /\ reclaimed \in Nat /\ head \in Nat /\ Capacity \in Nat /\ OldestLive \in Nat
        /\ OldestLive >= reclaimed + 1 /\ head <= reclaimed + Capacity
    BY <1>1, OldestLiveBound, FlowAssumption, SMTT(30) DEF IndInv, SlotInv
  <2>2. ASSUME NEW n \in OldestLive..head PROVE IsPublished(n) \/ IsReserved(n)
    <3>1. n \in (reclaimed + 1)..(reclaimed + Capacity) /\ OldestLive <= n /\ n <= head
      BY <2>1
    <3>2. QED
      BY <1>1, <3>1 DEF IndInv, SlotInv
  <2>3. QED
    BY <2>1, <2>2 DEF SlotOwnership
<1>2. QED
  BY <1>1, Invariance, PTL

\* Slots are recycled behind every stage although only the sinks are consulted,
\* and no stage is given what a dependency has not finished.
THEOREM Reclamation == Spec => []ReclaimBehindStages
<1>1. ASSUME IndInv PROVE ReclaimBehindStages
  <2>1. SUFFICES ASSUME NEW s \in Stages
        PROVE  /\ reclaimed <= finished[s]
               /\ \A d \in Deps[s] : Len(got[s]) <= finished[d]
               /\ stage[s].pc = "holding" =>
                    \A n \in (finished[s] + 1)..stage[s].last : published[SlotOf(n)] = n
    BY DEF ReclaimBehindStages
  <2>2. reclaimed <= finished[s]
    BY <1>1, ReclaimedBehindAll DEF IndInv
  <2>3. \A d \in Deps[s] : Len(got[s]) <= finished[d]
    BY <1>1 DEF IndInv, CursorInv, LogInv
  <2>4. ASSUME stage[s].pc = "holding", NEW n \in (finished[s] + 1)..stage[s].last
        PROVE  published[SlotOf(n)] = n
    <3>1. OldestLive \in {reclaimed + 1, reclaimed + 2} /\ reclaimed \in Nat
          /\ finished[s] \in Nat /\ stage[s].last \in Nat
      <4>1. finished[s] \in Nat /\ stage[s].last \in Nat
        BY <1>1, StageFacts
      <4>2. QED
        BY <1>1, <4>1, OldestLiveBound
    <3>2. CASE n >= OldestLive
      <4>1. n \in OldestLive..stage[s].last
        BY <3>1, <3>2
      <4>2. QED
        BY <1>1, <4>1 DEF IndInv, SlotInv, IsPublished
    <3>3. CASE n < OldestLive
      <4>1. Taking /\ n = reclaimed + 1 /\ finished[s] = reclaimed
        BY <2>2, <3>1, <3>3 DEF OldestLive
      <4>2. PICK t \in Stages : stage[t].pc = "advance"
        BY <4>1 DEF Taking
      <4>3. GateHolder(t)
        BY <4>2 DEF GateHolder
      <4>4. reclaimed + 1 \in Nat /\ \A u \in Sinks : reclaimed + 1 <= finished[u]
        BY <1>1, <4>3, Recycling, SMTT(30) DEF Sinks
      <4>5. reclaimed + 1 <= finished[s]
        BY <1>1, <4>4, SinksAreLast DEF IndInv
      <4>6. QED
        BY <3>1, <4>1, <4>5
    <3>4. QED
      BY <3>1, <3>2, <3>3
  <2>5. QED
    BY <2>2, <2>3, <2>4
<1>2. QED
  BY <1>1, Invariance, PTL

-----------------------------------------------------------------------------
(* Flow implements Broadcast.                                              *)

\* The abstract log has as many entries as numbers were claimed.
LEMMA LogLength ==
    ASSUME NEW h \in Nat, NEW f
    PROVE  Len([n \in 1..h |-> f[n]]) = h /\ DOMAIN [n \in 1..h |-> f[n]] = 1..h
  OBVIOUS

\* One more claim appends an open entry to the abstract log.
LEMMA LogAppend ==
    ASSUME NEW h \in Nat, NEW f, f[h + 1] = None
    PROVE  [n \in 1..(h + 1) |-> f[n]] = Append([n \in 1..h |-> f[n]], None)
<1> DEFINE g == [n \in 1..h |-> f[n]]
<1>1. g \in Seq({f[n] : n \in 1..h}) /\ Len(g) = h
  OBVIOUS
<1>2. QED
  BY <1>1

\* A step that leaves the abstract state alone, or closes the abstract log.
LEMMA ClosingRefines ==
    ASSUME UNCHANGED <<head, log, got, finished>>, closed' = closed \/ closed' = TRUE
    PROVE  [Contract!Next]_(Contract!vars)
<1>1. CASE closed' = closed
  BY <1>1 DEF Contract!vars
<1>2. CASE closed' = TRUE
  BY <1>2 DEF Contract!Next, Contract!Close
<1>3. QED
  BY <1>1, <1>2, Zenon

\* A claimed number is an abstract claim.
LEMMA ClaimRefines ==
    ASSUME IndInv, NEW p \in Producers, ClaimSequence(p)
    PROVE  [Contract!Next]_(Contract!vars)
<1>1. CASE ~CanClaim
  BY <1>1, ClosingRefines DEF ClaimSequence
<1>2. CASE CanClaim
  <2>1. /\ ~closed /\ head < SEQUENCE_MASK /\ head - reclaimed < Capacity
        /\ head' = head + 1 /\ UNCHANGED <<log, got, finished, closed>>
    BY <1>2 DEF ClaimSequence, CanClaim
  <2>2. /\ head \in Nat /\ reclaimed \in Nat /\ finished \in [Stages -> Nat]
        /\ \A s \in Stages : reclaimed <= finished[s]
        /\ Capacity \in Nat /\ SEQUENCE_MASK \in Nat
    BY RingFacts, StageFacts
  <2>3. log[head + 1] = None
    <3>1. head + 1 \in (head + 1)..SEQUENCE_MASK
      BY <2>1, <2>2
    <3>2. QED
      BY <3>1 DEF IndInv, LogInv
  <2>4. \A s \in 1..NumStages : head - finished[s] < Capacity
    BY <2>1, <2>2 DEF Stages
  <2>5. [n \in 1..head |-> log[n]]' = Append([n \in 1..head |-> log[n]], None)
    <3>1. [n \in 1..head |-> log[n]]' = [n \in 1..(head + 1) |-> log[n]]
      BY <2>1
    <3>2. [n \in 1..(head + 1) |-> log[n]] = Append([n \in 1..head |-> log[n]], None)
      BY <2>2, <2>3, LogAppend, Zenon
    <3>3. QED
      BY <3>1, <3>2, Zenon
  <2>6. Contract!Claim
    BY <2>1, <2>2, <2>4, <2>5, LogLength DEF Contract!Claim
  <2>7. QED
    BY <2>6 DEF Contract!Next
<1>3. QED
  BY <1>1, <1>2

\* A filled slot is an abstract publication.
LEMMA FillRefines ==
    ASSUME IndInv, NEW p \in Producers, FillSlot(p)
    PROVE  [Contract!Next]_(Contract!vars)
<1>1. PICK v \in {p, Cancelled} : log' = [log EXCEPT ![prod[p].seq] = v]
  BY Zenon DEF FillSlot
<1>2. PICK m : m = prod[p].seq
  OBVIOUS
<1>3. Holds(prod[p]) /\ prod[p].pc = "claimed" /\ UNCHANGED <<head, got, finished, closed>>
  BY DEF FillSlot, Holds
<1>4. m \in 1..head /\ log[m] = None /\ m \in 1..SEQUENCE_MASK /\ head \in Nat
      /\ head <= SEQUENCE_MASK
  <2>1. m \in Nat \ {0} /\ m <= head
    BY <1>2, <1>3, OpenClaim
  <2>2. log[m] = None
    BY <1>2, <1>3 DEF IndInv, LogInv
  <2>3. QED
    BY <2>1, <2>2, RingFacts
<1> DEFINE L == [n \in 1..head |-> log[n]]
<1>5. L' = [L EXCEPT ![m] = v]
  <2>1. L' = [n \in 1..head |-> log'[n]]
    BY <1>3
  <2>2. \A n \in 1..head : log'[n] = IF n = m THEN v ELSE log[n]
    <3>1. \A n \in 1..head : n \in 1..SEQUENCE_MASK
      BY <1>4, FlowAssumption
    <3>2. QED
      BY <1>1, <1>2, <1>4, <3>1 DEF IndInv, TypeOK
  <2>3. QED
    BY <1>4, <2>1, <2>2, Zenon
<1>6. Contract!Publish(m)
  BY <1>3, <1>4, <1>5, Zenon DEF Contract!Publish
<1>7. m \in DOMAIN L
  BY <1>4
<1>8. QED
  BY <1>6, <1>7 DEF Contract!Next

\* A delivery is an abstract delivery of the same value.
LEMMA DeliverRefines ==
    ASSUME IndInv, NEW s \in Stages, NEW n, n = stage[s].last + 1, Ready(s, n), Deliver(s, n),
           UNCHANGED <<ring, closed, log>>
    PROVE  [Contract!Next]_(Contract!vars)
<1>1. n \in Nat \ {0} /\ n <= head /\ IsPublished(n) /\ head \in Nat /\ head <= SEQUENCE_MASK
  <2>1. published[SlotOf(n)] = n
    BY DEF Ready
  <2>2. QED
    BY <2>1, ReadyPublished, RingFacts
<1>2. ValueAt(n) = log[n] /\ log[n] # None
  <2>1. entry[SlotOf(n)] \in Entry
    BY <1>1, SlotOfType, SMTT(30) DEF IsPublished, IndInv, TypeOK
  <2>2. entry[SlotOf(n)].value \in Values
    BY <2>1 DEF Entry
  <2>3. None \notin Values
    BY FlowAssumption
  <2>4. QED
    BY <1>1, <2>2, <2>3 DEF IsPublished, ValueAt
<1>3. Len(got[s]) + 1 = n
  BY DEF IndInv, LogInv
<1>4. \A d \in Deps[s] : finished[d] >= n
  BY DEF Ready
<1> DEFINE L == [k \in 1..head |-> log[k]]
<1>5. Len(L) = head /\ L[n] = log[n] /\ L' = L
  BY <1>1, LogLength DEF ring
<1> HIDE DEF L
<1>6. got' = [got EXCEPT ![s] = Append(got[s], L[n])]
  BY <1>2, <1>5, Zenon DEF Deliver
<1>7. Contract!Deliver(s)
  BY <1>1, <1>2, <1>3, <1>4, <1>5, <1>6, Zenon DEF Contract!Deliver, L, ring
<1>8. QED
  BY <1>7 DEF Contract!Next, Stages

\* The refinement step: each step of the ring is an abstract step or none.
LEMMA StepRefines == IndInv /\ [Next]_vars => [Contract!Next]_(Contract!vars)
<1> SUFFICES ASSUME IndInv, [Next]_vars PROVE [Contract!Next]_(Contract!vars)
  OBVIOUS
<1>1. ASSUME NEW p \in Producers, Start(p) \/ GiveUp(p) \/ ProducerStep(p)
      PROVE  [Contract!Next]_(Contract!vars)
  <2>1. CASE \/ Start(p) \/ CheckAdmission(p) \/ TakeCharge(p) \/ GiveUp(p) \/ Observe(p)
             \/ Refund(p) \/ PublishSlot(p)
    <3>1. UNCHANGED <<head, log, got, finished>> /\ (closed' = closed \/ closed' = TRUE)
      BY <2>1, Zenon DEF Start, CheckAdmission, TakeCharge, GiveUp, Observe, Refund, PublishSlot,
                  fence, ring
    <3>2. QED
      BY <3>1, ClosingRefines, Zenon
  <2>2. CASE ClaimSequence(p)
    BY <2>2, ClaimRefines
  <2>3. CASE FillSlot(p)
    BY <2>3, FillRefines
  <2>4. QED
    BY <1>1, <2>1, <2>2, <2>3 DEF ProducerStep
<1>2. ASSUME NEW s \in Stages,
             coalesce(s) \/ Abandon(s) \/ DropStage(s) \/ StageDeadline(s) \/ StageStep(s)
      PROVE  [Contract!Next]_(Contract!vars)
  <2>1. CASE \/ Abandon(s) \/ DropStage(s) \/ StageDeadline(s) \/ Unpark(s)
             \/ next_until(s) \/ LockGate(s) \/ TakeEntry(s) \/ AdvanceReclaimed(s)
    <3>1. UNCHANGED <<head, log, got, finished>> /\ (closed' = closed \/ closed' = TRUE)
      BY <2>1 DEF Abandon, DropStage, StageDeadline, Unpark, next_until, LockGate, TakeEntry,
                  AdvanceReclaimed, fence, ring
    <3>2. QED
      BY <3>1, ClosingRefines, Zenon
  <2>2. CASE PollSlot(s)
    <3>1. PICK n : n = finished[s] + 1
      OBVIOUS
    <3>2. UNCHANGED <<ring, closed, log>> /\ finished[s] = stage[s].last
      BY <2>2 DEF PollSlot, IndInv, CursorInv
    <3>3. UNCHANGED got \/ (Ready(s, n) /\ Deliver(s, n))
      BY <2>2, <3>1 DEF PollSlot
    <3>4. CASE UNCHANGED got
      BY <3>2, <3>4, ClosingRefines DEF ring
    <3>5. CASE Ready(s, n) /\ Deliver(s, n)
      BY <3>1, <3>2, <3>5, DeliverRefines
    <3>6. QED
      BY <3>3, <3>4, <3>5
  <2>3. CASE coalesce(s)
    <3>1. PICK n : n = stage[s].last + 1
      OBVIOUS
    <3>2. QED
      BY <2>3, <3>1, DeliverRefines DEF coalesce
  <2>4. CASE Finish(s)
    <3>1. /\ stage[s].pc = "holding" /\ UNCHANGED <<head, closed, log, got>>
          /\ finished' = [finished EXCEPT ![s] = stage[s].last]
      BY <2>4, SMTT(30) DEF Finish
    <3>2. Len(got[s]) = stage[s].last /\ finished[s] < stage[s].last
      BY <3>1, SMTT(30) DEF IndInv, LogInv, CursorInv
    <3>3. Contract!Finish(s)
      BY <3>1, <3>2 DEF Contract!Finish
    <3>4. QED
      BY <3>3 DEF Contract!Next, Stages
  <2>5. QED
    BY <1>2, <2>1, <2>2, <2>3, <2>4 DEF StageStep
<1>3. CASE Close \/ Fence
  <2>1. UNCHANGED <<head, log, got, finished>> /\ closed' = TRUE
    BY <1>3 DEF Close, Fence, fence, ring
  <2>2. QED
    BY <2>1, ClosingRefines
<1>4. CASE UNCHANGED vars
  BY <1>4, ClosingRefines DEF vars
<1>5. QED
  BY <1>1, <1>2, <1>3, <1>4 DEF Next

\* The ring implements the broadcast contract: whatever the interleaving of
\* claims, deliveries, reclamation, closure and failure, every stage is given
\* the same values once each, in order, behind its dependencies, and no stage
\* is ever more than Capacity behind the newest claim.
THEOREM Refinement == Spec => BroadcastSpec
<1>1. Init => Contract!Init
  <2>1. SUFFICES ASSUME Init PROVE Contract!Init
    OBVIOUS
  <2>2. [n \in 1..head |-> log[n]] = <<>>
    BY <2>1 DEF Init
  <2>3. QED
    BY <2>1, <2>2 DEF Init, Contract!Init, Stages
<1>2. IndInv /\ [Next]_vars => [Contract!Next]_(Contract!vars)
  BY StepRefines
<1>3. QED
  BY <1>1, <1>2, Invariance, PTL DEF Spec, BroadcastSpec, Contract!Spec

=============================================================================
