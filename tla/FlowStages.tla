----------------------------- MODULE FlowStages -----------------------------
(***************************************************************************)
(* The steps of stages preserve IndInv.                                    *)
(***************************************************************************)
EXTENDS FlowClaims

\* A step of stage s that only moves its program counter.
LEMMA PcSteps ==
    ASSUME IndInv, NEW s \in Stages,
           \/ next_until(s)
           \/ PollSlot(s) /\ stage'[s].pc # "holding"
           \/ Unpark(s) \/ StageDeadline(s) \/ Abandon(s) \/ DropStage(s)
           \/ LockGate(s) /\ gate' = None
    PROVE  IndInv' /\ SameClaims
<1>1. prod \in [Producers -> Claims] /\ stage \in [Stages -> Deliveries]
      /\ closed \in BOOLEAN /\ fenced \in BOOLEAN /\ wake \in [Stages -> BOOLEAN]
  BY DEF IndInv, TypeOK
<1>2. prod' \in [Producers -> Claims] /\ SameClaims
  <2>1. prod' = prod \/ prod' = Notified(prod)
    BY DEF next_until, PollSlot, Unpark, StageDeadline, Abandon, DropStage, LockGate, fence
  <2>2. QED
    BY <1>1, <2>1, NotifiedClaims, SMTT(30) DEF SameClaims, Holds
<1>3. wake' \in [Stages -> BOOLEAN] /\ closed' \in BOOLEAN /\ fenced' \in BOOLEAN
  BY <1>1, Zenon DEF next_until, PollSlot, Unpark, StageDeadline, Abandon, DropStage, LockGate, fence,
              wake_stages
<1>4. PICK pc \in {"idle", "failed", "drained", "polling", "parked", "gone"} :
        /\ stage' = [stage EXCEPT ![s].pc = pc]
        /\ stage[s].pc = "holding" => pc = "failed"
        /\ stage[s].pc \in {"idle", "polling", "parked", "holding", "gate"}
  <2>0. CASE next_until(s)
    BY <2>0, Zenon DEF next_until, SetStage
  <2>1. CASE PollSlot(s) /\ stage'[s].pc # "holding"
    <3>1. ASSUME NEW n, Deliver(s, n) PROVE FALSE
      <4>1. stage'[s] = [stage[s] EXCEPT !.pc = "holding", !.last = n]
        BY <1>1, <3>1 DEF Deliver
      <4>2. QED
        BY <1>1, <2>1, <4>1 DEF Deliveries
    <3>2. QED
      BY <2>1, <3>1 DEF PollSlot, SetStage
  <2>2. CASE Unpark(s)
    BY <2>2 DEF Unpark, SetStage
  <2>3. CASE StageDeadline(s)
    BY <2>3 DEF StageDeadline, SetStage
  <2>4. CASE Abandon(s)
    BY <2>4 DEF Abandon, SetStage
  <2>5. CASE DropStage(s)
    BY <2>5 DEF DropStage, SetStage
  <2>6. CASE LockGate(s) /\ gate' = None
    BY <2>6, FlowAssumption DEF LockGate, SetStage
  <2>7. QED
    BY <2>0, <2>1, <2>2, <2>3, <2>4, <2>5, <2>6
<1>5. UNCHANGED <<ring, gate, log, got>>
      /\ (UNCHANGED gateView \/ gateView' = [gateView EXCEPT ![s] = finished[s]])
  <2>1. CASE PollSlot(s) /\ stage'[s].pc # "holding"
    <3>1. ASSUME NEW n PROVE ~Deliver(s, n)
      <4>1. SUFFICES ASSUME Deliver(s, n) PROVE FALSE
        OBVIOUS
      <4>2. stage'[s] = [stage[s] EXCEPT !.pc = "holding", !.last = n]
        BY <1>1, <4>1 DEF Deliver
      <4>3. QED
        BY <1>1, <2>1, <4>2 DEF Deliveries
    <3>2. QED
      BY <2>1, <3>1 DEF PollSlot
  <2>2. CASE next_until(s) \/ Unpark(s) \/ StageDeadline(s) \/ Abandon(s) \/ DropStage(s)
    BY <2>2 DEF next_until, Unpark, StageDeadline, Abandon, DropStage
  <2>3. CASE LockGate(s) /\ gate' = None
    BY <2>3, FlowAssumption DEF LockGate, ReleaseGate
  <2>4. QED
    BY <2>1, <2>2, <2>3
<1>6. ~GateHolder(s) /\ stage[s].pc # "failed" /\ pc \in StagePC
      /\ pc \notin {"take", "advance", "gate", "holding"}
  BY <1>4 DEF GateHolder, StagePC
<1>7. QED
  BY <1>2, <1>3, <1>4, <1>5, <1>6, StageFrame, Zenon

\* The number after a stage's last delivery, if its slot shows it, is published.
LEMMA ReadyPublished ==
    ASSUME IndInv, NEW s \in Stages, NEW n, n = stage[s].last + 1, published[SlotOf(n)] = n
    PROVE  /\ n \in Nat \ {0} /\ OldestLive <= n /\ n <= head
           /\ IsPublished(n)
<1>1. /\ reclaimed \in Nat /\ head \in Nat /\ Capacity \in Nat \ {0}
      /\ OldestLive \in {reclaimed + 1, reclaimed + 2}
  BY OldestLiveBound, FlowAssumption
<1>2. /\ stage[s].last \in Nat /\ finished[s] \in Nat
      /\ reclaimed <= finished[s] /\ finished[s] <= stage[s].last /\ stage[s].last <= head
      /\ head <= reclaimed + Capacity
  BY RingFacts, StageFacts
<1>3. n \in Nat \ {0} /\ reclaimed + 1 <= n /\ n <= reclaimed + Capacity + 1
  BY <1>1, <1>2, SMTT(30)
<1>4. n # reclaimed + Capacity + 1
  <2>1. SUFFICES ASSUME n = reclaimed + Capacity + 1 PROVE FALSE
    OBVIOUS
  <2>2. PICK r \in Nat \ {0} : r = reclaimed + 1
    BY <1>1
  <2>3. SlotOf(n) = SlotOf(r) /\ r # n /\ n # 0
    <3>1. n = r + Capacity
      BY <1>1, <2>1, <2>2
    <3>2. QED
      BY <1>1, <3>1, SlotOfPeriodic
  <2>4. r \in (reclaimed + 1)..(reclaimed + Capacity)
    BY <1>1, <2>2
  <2>5. published[SlotOf(r)] \in {0, r}
    BY <2>4 DEF IndInv, SlotInv, IsPublished, IsReserved
  <2>6. QED
    BY <2>3, <2>5
<1>5. n \in (reclaimed + 1)..(reclaimed + Capacity)
  BY <1>1, <1>3, <1>4
<1>6. OldestLive <= n /\ n <= head /\ (IsPublished(n) \/ IsReserved(n))
  BY <1>3, <1>5 DEF IndInv, SlotInv
<1>7. IsPublished(n)
  BY <1>3, <1>6 DEF IsReserved
<1>8. QED
  BY <1>3, <1>6, <1>7

\* A delivery, from PollSlot or from coalesce.
LEMMA DeliverStep ==
    ASSUME IndInv, NEW s \in Stages, NEW n, n = stage[s].last + 1,
           stage[s].pc \in {"polling", "holding"}, Ready(s, n), Deliver(s, n),
           UNCHANGED <<ring, closed, fenced, wake, gate, gateView, prod, log>>
    PROVE  IndInv'
<1>1. /\ n \in Nat \ {0} /\ OldestLive <= n /\ n <= head /\ IsPublished(n)
  BY ReadyPublished DEF Ready
<1>2. /\ stage \in [Stages -> Deliveries] /\ stage[s] \in Deliveries
      /\ got \in [Stages -> Seq(Values)] /\ got[s] \in Seq(Values)
      /\ head \in 0..SEQUENCE_MASK
  BY DEF IndInv, TypeOK
<1>3. /\ reclaimed \in Nat /\ head \in Nat /\ Capacity \in Nat \ {0}
      /\ OldestLive \in Nat /\ OldestLive >= reclaimed + 1 /\ head <= reclaimed + Capacity
  BY OldestLiveBound, FlowAssumption, SMTT(30) DEF IndInv, SlotInv
<1> DEFINE d == [stage[s] EXCEPT !.pc = "holding", !.last = n]
<1>4. stage' = [stage EXCEPT ![s] = d] /\ got' = [got EXCEPT ![s] = Append(got[s], ValueAt(n))]
  BY Zenon DEF Deliver
<1>5. d \in Deliveries /\ d.pc = "holding" /\ d.last = n /\ d.minimum = stage[s].minimum
  <2>1. n \in 0..SEQUENCE_MASK
    BY <1>1, <1>2, FlowAssumption
  <2>2. QED
    BY <1>2, <2>1, Zenon DEF Deliveries, StagePC
<1> HIDE DEF d
<1>6. \A t \in Stages : stage'[t] = IF t = s THEN d ELSE stage[t]
  BY <1>2, <1>4
<1>7. ValueAt(n) = log[n] /\ ValueAt(n) \in Values
  <2>1. n \in (reclaimed + 1)..(reclaimed + Capacity)
    BY <1>1, <1>3
  <2>2. entry[SlotOf(n)] \in Entry
    BY <1>1, SlotOfType DEF IsPublished, IndInv, TypeOK
  <2>3. entry[SlotOf(n)].value \in Values
    BY <2>2 DEF Entry
  <2>4. QED
    BY <1>1, <2>3 DEF ValueAt, IsPublished
<1>8. Append(got[s], ValueAt(n)) \in Seq(Values) /\ Len(Append(got[s], ValueAt(n))) = n
  BY <1>2, <1>7 DEF IndInv, LogInv
<1>9. TypeOK'
  BY <1>2, <1>4, <1>5, <1>8, SMTT(30) DEF IndInv, TypeOK, ring
<1>10. GateInv'
  BY <1>5, <1>6 DEF IndInv, GateInv, GateHolder, ring
<1>11. finished[s] < n /\ \A e \in Deps[s] : n <= finished[e]
  <2>1. finished[s] <= stage[s].last /\ finished[s] \in Nat /\ stage[s].last \in Nat
    BY StageFacts
  <2>2. \A e \in Deps[s] : finished[e] \in Nat /\ finished[e] >= n
    <3>1. \A e \in Deps[s] : e \in Stages
      BY FlowAssumption
    <3>2. \A e \in Deps[s] : finished[e] >= n
      BY DEF Ready
    <3>3. QED
      BY <3>1, <3>2, RingFacts
  <2>3. QED
    BY <1>1, <2>1, <2>2, SMTT(30)
<1>12. CursorInv'
  <2>1. ASSUME NEW t \in Stages, t # s
        PROVE  /\ gateView'[t] <= finished'[t]
               /\ finished'[t] <= stage'[t].last
               /\ stage'[t].last <= head'
               /\ stage'[t].pc \notin {"holding", "failed"} => finished'[t] = stage'[t].last
               /\ stage'[t].pc = "holding" => finished'[t] < stage'[t].last
               /\ stage'[t].pc = "gate" \/ GateHolder(t)' => t \in Sinks
               /\ t \in Sinks => reclaimed' <= finished'[t]
               /\ \A e \in Deps[t] : stage'[t].last <= finished'[e]
    BY <1>6, <2>1 DEF IndInv, CursorInv, GateHolder, ring
  <2>2. /\ gateView'[s] <= finished'[s]
        /\ finished'[s] <= stage'[s].last
        /\ stage'[s].last <= head'
        /\ stage'[s].pc = "holding"
        /\ finished'[s] < stage'[s].last
        /\ s \in Sinks => reclaimed' <= finished'[s]
        /\ \A e \in Deps[s] : stage'[s].last <= finished'[e]
    <3>1. finished[s] \in Nat
      BY FlowAssumption, SMTT(30) DEF IndInv, TypeOK
    <3>2. QED
      BY <1>1, <1>5, <1>6, <1>11, <3>1, SMTT(30) DEF IndInv, CursorInv, ring
  <2>3. QED
    BY <2>1, <2>2 DEF CursorInv, GateHolder
<1>13. SlotInv'
  <2>1. Taking' = Taking /\ OldestLive' = OldestLive
    BY <1>5, <1>6 DEF Taking, OldestLive, ring
  <2>2. \A m : /\ IsPublished(m)' <=> IsPublished(m)
               /\ IsReserved(m)' <=> IsReserved(m)
    BY DEF IsPublished, IsReserved, Claimants, ring
  <2>3. ASSUME NEW t \in Stages, NEW m \in OldestLive'..stage'[t].last PROVE IsPublished(m)'
    <3>1. CASE t = s /\ m = n
      BY <1>1, <2>2, <3>1
    <3>2. CASE ~(t = s /\ m = n)
      <4>1. m \in OldestLive..stage[t].last
        BY <1>1, <1>2, <1>3, <1>5, <1>6, <2>1, <3>2, FlowAssumption, SMTT(30) DEF Deliveries
      <4>2. QED
        BY <2>2, <4>1, SMTT(30) DEF IndInv, SlotInv
    <3>3. QED
      BY <3>1, <3>2
  <2>4. QED
    BY <2>1, <2>2, <2>3 DEF IndInv, SlotInv, ring
<1>14. LogInv'
  <2>1. \A t \in Stages : Len(got'[t]) = stage'[t].last
    BY <1>2, <1>4, <1>5, <1>6, <1>8 DEF IndInv, LogInv
  <2>2. QED
    BY <2>1 DEF IndInv, LogInv, ring
<1>15. QED
  BY <1>9, <1>10, <1>12, <1>13, <1>14 DEF IndInv

\* Finishing a delivery.
LEMMA FinishStep ==
    ASSUME IndInv, NEW s \in Stages, Finish(s)
    PROVE  IndInv'
<1>1. /\ stage \in [Stages -> Deliveries] /\ stage[s] \in Deliveries
      /\ finished \in [Stages -> 0..SEQUENCE_MASK]
      /\ wake \in [Stages -> BOOLEAN] /\ wake' \in [Stages -> BOOLEAN]
  BY Zenon DEF IndInv, TypeOK, Finish, wake_stages
<1>2. /\ stage[s].pc = "holding"
      /\ UNCHANGED <<head, reclaimed, charged, published, entry, closed, fenced,
                     gate, gateView, prod, log, got>>
      /\ finished' = [finished EXCEPT ![s] = stage[s].last]
  BY DEF Finish
<1>3. PICK pc \in {"gate", "idle"} : /\ stage' = [stage EXCEPT ![s].pc = pc]
                                     /\ pc = "gate" => s \in Sinks
  BY DEF Finish, SetStage, Sinks
<1> DEFINE d == [stage[s] EXCEPT !.pc = pc]
<1>4. stage' = [stage EXCEPT ![s] = d]
  BY <1>3
<1>5. d \in Deliveries /\ d.pc = pc /\ d.last = stage[s].last /\ d.minimum = stage[s].minimum
  BY <1>1, <1>3 DEF Deliveries, StagePC
<1> HIDE DEF d
<1>6. /\ \A t \in Stages : stage'[t] = IF t = s THEN d ELSE stage[t]
      /\ \A t \in Stages : finished'[t] = IF t = s THEN stage[s].last ELSE finished[t]
      /\ \A t \in Stages : stage'[t].last = stage[t].last /\ stage'[t].minimum = stage[t].minimum
  BY <1>1, <1>2, <1>4, <1>5
<1>7. finished[s] < stage[s].last /\ stage[s].last \in 0..SEQUENCE_MASK
  BY <1>1, <1>2 DEF IndInv, CursorInv, Deliveries
<1>8. \A t \in Stages : finished[t] <= finished'[t] /\ finished[t] \in Nat /\ finished'[t] \in Nat
  BY <1>1, <1>6, <1>7, FlowAssumption, SMTT(30)
<1>9. TypeOK'
  BY <1>1, <1>2, <1>4, <1>5, <1>7, SMTT(30) DEF IndInv, TypeOK
<1>10. GateInv'
  <2>1. \A t \in Stages : GateHolder(t)' <=> GateHolder(t)
    BY <1>2, <1>3, <1>5, <1>6 DEF GateHolder
  <2>2. ASSUME NEW t \in Stages, GateHolder(t)'
        PROVE  /\ reclaimed' < stage'[t].minimum
               /\ \A u \in Sinks : stage'[t].minimum <= finished'[u]
    <3>1. reclaimed < stage[t].minimum /\ \A u \in Sinks : stage[t].minimum <= finished[u]
      BY <2>1, <2>2 DEF IndInv, GateInv
    <3>2. stage[t].minimum \in Nat
      BY <1>1, FlowAssumption DEF Deliveries
    <3>3. \A u \in Sinks : u \in Stages
      BY DEF Sinks
    <3>4. QED
      BY <1>2, <1>6, <1>8, <3>1, <3>2, <3>3, SMTT(30)
  <2>3. QED
    BY <1>2, <2>1, <2>2 DEF IndInv, GateInv
<1>11. CursorInv'
  <2>1. SUFFICES ASSUME NEW t \in Stages
        PROVE  /\ gateView'[t] <= finished'[t]
               /\ finished'[t] <= stage'[t].last
               /\ stage'[t].last <= head'
               /\ stage'[t].pc \notin {"holding", "failed"} => finished'[t] = stage'[t].last
               /\ stage'[t].pc = "holding" => finished'[t] < stage'[t].last
               /\ stage'[t].pc = "gate" \/ GateHolder(t)' => t \in Sinks
               /\ t \in Sinks => reclaimed' <= finished'[t]
               /\ \A e \in Deps[t] : stage'[t].last <= finished'[e]
    BY DEF CursorInv
  <2>2. /\ gateView[t] \in Nat /\ reclaimed \in Nat /\ stage[t].last \in Nat
        /\ \A e \in Deps[t] : e \in Stages
    BY <1>1, FlowAssumption, SMTT(30) DEF IndInv, TypeOK, Deliveries
  <2>3. /\ gateView[t] <= finished[t]
        /\ stage[t].last <= head
        /\ t \in Sinks => reclaimed <= finished[t]
        /\ \A e \in Deps[t] : stage[t].last <= finished[e]
    BY DEF IndInv, CursorInv
  <2>4. /\ gateView'[t] <= finished'[t]
        /\ stage'[t].last <= head'
        /\ t \in Sinks => reclaimed' <= finished'[t]
        /\ \A e \in Deps[t] : stage'[t].last <= finished'[e]
    BY <1>2, <1>6, <1>8, <2>2, <2>3, SMTT(30)
  <2>5. CASE t = s
    BY <1>3, <1>5, <1>6, <1>8, <2>2, <2>4, <2>5, SMTT(30) DEF GateHolder
  <2>6. CASE t # s
    BY <1>6, <2>4, <2>6, SMTT(30) DEF IndInv, CursorInv, GateHolder
  <2>7. QED
    BY <2>5, <2>6
<1>12. SlotInv'
  <2>1. SameDeliveries
    BY <1>2, <1>3, <1>5, <1>6 DEF SameDeliveries
  <2>2. SameClaims
    BY <1>2, SMTT(30) DEF SameClaims
  <2>3. QED
    BY <1>2, <2>1, <2>2, SlotFrame DEF IndInv
<1>13. LogInv'
  BY <1>2, <1>6 DEF IndInv, LogInv
<1>14. QED
  BY <1>9, <1>10, <1>11, <1>12, <1>13 DEF IndInv

\* Entering the critical section of reclaim with something to recycle.
LEMMA LockStep ==
    ASSUME IndInv, NEW s \in Stages, LockGate(s), gate' # None
    PROVE  IndInv'
<1>1. PICK view \in GateReads(s) :
        /\ ~(MinOver(view) <= reclaimed)
        /\ stage' = [stage EXCEPT ![s].pc = "take", ![s].minimum = MinOver(view)]
        /\ gate' = s
        /\ UNCHANGED <<wake, gateView>>
  BY DEF LockGate, ReleaseGate
<1>2. stage[s].pc = "gate" /\ gate = None /\ UNCHANGED <<ring, closed, fenced, prod, log, got>>
  BY DEF LockGate
<1>3. PICK m : m = MinOver(view)
  OBVIOUS
<1>4. m \in 0..SEQUENCE_MASK /\ \A t \in Sinks : m <= view[t] /\ view[t] <= finished[t]
      /\ view[t] \in Nat
  <2>1. view \in [Sinks -> 0..SEQUENCE_MASK]
    BY DEF GateReads
  <2>2. QED
    BY <1>3, <2>1, MinOverBelow, FlowAssumption DEF GateReads
<1>5. reclaimed \in Nat /\ reclaimed < m /\ \A t \in Sinks : m <= finished[t] /\ t \in Stages
  <2>1. reclaimed \in Nat /\ m \in Nat /\ finished \in [Stages -> Nat]
    BY <1>4, RingFacts
  <2>2. \A t \in Sinks : t \in Stages
    BY DEF Sinks
  <2>3. QED
    BY <1>1, <1>3, <1>4, <2>1, <2>2
<1> DEFINE d == [stage[s] EXCEPT !.pc = "take", !.minimum = m]
<1>6. stage \in [Stages -> Deliveries] /\ stage[s] \in Deliveries
  BY DEF IndInv, TypeOK
<1>7. stage' = [stage EXCEPT ![s] = d]
  BY <1>1, <1>3, Zenon
<1>8. d \in Deliveries /\ d.pc = "take" /\ d.last = stage[s].last /\ d.minimum = m
  BY <1>4, <1>6, Zenon DEF Deliveries, StagePC
<1> HIDE DEF d
<1>9. \A t \in Stages : stage'[t] = IF t = s THEN d ELSE stage[t]
  BY <1>6, <1>7
<1>10. TypeOK'
  BY <1>1, <1>2, <1>6, <1>7, <1>8, Zenon DEF IndInv, TypeOK, ring
<1>11. GateInv'
  <2>1. \A t \in Stages : ~GateHolder(t)
    BY <1>2, FlowAssumption, SMTT(30) DEF IndInv, GateInv
  <2>2. QED
    BY <1>1, <1>2, <1>5, <1>8, <1>9, <2>1, Zenon DEF GateInv, GateHolder, ring
<1>12. CursorInv'
  <2>1. s \in Sinks /\ finished[s] = stage[s].last
    BY <1>2, SMTT(30) DEF IndInv, CursorInv
  <2>2. SUFFICES ASSUME NEW t \in Stages
        PROVE  /\ gateView'[t] <= finished'[t]
               /\ finished'[t] <= stage'[t].last
               /\ stage'[t].last <= head'
               /\ stage'[t].pc \notin {"holding", "failed"} => finished'[t] = stage'[t].last
               /\ stage'[t].pc = "holding" => finished'[t] < stage'[t].last
               /\ stage'[t].pc = "gate" \/ GateHolder(t)' => t \in Sinks
               /\ t \in Sinks => reclaimed' <= finished'[t]
               /\ \A e \in Deps[t] : stage'[t].last <= finished'[e]
    BY DEF CursorInv
  <2>3. CASE t = s
    BY <1>1, <1>2, <1>8, <1>9, <2>1, <2>3, ZenonT(30) DEF IndInv, CursorInv, ring
  <2>4. CASE t # s
    BY <1>1, <1>2, <1>9, <2>4, Zenon DEF IndInv, CursorInv, GateHolder, ring
  <2>5. QED
    BY <2>3, <2>4
<1>13. SlotInv'
  <2>1. SameDeliveries
    BY <1>2, <1>8, <1>9 DEF SameDeliveries
  <2>2. SameClaims
    BY <1>2 DEF SameClaims
  <2>3. QED
    BY <1>2, <2>1, <2>2, SlotFrame DEF IndInv, ring
<1>14. LogInv'
  BY <1>2, <1>8, <1>9 DEF IndInv, LogInv, ring
<1>15. QED
  BY <1>10, <1>11, <1>12, <1>13, <1>14 DEF IndInv

\* The stage inside the critical section, and the slot it recycles.
LEMMA Recycling ==
    ASSUME IndInv, NEW s \in Stages, GateHolder(s)
    PROVE  /\ reclaimed \in Nat /\ head \in Nat /\ Capacity \in Nat \ {0}
           /\ stage[s].minimum \in 0..SEQUENCE_MASK /\ stage[s].minimum <= head
           /\ reclaimed + 1 <= stage[s].minimum
           /\ s \in Sinks
           /\ \A t \in Stages : reclaimed + 1 <= finished[t] \/ t \notin Sinks
           /\ \A t \in Stages \ {s} : ~GateHolder(t)
           /\ Taking <=> stage[s].pc = "advance"
<1>1. gate = s /\ reclaimed < stage[s].minimum /\ s \in Sinks
      /\ \A t \in Sinks : stage[s].minimum <= finished[t]
  BY DEF IndInv, GateInv, CursorInv, GateHolder
<1>2. /\ reclaimed \in Nat /\ head \in Nat /\ Capacity \in Nat \ {0}
      /\ stage[s].minimum \in 0..SEQUENCE_MASK /\ stage[s].last \in Nat
      /\ finished \in [Stages -> Nat] /\ SEQUENCE_MASK \in Nat
  BY FlowAssumption, SMTT(30) DEF IndInv, TypeOK, Deliveries
<1>3. finished[s] <= stage[s].last /\ stage[s].last <= head
  BY SMTT(30) DEF IndInv, CursorInv
<1>4. \A t \in Stages \ {s} : ~GateHolder(t)
  BY <1>1 DEF IndInv, GateInv
<1>5. Taking <=> stage[s].pc = "advance"
  BY <1>4 DEF Taking, GateHolder
<1>6. QED
  BY <1>1, <1>2, <1>3, <1>4, <1>5, SMTT(30)

\* Emptying the oldest live slot.
LEMMA TakeStep ==
    ASSUME IndInv, NEW s \in Stages, TakeEntry(s)
    PROVE  IndInv'
<1>1. stage[s].pc = "take" /\ GateHolder(s) /\ ~Taking
  <2>1. stage[s].pc = "take" /\ GateHolder(s)
    BY DEF TakeEntry, GateHolder
  <2>2. QED
    BY <2>1, Recycling
<1>2. PICK m : m = reclaimed + 1
  OBVIOUS
<1>3. /\ reclaimed \in Nat /\ head \in Nat /\ Capacity \in Nat \ {0}
      /\ s \in Sinks /\ m <= finished[s] /\ m \in Nat \ {0}
      /\ finished[s] \in Nat /\ stage[s].last \in Nat /\ m <= stage[s].last
      /\ stage[s].last <= head
  <2>1. finished[s] \in Nat /\ stage[s].last \in Nat /\ finished[s] <= stage[s].last
        /\ stage[s].last <= head
    BY <1>2, StageFacts
  <2>2. QED
    BY <1>1, <1>2, <2>1, Recycling, SMTT(30)
<1>4. OldestLive = m
  BY <1>1, <1>2, <1>3 DEF OldestLive
<1>5. IsPublished(m) /\ m \in (reclaimed + 1)..(reclaimed + Capacity) /\ SlotOf(m) \in Slots
  <2>1. m \in OldestLive..stage[s].last
    BY <1>3, <1>4
  <2>2. QED
    BY <1>2, <1>3, <2>1, SlotOfType, SMTT(30) DEF IndInv, SlotInv
<1>6. /\ UNCHANGED <<head, reclaimed, finished, closed, fenced, wake, gate,
                     gateView, prod, log, got>>
      /\ entry' = [entry EXCEPT ![SlotOf(m)] = None]
      /\ published' = [published EXCEPT ![SlotOf(m)] = 0]
      /\ charged' = charged - entry[SlotOf(m)].charge
      /\ stage' = [stage EXCEPT ![s].pc = "advance"]
  BY <1>2 DEF TakeEntry, SetStage
<1>7. /\ stage \in [Stages -> Deliveries] /\ stage[s] \in Deliveries
      /\ entry \in [Slots -> Entry \cup {None}]
      /\ published \in [Slots -> 0..SEQUENCE_MASK]
  BY DEF IndInv, TypeOK
<1> DEFINE d == [stage[s] EXCEPT !.pc = "advance"]
<1>8. stage' = [stage EXCEPT ![s] = d]
  BY <1>6
<1>9. d \in Deliveries /\ d.pc = "advance" /\ d.last = stage[s].last
      /\ d.minimum = stage[s].minimum
  BY <1>7 DEF Deliveries, StagePC
<1> HIDE DEF d
<1>10. /\ \A t \in Stages : stage'[t] = IF t = s THEN d ELSE stage[t]
       /\ \A t \in Stages : stage'[t].last = stage[t].last /\ stage'[t].minimum = stage[t].minimum
  BY <1>7, <1>8, <1>9
<1>11. charged' \in Int
  <2>1. entry[SlotOf(m)] \in Entry
    BY <1>5, <1>7 DEF IsPublished
  <2>2. entry[SlotOf(m)].charge \in Charges \cup {0}
    BY <2>1 DEF Entry
  <2>3. \A k \in Charges \cup {0} : k \in Nat
    BY FlowAssumption
  <2>4. entry[SlotOf(m)].charge \in Nat
    BY <2>2, <2>3, Zenon
  <2>5. charged \in Int
    BY DEF IndInv, TypeOK
  <2>6. QED
    BY <1>6, <2>4, <2>5, SMTT(30)
<1>12. TypeOK'
  <2>1. published' \in [Slots -> 0..SEQUENCE_MASK]
    <3>1. 0 \in 0..SEQUENCE_MASK
      BY FlowAssumption
    <3>2. QED
      BY <1>6, <1>7, <3>1, Zenon
  <2>2. entry' \in [Slots -> Entry \cup {None}]
    BY <1>6, <1>7, Zenon
  <2>3. stage' \in [Stages -> Deliveries]
    BY <1>7, <1>8, <1>9
  <2>4. QED
    BY <1>6, <1>11, <2>1, <2>2, <2>3, SMTT(30) DEF IndInv, TypeOK
<1>13. GateInv'
  BY <1>1, <1>6, <1>9, <1>10 DEF IndInv, GateInv, GateHolder
<1>14. CursorInv'
  <2>1. SUFFICES ASSUME NEW t \in Stages
        PROVE  /\ gateView'[t] <= finished'[t]
               /\ finished'[t] <= stage'[t].last
               /\ stage'[t].last <= head'
               /\ stage'[t].pc \notin {"holding", "failed"} => finished'[t] = stage'[t].last
               /\ stage'[t].pc = "holding" => finished'[t] < stage'[t].last
               /\ stage'[t].pc = "gate" \/ GateHolder(t)' => t \in Sinks
               /\ t \in Sinks => reclaimed' <= finished'[t]
               /\ \A e \in Deps[t] : stage'[t].last <= finished'[e]
    BY DEF CursorInv
  <2>2. CASE t = s
    BY <1>1, <1>3, <1>6, <1>9, <1>10, <2>2, SMTT(30) DEF IndInv, CursorInv
  <2>3. CASE t # s
    BY <1>6, <1>10, <2>3, SMTT(30) DEF IndInv, CursorInv, GateHolder
  <2>4. QED
    BY <2>2, <2>3, SMTT(30)
<1>15. SlotInv'
  <2>1. Taking' /\ OldestLive' = m + 1
    <3>1. Taking'
      BY <1>9, <1>10 DEF Taking
    <3>2. QED
      BY <1>2, <1>3, <1>6, <3>1 DEF OldestLive
  <2>2. ASSUME NEW n \in (reclaimed + 1)..(reclaimed + Capacity), n # m
        PROVE  /\ IsPublished(n) => IsPublished(n)'
               /\ IsReserved(n) => IsReserved(n)'
               /\ published'[SlotOf(n)] = published[SlotOf(n)]
               /\ entry'[SlotOf(n)] = entry[SlotOf(n)]
    <3>1. SlotOf(n) # SlotOf(m)
      BY <1>3, <1>5, <2>2, WindowInjective
    <3>2. published'[SlotOf(n)] = published[SlotOf(n)] /\ entry'[SlotOf(n)] = entry[SlotOf(n)]
      BY <1>6, <1>7, <3>1
    <3>3. Claimants(n)' = Claimants(n)
      BY <1>6 DEF Claimants
    <3>4. QED
      BY <1>6, <3>2, <3>3, NumberFrame
  <2>3. reclaimed' <= head' /\ head' <= reclaimed' + Capacity
    BY <1>6 DEF IndInv, SlotInv
  <2>4. ASSUME NEW n \in (reclaimed' + 1)..(reclaimed' + Capacity)
        PROVE  IF OldestLive' <= n /\ n <= head'
               THEN IsPublished(n)' \/ IsReserved(n)'
               ELSE published'[SlotOf(n)] = 0 /\ entry'[SlotOf(n)] = None
    <3>1. n \in (reclaimed + 1)..(reclaimed + Capacity)
      BY <1>6
    <3>2. IF OldestLive <= n /\ n <= head
          THEN IsPublished(n) \/ IsReserved(n)
          ELSE published[SlotOf(n)] = 0 /\ entry[SlotOf(n)] = None
      BY <3>1 DEF IndInv, SlotInv
    <3>3. CASE n = m
      BY <1>3, <1>5, <1>6, <1>7, <2>1, <3>3
    <3>4. CASE n # m
      <4>1. OldestLive' <= n <=> OldestLive <= n
        BY <1>2, <1>3, <1>4, <2>1, <3>1, <3>4, SMTT(30)
      <4>2. QED
        BY <1>6, <2>2, <3>1, <3>2, <3>4, <4>1, SMTT(30)
    <3>5. QED
      BY <3>3, <3>4
  <2>5. ASSUME NEW t \in Stages, NEW n \in OldestLive'..stage'[t].last PROVE IsPublished(n)'
    <3>1. stage[t].last \in Nat /\ stage[t].last <= head /\ head <= reclaimed + Capacity
      BY RingFacts, StageFacts, SMTT(30)
    <3>2. n \in OldestLive..stage[t].last /\ n # m
      BY <1>3, <1>4, <1>10, <2>1, <3>1, SMTT(30)
    <3>3. n \in (reclaimed + 1)..(reclaimed + Capacity)
      BY <1>2, <1>3, <1>4, <3>1, <3>2, SMTT(30)
    <3>4. QED
      BY <2>2, <3>2, <3>3, SMTT(30) DEF IndInv, SlotInv
  <2>6. ASSUME NEW q \in Producers, prod'[q].pc \in {"claimed", "filled"}
        PROVE  OldestLive' <= prod'[q].seq /\ prod'[q].seq <= head'
    <3>1. Holds(prod[q])
      BY <1>6, <2>6, SMTT(30) DEF Holds
    <3>2. prod[q].seq \in Nat /\ OldestLive <= prod[q].seq /\ prod[q].seq <= head
          /\ ~IsPublished(prod[q].seq)
      BY <3>1, OpenClaim
    <3>3. prod[q].seq # m
      BY <1>5, <3>2
    <3>4. QED
      BY <1>3, <1>4, <1>6, <2>1, <3>2, <3>3
  <2>7. QED
    BY <2>3, <2>4, <2>5, <2>6 DEF SlotInv
<1>16. LogInv'
  BY <1>6, <1>10 DEF IndInv, LogInv
<1>17. QED
  BY <1>12, <1>13, <1>14, <1>15, <1>16 DEF IndInv

\* Handing the emptied slot back to producers.
LEMMA AdvanceStep ==
    ASSUME IndInv, NEW s \in Stages, AdvanceReclaimed(s)
    PROVE  IndInv' /\ SameClaims
<1>1. stage[s].pc = "advance" /\ GateHolder(s)
  BY DEF AdvanceReclaimed, GateHolder
<1>2. /\ reclaimed \in Nat /\ head \in Nat /\ Capacity \in Nat \ {0}
      /\ stage[s].minimum \in 0..SEQUENCE_MASK /\ stage[s].minimum <= head
      /\ reclaimed + 1 <= stage[s].minimum
      /\ s \in Sinks
      /\ \A t \in Stages \ {s} : ~GateHolder(t)
      /\ Taking /\ OldestLive = reclaimed + 2
      /\ gate = s
  BY <1>1, Recycling DEF OldestLive, IndInv, GateInv
<1>3. /\ reclaimed' = reclaimed + 1
      /\ UNCHANGED <<head, charged, published, entry, finished, closed, fenced, log, got>>
  BY SMTT(30) DEF AdvanceReclaimed
<1>4. /\ stage \in [Stages -> Deliveries] /\ stage[s] \in Deliveries
      /\ prod \in [Producers -> Claims] /\ wake \in [Stages -> BOOLEAN]
      /\ gateView \in [Stages -> 0..SEQUENCE_MASK] /\ finished \in [Stages -> 0..SEQUENCE_MASK]
      /\ SEQUENCE_MASK \in Nat
  BY FlowAssumption, SMTT(30) DEF IndInv, TypeOK
<1>5. prod' \in [Producers -> Claims] /\ SameClaims
  <2>1. prod' = prod \/ prod' = Notified(prod)
    BY DEF AdvanceReclaimed
  <2>2. QED
    BY <1>4, <2>1, NotifiedClaims DEF SameClaims, Holds
<1>6. /\ wake' \in [Stages -> BOOLEAN]
      /\ gateView' \in [Stages -> 0..SEQUENCE_MASK]
      /\ \A t \in Stages : gateView'[t] \in {gateView[t], finished[t]}
  BY <1>4, Zenon DEF AdvanceReclaimed, wake_stages, ReleaseGate
<1> DEFINE more == reclaimed + 1 < stage[s].minimum
<1>7. PICK d \in Deliveries :
        /\ stage' = [stage EXCEPT ![s] = d]
        /\ d.last = stage[s].last
        /\ more => d.pc = "take" /\ d.minimum = stage[s].minimum /\ gate' = gate
        /\ ~more => d.pc = "idle" /\ gate' = None
  <2>1. CASE more
    <3> DEFINE e == [stage[s] EXCEPT !.pc = "take"]
    <3>1. stage' = [stage EXCEPT ![s] = e] /\ gate' = gate
      BY <2>1 DEF AdvanceReclaimed, SetStage
    <3>2. e \in Deliveries /\ e.last = stage[s].last /\ e.pc = "take"
          /\ e.minimum = stage[s].minimum
      BY <1>4 DEF Deliveries, StagePC
    <3>3. QED
      BY <2>1, <3>1, <3>2, Zenon
  <2>2. CASE ~more
    <3> DEFINE e == [stage[s] EXCEPT !.pc = "idle", !.minimum = 0]
    <3>1. stage' = [stage EXCEPT ![s] = e] /\ gate' = None
      BY <2>2, Zenon DEF AdvanceReclaimed, ReleaseGate
    <3>2. e \in Deliveries /\ e.last = stage[s].last /\ e.pc = "idle"
      <4>1. 0 \in 0..SEQUENCE_MASK
        BY <1>4
      <4>2. QED
        BY <1>4, <4>1, Zenon DEF Deliveries, StagePC
    <3>3. QED
      BY <2>2, <3>1, <3>2, Zenon
  <2>3. QED
    BY <2>1, <2>2
<1> HIDE DEF more
<1>8. /\ \A t \in Stages : stage'[t] = IF t = s THEN d ELSE stage[t]
      /\ \A t \in Stages : stage'[t].last = stage[t].last
      /\ stage' \in [Stages -> Deliveries]
      /\ gate' \in Stages \cup {None}
  BY <1>2, <1>4, <1>7
<1>9. TypeOK'
  <2>1. reclaimed' \in 0..SEQUENCE_MASK
    BY <1>2, <1>3, <1>4
  <2>2. QED
    BY <1>3, <1>5, <1>6, <1>8, <2>1, Zenon DEF IndInv, TypeOK
<1>10. GateInv'
  <2>1. SUFFICES ASSUME NEW t \in Stages
        PROVE  /\ GateHolder(t)' <=> gate' = t
               /\ GateHolder(t)' => /\ reclaimed' < stage'[t].minimum
                                    /\ \A u \in Sinks : stage'[t].minimum <= finished'[u]
    BY DEF GateInv
  <2>2. CASE t # s
    BY <1>2, <1>7, <1>8, <2>2, FlowAssumption, SMTT(30) DEF GateHolder, more
  <2>3. CASE t = s /\ more
    BY <1>1, <1>2, <1>3, <1>7, <1>8, <2>3, SMTT(30) DEF GateHolder, more, IndInv, GateInv
  <2>4. CASE t = s /\ ~more
    BY <1>7, <1>8, <2>4, FlowAssumption, SMTT(30) DEF GateHolder
  <2>5. QED
    BY <2>2, <2>3, <2>4
<1>11. CursorInv'
  <2>1. SUFFICES ASSUME NEW t \in Stages
        PROVE  /\ gateView'[t] <= finished'[t]
               /\ finished'[t] <= stage'[t].last
               /\ stage'[t].last <= head'
               /\ stage'[t].pc \notin {"holding", "failed"} => finished'[t] = stage'[t].last
               /\ stage'[t].pc = "holding" => finished'[t] < stage'[t].last
               /\ stage'[t].pc = "gate" \/ GateHolder(t)' => t \in Sinks
               /\ t \in Sinks => reclaimed' <= finished'[t]
               /\ \A e \in Deps[t] : stage'[t].last <= finished'[e]
    BY DEF CursorInv
  <2>2. finished[t] \in Nat /\ gateView[t] <= finished[t]
    BY StageFacts, SMTT(30)
  <2>3. gateView'[t] <= finished'[t]
    BY <1>3, <1>6, <2>2, SMTT(30)
  <2>4. t \in Sinks => reclaimed' <= finished'[t]
    <3>1. t \in Sinks => stage[s].minimum <= finished[t]
      BY <1>1, SMTT(30) DEF IndInv, GateInv
    <3>2. reclaimed' <= stage[s].minimum /\ reclaimed' \in Nat /\ stage[s].minimum \in Nat
      <4>1. reclaimed \in Nat /\ reclaimed + 1 <= stage[s].minimum
            /\ stage[s].minimum \in 0..SEQUENCE_MASK /\ SEQUENCE_MASK \in Nat
        BY <1>2, <1>4
      <4>2. reclaimed' = reclaimed + 1
        BY <1>3, Zenon
      <4>3. QED
        BY <4>1, <4>2
    <3>3. finished'[t] = finished[t]
      BY <1>3, SMTT(30)
    <3>4. QED
      BY <2>2, <3>1, <3>2, <3>3, SMTT(30)
  <2>5. CASE t = s
    BY <1>1, <1>2, <1>3, <1>7, <1>8, <2>3, <2>4, <2>5, Zenon DEF IndInv, CursorInv
  <2>6. CASE t # s
    <3>1. stage'[t] = stage[t]
      BY <1>8, <2>6
    <3>2. finished' = finished /\ head' = head
      BY <1>3, Zenon
    <3>3. /\ finished[t] <= stage[t].last
          /\ stage[t].last <= head
          /\ stage[t].pc \notin {"holding", "failed"} => finished[t] = stage[t].last
          /\ stage[t].pc = "holding" => finished[t] < stage[t].last
          /\ stage[t].pc = "gate" \/ GateHolder(t) => t \in Sinks
          /\ \A e \in Deps[t] : stage[t].last <= finished[e]
      BY Zenon DEF IndInv, CursorInv
    <3>4. QED
      BY <2>3, <2>4, <3>1, <3>2, <3>3, Zenon DEF GateHolder
  <2>7. QED
    BY <2>5, <2>6, SMTT(30)
<1>12. SlotInv'
  <2>1. ~Taking' /\ OldestLive' = OldestLive
    <3>1. ~Taking'
      BY <1>2, <1>7, <1>8, SMTT(30) DEF Taking, GateHolder
    <3>2. QED
      BY <1>2, <1>3, <3>1, SMTT(30) DEF OldestLive
  <2>2. ASSUME NEW n
        PROVE  /\ IsPublished(n) => IsPublished(n)'
               /\ IsReserved(n) => IsReserved(n)'
    <3>1. Claimants(n)' = Claimants(n) /\ \A q \in Claimants(n) : prod'[q].pc = prod[q].pc
      BY <1>5, SMTT(30) DEF Claimants, SameClaims, Holds
    <3>2. QED
      BY <1>3, <3>1, NumberFrame, SMTT(30)
  <2>3. reclaimed' <= head' /\ head' <= reclaimed' + Capacity /\ head <= reclaimed + Capacity
    BY <1>2, <1>3, SMTT(30) DEF IndInv, SlotInv
  <2>4. ASSUME NEW n \in (reclaimed' + 1)..(reclaimed' + Capacity)
        PROVE  IF OldestLive' <= n /\ n <= head'
               THEN IsPublished(n)' \/ IsReserved(n)'
               ELSE published'[SlotOf(n)] = 0 /\ entry'[SlotOf(n)] = None
    <3>1. CASE n \in (reclaimed + 1)..(reclaimed + Capacity)
      <4>1. IF OldestLive <= n /\ n <= head
            THEN IsPublished(n) \/ IsReserved(n)
            ELSE published[SlotOf(n)] = 0 /\ entry[SlotOf(n)] = None
        BY <3>1, SMTT(30) DEF IndInv, SlotInv
      <4>2. QED
        BY <1>3, <2>1, <2>2, <4>1, SMTT(30)
    <3>2. CASE n \notin (reclaimed + 1)..(reclaimed + Capacity)
      <4>1. PICK r \in Nat \ {0} : r = reclaimed + 1
        BY <1>2, SMTT(30)
      <4>2. n = r + Capacity /\ n > head /\ n \in Nat
        BY <1>2, <1>3, <2>3, <3>2, <4>1, SMTT(30)
      <4>3. r \in (reclaimed + 1)..(reclaimed + Capacity) /\ ~(OldestLive <= r)
        BY <1>2, <4>1, SMTT(30)
      <4>4. published[SlotOf(r)] = 0 /\ entry[SlotOf(r)] = None
        BY <4>3 DEF IndInv, SlotInv
      <4>5. SlotOf(n) = SlotOf(r)
        BY <4>2, SlotOfPeriodic, SMTT(30)
      <4>6. QED
        BY <1>2, <1>3, <4>2, <4>4, <4>5, SMTT(30)
    <3>3. QED
      BY <3>1, <3>2, SMTT(30)
  <2>5. ASSUME NEW t \in Stages, NEW n \in OldestLive'..stage'[t].last PROVE IsPublished(n)'
    <3>1. n \in OldestLive..stage[t].last
      BY <1>8, <2>1, <2>5
    <3>2. IsPublished(n)
      BY <3>1, Zenon DEF IndInv, SlotInv
    <3>3. QED
      BY <2>2, <3>2
  <2>6. ASSUME NEW q \in Producers, prod'[q].pc \in {"claimed", "filled"}
        PROVE  OldestLive' <= prod'[q].seq /\ prod'[q].seq <= head'
    <3>1. prod[q].pc = prod'[q].pc /\ prod[q].seq = prod'[q].seq
      BY <1>5, <2>6 DEF SameClaims, Holds
    <3>2. OldestLive <= prod[q].seq /\ prod[q].seq <= head
      BY <2>6, <3>1, Zenon DEF IndInv, SlotInv
    <3>3. head' = head
      BY <1>3, Zenon
    <3>4. QED
      BY <2>1, <3>1, <3>2, <3>3, Zenon
  <2>7. QED
    BY <2>3, <2>4, <2>5, <2>6, SMTT(30) DEF SlotInv
<1>13. LogInv'
  BY <1>3, <1>5, <1>8, SMTT(30) DEF IndInv, LogInv, SameClaims, Holds
<1>14. QED
  BY <1>5, <1>9, <1>10, <1>11, <1>12, <1>13 DEF IndInv

=============================================================================
