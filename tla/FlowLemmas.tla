----------------------------- MODULE FlowLemmas -----------------------------
(***************************************************************************)
(* Lemmas for the proofs about Flow: the ring index, the dependency graph  *)
(* and what a step may leave alone.                                        *)
(***************************************************************************)
EXTENDS Flow, TLAPS, NaturalsInduction, WellFoundedInduction

-----------------------------------------------------------------------------
(* The ring index.                                                         *)

\* Division by a positive number.
LEMMA DivMod ==
    ASSUME NEW a \in Nat, NEW C \in Nat \ {0}
    PROVE  /\ a \div C \in Nat
           /\ (a % C) \in 0..(C - 1)
           /\ a = C * (a \div C) + (a % C)
  BY Z3

\* The quotient and the remainder are determined by the number.
LEMMA ModUnique ==
    ASSUME NEW a \in Nat, NEW C \in Nat \ {0}, NEW q \in Nat,
           NEW r \in 0..(C - 1), a = C * q + r
    PROVE  a % C = r
  BY Z3

\* A positive multiple is at least the number.
LEMMA MultipleBound ==
    ASSUME NEW C \in Nat \ {0}, NEW k \in Int, k >= 1
    PROVE  C * k >= C
  BY Z3

\* Numbers less than C apart have different remainders.
LEMMA ModInjective ==
    ASSUME NEW C \in Nat \ {0}, NEW a \in Nat, NEW b \in Nat, a < b, b - a < C
    PROVE  (a % C) # (b % C)
<1> DEFINE p == a \div C
           q == b \div C
<1>1. /\ p \in Nat /\ q \in Nat /\ (a % C) \in Nat /\ (b % C) \in Nat
      /\ a = C * p + (a % C)
      /\ b = C * q + (b % C)
  BY DivMod
<1>2. SUFFICES ASSUME (a % C) = (b % C) PROVE FALSE
  OBVIOUS
<1> HIDE DEF p, q
<1>3. b - a = C * q - C * p
  BY <1>1, <1>2
<1>4. C * q - C * p = C * (q - p)
  BY <1>1
<1>5. q - p >= 1
  <2>1. CASE q <= p
    <3>1. PICK k \in Nat : p = q + k
      BY <1>1, <2>1
    <3>2. C * p = C * q + C * k
      BY <1>1, <3>1
    <3>3. C * k >= 0
      BY <3>1, Z3
    <3>4. QED
      BY <3>2, <3>3, <1>3, <1>1
  <2>2. QED
    BY <2>1, <1>1
<1>6. C * (q - p) >= C
  BY <1>5, <1>1, MultipleBound
<1>7. QED
  BY <1>3, <1>4, <1>6

\* A sequence number names a slot.
LEMMA SlotOfType ==
    ASSUME NEW n \in Nat \ {0}
    PROVE  SlotOf(n) \in Slots
<1>1. n - 1 \in Nat
  OBVIOUS
<1>2. QED
  BY <1>1, DivMod, FlowAssumption DEF SlotOf, Slots

\* Two numbers less than Capacity apart name different slots.
LEMMA SlotOfInjective ==
    ASSUME NEW m \in Nat \ {0}, NEW n \in Nat \ {0}, m < n, n - m < Capacity
    PROVE  SlotOf(m) # SlotOf(n)
<1>1. m - 1 \in Nat /\ n - 1 \in Nat /\ m - 1 < n - 1 /\ (n - 1) - (m - 1) < Capacity
  BY FlowAssumption
<1>2. QED
  BY <1>1, ModInjective, FlowAssumption, Zenon DEF SlotOf

\* A number and the one Capacity later name the same slot.
LEMMA SlotOfPeriodic ==
    ASSUME NEW n \in Nat \ {0}
    PROVE  SlotOf(n + Capacity) = SlotOf(n)
<1> DEFINE a == n - 1
           q == a \div Capacity
           r == a % Capacity
<1>1. Capacity \in Nat \ {0} /\ a \in Nat
  BY FlowAssumption
<1>2. q \in Nat /\ r \in 0..(Capacity - 1) /\ a = Capacity * q + r
  BY <1>1, DivMod, Zenon
<1>3. SlotOf(n) = r
  BY DEF SlotOf
<1>4. SlotOf(n + Capacity) = (a + Capacity) % Capacity
  BY <1>1 DEF SlotOf
<1> HIDE DEF a, q, r
<1>5. a + Capacity \in Nat /\ q + 1 \in Nat /\ a + Capacity = Capacity * (q + 1) + r
  BY <1>1, <1>2
<1>6. (a + Capacity) % Capacity = r
  BY <1>1, <1>2, <1>5, ModUnique
<1>7. QED
  BY <1>3, <1>4, <1>6

\* The numbers of one lap of the ring name different slots.
LEMMA WindowInjective ==
    ASSUME NEW r \in Nat, NEW m \in (r + 1)..(r + Capacity),
           NEW n \in (r + 1)..(r + Capacity), m # n
    PROVE  SlotOf(m) # SlotOf(n)
<1>1. Capacity \in Nat /\ m \in Nat \ {0} /\ n \in Nat \ {0}
  BY FlowAssumption
<1>2. CASE m < n
  BY <1>1, <1>2, SlotOfInjective
<1>3. CASE n < m
  BY <1>1, <1>3, SlotOfInjective
<1>4. QED
  BY <1>1, <1>2, <1>3

-----------------------------------------------------------------------------
(* The dependency graph.                                                   *)

\* Every set of stages that is not empty has a last one.
LEMMA LastStage ==
    ASSUME NEW T, T \subseteq Stages, T # {}
    PROVE  \E s \in T : \A t \in T : t <= s
<1> DEFINE gap(s) == NumStages - s
           G == {gap(s) : s \in T}
<1>1. NumStages \in Nat /\ \A s \in T : s \in 1..NumStages /\ gap(s) \in Nat
  BY FlowAssumption DEF Stages
<1>2. G \subseteq Nat /\ G # {}
  BY <1>1
<1>3. PICK g \in G : \A h \in G : <<h, g>> \notin OpToRel(<, Nat)
  BY <1>2, NatLessThanWellFounded, WFMin, Zenon
<1>4. PICK s \in T : g = gap(s)
  OBVIOUS
<1>5. ASSUME NEW t \in T PROVE t <= s
  <2>1. ~(gap(t) < g)
    BY <1>1, <1>3, <1>4, Zenon DEF OpToRel
  <2>2. QED
    BY <1>1, <1>4, <2>1
<1>6. QED
  BY <1>5

\* Every stage is a sink or a dependency of a later stage.
LEMMA SinkOrDependency ==
    ASSUME NEW s \in Stages
    PROVE  s \in Sinks \/ \E t \in Stages : s \in Deps[t] /\ s < t
  BY FlowAssumption DEF Sinks, gates_reclamation

\* The last stage is a sink.
LEMMA SomeSink == Sinks # {}
<1>1. NumStages \in Stages /\ \A t \in Stages : ~(NumStages < t)
  BY FlowAssumption DEF Stages
<1>2. QED
  BY <1>1, SinkOrDependency

\* The least progress of the sinks is below each of them.
LEMMA MinOverBelow ==
    ASSUME NEW view \in [Sinks -> 0..SEQUENCE_MASK]
    PROVE  /\ MinOver(view) \in 0..SEQUENCE_MASK
           /\ \A t \in Sinks : MinOver(view) <= view[t]
<1> DEFINE V == {view[t] : t \in Sinks}
<1>1. V \subseteq Nat /\ V \subseteq 0..SEQUENCE_MASK /\ V # {}
  BY SomeSink, FlowAssumption
<1>2. PICK v \in V : \A w \in V : <<w, v>> \notin OpToRel(<, Nat)
  BY <1>1, NatLessThanWellFounded, WFMin, Zenon
<1>3. \A w \in V : v <= w
  <2>1. SUFFICES ASSUME NEW w \in V PROVE v <= w
    OBVIOUS
  <2>2. ~(w < v)
    BY <1>1, <1>2, Zenon DEF OpToRel
  <2>3. QED
    BY <1>1, <2>2
<1>4. MinOver(view) \in V /\ \A w \in V : MinOver(view) <= w
  BY <1>3 DEF MinOver, Min
<1>5. QED
  BY <1>1, <1>4

\* What every sink has finished, every stage has finished.
LEMMA SinksAreLast ==
    ASSUME TypeOK, CursorInv, NEW k \in Nat, \A t \in Sinks : k <= finished[t]
    PROVE  \A s \in Stages : k <= finished[s]
<1> DEFINE T == {s \in Stages : ~(k <= finished[s])}
<1>1. SUFFICES ASSUME T # {} PROVE FALSE
  OBVIOUS
<1>2. PICK s \in T : \A t \in T : t <= s
  BY <1>1, LastStage, Zenon
<1>3. s \in Stages /\ s \notin Sinks
  OBVIOUS
<1>4. PICK t \in Stages : s \in Deps[t] /\ s < t
  BY <1>3, SinkOrDependency
<1>5. t \notin T
  BY <1>2, <1>3, <1>4, FlowAssumption DEF Stages
<1>6. k <= finished[t] /\ finished[t] <= stage[t].last /\ stage[t].last <= finished[s]
  BY <1>3, <1>4, <1>5 DEF CursorInv
<1>7. finished[t] \in Nat /\ finished[s] \in Nat /\ stage[t].last \in Nat
  BY <1>3, <1>4, FlowAssumption DEF TypeOK, Deliveries
<1>8. QED
  BY <1>2, <1>6, <1>7

\* The sinks alone hold reclamation behind every stage.
LEMMA ReclaimedBehindAll ==
    ASSUME TypeOK, CursorInv
    PROVE  \A s \in Stages : reclaimed <= finished[s]
<1>1. reclaimed \in Nat /\ \A t \in Sinks : reclaimed <= finished[t]
  BY FlowAssumption DEF TypeOK, CursorInv, Sinks
<1>2. QED
  BY <1>1, SinksAreLast

\* The ring's numbers are naturals in the window of its capacity.
LEMMA RingFacts ==
    ASSUME IndInv
    PROVE  /\ head \in Nat /\ reclaimed \in Nat /\ finished \in [Stages -> Nat]
           /\ head <= SEQUENCE_MASK /\ reclaimed <= head /\ head <= reclaimed + Capacity
           /\ Capacity \in Nat \ {0} /\ SEQUENCE_MASK \in Nat
<1>1. head \in 0..SEQUENCE_MASK /\ reclaimed \in 0..SEQUENCE_MASK
  BY DEF IndInv, TypeOK
<1>2. finished \in [Stages -> 0..SEQUENCE_MASK]
  BY DEF IndInv, TypeOK
<1>3. reclaimed <= head /\ head <= reclaimed + Capacity
  BY DEF IndInv, SlotInv
<1>4. Capacity \in Nat \ {0} /\ SEQUENCE_MASK \in Nat
  BY FlowAssumption
<1>5. finished \in [Stages -> Nat]
  BY <1>2, <1>4
<1>6. QED
  BY <1>1, <1>3, <1>4, <1>5

\* A stage's cursors are naturals between the reclaimed number and the head.
LEMMA StageFacts ==
    ASSUME IndInv, NEW s \in Stages
    PROVE  /\ stage[s] \in Deliveries /\ stage[s].last \in Nat /\ finished[s] \in Nat
           /\ reclaimed <= finished[s] /\ finished[s] <= stage[s].last
           /\ stage[s].last <= head /\ gateView[s] <= finished[s]
<1>1. stage[s] \in Deliveries
  BY DEF IndInv, TypeOK
<1>2. stage[s].last \in Nat
  BY <1>1, FlowAssumption DEF Deliveries
<1>3. finished[s] \in Nat
  BY RingFacts
<1>4. finished[s] <= stage[s].last /\ stage[s].last <= head /\ gateView[s] <= finished[s]
  BY DEF IndInv, CursorInv
<1>5. reclaimed <= finished[s]
  BY ReclaimedBehindAll DEF IndInv
<1>6. QED
  BY <1>1, <1>2, <1>3, <1>4, <1>5

-----------------------------------------------------------------------------
(* What a step may leave alone.                                            *)

Holds(c) == c.pc \in {"claimed", "filled"}

\* The step neither opens, fills nor publishes a claim.
SameClaims ==
    /\ \A p \in Producers : Holds(prod'[p]) <=> Holds(prod[p])
    /\ \A p \in Producers :
         Holds(prod[p]) => prod'[p].pc = prod[p].pc /\ prod'[p].seq = prod[p].seq

\* The step delivers nothing and neither begins nor ends taking an entry.
SameDeliveries ==
    \A s \in Stages : /\ stage'[s].last = stage[s].last
                      /\ stage'[s].pc = "advance" <=> stage[s].pc = "advance"

\* The slots keep their owners when claims, deliveries and the ring do.
LEMMA SlotFrame ==
    ASSUME TypeOK, SlotInv, SameClaims, SameDeliveries,
           UNCHANGED <<head, reclaimed, published, entry, log>>
    PROVE  SlotInv'
<1>1. Taking' = Taking /\ OldestLive' = OldestLive
  BY DEF SameDeliveries, Taking, OldestLive
<1>2. ASSUME NEW n PROVE Claimants(n)' = Claimants(n)
  BY DEF SameClaims, Holds, Claimants
<1>3. ASSUME NEW n PROVE IsPublished(n)' = IsPublished(n)
  BY <1>2 DEF IsPublished
<1>4. ASSUME NEW n, IsReserved(n) PROVE IsReserved(n)'
  <2>1. PICK p \in Producers :
          /\ Claimants(n) = {p}
          /\ \/ prod[p].pc = "claimed" /\ entry[SlotOf(n)] = None
             \/ /\ prod[p].pc = "filled"
                /\ entry[SlotOf(n)] # None
                /\ entry[SlotOf(n)].value = log[n]
    BY <1>4 DEF IsReserved
  <2>2. prod'[p].pc = prod[p].pc
    BY <2>1 DEF SameClaims, Holds
  <2>3. QED
    BY <1>2, <1>4, <2>1, <2>2 DEF IsReserved
<1>5. QED
  BY <1>1, <1>3, <1>4 DEF SlotInv, SameClaims, SameDeliveries, Holds

\* A step of a producer that leaves the ring and the claims alone.
LEMMA ProducerFrame ==
    ASSUME IndInv, SameClaims, prod' \in [Producers -> Claims], charged' \in Int,
           closed' \in BOOLEAN, fenced' \in BOOLEAN, wake' \in [Stages -> BOOLEAN],
           UNCHANGED <<head, reclaimed, published, entry, finished, gate,
                       gateView, stage, log, got>>
    PROVE  IndInv'
<1>1. TypeOK'
  BY DEF IndInv, TypeOK
<1>2. GateInv'
  BY DEF IndInv, GateInv, GateHolder
<1>3. CursorInv'
  BY DEF IndInv, CursorInv, GateHolder
<1>4. SlotInv'
  BY SlotFrame DEF IndInv, SameDeliveries
<1>5. LogInv'
  BY DEF IndInv, LogInv, SameClaims, Holds
<1>6. QED
  BY <1>1, <1>2, <1>3, <1>4, <1>5 DEF IndInv

\* A step of a stage that moves none of its cursors and does not hold the gate.
LEMMA StageFrame ==
    ASSUME IndInv, SameClaims, NEW s \in Stages, NEW pc \in StagePC,
           stage' = [stage EXCEPT ![s].pc = pc],
           ~GateHolder(s), pc \notin {"take", "advance", "gate", "holding"},
           stage[s].pc = "holding" => pc = "failed",
           stage[s].pc # "failed",
           prod' \in [Producers -> Claims], wake' \in [Stages -> BOOLEAN],
           closed' \in BOOLEAN, fenced' \in BOOLEAN,
           UNCHANGED <<ring, gate, log, got>>,
           \/ UNCHANGED gateView
           \/ gateView' = [gateView EXCEPT ![s] = finished[s]]
    PROVE  IndInv'
<1> USE DEF IndInv
<1>0. /\ stage'[s].pc = pc
      /\ \A t \in Stages \ {s} : stage'[t] = stage[t]
      /\ \A t \in Stages : stage'[t].last = stage[t].last /\ stage'[t].minimum = stage[t].minimum
      /\ stage' \in [Stages -> Deliveries]
  <2>1. stage \in [Stages -> Deliveries]
    BY DEF TypeOK
  <2>2. stage[s] \in Deliveries
    BY <2>1
  <2>3. stage'[s] = [stage[s] EXCEPT !.pc = pc] /\ \A t \in Stages \ {s} : stage'[t] = stage[t]
    BY <2>1
  <2>4. stage'[s] \in Deliveries /\ stage'[s].pc = pc /\ stage'[s].last = stage[s].last
        /\ stage'[s].minimum = stage[s].minimum
    BY <2>2, <2>3 DEF Deliveries
  <2>5. QED
    BY <2>1, <2>3, <2>4
<1>1. TypeOK'
  BY <1>0, SMTT(30) DEF IndInv, TypeOK, ring
<1>2. GateInv'
  BY <1>0 DEF IndInv, GateInv, GateHolder, ring
<1>3. CursorInv'
  <2>1. \A t \in Stages : gateView'[t] <= finished[t]
    <3>1. SUFFICES ASSUME NEW t \in Stages PROVE gateView'[t] <= finished[t]
      OBVIOUS
    <3>2. gateView[t] <= finished[t] /\ finished[t] \in Nat
      BY FlowAssumption DEF TypeOK, CursorInv
    <3>3. gateView'[t] = gateView[t] \/ gateView'[t] = finished[t]
      BY DEF TypeOK
    <3>4. QED
      BY <3>2, <3>3
  <2>2. QED
    BY <1>0, <2>1 DEF IndInv, CursorInv, GateHolder, ring
<1>4. SlotInv'
  <2>1. SameDeliveries
    BY <1>0 DEF SameDeliveries, GateHolder
  <2>2. QED
    BY <2>1, SlotFrame DEF IndInv, ring
<1>5. LogInv'
  BY <1>0 DEF IndInv, LogInv, SameClaims, Holds, ring
<1>6. QED
  BY <1>1, <1>2, <1>3, <1>4, <1>5 DEF IndInv

=============================================================================
