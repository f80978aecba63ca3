----------------------------- MODULE FlowClaims -----------------------------
(***************************************************************************)
(* The steps of producers preserve IndInv.                                 *)
(***************************************************************************)
EXTENDS FlowLemmas

\* A wakeup changes nothing of a claim but its flag.
LEMMA NotifiedClaims ==
    ASSUME NEW f \in [Producers -> Claims]
    PROVE  /\ Notified(f) \in [Producers -> Claims]
           /\ \A p \in Producers : /\ Notified(f)[p].pc = f[p].pc
                                   /\ Notified(f)[p].seq = f[p].seq
<1>1. SUFFICES ASSUME NEW p \in Producers
               PROVE  /\ Notified(f)[p] \in Claims
                      /\ Notified(f)[p].pc = f[p].pc
                      /\ Notified(f)[p].seq = f[p].seq
  BY DEF Notified
<1> DEFINE b == f[p].notified \/ f[p].armed
<1>2. f[p] \in Claims /\ b \in BOOLEAN
  OBVIOUS
<1>3. Notified(f)[p] = [f[p] EXCEPT !.notified = b]
  BY DEF Notified
<1> HIDE DEF b
<1>4. QED
  BY <1>2, <1>3 DEF Claims

\* A claim's charge is a number.
LEMMA ChargeType ==
    ASSUME NEW c \in Claims
    PROVE  c.charge \in Nat
<1>1. c.charge \in Charges \cup {0}
  BY DEF Claims
<1>2. \A k \in Charges \cup {0} : k \in Nat
  BY FlowAssumption
<1>3. QED
  BY <1>1, <1>2, Zenon

\* The idle claim.
LEMMA IdleClaimType == IdleClaim \in Claims /\ ~Holds(IdleClaim)
  BY FlowAssumption DEF IdleClaim, Claims, Holds, ProducerPC

\* Replacing a claim that holds no number by another such.
LEMMA SetClaim ==
    ASSUME NEW f \in [Producers -> Claims], NEW p \in Producers, NEW c \in Claims,
           ~Holds(f[p]), ~Holds(c), prod \in [Producers -> Claims],
           \A q \in Producers : f[q].pc = prod[q].pc /\ f[q].seq = prod[q].seq,
           prod' = [f EXCEPT ![p] = c]
    PROVE  prod' \in [Producers -> Claims] /\ SameClaims
<1>1. \A q \in Producers : prod'[q] = IF q = p THEN c ELSE f[q]
  OBVIOUS
<1>2. QED
  BY <1>1 DEF SameClaims, Holds

\* Steps before a number is claimed.
LEMMA UnclaimedSteps ==
    ASSUME IndInv, NEW p \in Producers,
           \/ Start(p) \/ CheckAdmission(p) \/ TakeCharge(p) \/ GiveUp(p) \/ Observe(p)
    PROVE  IndInv' /\ SameClaims
<1> DEFINE SetTo(c) == prod' = [prod EXCEPT ![p] = c] /\ c \in Claims /\ ~Holds(c)
<1>1. prod \in [Producers -> Claims] /\ prod[p] \in Claims /\ charged \in Int
      /\ closed \in BOOLEAN /\ fenced \in BOOLEAN /\ wake \in [Stages -> BOOLEAN]
  BY SMTT(30) DEF IndInv, TypeOK
<1>2. /\ UNCHANGED <<head, reclaimed, published, entry, finished, gate, gateView, stage, log, got>>
      /\ UNCHANGED <<closed, fenced, wake>>
  BY Zenon DEF Start, CheckAdmission, TakeCharge, GiveUp, Observe, ring
<1>3. charged' \in Int /\ ~Holds(prod[p])
  <2>1. prod[p].charge \in Nat
    BY <1>1, ChargeType
  <2>2. charged + prod[p].charge \in Int
    BY <1>1, <2>1, SMTT(30)
  <2>3. charged' \in {charged, charged + prod[p].charge}
    BY Zenon DEF Start, CheckAdmission, TakeCharge, GiveUp, Observe, ring
  <2>4. QED
    BY <1>1, <2>2, <2>3, Zenon DEF Start, CheckAdmission, TakeCharge, GiveUp, Observe, Holds
<1>4. ASSUME NEW pc \in {"charge", "full", "cas"}, SetProducer(p, pc) PROVE \E c : SetTo(c)
  <2>1. [prod[p] EXCEPT !.pc = pc] \in Claims /\ ~Holds([prod[p] EXCEPT !.pc = pc])
    BY <1>1 DEF Claims, ProducerPC, Holds
  <2>2. prod' = [prod EXCEPT ![p] = [prod[p] EXCEPT !.pc = pc]]
    BY <1>4 DEF SetProducer
  <2>3. QED
    BY <2>1, <2>2, Zenon
<1>5. ASSUME Return(p) PROVE \E c : SetTo(c)
  BY <1>5, IdleClaimType, Zenon DEF Return
<1>6. \E c : SetTo(c)
  <2>1. CASE Start(p)
    <3>1. PICK c \in Charges :
            prod' = [prod EXCEPT ![p] = [IdleClaim EXCEPT !.pc = "check", !.charge = c]]
      BY <2>1, Zenon DEF Start
    <3> DEFINE d == [IdleClaim EXCEPT !.pc = "check", !.charge = c]
    <3>2. d \in Claims /\ ~Holds(d)
      <4>1. IdleClaim \in Claims
        BY IdleClaimType
      <4>2. QED
        BY <4>1, Zenon DEF Claims, Holds, ProducerPC
    <3>3. QED
      BY <3>1, <3>2, Zenon
  <2>2. CASE CheckAdmission(p)
    BY <2>2, <1>4, <1>5 DEF CheckAdmission
  <2>3. CASE TakeCharge(p)
    BY <2>3, <1>4 DEF TakeCharge
  <2>4. CASE GiveUp(p)
    BY <2>4, <1>5 DEF GiveUp
  <2>5. CASE Observe(p)
    <3> DEFINE d == [prod[p] EXCEPT !.pc = "check", !.armed = TRUE, !.notified = FALSE]
    <3>1. d \in Claims /\ ~Holds(d)
      BY <1>1, Zenon DEF Claims, ProducerPC, Holds
    <3>2. prod' = [prod EXCEPT ![p] = d]
      BY <2>5, Zenon DEF Observe
    <3>3. QED
      BY <3>1, <3>2, Zenon
  <2>6. QED
    BY <2>1, <2>2, <2>3, <2>4, <2>5
<1>7. prod' \in [Producers -> Claims] /\ SameClaims
  BY <1>1, <1>3, <1>6, SetClaim, Zenon
<1>8. QED
  BY <1>1, <1>2, <1>3, <1>7, ProducerFrame

\* The notifications of close, fence and a refund keep the claims.
LEMMA NotifyingSteps ==
    ASSUME IndInv,
           (\E p \in Producers : Refund(p)) \/ Close \/ Fence
    PROVE  IndInv' /\ SameClaims
<1>1. prod \in [Producers -> Claims] /\ charged \in Int /\ closed \in BOOLEAN
      /\ fenced \in BOOLEAN /\ wake \in [Stages -> BOOLEAN]
  BY DEF IndInv, TypeOK
<1>2. UNCHANGED <<head, reclaimed, published, entry, finished, gate, gateView, stage, log, got>>
  BY Zenon DEF Refund, Close, Fence, ring
<1>3. wake' \in [Stages -> BOOLEAN] /\ closed' \in BOOLEAN /\ fenced' \in BOOLEAN
  BY <1>1, Zenon DEF Refund, Close, Fence, fence, wake_stages
<1> DEFINE woken == Notified(prod)
<1>4. /\ woken \in [Producers -> Claims]
      /\ \A q \in Producers : woken[q].pc = prod[q].pc /\ woken[q].seq = prod[q].seq
  BY <1>1, NotifiedClaims
<1>5. CASE Close \/ Fence
  <2>1. charged' = charged /\ prod' = woken
    BY <1>5 DEF Close, Fence, fence, ring
  <2>2. SameClaims
    BY <1>4, <2>1 DEF SameClaims, Holds
  <2>3. QED
    BY <1>1, <1>2, <1>3, <1>4, <2>1, <2>2, ProducerFrame
<1>6. ASSUME NEW p \in Producers, Refund(p) PROVE IndInv' /\ SameClaims
  <2>1. prod[p].charge \in Nat
    BY <1>1, ChargeType
  <2>2. charged' \in Int
    BY <1>1, <1>6, <2>1 DEF Refund
  <2> DEFINE back == [woken EXCEPT ![p] = IdleClaim]
             full == [woken[p] EXCEPT !.pc = "full"]
  <2>3. ~Holds(prod[p]) /\ ~Holds(woken[p])
    BY <1>4, <1>6 DEF Refund, Holds
  <2>4. ASSUME prod' = back
        PROVE  prod' \in [Producers -> Claims] /\ SameClaims
    BY <1>1, <1>4, <2>3, <2>4, IdleClaimType, SetClaim, Zenon
  <2>5. ASSUME prod' = Notified(back)
        PROVE  prod' \in [Producers -> Claims] /\ SameClaims
    <3>1. /\ back \in [Producers -> Claims]
          /\ \A q \in Producers : back[q] = IF q = p THEN IdleClaim ELSE woken[q]
      BY <1>4, IdleClaimType
    <3>2. /\ prod' \in [Producers -> Claims]
          /\ \A q \in Producers : prod'[q].pc = back[q].pc /\ prod'[q].seq = back[q].seq
      BY <2>5, <3>1, NotifiedClaims, Zenon
    <3> HIDE DEF back, woken
    <3>3. SameClaims
      BY <1>4, <2>3, <3>1, <3>2, IdleClaimType DEF SameClaims, Holds
    <3>4. QED
      BY <3>2, <3>3
  <2>6. ASSUME prod' = [woken EXCEPT ![p].pc = "full"]
        PROVE  prod' \in [Producers -> Claims] /\ SameClaims
    <3>1. prod' = [woken EXCEPT ![p] = full]
      BY <2>6
    <3>2. full \in Claims /\ ~Holds(full)
      <4>1. woken[p] \in Claims
        BY <1>4
      <4> HIDE DEF woken
      <4>2. QED
        BY <4>1 DEF Claims, ProducerPC, Holds
    <3> HIDE DEF full, woken
    <3>3. QED
      BY <1>1, <1>4, <2>3, <3>1, <3>2, SetClaim, Zenon
  <2>7. prod' \in [Producers -> Claims] /\ SameClaims
    BY <1>6, <2>4, <2>5, <2>6 DEF Refund, fence
  <2>8. QED
    BY <1>2, <1>3, <2>2, <2>7, ProducerFrame
<1>7. QED
  BY <1>5, <1>6

\* Nothing is taken beyond the head.
LEMMA OldestLiveBound ==
    ASSUME IndInv
    PROVE  /\ OldestLive \in {reclaimed + 1, reclaimed + 2}
           /\ OldestLive <= head + 1
           /\ reclaimed \in Nat /\ head \in Nat
<1>1. reclaimed \in Nat /\ head \in Nat /\ reclaimed <= head
  BY FlowAssumption DEF IndInv, TypeOK, SlotInv
<1>2. CASE ~Taking
  BY <1>1, <1>2 DEF OldestLive
<1>3. CASE Taking
  <2>1. PICK s \in Stages : stage[s].pc = "advance"
    BY <1>3 DEF Taking
  <2>2. s \in Sinks /\ reclaimed < stage[s].minimum /\ stage[s].minimum <= finished[s]
    BY <2>1 DEF IndInv, GateInv, CursorInv, GateHolder
  <2>3. finished[s] <= stage[s].last /\ stage[s].last <= head
    BY <2>1 DEF IndInv, CursorInv
  <2>4. finished[s] \in Nat /\ stage[s].last \in Nat /\ stage[s].minimum \in Nat
    BY FlowAssumption, SMTT(30) DEF IndInv, TypeOK, Deliveries
  <2>5. reclaimed + 1 <= head
    BY <1>1, <2>2, <2>3, <2>4
  <2>6. QED
    BY <1>1, <1>3, <2>5, SMTT(30) DEF OldestLive
<1>4. QED
  BY <1>2, <1>3

\* A number keeps its owner in a step that touches neither its slot nor its claim.
LEMMA NumberFrame ==
    ASSUME NEW n, Claimants(n)' = Claimants(n), log'[n] = log[n],
           published'[SlotOf(n)] = published[SlotOf(n)],
           entry'[SlotOf(n)] = entry[SlotOf(n)],
           \A p \in Claimants(n) : prod'[p].pc = prod[p].pc
    PROVE  /\ IsPublished(n) => IsPublished(n)'
           /\ IsReserved(n) => IsReserved(n)'
<1>1. IsPublished(n) => IsPublished(n)'
  BY DEF IsPublished
<1>2. ASSUME IsReserved(n) PROVE IsReserved(n)'
  <2>1. PICK p \in Producers :
          /\ Claimants(n) = {p}
          /\ \/ prod[p].pc = "claimed" /\ entry[SlotOf(n)] = None
             \/ /\ prod[p].pc = "filled"
                /\ entry[SlotOf(n)] # None
                /\ entry[SlotOf(n)].value = log[n]
    BY <1>2 DEF IsReserved
  <2>2. prod'[p].pc = prod[p].pc
    BY <2>1
  <2>3. QED
    BY <1>2, <2>1, <2>2 DEF IsReserved
<1>3. QED
  BY <1>1, <1>2

\* The next number gets a free slot of its own.
LEMMA ClaimStep ==
    ASSUME IndInv, NEW p \in Producers, ClaimSequence(p)
    PROVE  IndInv'
<1>1. /\ prod \in [Producers -> Claims] /\ prod[p] \in Claims /\ prod[p].pc = "cas"
      /\ charged \in Int /\ closed \in BOOLEAN
      /\ fenced \in BOOLEAN /\ wake \in [Stages -> BOOLEAN]
  BY DEF IndInv, TypeOK, ClaimSequence
<1>2. UNCHANGED <<reclaimed, charged, published, entry, finished, closed, fenced, wake,
                  gate, gateView, stage, log, got>>
  BY DEF ClaimSequence
<1>3. CASE ~CanClaim
  <2> DEFINE y == IF closed THEN "closed" ELSE IF head = SEQUENCE_MASK THEN "exhausted" ELSE "full"
             c == [prod[p] EXCEPT !.pc = "refund", !.why = y]
  <2>1. head' = head /\ prod' = [prod EXCEPT ![p] = c]
    BY <1>3, Zenon DEF ClaimSequence
  <2>2. y \in {"full", "closed", "exhausted"}
    OBVIOUS
  <2> HIDE DEF y
  <2>3. c \in Claims /\ ~Holds(c) /\ ~Holds(prod[p])
    BY <1>1, <2>2, Zenon DEF Claims, ProducerPC, Holds
  <2> HIDE DEF c
  <2>4. prod' \in [Producers -> Claims] /\ SameClaims
    BY <1>1, <2>1, <2>3, SetClaim, Zenon
  <2>5. QED
    BY <1>1, <1>2, <2>1, <2>4, ProducerFrame
<1>4. CASE CanClaim
  <2> DEFINE c == [prod[p] EXCEPT !.pc = "claimed", !.seq = head + 1]
  <2>1. head' = head + 1 /\ prod' = [prod EXCEPT ![p] = c]
    BY <1>4, Zenon DEF ClaimSequence
  <2>2. /\ head \in Nat /\ head + 1 \in 0..SEQUENCE_MASK /\ reclaimed \in Nat
        /\ head < reclaimed + Capacity /\ Capacity \in Nat
    BY <1>4, FlowAssumption DEF CanClaim, IndInv, TypeOK
  <2>3. c \in Claims /\ c.pc = "claimed" /\ c.seq = head + 1
    BY <1>1, <2>2, Zenon DEF Claims, ProducerPC
  <2> HIDE DEF c
  <2>4. \A q \in Producers : prod'[q] = IF q = p THEN c ELSE prod[q]
    BY <1>1, <2>1
  <2>5. TypeOK'
    BY <1>1, <1>2, <2>1, <2>2, <2>3 DEF IndInv, TypeOK
  <2>6. GateInv'
    BY <1>2 DEF IndInv, GateInv, GateHolder
  <2>7. CursorInv'
    <3>1. \A s \in Stages : stage[s].last <= head + 1
      BY <2>2, FlowAssumption DEF IndInv, CursorInv, TypeOK, Deliveries
    <3>2. QED
      BY <1>2, <2>1, <3>1 DEF IndInv, CursorInv, GateHolder
  <2>8. SlotInv'
    <3>1. OldestLive' = OldestLive /\ OldestLive <= head + 1 /\ OldestLive \in Nat
      BY <1>2, <2>2, OldestLiveBound DEF OldestLive, Taking
    <3>2. ASSUME NEW n \in Nat, n <= head PROVE Claimants(n)' = Claimants(n)
      BY <1>1, <2>2, <2>3, <2>4, <3>2 DEF Claimants
    <3>3. ASSUME NEW n \in Nat, n <= head
          PROVE  /\ IsPublished(n) => IsPublished(n)'
                 /\ IsReserved(n) => IsReserved(n)'
      <4>1. \A q \in Claimants(n) : prod'[q].pc = prod[q].pc
        BY <1>1, <2>4 DEF Claimants
      <4>2. QED
        BY <1>2, <3>2, <3>3, <4>1, NumberFrame
    <3>h. PICK h \in Nat : h = head + 1
      BY <2>2
    <3>4. IsReserved(h)'
      <4>1. Claimants(h)' = {p}
        <5>1. \A q \in Producers : Holds(prod[q]) => prod[q].seq <= head /\ prod[q].seq \in Nat
          BY <1>1, FlowAssumption DEF IndInv, SlotInv, Holds, Claims
        <5>2. QED
          BY <2>2, <2>3, <2>4, <3>h, <5>1, SMTT(30) DEF Claimants, Holds
      <4>2. published[SlotOf(h)] = 0 /\ entry[SlotOf(h)] = None
        <5>1. h \in (reclaimed + 1)..(reclaimed + Capacity) /\ ~(h <= head)
          BY <2>2, <3>h DEF IndInv, SlotInv
        <5>2. QED
          BY <5>1 DEF IndInv, SlotInv
      <4>3. QED
        BY <1>2, <2>3, <2>4, <4>1, <4>2, SMTT(30) DEF IsReserved
    <3>5. reclaimed' <= head' /\ head' <= reclaimed' + Capacity
      BY <1>2, <2>1, <2>2, SMTT(30) DEF IndInv, SlotInv
    <3>6. ASSUME NEW n \in (reclaimed' + 1)..(reclaimed' + Capacity)
          PROVE  IF OldestLive' <= n /\ n <= head'
                 THEN IsPublished(n)' \/ IsReserved(n)'
                 ELSE published'[SlotOf(n)] = 0 /\ entry'[SlotOf(n)] = None
      <4>1. n \in Nat /\ n \in (reclaimed + 1)..(reclaimed + Capacity)
        BY <1>2, <2>2
      <4>2. IF OldestLive <= n /\ n <= head
            THEN IsPublished(n) \/ IsReserved(n)
            ELSE published[SlotOf(n)] = 0 /\ entry[SlotOf(n)] = None
        BY <4>1 DEF IndInv, SlotInv
      <4>3. CASE n <= head
        BY <1>2, <2>1, <2>2, <3>1, <3>3, <4>1, <4>2, <4>3, SMTT(30)
      <4>4. CASE n = head + 1
        BY <2>1, <2>2, <3>1, <3>h, <3>4, <4>4, SMTT(30)
      <4>5. CASE n > head + 1
        BY <1>2, <2>1, <2>2, <3>1, <4>1, <4>2, <4>5, SMTT(30)
      <4>6. QED
        BY <2>2, <4>1, <4>3, <4>4, <4>5
    <3>7. ASSUME NEW s \in Stages, NEW n \in OldestLive'..stage'[s].last PROVE IsPublished(n)'
      <4>1. n \in OldestLive..stage[s].last /\ stage[s].last \in Nat /\ stage[s].last <= head
        BY <1>2, <3>1, FlowAssumption, SMTT(30) DEF IndInv, CursorInv, TypeOK, Deliveries
      <4>2. n \in Nat /\ n <= head
        BY <2>2, <3>1, <4>1
      <4>3. QED
        BY <3>3, <4>1, <4>2, SMTT(30) DEF IndInv, SlotInv
    <3>8. ASSUME NEW q \in Producers, prod'[q].pc \in {"claimed", "filled"}
          PROVE  OldestLive' <= prod'[q].seq /\ prod'[q].seq <= head'
      <4>1. CASE q = p
        BY <2>1, <2>2, <2>3, <2>4, <3>1, <4>1
      <4>2. CASE q # p
        <5>1. OldestLive <= prod[q].seq /\ prod[q].seq <= head /\ prod[q].seq \in Nat
          BY <1>1, <2>4, <3>8, <4>2, FlowAssumption, SMTT(30) DEF IndInv, SlotInv, Claims
        <5>2. QED
          BY <2>1, <2>2, <2>4, <3>1, <4>2, <5>1, SMTT(30)
      <4>3. QED
        BY <4>1, <4>2
    <3>9. QED
      BY <3>5, <3>6, <3>7, <3>8 DEF SlotInv
  <2>9. LogInv'
    <3>1. \A n \in (head' + 1)..SEQUENCE_MASK : n \in (head + 1)..SEQUENCE_MASK
      BY <2>1, <2>2, FlowAssumption, SMTT(30)
    <3>2. log[head + 1] = None
      BY <2>2, FlowAssumption, SMTT(30) DEF IndInv, LogInv
    <3>3. QED
      BY <1>1, <1>2, <2>3, <2>4, <3>1, <3>2 DEF IndInv, LogInv
  <2>10. QED
    BY <2>5, <2>6, <2>7, <2>8, <2>9 DEF IndInv
<1>5. QED
  BY <1>3, <1>4

\* Facts about an open claim: it alone owns the slot of its number.
LEMMA OpenClaim ==
    ASSUME IndInv, NEW p \in Producers, Holds(prod[p])
    PROVE  LET m == prod[p].seq
           IN  /\ m \in Nat \ {0} /\ m \in 1..SEQUENCE_MASK
               /\ m \in (reclaimed + 1)..(reclaimed + Capacity)
               /\ OldestLive <= m /\ m <= head
               /\ SlotOf(m) \in Slots
               /\ Claimants(m) = {p} /\ IsReserved(m) /\ ~IsPublished(m)
<1> DEFINE m == prod[p].seq
<1>1. OldestLive <= m /\ m <= head /\ m \in 0..SEQUENCE_MASK /\ head \in Nat
      /\ head <= reclaimed + Capacity
  BY FlowAssumption DEF IndInv, SlotInv, TypeOK, Claims, Holds
<1>2. OldestLive \in Nat /\ OldestLive >= reclaimed + 1 /\ reclaimed \in Nat
  BY OldestLiveBound
<1>3. /\ m \in Nat \ {0} /\ m \in 1..SEQUENCE_MASK
      /\ m \in (reclaimed + 1)..(reclaimed + Capacity)
  BY <1>1, <1>2, FlowAssumption, SMTT(30)
<1>4. p \in Claimants(m)
  BY SMTT(30) DEF Claimants, Holds
<1>5. IsReserved(m) /\ ~IsPublished(m)
  BY <1>1, <1>3, <1>4, SMTT(30) DEF IndInv, SlotInv, IsPublished
<1>6. Claimants(m) = {p}
  BY <1>4, <1>5 DEF IsReserved
<1>7. QED
  BY <1>1, <1>3, <1>5, <1>6, SlotOfType, SMTT(30)

\* Writing the entry of an open claim.
LEMMA FillStep ==
    ASSUME IndInv, NEW p \in Producers, FillSlot(p)
    PROVE  IndInv'
<1>1. PICK v \in {p, Cancelled} :
        /\ entry' = [entry EXCEPT ![SlotOf(prod[p].seq)] =
                                      [charge |-> prod[p].charge, value |-> v]]
        /\ log' = [log EXCEPT ![prod[p].seq] = v]
  BY Zenon DEF FillSlot
<1>2. PICK m : m = prod[p].seq
  OBVIOUS
<1>3. Holds(prod[p]) /\ prod[p].pc = "claimed"
  BY DEF FillSlot, Holds
<1>4. /\ m \in Nat \ {0} /\ m \in 1..SEQUENCE_MASK
      /\ m \in (reclaimed + 1)..(reclaimed + Capacity)
      /\ OldestLive <= m /\ m <= head
      /\ SlotOf(m) \in Slots
      /\ Claimants(m) = {p} /\ IsReserved(m) /\ ~IsPublished(m)
  BY <1>2, <1>3, OpenClaim
<1>5. UNCHANGED <<head, reclaimed, charged, published, finished, closed,
                  fenced, wake, gate, gateView, stage, got>>
  BY DEF FillSlot
<1>6. prod \in [Producers -> Claims] /\ prod[p] \in Claims
  BY DEF IndInv, TypeOK
<1> DEFINE c == [prod[p] EXCEPT !.pc = "filled"]
           e == [charge |-> prod[p].charge, value |-> v]
<1>7. c \in Claims /\ c.pc = "filled" /\ c.seq = m
  BY <1>2, <1>6 DEF Claims, ProducerPC
<1>8. prod' = [prod EXCEPT ![p] = c]
  BY DEF FillSlot, SetProducer
<1>9. e \in Entry /\ e # None /\ e.value = v /\ v \in Values
  <2>1. prod[p].charge \in Charges \cup {0}
    BY <1>6 DEF Claims
  <2>2. v \in Values
    BY DEF Values
  <2>3. e \in Entry /\ e.value = v
    BY <2>1, <2>2 DEF Entry
  <2>4. None \notin Entry
    BY FlowAssumption, SMTT(30)
  <2>5. QED
    BY <2>2, <2>3, <2>4
<1> HIDE DEF c, e
<1>10. /\ \A q \in Producers : prod'[q] = IF q = p THEN c ELSE prod[q]
       /\ entry \in [Slots -> Entry \cup {None}]
       /\ log \in [1..SEQUENCE_MASK -> Values \cup {None}]
       /\ entry' = [entry EXCEPT ![SlotOf(m)] = e]
       /\ log' = [log EXCEPT ![m] = v]
  BY <1>1, <1>2, <1>6, <1>8, SMTT(30) DEF IndInv, TypeOK, e
<1>11. TypeOK'
  BY <1>4, <1>5, <1>6, <1>7, <1>8, <1>9, <1>10, SMTT(30) DEF IndInv, TypeOK
<1>12. GateInv'
  BY <1>5, SMTT(30) DEF IndInv, GateInv, GateHolder
<1>13. CursorInv'
  BY <1>5, SMTT(30) DEF IndInv, CursorInv, GateHolder
<1>14. \A n : Claimants(n)' = Claimants(n)
  BY <1>2, <1>3, <1>7, <1>10, SMTT(30) DEF Claimants
<1>15. OldestLive' = OldestLive /\ OldestLive \in Nat /\ OldestLive >= reclaimed + 1
       /\ reclaimed \in Nat /\ head \in Nat /\ head <= reclaimed + Capacity
  BY <1>5, OldestLiveBound, SMTT(30) DEF IndInv, SlotInv, OldestLive, Taking
<1>16. ASSUME NEW n \in (reclaimed + 1)..(reclaimed + Capacity), n # m
       PROVE  /\ IsPublished(n) => IsPublished(n)'
              /\ IsReserved(n) => IsReserved(n)'
              /\ entry'[SlotOf(n)] = entry[SlotOf(n)]
  <2>1. SlotOf(n) # SlotOf(m)
    BY <1>4, <1>15, <1>16, WindowInjective, SMTT(30)
  <2>2. entry'[SlotOf(n)] = entry[SlotOf(n)] /\ log'[n] = log[n]
    BY <1>10, <1>16, <2>1, SMTT(30)
  <2>3. \A q \in Claimants(n) : prod'[q].pc = prod[q].pc
    BY <1>2, <1>10, <1>16, SMTT(30) DEF Claimants
  <2>4. QED
    BY <1>5, <1>14, <2>2, <2>3, NumberFrame
<1>17. IsReserved(m)'
  <2>1. published[SlotOf(m)] = 0
    BY <1>4 DEF IsReserved
  <2>2. entry'[SlotOf(m)] = e /\ log'[m] = v
    BY <1>4, <1>10, SMTT(30)
  <2>3. QED
    BY <1>4, <1>5, <1>7, <1>9, <1>10, <1>14, <2>1, <2>2, SMTT(30) DEF IsReserved
<1>18. SlotInv'
  <2>1. reclaimed' <= head' /\ head' <= reclaimed' + Capacity
    BY <1>5 DEF IndInv, SlotInv
  <2>2. ASSUME NEW n \in (reclaimed' + 1)..(reclaimed' + Capacity)
        PROVE  IF OldestLive' <= n /\ n <= head'
               THEN IsPublished(n)' \/ IsReserved(n)'
               ELSE published'[SlotOf(n)] = 0 /\ entry'[SlotOf(n)] = None
    <3>1. n \in (reclaimed + 1)..(reclaimed + Capacity)
      BY <1>5
    <3>2. IF OldestLive <= n /\ n <= head
          THEN IsPublished(n) \/ IsReserved(n)
          ELSE published[SlotOf(n)] = 0 /\ entry[SlotOf(n)] = None
      BY <3>1, SMTT(30) DEF IndInv, SlotInv
    <3>3. CASE n = m
      BY <1>4, <1>5, <1>15, <1>17, <3>3, SMTT(30)
    <3>4. CASE n # m
      BY <1>5, <1>15, <1>16, <3>1, <3>2, <3>4
    <3>5. QED
      BY <3>3, <3>4
  <2>3. ASSUME NEW s \in Stages, NEW n \in OldestLive'..stage'[s].last PROVE IsPublished(n)'
    <3>1. n \in OldestLive..stage[s].last /\ stage[s].last \in Nat /\ stage[s].last <= head
      BY <1>5, <1>15, FlowAssumption, SMTT(30) DEF IndInv, CursorInv, TypeOK, Deliveries
    <3>2. IsPublished(n) /\ n # m
      BY <1>4, <3>1 DEF IndInv, SlotInv
    <3>3. n \in (reclaimed + 1)..(reclaimed + Capacity)
      BY <1>15, <3>1, FlowAssumption, SMTT(30)
    <3>4. QED
      BY <1>16, <3>2, <3>3, SMTT(30)
  <2>4. ASSUME NEW q \in Producers, prod'[q].pc \in {"claimed", "filled"}
        PROVE  OldestLive' <= prod'[q].seq /\ prod'[q].seq <= head'
    BY <1>4, <1>5, <1>7, <1>10, <1>15, <2>4, SMTT(30) DEF IndInv, SlotInv
  <2>5. QED
    BY <2>1, <2>2, <2>3, <2>4, SMTT(30) DEF SlotInv
<1>19. LogInv'
  <2>1. ASSUME NEW n \in (head' + 1)..SEQUENCE_MASK PROVE log'[n] = None
    <3>1. n \in (head + 1)..SEQUENCE_MASK /\ n # m /\ n \in 1..SEQUENCE_MASK
      BY <1>4, <1>5, <1>15, FlowAssumption, SMTT(30)
    <3>2. QED
      BY <1>10, <3>1 DEF IndInv, LogInv
  <2>2. ASSUME NEW q \in Producers, prod'[q].pc = "claimed" PROVE log'[prod'[q].seq] = None
    <3>1. q # p /\ prod'[q] = prod[q]
      BY <1>7, <1>10, <2>2, SMTT(30)
    <3>2. Holds(prod[q]) /\ q \notin Claimants(m)
      BY <1>4, <2>2, <3>1, SMTT(30) DEF Holds
    <3>3. prod[q].seq # m /\ prod[q].seq \in 1..SEQUENCE_MASK
      BY <3>2, OpenClaim DEF Claimants, Holds
    <3>4. log[prod[q].seq] = None
      BY <2>2, <3>1 DEF IndInv, LogInv
    <3>5. QED
      BY <1>10, <3>1, <3>3, <3>4, SMTT(30)
  <2>3. QED
    BY <1>5, <2>1, <2>2, SMTT(30) DEF IndInv, LogInv
<1>20. QED
  BY <1>11, <1>12, <1>13, <1>18, <1>19, SMTT(30) DEF IndInv

\* Making the number of an open claim visible.
LEMMA PublishStep ==
    ASSUME IndInv, NEW p \in Producers, PublishSlot(p)
    PROVE  IndInv'
<1>1. PICK m : m = prod[p].seq
  OBVIOUS
<1>2. Holds(prod[p]) /\ prod[p].pc = "filled"
  BY SMTT(30) DEF PublishSlot, Holds
<1>3. /\ m \in Nat \ {0} /\ m \in 1..SEQUENCE_MASK
      /\ m \in (reclaimed + 1)..(reclaimed + Capacity)
      /\ OldestLive <= m /\ m <= head
      /\ SlotOf(m) \in Slots
      /\ Claimants(m) = {p} /\ IsReserved(m) /\ ~IsPublished(m)
  BY <1>1, <1>2, OpenClaim
<1>4. UNCHANGED <<head, reclaimed, charged, entry, finished, closed, fenced,
                  gate, gateView, stage, log, got>>
  BY DEF PublishSlot
<1>5. /\ prod \in [Producers -> Claims]
      /\ published \in [Slots -> 0..SEQUENCE_MASK]
      /\ published' = [published EXCEPT ![SlotOf(m)] = m]
      /\ prod' = [prod EXCEPT ![p] = IdleClaim]
      /\ wake' \in [Stages -> BOOLEAN]
  BY <1>1 DEF IndInv, TypeOK, PublishSlot, Return, wake_stages
<1>6. \A q \in Producers : prod'[q] = IF q = p THEN IdleClaim ELSE prod[q]
  BY <1>5, SMTT(30)
<1>7. TypeOK'
  BY <1>3, <1>4, <1>5, IdleClaimType, FlowAssumption, SMTT(30) DEF IndInv, TypeOK
<1>8. GateInv'
  BY <1>4, SMTT(30) DEF IndInv, GateInv, GateHolder
<1>9. CursorInv'
  BY <1>4, SMTT(30) DEF IndInv, CursorInv, GateHolder
<1>10. OldestLive' = OldestLive /\ OldestLive \in Nat /\ OldestLive >= reclaimed + 1
       /\ reclaimed \in Nat /\ head \in Nat /\ head <= reclaimed + Capacity
  BY <1>4, OldestLiveBound, SMTT(30) DEF IndInv, SlotInv, OldestLive, Taking
<1>11. ASSUME NEW n \in (reclaimed + 1)..(reclaimed + Capacity), n # m
       PROVE  /\ IsPublished(n) => IsPublished(n)'
              /\ IsReserved(n) => IsReserved(n)'
              /\ published'[SlotOf(n)] = published[SlotOf(n)]
  <2>1. SlotOf(n) # SlotOf(m)
    BY <1>3, <1>10, <1>11, WindowInjective
  <2>2. published'[SlotOf(n)] = published[SlotOf(n)]
    BY <1>5, <2>1, SMTT(30)
  <2>3. Claimants(n)' = Claimants(n) /\ \A q \in Claimants(n) : prod'[q].pc = prod[q].pc
    BY <1>1, <1>6, <1>11, IdleClaimType, SMTT(30) DEF Claimants, Holds
  <2>4. QED
    BY <1>4, <2>2, <2>3, NumberFrame
<1>12. IsPublished(m)'
  <2>1. Claimants(m)' = {}
    BY <1>3, <1>6, IdleClaimType DEF Claimants, Holds
  <2>2. published'[SlotOf(m)] = m
    BY <1>3, <1>5, SMTT(30)
  <2>3. entry[SlotOf(m)] # None /\ entry[SlotOf(m)].value = log[m]
    BY <1>2, <1>3 DEF IsReserved
  <2>4. QED
    BY <1>4, <2>1, <2>2, <2>3, SMTT(30) DEF IsPublished
<1>13. SlotInv'
  <2>1. reclaimed' <= head' /\ head' <= reclaimed' + Capacity
    BY <1>4, SMTT(30) DEF IndInv, SlotInv
  <2>2. ASSUME NEW n \in (reclaimed' + 1)..(reclaimed' + Capacity)
        PROVE  IF OldestLive' <= n /\ n <= head'
               THEN IsPublished(n)' \/ IsReserved(n)'
               ELSE published'[SlotOf(n)] = 0 /\ entry'[SlotOf(n)] = None
    <3>1. n \in (reclaimed + 1)..(reclaimed + Capacity)
      BY <1>4
    <3>2. IF OldestLive <= n /\ n <= head
          THEN IsPublished(n) \/ IsReserved(n)
          ELSE published[SlotOf(n)] = 0 /\ entry[SlotOf(n)] = None
      BY <3>1, SMTT(30) DEF IndInv, SlotInv
    <3>3. CASE n = m
      BY <1>3, <1>4, <1>10, <1>12, <3>3, SMTT(30)
    <3>4. CASE n # m
      BY <1>4, <1>10, <1>11, <3>1, <3>2, <3>4, SMTT(30)
    <3>5. QED
      BY <3>3, <3>4
  <2>3. ASSUME NEW s \in Stages, NEW n \in OldestLive'..stage'[s].last PROVE IsPublished(n)'
    <3>1. n \in OldestLive..stage[s].last /\ stage[s].last \in Nat /\ stage[s].last <= head
      BY <1>4, <1>10, FlowAssumption, SMTT(30) DEF IndInv, CursorInv, TypeOK, Deliveries
    <3>2. IsPublished(n) /\ n # m
      BY <1>3, <3>1, Zenon DEF IndInv, SlotInv
    <3>3. n \in (reclaimed + 1)..(reclaimed + Capacity)
      BY <1>10, <3>1, FlowAssumption, SMTT(30)
    <3>4. QED
      BY <1>11, <3>2, <3>3, SMTT(30)
  <2>4. ASSUME NEW q \in Producers, prod'[q].pc \in {"claimed", "filled"}
        PROVE  OldestLive' <= prod'[q].seq /\ prod'[q].seq <= head'
    <3>1. prod'[q] = prod[q]
      BY <1>6, <2>4, IdleClaimType DEF Holds
    <3>2. OldestLive <= prod[q].seq /\ prod[q].seq <= head
      BY <2>4, <3>1 DEF IndInv, SlotInv
    <3>3. head' = head
      BY <1>4, ZenonT(30)
    <3>4. QED
      BY <1>10, <3>1, <3>2, <3>3, Zenon
  <2>5. QED
    BY <2>1, <2>2, <2>3, <2>4, SMTT(30) DEF SlotInv
<1>14. LogInv'
  BY <1>4, <1>6, IdleClaimType, ZenonT(30) DEF IndInv, LogInv, Holds
<1>15. QED
  BY <1>7, <1>8, <1>9, <1>13, <1>14 DEF IndInv

=============================================================================
