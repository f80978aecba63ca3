-------------------------------- MODULE Flow --------------------------------
(***************************************************************************)
(* The bounded sequenced broadcast of src/flow.rs: producers reserve a     *)
(* charge and a sequence number, fill the ring slot of that number and     *)
(* publish it; every stage observes every slot in order once the stages it *)
(* depends on are past it; the stages no other stage depends on (the       *)
(* sinks) recycle slots and give the charges back.                         *)
(*                                                                         *)
(* One action is one atomic access of the code (an atomic read-modify-     *)
(* write, a store with the wakeup that follows it, or a critical section). *)
(* Loads that only decide an early return are merged with the load that    *)
(* decides it: head and reclaimed only grow and CLOSED is never cleared.   *)
(***************************************************************************)
EXTENDS Integers, Sequences, FiniteSetsExt

CONSTANTS
    Producers,     \* threads that hold a Producer
    NumStages,     \* stages are 1..NumStages
    Deps,          \* Deps[s]: the stages that s depends on
    Capacity,      \* number of ring slots
    MaxBytes,      \* bound on the charges of live slots
    Charges,       \* charges that producers ask for
    SEQUENCE_MASK, \* last sequence number
    MaxItems,      \* the batch limit that stages give to coalesce
    Cancelled,     \* what a dropped claim publishes
    None           \* no entry, no gate owner

Stages == 1..NumStages

\* A published value is told apart by its producer only.
Values == Producers \cup {Cancelled}

\* What an occupied slot holds.
Entry == [charge : Charges \cup {0}, value : Values]

ASSUME FlowAssumption ==
    /\ NumStages \in Nat \ {0}
    /\ Capacity \in Nat \ {0}
    /\ MaxBytes \in Nat \ {0}
    /\ MaxItems \in Nat \ {0}
    /\ SEQUENCE_MASK \in Nat \ {0}
    /\ Charges \subseteq Nat
    /\ Deps \in [Stages -> SUBSET Stages]
    /\ \A s \in Stages : \A d \in Deps[s] : d < s
    /\ Cancelled \notin Producers
    /\ None \notin Values \cup Stages \cup Entry

gates_reclamation(s) == \A t \in Stages : s \notin Deps[t]

Sinks == {s \in Stages : gates_reclamation(s)}

Slots == 0..(Capacity - 1)

SlotOf(seq) == (seq - 1) % Capacity

VARIABLES
    head,       \* last claimed sequence number (the low bits of Core.head)
    closed,     \* the CLOSED bit of Core.head
    fenced,     \* Core.fenced, with Core.failure set
    reclaimed,  \* every sequence number up to this one is recycled
    charged,    \* Core.charged
    published,  \* published[i]: sequence number that slot i holds, or 0
    entry,      \* entry[i]: its charge and value, or None
    finished,   \* finished[s]: last sequence number that s is done with
    wake,       \* wake[s]: a token is in the wake channel of s
    gate,       \* holder of reclaim_gate, or None
    gateView,   \* gateView[s]: finished[s] when s last released reclaim_gate
    prod,       \* prod[p]: the claim that producer p is making
    stage,      \* stage[s]: what the owner of stage s is doing
    log,        \* history: log[n] is what was published as number n
    got         \* history: got[s] is what stage s was given, in order

vars == <<head, closed, fenced, reclaimed, charged, published, entry, finished,
          wake, gate, gateView, prod, stage, log, got>>

ring == <<head, reclaimed, charged, published, entry, finished>>

-----------------------------------------------------------------------------
(* Types and the initial state.                                            *)

ProducerPC == {"idle", "check", "charge", "cas", "refund", "full",
               "claimed", "filled"}

StagePC == {"idle", "polling", "parked", "holding", "gate", "take", "advance",
            "failed", "drained", "gone"}

\* notified: capacity_epoch moved (or the Notify fired) since p last armed.
Claims == [pc : ProducerPC, charge : Charges \cup {0}, seq : 0..SEQUENCE_MASK,
           why : {"full", "closed", "exhausted"}, armed : BOOLEAN,
           notified : BOOLEAN]

Deliveries == [pc : StagePC, last : 0..SEQUENCE_MASK, minimum : 0..SEQUENCE_MASK]

IdleClaim == [pc |-> "idle", charge |-> 0, seq |-> 0, why |-> "full",
              armed |-> FALSE, notified |-> FALSE]

Init ==
    /\ head = 0
    /\ closed = FALSE
    /\ fenced = FALSE
    /\ reclaimed = 0
    /\ charged = 0
    /\ published = [i \in Slots |-> 0]
    /\ entry = [i \in Slots |-> None]
    /\ finished = [s \in Stages |-> 0]
    /\ wake = [s \in Stages |-> FALSE]
    /\ gate = None
    /\ gateView = [s \in Stages |-> 0]
    /\ prod = [p \in Producers |-> IdleClaim]
    /\ stage = [s \in Stages |-> [pc |-> "idle", last |-> 0, minimum |-> 0]]
    /\ log = [n \in 1..SEQUENCE_MASK |-> None]
    /\ got = [s \in Stages |-> <<>>]

-----------------------------------------------------------------------------
(* Wakeups.  The value of capacity_epoch matters only by its difference    *)
(* from what a waiter saw, so a wakeup marks every armed producer.         *)

wake_stages == wake' = [s \in Stages |-> TRUE]

\* Mutant: notify_one in place of notify_all and notify_waiters.
Notified_One(f) ==
    IF \A p \in Producers : f[p].armed => f[p].notified THEN f
    ELSE [f EXCEPT ![CHOOSE p \in Producers : f[p].armed /\ ~f[p].notified].notified = TRUE]

\* The claims after wake_capacity, starting from the claims f.
Notified(f) == [p \in Producers |-> [f[p] EXCEPT !.notified = @ \/ f[p].armed]]

\* Core::fence on the claims f.
fence(f) ==
    /\ fenced' = TRUE
    /\ closed' = TRUE
    /\ wake_stages
    /\ prod' = Notified(f)

SetProducer(p, pc) == prod' = [prod EXCEPT ![p].pc = pc]

\* The call returns to its caller.
Return(p) == prod' = [prod EXCEPT ![p] = IdleClaim]

SetStage(s, pc) == stage' = [stage EXCEPT ![s].pc = pc]

-----------------------------------------------------------------------------
(* Admission: try_claim, with the retry loops of claim_until and           *)
(* claim_async around it.                                                  *)

Start(p) ==
    /\ prod[p].pc = "idle"
    /\ \E c \in Charges :
         prod' = [prod EXCEPT ![p] = [IdleClaim EXCEPT !.pc = "check", !.charge = c]]
    /\ UNCHANGED <<ring, closed, fenced, wake, gate, gateView, stage, log, got>>

\* The early returns of try_claim: TooLarge, closed_error, Full.
CheckAdmission(p) ==
    /\ prod[p].pc = "check"
    /\ IF prod[p].charge > MaxBytes \/ closed THEN Return(p)
       ELSE SetProducer(p, IF head - reclaimed >= Capacity THEN "full" ELSE "charge")
    /\ UNCHANGED <<ring, closed, fenced, wake, gate, gateView, stage, log, got>>

Fits(c) == charged + c <= MaxBytes

\* The fetch_update of charged.
TakeCharge(p) ==
    /\ prod[p].pc = "charge"
    /\ IF Fits(prod[p].charge)
       THEN /\ charged' = charged + prod[p].charge
            /\ SetProducer(p, "cas")
       ELSE /\ SetProducer(p, "full")
            /\ UNCHANGED charged
    /\ UNCHANGED <<head, reclaimed, published, entry, finished, closed, fenced,
                   wake, gate, gateView, stage, log, got>>

\* Mutant: a full ring admits one more claim.
CanClaim_OneMore == ~closed /\ head < SEQUENCE_MASK /\ head - reclaimed <= Capacity

\* Mutant: the last sequence number is passed.
CanClaim_PastMask == ~closed /\ head <= SEQUENCE_MASK /\ head - reclaimed < Capacity

CanClaim == ~closed /\ head < SEQUENCE_MASK /\ head - reclaimed < Capacity

\* The fetch_update of head.
ClaimSequence(p) ==
    /\ prod[p].pc = "cas"
    /\ IF CanClaim
       THEN /\ head' = head + 1
            /\ prod' = [prod EXCEPT ![p].pc = "claimed", ![p].seq = head + 1]
       ELSE /\ prod' = [prod EXCEPT ![p].pc = "refund",
                                    ![p].why = IF closed THEN "closed"
                                               ELSE IF head = SEQUENCE_MASK
                                               THEN "exhausted" ELSE "full"]
            /\ UNCHANGED head
    /\ UNCHANGED <<reclaimed, charged, published, entry, finished, closed,
                   fenced, wake, gate, gateView, stage, log, got>>

\* Mutant: a claim that loses the race for the last slot keeps its charge.
Refund_KeepsCharge(p) ==
    /\ prod[p].pc = "refund"
    /\ LET woken == Notified(prod)
           back  == [woken EXCEPT ![p] = IdleClaim]
       IN  \/ /\ prod[p].why = "exhausted"
              /\ charged' = charged - prod[p].charge
              /\ fence(back)
           \/ /\ prod[p].why = "closed"
              /\ charged' = charged - prod[p].charge
              /\ prod' = back
              /\ UNCHANGED <<closed, fenced, wake>>
           \/ /\ prod[p].why = "full"
              /\ prod' = [woken EXCEPT ![p].pc = "full"]
              /\ UNCHANGED <<charged, closed, fenced, wake>>
    /\ UNCHANGED <<head, reclaimed, published, entry, finished, gate, gateView,
                   stage, log, got>>

\* The refund of a lost race, its wakeup, and the error that try_claim returns.
Refund(p) ==
    /\ prod[p].pc = "refund"
    /\ charged' = charged - prod[p].charge
    /\ LET woken == Notified(prod)
           back  == [woken EXCEPT ![p] = IdleClaim]
       IN  \/ /\ prod[p].why = "exhausted"
              /\ fence(back)
           \/ /\ prod[p].why = "closed"
              /\ prod' = back
              /\ UNCHANGED <<closed, fenced, wake>>
           \/ /\ prod[p].why = "full"
              /\ prod' = [woken EXCEPT ![p].pc = "full"]
              /\ UNCHANGED <<closed, fenced, wake>>
    /\ UNCHANGED <<head, reclaimed, published, entry, finished, gate, gateView,
                   stage, log, got>>

\* A caller of try_claim, or a waiter whose deadline passed, gives up.
GiveUp(p) ==
    /\ prod[p].pc = "full"
    /\ Return(p)
    /\ UNCHANGED <<ring, closed, fenced, wake, gate, gateView, stage, log, got>>

\* Read the generation (register the Notified) before trying again; a waiter
\* that has armed already sleeps until a wakeup.
Observe(p) ==
    /\ prod[p].pc = "full"
    /\ prod[p].armed => prod[p].notified
    /\ prod' = [prod EXCEPT ![p].pc = "check", ![p].armed = TRUE,
                            ![p].notified = FALSE]
    /\ UNCHANGED <<ring, closed, fenced, wake, gate, gateView, stage, log, got>>

\* Core::publish, first half: the slot's entry under its mutex.  A claim is
\* published with the producer's value, or cancelled by its Drop.
FillSlot(p) ==
    /\ prod[p].pc = "claimed"
    /\ \E v \in {p, Cancelled} :
         /\ entry' = [entry EXCEPT ![SlotOf(prod[p].seq)] =
                                      [charge |-> prod[p].charge, value |-> v]]
         /\ log' = [log EXCEPT ![prod[p].seq] = v]
    /\ SetProducer(p, "filled")
    /\ UNCHANGED <<head, reclaimed, charged, published, finished, closed,
                   fenced, wake, gate, gateView, stage, got>>

\* Core::publish, second half: the sequence number becomes visible.
PublishSlot(p) ==
    /\ prod[p].pc = "filled"
    /\ published' = [published EXCEPT ![SlotOf(prod[p].seq)] = prod[p].seq]
    /\ wake_stages
    /\ Return(p)
    /\ UNCHANGED <<head, reclaimed, charged, entry, finished, closed, fenced,
                   gate, gateView, stage, log, got>>

-----------------------------------------------------------------------------
(* Lifecycle control.                                                      *)

Close ==
    /\ closed' = TRUE
    /\ wake_stages
    /\ prod' = Notified(prod)
    /\ UNCHANGED <<ring, fenced, gate, gateView, stage, log, got>>

Fence ==
    /\ fence(prod)
    /\ UNCHANGED <<ring, gate, gateView, stage, log, got>>

-----------------------------------------------------------------------------
(* Stages.                                                                 *)

\* Mutant: the dependencies are not consulted.
Ready_NoDependencies(s, n) == published[SlotOf(n)] = n

\* Mutant: any published slot is taken for the next event.
Ready_AnyPublished(s, n) ==
    /\ \A d \in Deps[s] : finished[d] >= n
    /\ published[SlotOf(n)] # 0

\* Slot n is published and every dependency is past it.
Ready(s, n) ==
    /\ \A d \in Deps[s] : finished[d] >= n
    /\ published[SlotOf(n)] = n

\* The value that a stage clones out of the entry of sequence number n.
ValueAt(n) == entry[SlotOf(n)].value

Deliver(s, n) ==
    /\ stage' = [stage EXCEPT ![s].pc = "holding", ![s].last = n]
    /\ got' = [got EXCEPT ![s] = Append(@, ValueAt(n))]

\* The top of the loop of next_until: failure, then the end of the stream.
next_until(s) ==
    /\ stage[s].pc = "idle"
    /\ SetStage(s, IF fenced THEN "failed"
                   ELSE IF closed /\ finished[s] + 1 > head THEN "drained"
                   ELSE "polling")
    /\ UNCHANGED <<ring, closed, fenced, wake, gate, gateView, prod, log, got>>

\* The rest of the turn: the next slot, or the wait for a wakeup.
PollSlot(s) ==
    /\ stage[s].pc = "polling"
    /\ LET n == finished[s] + 1
       IN  \/ Ready(s, n) /\ Deliver(s, n)
           \/ ~Ready(s, n) /\ SetStage(s, "parked") /\ UNCHANGED got
    /\ UNCHANGED <<ring, closed, fenced, wake, gate, gateView, prod, log>>

Unpark(s) ==
    /\ stage[s].pc = "parked"
    /\ wake[s]
    /\ wake' = [wake EXCEPT ![s] = FALSE]
    /\ SetStage(s, "idle")
    /\ UNCHANGED <<ring, closed, fenced, gate, gateView, prod, log, got>>

\* next_until returns Deadline and its caller asks again.
StageDeadline(s) ==
    /\ stage[s].pc = "parked"
    /\ SetStage(s, "idle")
    /\ UNCHANGED <<ring, closed, fenced, wake, gate, gateView, prod, log, got>>

\* One more slot of the loop of coalesce, accepted by the caller.
coalesce(s) ==
    /\ stage[s].pc = "holding"
    /\ ~fenced
    /\ stage[s].last - finished[s] < MaxItems
    /\ stage[s].last - finished[s] < Capacity
    /\ Ready(s, stage[s].last + 1)
    /\ Deliver(s, stage[s].last + 1)
    /\ UNCHANGED <<ring, closed, fenced, wake, gate, gateView, prod, log>>

\* The store of finished by Delivery::finish and BatchDelivery::finish, with
\* the wakeup that ends them when the stage does not gate reclamation.
Finish(s) ==
    /\ stage[s].pc = "holding"
    /\ finished' = [finished EXCEPT ![s] = stage[s].last]
    /\ IF gates_reclamation(s)
       THEN SetStage(s, "gate") /\ UNCHANGED wake
       ELSE SetStage(s, "idle") /\ wake_stages
    /\ UNCHANGED <<head, reclaimed, charged, published, entry, closed, fenced,
                   gate, gateView, prod, log, got>>

\* Delivery and BatchDelivery dropped unfinished.
Abandon(s) ==
    /\ stage[s].pc = "holding"
    /\ SetStage(s, "failed")
    /\ fence(prod)
    /\ UNCHANGED <<ring, gate, gateView, log, got>>

\* Stage::drop.
DropStage(s) ==
    /\ stage[s].pc = "idle"
    /\ SetStage(s, "gone")
    /\ IF closed /\ finished[s] >= head
       THEN UNCHANGED <<closed, fenced, wake, prod>>
       ELSE fence(prod)
    /\ UNCHANGED <<ring, gate, gateView, log, got>>

-----------------------------------------------------------------------------
(* Core::reclaim.                                                          *)

\* Mutant: the loads happen before reclaim_gate is taken, so nothing orders
\* them after what a peer stored.
GateReads_BeforeLock(s) ==
    {view \in [Sinks -> 0..SEQUENCE_MASK] :
        view[s] = finished[s] /\ \A t \in Sinks : view[t] <= finished[t]}

\* What s reads of the sinks' progress under reclaim_gate.  The loads are
\* acquire loads of release stores: s certainly sees what a peer had stored
\* when the peer last released the gate, and may miss any later store.
GateReads(s) ==
    {view \in [Sinks -> 0..SEQUENCE_MASK] :
        /\ view[s] = finished[s]
        /\ \A t \in Sinks : gateView[t] <= view[t] /\ view[t] <= finished[t]}

\* Mutant: the most advanced sink decides.
MinOver_Fastest(view) == Max({view[t] : t \in Sinks})

MinOver(view) == Min({view[t] : t \in Sinks})

ReleaseGate(s) ==
    /\ gate' = None
    /\ gateView' = [gateView EXCEPT ![s] = finished[s]]

LockGate(s) ==
    /\ stage[s].pc = "gate"
    /\ gate = None
    /\ \E view \in GateReads(s) :
         IF MinOver(view) <= reclaimed
         THEN /\ SetStage(s, "idle")
              /\ ReleaseGate(s)
              /\ wake_stages
         ELSE /\ stage' = [stage EXCEPT ![s].pc = "take", ![s].minimum = MinOver(view)]
              /\ gate' = s
              /\ UNCHANGED <<wake, gateView>>
    /\ UNCHANGED <<ring, closed, fenced, prod, log, got>>

\* Mutant: only a published value gives its charge back, not a cancelled claim.
TakeEntry_KeepsCancelled(s) ==
    /\ stage[s].pc = "take"
    /\ LET i == SlotOf(reclaimed + 1)
       IN  /\ entry' = [entry EXCEPT ![i] = None]
           /\ published' = [published EXCEPT ![i] = 0]
           /\ charged' = IF entry[i].value = Cancelled THEN charged
                         ELSE charged - entry[i].charge
    /\ SetStage(s, "advance")
    /\ UNCHANGED <<head, reclaimed, finished, closed, fenced, wake, gate,
                   gateView, prod, log, got>>

\* Destroy the entry of the oldest live slot and give its charge back.
TakeEntry(s) ==
    /\ stage[s].pc = "take"
    /\ LET i == SlotOf(reclaimed + 1)
       IN  /\ entry' = [entry EXCEPT ![i] = None]
           /\ published' = [published EXCEPT ![i] = 0]
           /\ charged' = charged - entry[i].charge
    /\ SetStage(s, "advance")
    /\ UNCHANGED <<head, reclaimed, finished, closed, fenced, wake, gate,
                   gateView, prod, log, got>>

\* Only now may a producer reuse the slot.  After the last one: wake_capacity,
\* the end of the critical section, and wake_stages.
AdvanceReclaimed(s) ==
    /\ stage[s].pc = "advance"
    /\ reclaimed' = reclaimed + 1
    /\ IF reclaimed + 1 < stage[s].minimum
       THEN /\ SetStage(s, "take")
            /\ UNCHANGED <<wake, gate, gateView, prod>>
       ELSE /\ stage' = [stage EXCEPT ![s].pc = "idle", ![s].minimum = 0]
            /\ prod' = Notified(prod)
            /\ ReleaseGate(s)
            /\ wake_stages
    /\ UNCHANGED <<head, charged, published, entry, finished, closed, fenced,
                   log, got>>

-----------------------------------------------------------------------------
ProducerStep(p) ==
    \/ CheckAdmission(p) \/ TakeCharge(p) \/ ClaimSequence(p)
    \/ Refund(p) \/ Observe(p) \/ FillSlot(p) \/ PublishSlot(p)

StageStep(s) ==
    \/ next_until(s) \/ PollSlot(s) \/ Unpark(s) \/ Finish(s)
    \/ LockGate(s) \/ TakeEntry(s) \/ AdvanceReclaimed(s)

Next ==
    \/ \E p \in Producers : Start(p) \/ GiveUp(p) \/ ProducerStep(p)
    \/ \E s \in Stages :
         coalesce(s) \/ Abandon(s) \/ DropStage(s) \/ StageDeadline(s) \/ StageStep(s)
    \/ Close
    \/ Fence

Spec == Init /\ [][Next]_vars

(* A thread inside one of these calls keeps running, a claim that was      *)
(* obtained is published or dropped, and a delivery that was taken is      *)
(* finished or abandoned.  Nothing is assumed of callers: a claim need not *)
(* be started, a deadline need not pass, close need not be called.         *)
Fairness ==
    /\ \A p \in Producers : WF_vars(ProducerStep(p))
    /\ \A s \in Stages : WF_vars(StageStep(s))

FairSpec == Spec /\ Fairness

-----------------------------------------------------------------------------
(* Properties.                                                             *)

\* Every variable has its type.
TypeOK ==
    /\ head \in 0..SEQUENCE_MASK
    /\ closed \in BOOLEAN
    /\ fenced \in BOOLEAN
    /\ reclaimed \in 0..SEQUENCE_MASK
    /\ charged \in Int
    /\ published \in [Slots -> 0..SEQUENCE_MASK]
    /\ entry \in [Slots -> Entry \cup {None}]
    /\ finished \in [Stages -> 0..SEQUENCE_MASK]
    /\ wake \in [Stages -> BOOLEAN]
    /\ gate \in Stages \cup {None}
    /\ gateView \in [Stages -> 0..SEQUENCE_MASK]
    /\ prod \in [Producers -> Claims]
    /\ stage \in [Stages -> Deliveries]
    /\ log \in [1..SEQUENCE_MASK -> Values \cup {None}]
    /\ got \in [Stages -> Seq(Values)]

\* The claim of number n that has not been published yet.
Claimants(n) == {p \in Producers : prod[p].pc \in {"claimed", "filled"} /\ prod[p].seq = n}

\* Between take() and the store of reclaimed, slot reclaimed + 1 is empty.
Taking == \E s \in Stages : stage[s].pc = "advance"

OldestLive == reclaimed + (IF Taking THEN 2 ELSE 1)

\* Slot n holds the entry its producer wrote and is visible to the stages.
IsPublished(n) ==
    /\ Claimants(n) = {}
    /\ published[SlotOf(n)] = n
    /\ entry[SlotOf(n)] # None
    /\ entry[SlotOf(n)].value = log[n]

\* Slot n belongs to one claim that has not been published.
IsReserved(n) ==
    /\ published[SlotOf(n)] = 0
    /\ \E p \in Producers :
         /\ Claimants(n) = {p}
         /\ \/ prod[p].pc = "claimed" /\ entry[SlotOf(n)] = None
            \/ /\ prod[p].pc = "filled"
               /\ entry[SlotOf(n)] # None
               /\ entry[SlotOf(n)].value = log[n]

\* Each live sequence number owns its ring slot alone: it is either held by
\* exactly one unpublished claim, or published with the entry its producer
\* wrote.  In particular the two "expect" calls of flow.rs ("published slot has
\* entry", "finished slot retains its entry") cannot panic.
SlotOwnership ==
    /\ head - reclaimed <= Capacity
    /\ \A n \in OldestLive..head : IsPublished(n) \/ IsReserved(n)

\* No slot is recycled while a stage still holds it or has not reached it, and
\* no stage passes a stage it depends on: only sinks gate reclamation, which is
\* enough because every stage is below some sink.
ReclaimBehindStages ==
    \A s \in Stages :
        /\ reclaimed <= finished[s]
        /\ \A d \in Deps[s] : Len(got[s]) <= finished[d]
        /\ stage[s].pc = "holding" =>
             \A n \in (finished[s] + 1)..stage[s].last : published[SlotOf(n)] = n

\* Core.charged is exactly what unfinished claims and live entries hold, and
\* never exceeds max_bytes, whatever the order of charges, refunds and
\* reclamation.
ChargeConserved ==
    LET claiming == {p \in Producers : prod[p].pc \in {"cas", "refund", "claimed"}}
        live     == {i \in Slots : entry[i] # None}
    IN  /\ charged = MapThenSumSet(LAMBDA p : prod[p].charge, claiming)
                     + MapThenSumSet(LAMBDA i : entry[i].charge, live)
        /\ charged <= MaxBytes

\* The contract of the module (see Broadcast): every stage is given the same
\* values, each once and in order.
Contract == INSTANCE Broadcast WITH
    log  <- [n \in 1..head |-> log[n]],
    done <- finished

BroadcastSpec == Contract!Spec

-----------------------------------------------------------------------------
(* The inductive invariant behind SlotOwnership, ReclaimBehindStages and   *)
(* BroadcastSpec.                                                          *)

GateHolder(s) == stage[s].pc \in {"take", "advance"}

\* reclaim_gate is held exactly by the stage inside the critical section, and
\* that stage recycles only what every sink has finished.
GateInv ==
    \A s \in Stages :
        /\ GateHolder(s) <=> gate = s
        /\ GateHolder(s) => /\ reclaimed < stage[s].minimum
                            /\ \A t \in Sinks : stage[s].minimum <= finished[t]

\* The cursors of a stage, between the reclaimed frontier and the head.
CursorInv ==
    \A s \in Stages :
        /\ gateView[s] <= finished[s]
        /\ finished[s] <= stage[s].last
        /\ stage[s].last <= head
        /\ stage[s].pc \notin {"holding", "failed"} => finished[s] = stage[s].last
        /\ stage[s].pc = "holding" => finished[s] < stage[s].last
        /\ stage[s].pc = "gate" \/ GateHolder(s) => s \in Sinks
        /\ s \in Sinks => reclaimed <= finished[s]
        /\ \A d \in Deps[s] : stage[s].last <= finished[d]

\* The ring: numbers reclaimed + 1 .. reclaimed + Capacity name every slot once.
SlotInv ==
    /\ reclaimed <= head
    /\ head <= reclaimed + Capacity
    /\ \A n \in (reclaimed + 1)..(reclaimed + Capacity) :
         IF OldestLive <= n /\ n <= head
         THEN IsPublished(n) \/ IsReserved(n)
         ELSE published[SlotOf(n)] = 0 /\ entry[SlotOf(n)] = None
    /\ \A s \in Stages : \A n \in OldestLive..stage[s].last : IsPublished(n)
    /\ \A p \in Producers :
         prod[p].pc \in {"claimed", "filled"} => OldestLive <= prod[p].seq /\ prod[p].seq <= head

\* What was published, and what the stages were given of it.
LogInv ==
    /\ \A n \in (head + 1)..SEQUENCE_MASK : log[n] = None
    /\ \A p \in Producers : prod[p].pc = "claimed" => log[prod[p].seq] = None
    /\ \A s \in Stages : Len(got[s]) = stage[s].last

\* The invariant that every step preserves.
IndInv == TypeOK /\ GateInv /\ CursorInv /\ SlotInv /\ LogInv

-----------------------------------------------------------------------------
(* Liveness.                                                               *)

\* A producer asleep in claim_until or claim_async wakes: no capacity, closure
\* or failure notification is lost between its check and its sleep.
WaitersWake ==
    \A p \in Producers :
        (prod[p].pc = "full" /\ prod[p].armed) ~> (prod[p].pc # "full")

\* close() drains: without a failure every stage sees the end of the stream
\* and every slot and charge comes back; with one, every stage stops.
CloseDrains ==
    closed ~> \/ /\ ~fenced
                 /\ \A s \in Stages : stage[s].pc \in {"drained", "gone"}
                 /\ reclaimed = head
                 /\ charged = 0
              \/ /\ fenced
                 /\ \A s \in Stages : stage[s].pc \in {"failed", "drained", "gone"}

=============================================================================
