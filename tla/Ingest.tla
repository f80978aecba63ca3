------------------------------- MODULE Ingest -------------------------------
(***************************************************************************)
(* Ingestion from admission to the client's answer: the registry and the   *)
(* four workers of src/src/ingest_flow.rs and ingest_flow_workers.rs, the  *)
(* publication gate, group preparation (engine.rs) and the commit boundary *)
(* (commit_boundary.rs), next to a caller that writes directly.            *)
(*                                                                         *)
(* The ring is used through what module Flow proves of it: claimed events  *)
(* in order, one finished cursor per stage, each stage behind the one      *)
(* before.  A critical section under the book's or State's mutex is one    *)
(* step.  A request is its request id; admission arithmetic is a choice    *)
(* between accepting and rejecting it.                                     *)
(***************************************************************************)
EXTENDS Integers, Sequences, FiniteSets, FiniteSetsExt

CONSTANTS
  Ids,          \* request ids
  DirectIds,    \* the ones a caller may also write without the ingestor
  WaitIds,      \* the ones a caller may submit waiting for capacity
  Barrier,      \* the request of a flush event
  Err,          \* an error result
  NoAnswer,     \* no result yet
  Capacity,     \* queue_capacity
  MaxGroup,     \* max_group_requests
  MaxEvents,    \* bound: events admitted in one run of the process
  MaxFaults,    \* bound: panics and remote fences in one run
  MaxRuns       \* bound: process runs

ASSUME IngestAssumption ==
  /\ Capacity \in Nat \ {0} /\ MaxGroup \in Nat \ {0}
  /\ MaxEvents \in Nat /\ MaxFaults \in Nat /\ MaxRuns \in Nat \ {0}
  /\ DirectIds \subseteq Ids /\ WaitIds \subseteq Ids /\ Barrier \notin Ids
  /\ Err \notin Nat /\ NoAnswer \notin Nat /\ Err # NoAnswer

\* The four stages and the thread of a direct writer.
Stages == 1..4
Validator == 1
Preparer == 2
Committer == 3
Completer == 4
Direct == 5

VARIABLES
  events,    \* the request of each event of the ring
  payload,   \* Event.payload of each
  finished,  \* finished[s], the ring's cursor of stage s
  flow,      \* the ring's closed and fenced flags
  book,      \* Book: entries, validated, published, closed, failed
  worker,    \* the threads: program counter, delivery, epoch they own
  left,      \* workers_left
  waiter,    \* a caller in submit_wait
  gate,      \* PublicationGate: held, poisoned
  state,     \* State: sequence, receipts, fenced; poisoned is its mutex
  wal,       \* the durable log: the ids each sequence committed
  answer,    \* what the completion channel of each event was sent
  acked,     \* history: every successful answer, <<id, sequence>>
  faults,    \* history: panics and remote fences of this run
  runs       \* history: starts of the process

history == <<acked, faults, runs>>
ringVars == <<events, payload, finished, flow>>
vars == <<events, payload, finished, flow, book, worker, left, waiter, gate, state, wal,
          answer, acked, faults, runs>>

Results == Nat \cup {Err}

(***************************************************************************)
(* Data                                                                    *)
(***************************************************************************)

\* PreparedEpoch.  sequence # 0: it has a publication, and owns the lease.
\* retried: its off-lock checkpoint was used.
NoEpoch == [ids |-> <<>>, results |-> <<>>, sequence |-> 0, retried |-> FALSE]

NewEpoch(ids) == [NoEpoch EXCEPT !.ids = ids, !.results = [k \in DOMAIN ids |-> Err]]

Leased(e) == e.sequence # 0

\* The requests the epoch's publication commits.
Items(e) == {e.ids[k] : k \in {j \in DOMAIN e.ids : e.results[j] = e.sequence}}

\* Payload.
Empty == [kind |-> "empty", result |-> NoAnswer, epoch |-> NoEpoch]
Input == [Empty EXCEPT !.kind = "input"]
Validated == [Empty EXCEPT !.kind = "validated"]
EpochOf(e) == [Empty EXCEPT !.kind = "epoch", !.epoch = e]
Member == [Empty EXCEPT !.kind = "member"]
Written(r) == [Empty EXCEPT !.kind = "written", !.result = r]
Flushed(r) == [Empty EXCEPT !.kind = "barrier", !.result = r]

Idle == [pc |-> "idle", first |-> 0, count |-> 0, epoch |-> NoEpoch]

\* The events of worker w's delivery or batch.
Batch(w) == worker[w].first..(worker[w].first + worker[w].count - 1)
Last(w) == worker[w].first + worker[w].count - 1

NoWaiter == [pc |-> "none", id |-> Barrier, notified |-> FALSE]

\* Notify::notify_waiters on the ingestor's capacity.  It comes right after the
\* critical section that made room; who registers in between finds the room.
notify_waiters == waiter' = [waiter EXCEPT !.notified = waiter.pc # "none"]

healthy == ~state.fenced /\ ~state.poisoned

\* What replaying the log installs.
Replayed(log) == [id \in Ids |-> Max({0} \cup {n \in DOMAIN log : id \in log[n]})]

Init ==
  /\ events = <<>> /\ payload = <<>> /\ answer = <<>>
  /\ finished = [s \in Stages |-> 0]
  /\ flow = [closed |-> FALSE, fenced |-> FALSE]
  /\ book = [entries |-> {}, validated |-> 0, published |-> 0,
             closed |-> FALSE, failed |-> FALSE]
  /\ worker = [w \in Stages \cup {Direct} |-> Idle]
  /\ left = 4 /\ waiter = NoWaiter
  /\ gate = [held |-> FALSE, poisoned |-> FALSE]
  /\ state = [sequence |-> 0, receipts |-> [id \in Ids |-> 0],
              fenced |-> FALSE, poisoned |-> FALSE]
  /\ wal = <<>> /\ acked = {} /\ faults = 0 /\ runs = 1

(***************************************************************************)
(* Callers                                                                 *)
(***************************************************************************)

\* Mutant: the entry is registered under the sequence before the claim.
Admit_StaleClaim(request, p) ==
  /\ ~book.closed /\ ~flow.closed /\ ~flow.fenced
  /\ Len(events) < MaxEvents
  /\ Len(events) - finished[Completer] < Capacity
  /\ events' = Append(events, request)
  /\ payload' = Append(payload, p)
  /\ answer' = Append(answer, NoAnswer)
  /\ book' = [book EXCEPT !.entries = @ \cup {Len(events)}]
  /\ UNCHANGED <<finished, flow, worker, left, gate, state, wal, history>>

\* Claim, registry insertion and publication under the book's mutex.
Admit(request, p) ==
  /\ ~book.closed /\ ~flow.closed /\ ~flow.fenced
  /\ Len(events) < MaxEvents
  /\ Len(events) - finished[Completer] < Capacity
  /\ events' = Append(events, request)
  /\ payload' = Append(payload, p)
  /\ answer' = Append(answer, NoAnswer)
  /\ book' = [book EXCEPT !.entries = @ \cup {Len(events) + 1}]
  /\ UNCHANGED <<finished, flow, worker, left, gate, state, wal, history>>

enqueue(id) == Admit(id, Input) /\ UNCHANGED waiter

flush == Admit(Barrier, Flushed(NoAnswer)) /\ UNCHANGED waiter

\* submit_wait registers with the ingestor's Notify before it tries.
submit_wait(id) ==
  /\ id \in WaitIds /\ waiter.pc = "none"
  /\ waiter' = [pc |-> "trying", id |-> id, notified |-> FALSE]
  /\ UNCHANGED <<ringVars, book, worker, left, gate, state, wal, answer, history>>

\* try_enqueue refused because of a closed ingestor, or full.
Refused == book.closed \/ flow.closed \/ flow.fenced

Full == ~Refused /\ Len(events) - finished[Completer] >= Capacity

TryEnqueue ==
  /\ waiter.pc = "trying"
  /\ \/ Admit(waiter.id, Input) /\ waiter' = NoWaiter
     \/ /\ Refused /\ waiter' = NoWaiter
        /\ UNCHANGED <<ringVars, book, worker, left, gate, state, wal, answer, history>>
     \/ /\ Full /\ waiter' = [waiter EXCEPT !.pc = "full"]
        /\ UNCHANGED <<ringVars, book, worker, left, gate, state, wal, answer, history>>

\* Mutant: the Notify is registered after the attempt failed.
Await_RegistersLate ==
  /\ waiter.pc = "full"
  /\ waiter' = [waiter EXCEPT !.pc = "asleep", !.notified = FALSE]
  /\ UNCHANGED <<ringVars, book, worker, left, gate, state, wal, answer, history>>

\* A notification since the registration ends the await at once.
Await ==
  /\ waiter.pc = "full"
  /\ waiter' = [waiter EXCEPT !.pc = "asleep"]
  /\ UNCHANGED <<ringVars, book, worker, left, gate, state, wal, answer, history>>

\* The await returns; the next turn of the loop registers anew.
WakeUp ==
  /\ waiter.pc = "asleep" /\ waiter.notified
  /\ waiter' = [waiter EXCEPT !.pc = "trying", !.notified = FALSE]
  /\ UNCHANGED <<ringVars, book, worker, left, gate, state, wal, answer, history>>

\* The caller drops the future while it waits.
CancelWait ==
  /\ waiter.pc = "asleep"
  /\ waiter' = NoWaiter
  /\ UNCHANGED <<ringVars, book, worker, left, gate, state, wal, answer, history>>

close ==
  /\ ~book.closed
  /\ book' = [book EXCEPT !.closed = TRUE]
  /\ flow' = [flow EXCEPT !.closed = TRUE]
  /\ notify_waiters
  /\ UNCHANGED <<events, payload, finished, worker, left, gate, state, wal, answer, history>>

\* A direct caller enters write_group_attempts with one request.
write_group(id) ==
  /\ id \in DirectIds /\ worker[Direct].pc = "idle"
  /\ worker' = [worker EXCEPT ![Direct] = [Idle EXCEPT !.pc = "locking",
                                                       !.epoch = NewEpoch(<<id>>)]]
  /\ UNCHANGED <<ringVars, book, left, waiter, gate, state, wal, answer, history>>

DirectReturn ==
  LET e == worker[Direct].epoch
  IN  /\ worker[Direct].pc = "done"
      /\ acked' = acked \cup {<<e.ids[k], e.results[k]>> :
                              k \in {j \in DOMAIN e.ids : e.results[j] # Err}}
      /\ worker' = [worker EXCEPT ![Direct] = Idle]
      /\ UNCHANGED <<ringVars, book, left, waiter, gate, state, wal, answer, faults, runs>>

\* A remote compare-and-swap that finds another owner fences State.
RemoteFence ==
  /\ ~state.fenced /\ faults < MaxFaults
  /\ state' = [state EXCEPT !.fenced = TRUE]
  /\ faults' = faults + 1
  /\ UNCHANGED <<ringVars, book, worker, left, waiter, gate, wal, answer, acked, runs>>

(***************************************************************************)
(* The loop every worker runs                                              *)
(***************************************************************************)

SetWorker(w, pc) == worker' = [worker EXCEPT ![w].pc = pc]

\* "idle" is a worker past next_until's failure check, polling or parked.
\* Back at the top of its loop a worker fails if the ring is fenced.
Again(w) ==
  worker' = [worker EXCEPT ![w] =
               [Idle EXCEPT !.pc = IF flow.fenced THEN "failed" ELSE "idle"]]

\* What next_until delivers: the event after the stage's cursor, once the
\* stage before it is done with it.
Delivery(w) == finished[w] + 1

Ready(w) ==
  /\ worker[w].pc = "idle"
  /\ Delivery(w) <= IF w = Validator THEN Len(events) ELSE finished[w - 1]

\* Mutant: the gate does not wait for its holder.
GateFree_WhileHeld == ~gate.poisoned

\* PublicationGate::lock succeeds without waiting.
GateFree == ~gate.poisoned /\ ~gate.held

\* Mutant: a dropped lease never poisons the gate.
Dropped_NeverPoisons(e, poisons) ==
  IF Leased(e) THEN [gate EXCEPT !.held = FALSE] ELSE gate

\* Mutant: poisoning the gate does not release it.
Dropped_HeldWhenPoisoned(e, poisons) ==
  IF Leased(e) THEN [held |-> poisons, poisoned |-> gate.poisoned \/ poisons] ELSE gate

\* Dropping an epoch drops its lease, which poisons the gate if its append
\* may have happened or the thread is panicking.
Dropped(e, poisons) ==
  IF Leased(e) THEN [held |-> FALSE, poisoned |-> gate.poisoned \/ poisons] ELSE gate

\* Where a panic may hold State's mutex.
MayHoldState(w) == \/ worker[w].pc = "locking" /\ GateFree
                   \/ worker[w].pc = "durable"

Log(e) == Append(wal, Items(e))

\* A panic unwinds through the delivery, the epoch and the stage.  A stage
\* dropped after the closed ring was drained does not fence it.
Panic(w) ==
  LET drained == flow.closed /\ finished[w] = Len(events)
  IN  /\ faults < MaxFaults
      /\ Ready(w) \/ worker[w].pc \notin {"idle", "failed", "gone"}
      /\ faults' = faults + 1
      /\ flow' = [flow EXCEPT !.fenced = @ \/ ~drained]
      /\ worker' = [worker EXCEPT ![w] = [Idle EXCEPT !.pc = "failed"]]
      /\ \/ gate' = Dropped(worker[w].epoch, TRUE) /\ UNCHANGED state
         \/ /\ MayHoldState(w)
            /\ gate' = [held |-> FALSE, poisoned |-> TRUE]
            /\ state' \in {state, [state EXCEPT !.poisoned = TRUE]}
      /\ UNCHANGED <<events, payload, finished, book, left, waiter, wal, answer, acked, runs>>

\* next_until returns because the closed ring is drained or it is fenced, or
\* the worker failed.
Stops(w) ==
  \/ worker[w].pc = "failed"
  \/ worker[w].pc = "idle" /\ (flow.fenced \/ (flow.closed /\ finished[w] = Len(events)))

\* Mutant: the senders are answered, the payloads stay.
fail_pending_AnswersOnly ==
  /\ answer' = [n \in DOMAIN answer |-> IF n \in book.entries THEN Err ELSE answer[n]]
  /\ book' = [book EXCEPT !.entries = {}, !.closed = TRUE, !.failed = TRUE]
  /\ UNCHANGED <<payload, gate>>

\* fail_pending destroys what the ring still owns, then answers.
fail_pending ==
  /\ payload' = [n \in DOMAIN payload |-> IF n \in book.entries THEN Empty ELSE payload[n]]
  /\ gate' = IF \E n \in book.entries : Leased(payload[n].epoch)
             THEN [gate EXCEPT !.held = FALSE] ELSE gate
  /\ answer' = [n \in DOMAIN answer |-> IF n \in book.entries THEN Err ELSE answer[n]]
  /\ book' = [book EXCEPT !.entries = {}, !.closed = TRUE, !.failed = TRUE]

\* Mutant: a failed worker leaves without fencing.
worker_finished_WithoutFence(w) ==
  LET fenced == flow.fenced
  IN  /\ Stops(w)
      /\ SetWorker(w, "gone")
      /\ left' = left - 1
      /\ IF left = 1 /\ fenced THEN fail_pending ELSE UNCHANGED <<payload, gate, answer, book>>
      /\ UNCHANGED <<events, finished, flow, waiter, state, wal, history>>

\* A failed worker, or one that finds the ring fenced, fences both ring and
\* book; the last one out of a fenced ring fails what is pending.  Nobody
\* reads workers_left in between, so the fence and the decrement are one step.
worker_finished(w) ==
  LET fenced == worker[w].pc = "failed" \/ flow.fenced
  IN  /\ Stops(w)
      /\ SetWorker(w, "gone")
      /\ left' = left - 1
      /\ flow' = [flow EXCEPT !.fenced = fenced]
      /\ IF fenced THEN notify_waiters ELSE UNCHANGED waiter
      /\ IF left = 1 /\ fenced THEN fail_pending
         ELSE /\ book' = [book EXCEPT !.closed = @ \/ fenced, !.failed = @ \/ fenced]
              /\ UNCHANGED <<payload, gate, answer>>
      /\ UNCHANGED <<events, finished, state, wal, history>>

(***************************************************************************)
(* Stage 1: validate                                                       *)
(***************************************************************************)

\* Static validation; its refusal is one of the errors of Outcome.
validate ==
  LET n == Delivery(Validator)
  IN  /\ Ready(Validator)
      /\ payload' = [payload EXCEPT ![n] = IF events[n] = Barrier THEN @ ELSE Validated]
      /\ finished' = [finished EXCEPT ![Validator] = n]
      /\ SetWorker(Validator, "report")
      /\ UNCHANGED <<events, flow, book, left, waiter, gate, state, wal, answer, history>>

validated ==
  /\ worker[Validator].pc = "report"
  /\ book' = [book EXCEPT !.validated = finished[Validator]]
  /\ Again(Validator)
  /\ UNCHANGED <<ringVars, left, waiter, gate, state, wal, answer, history>>

(***************************************************************************)
(* Stage 2: prepare                                                        *)
(***************************************************************************)

PrepareBarrier ==
  /\ Ready(Preparer)
  /\ events[Delivery(Preparer)] = Barrier
  /\ finished' = [finished EXCEPT ![Preparer] = @ + 1]
  /\ Again(Preparer)
  /\ UNCHANGED <<events, payload, flow, book, left, waiter, gate, state, wal, answer, history>>

\* The lengths group_len may return: validated writes from first on, up to a
\* barrier or the request limit, fewer where the row or byte limit or the
\* batching deadline comes first; at least one.
group_len(first) ==
  {1} \cup {k \in 1..MaxGroup :
              /\ first + k - 1 <= book.validated
              /\ \A n \in first..(first + k - 1) : events[n] # Barrier}

\* group_len and coalesce; the inputs move from the ring to the epoch.
Gather ==
  LET first == Delivery(Preparer)
  IN  /\ Ready(Preparer) /\ events[first] # Barrier
      /\ \E count \in group_len(first) :
           LET last == first + count - 1
           IN  IF book.failed \/ flow.fenced \/ finished[Validator] < last
               THEN /\ flow' = [flow EXCEPT !.fenced = TRUE]
                    /\ SetWorker(Preparer, "failed")
                    /\ UNCHANGED payload
               ELSE /\ payload' = [n \in DOMAIN payload |->
                                     IF n \in first..last THEN Empty ELSE payload[n]]
                    /\ worker' = [worker EXCEPT ![Preparer] =
                         [pc |-> "locking", first |-> first, count |-> count,
                          epoch |-> NewEpoch([k \in 1..count |-> events[first + k - 1]])]]
                    /\ UNCHANGED flow
      /\ UNCHANGED <<events, finished, book, left, waiter, gate, state, wal, answer, history>>

next_sequence == state.sequence + 1

\* Mutant: receipts are not looked up again after the off-lock checkpoint.
Outcome_NoRecheck(e, k) ==
  IF e.results[k] # Err THEN {e.results[k]}
  ELSE IF state.receipts[e.ids[k]] # 0 /\ ~e.retried THEN {Err, state.receipts[e.ids[k]]}
  ELSE {Err, next_sequence}

\* resolve_group_durable and the overlay: a result kept from before an
\* off-lock checkpoint stays; an id with a receipt is its duplicate, or is
\* refused by its window or its digest; a new id is accepted at the next
\* sequence or refused; a second occurrence in the group shares its fate
\* or is refused.
Outcome(e, k) ==
  IF e.results[k] # Err THEN {e.results[k]}
  ELSE IF state.receipts[e.ids[k]] # 0 THEN {Err, state.receipts[e.ids[k]]}
  ELSE {Err, next_sequence}

\* The outcomes already durable: all a failed preparation may report.
Durable(e) ==
  {r \in [DOMAIN e.ids -> 1..state.sequence \cup {Err}] :
     \A k \in DOMAIN e.ids : r[k] \in Outcome(e, k)}

Outcomes(e) ==
  {r \in [DOMAIN e.ids -> 1..next_sequence \cup {Err}] :
     \A k \in DOMAIN e.ids : r[k] \in Outcome(e, k)}

\* prepare_group_attempts, from the gate to the prepared epoch.  Without
\* an accepted request there is no publication and the lease is dropped.
\* A poisoned gate or a State that is not healthy fails the new requests.
prepare_epoch(w) ==
  LET e == worker[w].epoch
      Prepared(r, sequence) ==
        worker' = [worker EXCEPT ![w].pc = "prepared", ![w].epoch.results = r,
                                 ![w].epoch.sequence = sequence]
  IN  /\ worker[w].pc = "locking"
      /\ \/ /\ gate.poisoned \/ (GateFree /\ ~healthy)
            /\ \/ Prepared(e.results, 0)
               \/ /\ e.retried /\ ~gate.poisoned /\ ~state.poisoned
                  /\ \E r \in Durable(e) : Prepared(r, 0)
            /\ UNCHANGED gate
         \/ /\ GateFree /\ healthy
            /\ \E r \in Outcomes(e) :
                 LET accepted == \E k \in DOMAIN r : r[k] = next_sequence
                 IN  /\ Prepared(r, IF accepted THEN next_sequence ELSE 0)
                     /\ gate' = [gate EXCEPT !.held = @ \/ accepted]
      /\ UNCHANGED <<ringVars, book, left, waiter, state, wal, answer, history>>

\* Pressure: give the gate up for one off-lock checkpoint, keeping what is
\* durable, and prepare again.
PressureCheckpoint(w) ==
  LET e == worker[w].epoch
  IN  /\ worker[w].pc = "locking" /\ ~e.retried
      /\ GateFree /\ healthy
      /\ \E r \in Durable(e) :
           worker' = [worker EXCEPT ![w].epoch.results = r, ![w].epoch.retried = TRUE]
      /\ UNCHANGED <<ringVars, book, left, waiter, gate, state, wal, answer, history>>

\* The epoch, lease included, goes into the ring with the first event.
Handover ==
  LET w == worker[Preparer]
  IN  /\ w.pc = "prepared"
      /\ payload' = [n \in DOMAIN payload |->
                       IF n = w.first THEN EpochOf(w.epoch)
                       ELSE IF n \in Batch(Preparer) THEN Member ELSE payload[n]]
      /\ finished' = [finished EXCEPT ![Preparer] = Last(Preparer)]
      /\ worker' = [worker EXCEPT ![Preparer].pc = "await", ![Preparer].epoch = NoEpoch]
      /\ UNCHANGED <<events, flow, book, left, waiter, gate, state, wal, answer, history>>

\* Mutant: the preparer goes on to the gate without waiting for publication.
await_publication_AtGate ==
  /\ worker[Preparer].pc = "await"
  /\ Again(Preparer)
  /\ UNCHANGED <<ringVars, book, left, waiter, gate, state, wal, answer, history>>

\* Mutant: only publication ends the wait.
await_publication_IgnoresFailure ==
  /\ worker[Preparer].pc = "await"
  /\ book.published >= Last(Preparer) /\ Again(Preparer)
  /\ UNCHANGED <<ringVars, book, left, waiter, gate, state, wal, answer, history>>

await_publication ==
  /\ worker[Preparer].pc = "await"
  /\ \/ book.published >= Last(Preparer) /\ Again(Preparer) /\ UNCHANGED flow
     \/ book.published < Last(Preparer) /\ book.failed /\ SetWorker(Preparer, "failed")
        /\ flow' = [flow EXCEPT !.fenced = TRUE]
  /\ UNCHANGED <<events, payload, finished, book, left, waiter, gate, state, wal, answer, history>>

(***************************************************************************)
(* Stage 3: commit                                                         *)
(***************************************************************************)

CommitBarrier ==
  LET n == Delivery(Committer)
  IN  /\ Ready(Committer) /\ events[n] = Barrier
      /\ payload' = [payload EXCEPT ![n] =
                       Flushed(IF state.poisoned THEN Err ELSE state.sequence)]
      /\ finished' = [finished EXCEPT ![Committer] = n]
      /\ SetWorker(Committer, "report")
      /\ UNCHANGED <<events, flow, book, left, waiter, gate, state, wal, answer, history>>

\* The epoch leaves the ring; a fence seen by coalesce drops it.
TakeEpoch ==
  LET first == Delivery(Committer)
      e == payload[first].epoch
      last == first + Len(e.ids) - 1
  IN  /\ Ready(Committer) /\ events[first] # Barrier
      /\ payload[first].kind = "epoch"
      /\ IF flow.fenced
         THEN /\ gate' = Dropped(e, FALSE)
              /\ payload' = [payload EXCEPT ![first] = Empty]
              /\ SetWorker(Committer, "failed")
         ELSE /\ payload' = [n \in DOMAIN payload |->
                               IF n \in first..last THEN Empty ELSE payload[n]]
              /\ worker' = [worker EXCEPT ![Committer] =
                   [pc |-> "prepared", first |-> first, count |-> Len(e.ids), epoch |-> e]]
              /\ UNCHANGED gate
      /\ UNCHANGED <<events, finished, flow, book, left, waiter, state, wal, answer, history>>

\* Mutant: an in-group duplicate keeps its receipt.
Failed_AcceptedOnly(e) ==
  [k \in DOMAIN e.results |->
     IF e.results[k] = e.sequence /\ \A j \in 1..(k - 1) : e.ids[j] # e.ids[k]
     THEN Err ELSE e.results[k]]

\* PreparedEpoch::fail: every result of the failed publication becomes an
\* error, also an in-group duplicate; the lease goes, poisoning the gate if
\* the append may have happened.
Failed(e) ==
  [k \in DOMAIN e.results |-> IF e.results[k] = e.sequence THEN Err ELSE e.results[k]]

\* Mutant: an ambiguous failure neither poisons the gate nor fences State.
fail_LeavesGate(w, ambiguous) ==
  LET e == worker[w].epoch
  IN  /\ worker' = [worker EXCEPT ![w].pc = "done",
                                  ![w].epoch = [e EXCEPT !.results = Failed(e),
                                                         !.sequence = 0]]
      /\ gate' = [gate EXCEPT !.held = FALSE]
      /\ UNCHANGED state

fail(w, ambiguous) ==
  LET e == worker[w].epoch
  IN  /\ worker' = [worker EXCEPT ![w].pc = "done",
                                  ![w].epoch = [e EXCEPT !.results = Failed(e),
                                                         !.sequence = 0]]
      /\ gate' = Dropped(e, ambiguous)
      /\ state' = [state EXCEPT !.fenced = @ \/ (ambiguous /\ ~state.poisoned)]

\* The log refuses a sequence it already holds.
Fresh(e) == e.sequence = Len(wal) + 1

\* The append is durable, refused before any I/O, or ambiguous.
publish_append(w) ==
  LET e == worker[w].epoch
  IN  \/ /\ Fresh(e)
         /\ wal' = Log(e)
         /\ SetWorker(w, "durable") /\ UNCHANGED <<gate, state>>
      \/ /\ fail(w, FALSE) /\ UNCHANGED wal
      \/ /\ fail(w, TRUE)
         /\ wal' \in {wal} \cup (IF Fresh(e) THEN {Log(e)} ELSE {})

\* A fence of State observed before the append prevents it.
sync(w) ==
  LET e == worker[w].epoch
  IN  /\ worker[w].pc = "prepared"
      /\ \/ /\ ~Leased(e)
            /\ SetWorker(w, "done") /\ UNCHANGED <<gate, state, wal>>
         \/ /\ Leased(e) /\ ~healthy
            /\ fail(w, FALSE) /\ UNCHANGED wal
         \/ /\ Leased(e) /\ healthy
            /\ publish_append(w)
      /\ UNCHANGED <<ringVars, book, left, waiter, answer, history>>

\* Mutant: the installed sequence is not recorded.
install_KeepsSequence(w) ==
  LET e == worker[w].epoch
  IN  /\ worker[w].pc = "durable"
      /\ IF ~healthy
         THEN fail(w, TRUE)
         ELSE /\ state' = [state EXCEPT !.receipts =
                             [id \in Ids |-> IF id \in Items(e) THEN e.sequence ELSE @[id]]]
              /\ gate' = Dropped(e, FALSE)
              /\ worker' = [worker EXCEPT ![w].pc = "done", ![w].epoch.sequence = 0]
      /\ UNCHANGED <<ringVars, book, left, waiter, wal, answer, history>>

\* Mutant: the fence is not looked at again after the append.
install_DespiteFence(w) ==
  LET e == worker[w].epoch
  IN  /\ worker[w].pc = "durable"
      /\ state' = [state EXCEPT !.sequence = e.sequence, !.receipts =
                     [id \in Ids |-> IF id \in Items(e) THEN e.sequence ELSE @[id]]]
      /\ gate' = Dropped(e, FALSE)
      /\ worker' = [worker EXCEPT ![w].pc = "done", ![w].epoch.sequence = 0]
      /\ UNCHANGED <<ringVars, book, left, waiter, wal, answer, history>>

\* DurableEpoch::install: visible and released in one step under State; a
\* fence that came during the append forbids it.
install(w) ==
  LET e == worker[w].epoch
  IN  /\ worker[w].pc = "durable"
      /\ IF ~healthy
         THEN fail(w, TRUE)
         ELSE /\ state' = [state EXCEPT !.sequence = e.sequence, !.receipts =
                             [id \in Ids |-> IF id \in Items(e) THEN e.sequence ELSE @[id]]]
              /\ gate' = Dropped(e, FALSE)
              /\ worker' = [worker EXCEPT ![w].pc = "done", ![w].epoch.sequence = 0]
      /\ UNCHANGED <<ringVars, book, left, waiter, wal, answer, history>>

StoreResults ==
  LET w == worker[Committer]
  IN  /\ w.pc = "done"
      /\ payload' = [n \in DOMAIN payload |->
                       IF n \in Batch(Committer)
                       THEN Written(w.epoch.results[n - w.first + 1]) ELSE payload[n]]
      /\ finished' = [finished EXCEPT ![Committer] = Last(Committer)]
      /\ worker' = [worker EXCEPT ![Committer].pc = "report", ![Committer].epoch = NoEpoch]
      /\ UNCHANGED <<events, flow, book, left, waiter, gate, state, wal, answer, history>>

published ==
  /\ worker[Committer].pc = "report"
  /\ book' = [book EXCEPT !.published = finished[Committer]]
  /\ Again(Committer)
  /\ UNCHANGED <<ringVars, left, waiter, gate, state, wal, answer, history>>

(***************************************************************************)
(* Stage 4: complete                                                       *)
(***************************************************************************)

complete ==
  LET n == Delivery(Completer)
      r == payload[n].result
  IN  /\ Ready(Completer)
      /\ n \in book.entries
      /\ payload[n].kind \in {"written", "barrier"} /\ r # NoAnswer
      /\ payload' = [payload EXCEPT ![n] = Empty]
      /\ book' = [book EXCEPT !.entries = @ \ {n}]
      /\ finished' = [finished EXCEPT ![Completer] = n]
      /\ answer' = [answer EXCEPT ![n] = r]
      /\ acked' = IF events[n] = Barrier \/ r = Err THEN acked
                  ELSE acked \cup {<<events[n], r>>}
      /\ Again(Completer)
      /\ notify_waiters
      /\ UNCHANGED <<events, flow, left, gate, state, wal, faults, runs>>

(***************************************************************************)
(* Crash and restart                                                       *)
(***************************************************************************)

\* The process dies at any moment and recovers State from the log.
Restart ==
  /\ runs < MaxRuns
  /\ runs' = runs + 1 /\ faults' = 0
  /\ events' = <<>> /\ payload' = <<>> /\ answer' = <<>>
  /\ finished' = [s \in Stages |-> 0]
  /\ flow' = [closed |-> FALSE, fenced |-> FALSE]
  /\ book' = [entries |-> {}, validated |-> 0, published |-> 0,
              closed |-> FALSE, failed |-> FALSE]
  /\ worker' = [w \in Stages \cup {Direct} |-> Idle]
  /\ left' = 4 /\ waiter' = NoWaiter
  /\ gate' = [held |-> FALSE, poisoned |-> FALSE]
  /\ state' = [sequence |-> Len(wal), receipts |-> Replayed(wal),
               fenced |-> FALSE, poisoned |-> FALSE]
  /\ UNCHANGED <<wal, acked>>

(***************************************************************************)
(* Specification                                                           *)
(***************************************************************************)

EpochStep(w) == sync(w) \/ install(w)

WorkerStep(w) ==
  \/ worker_finished(w)
  \/ w = Validator /\ (validate \/ validated)
  \/ w = Preparer /\ (PrepareBarrier \/ Gather \/ prepare_epoch(w) \/ Handover
                       \/ await_publication)
  \/ w = Committer /\ (CommitBarrier \/ TakeEpoch \/ EpochStep(w) \/ StoreResults \/ published)
  \/ w = Completer /\ complete

SubmitterStep == TryEnqueue \/ Await \/ WakeUp

DirectStep == prepare_epoch(Direct) \/ EpochStep(Direct) \/ DirectReturn

Next ==
  \/ \E id \in Ids : enqueue(id) \/ submit_wait(id) \/ write_group(id)
  \/ SubmitterStep \/ CancelWait
  \/ flush \/ close \/ RemoteFence
  \/ \E w \in Stages : WorkerStep(w) \/ Panic(w)
  \/ DirectStep
  \/ \E w \in {Preparer, Direct} : PressureCheckpoint(w)
  \/ Restart

Spec == Init /\ [][Next]_vars

\* Threads run.  Nothing is assumed about who gets the gate when several
\* threads wait for it.
Fairness ==
  /\ \A w \in Stages : WF_vars(WorkerStep(w))
  /\ WF_vars(DirectStep) /\ WF_vars(SubmitterStep)

FairSpec == Spec /\ Fairness

(***************************************************************************)
(* Properties                                                              *)
(***************************************************************************)

Requests == Ids \cup {Barrier}

Epochs == [ids : Seq(Ids), results : Seq(Results), sequence : Nat, retried : BOOLEAN]

\* Types of the state; workers_left counts the workers that have not left.
TypeOK ==
  /\ events \in Seq(Requests) /\ Len(events) <= MaxEvents
  /\ DOMAIN payload = DOMAIN events /\ DOMAIN answer = DOMAIN events
  /\ \A n \in DOMAIN payload : payload[n].epoch \in Epochs
  /\ \A n \in DOMAIN answer : answer[n] \in Results \cup {NoAnswer}
  /\ finished \in [Stages -> 0..Len(events)]
  /\ flow \in [closed : BOOLEAN, fenced : BOOLEAN]
  /\ book \in [entries : SUBSET DOMAIN events, validated : 0..Len(events),
               published : 0..Len(events), closed : BOOLEAN, failed : BOOLEAN]
  /\ \A w \in DOMAIN worker : worker[w].epoch \in Epochs
  /\ left = Cardinality({w \in Stages : worker[w].pc # "gone"})
  /\ waiter \in [pc : {"none", "trying", "full", "asleep"}, id : Requests, notified : BOOLEAN]
  /\ gate \in [held : BOOLEAN, poisoned : BOOLEAN]
  /\ state \in [sequence : Nat, receipts : [Ids -> Nat], fenced : BOOLEAN, poisoned : BOOLEAN]
  /\ wal \in Seq(SUBSET Ids)
  /\ faults \in 0..MaxFaults /\ runs \in 1..MaxRuns

\* The gate is held exactly while one epoch, with a worker, with the direct
\* writer or parked in the ring, owns its lease: CommitLease is never copied,
\* leaked or released twice on any path, panics and fail_pending included.
LeaseAccounted ==
  Cardinality({w \in DOMAIN worker : Leased(worker[w].epoch)})
    + Cardinality({n \in DOMAIN payload : Leased(payload[n].epoch)})
    = IF gate.held THEN 1 ELSE 0

\* Unless the gate is poisoned or a commit is between its append and its
\* installation, memory and log agree: no failed append leaves a record that
\* the running process does not know of (PreparedEpoch::fail, CommitLease).
LogAgreement ==
  gate.poisoned \/ (\E w \in DOMAIN worker : worker[w].pc = "durable")
  \/ (state.sequence = Len(wal) /\ state.receipts = Replayed(wal))

\* Once State is fenced, by the remote tier or by an ambiguous append, this
\* process makes no further commit visible and acknowledges none, also not one
\* whose append was in flight when the fence came and is durable ("an observed
\* remote fence forbids installing or acknowledging its pending publication").
FenceHolds ==
  [][state.fenced /\ runs' = runs =>
       /\ state'.fenced
       /\ state'.sequence = state.sequence /\ state'.receipts = state.receipts
       /\ \A a \in acked' \ acked : a[2] <= state.sequence]_vars

\* A request id is committed at most once, over retries, ambiguous failures,
\* off-lock checkpoints and restarts ("retry the same request ID").
CommittedOnce == \A m, n \in DOMAIN wal : m # n => wal[m] \cap wal[n] = {}

\* A successful receipt names a durable record that holds the request, in
\* every later run of the process too; also for duplicates in its group.
AckedIsDurable == \A a \in acked : a[2] \in DOMAIN wal /\ a[1] \in wal[a[2]]

\* A flush is answered after every earlier write has its terminal result,
\* with a sequence that covers every one that succeeded (IngestFlush).
FlushCovers ==
  \A n \in DOMAIN events :
    events[n] = Barrier /\ answer[n] \in Nat =>
      \A m \in 1..(n - 1) :
        /\ answer[m] # NoAnswer
        /\ answer[m] \in Nat => answer[m] <= answer[n]

Unanswered(n) == n \in DOMAIN answer /\ answer[n] = NoAnswer

\* Direct writers do not take the gate for ever: its condition variable
\* promises no order among waiters.
DirectsEnd == <>[](worker[Direct].pc = "idle")

\* Every admitted request and flush is answered, whatever worker panics and
\* wherever the lease is at that moment ("No panic may strand retained-ring
\* senders"); nobody has to close the ingestor for that.
EveryoneAnswered ==
  DirectsEnd => \A n \in 1..MaxEvents : Unanswered(n) ~> ~Unanswered(n)

\* The publication lease always comes back, so that other committers go on or
\* learn that the gate is poisoned; a lease in the ring of a failed pipeline
\* is released by fail_pending.
LeaseReturns == gate.held ~> ~gate.held

\* A caller asleep in submit_wait wakes: the completion, close or failure that
\* makes room or ends the wait is never lost between its try and its sleep
\* ("completion or shutdown between the check and await cannot be lost").
SubmittersWake == waiter.pc = "asleep" ~> waiter.pc # "asleep"

\* Once closed, every worker leaves: shutdown's joins return.
ShutdownEnds == DirectsEnd => (book.closed ~> (left = 0 \/ ~book.closed))

=============================================================================
