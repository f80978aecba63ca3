# Verification of varve in TLA+

Varve is a single-node, append-only time-series database. This directory holds
TLA+ models of its code, TLC configurations that check them on small instances,
and TLAPS proofs that hold for every instance.

## The system

A write travels through these parts, named by their file under `src/src/`:

1. a transport (`service.rs`, `transport.rs`, `pg_transport.rs`) hands it to the
   **ingestor** (`ingest.rs`);
2. the ingestor claims a place in a bounded **ring** (`flow.rs`) and registers
   the client's completion channel in a book (`ingest_flow.rs`);
3. four workers (`ingest_flow_workers.rs`), each a stage of the ring behind the
   one before, validate it, prepare a group of requests, commit the group, and
   answer;
4. preparation (`engine.rs`, `append_overlay.rs`) takes the **publication gate**
   (`publication_gate.rs`); the lease travels with the prepared group to the
   **commit boundary** (`commit_boundary.rs`), which appends the group to the
   log, installs it in memory and releases the gate;
5. the log is either one file per sequence (`wal.rs`) or the **segmented
   journal** (`journal.rs`), behind `commit_log.rs`;
6. checkpoints turn hot rows into Parquet segments, publish a new root and
   retire the covered log; policy, control jobs, the remote tier and queries
   work on the roots and pins so made.

`PROJECT.json` lists every part with what is modelled of it.

## Modules

| module | what it is | code |
| --- | --- | --- |
| `Broadcast` | abstract: in-order, exactly-once delivery of claimed events to every stage, behind its dependencies | the promise of `flow.rs` |
| `Flow` | the ring: one action per atomic access of a producer, a stage, the reclaimer or the controller | `flow.rs` |
| `FlowLemmas`, `FlowClaims`, `FlowStages` | lemmas: the ring index and the dependency graph; steps of producers; steps of stages | |
| `FlowProofs` | theorems about `Flow` and their proofs | |
| `MCFlow` | instances of `Flow` | |
| `DurableLog` | abstract: a log of groups; a crash keeps what was acknowledged and may keep the group in flight | the promise of `journal.rs` |
| `Journal` | the segmented journal on a file system that fails and crashes | `journal.rs` |
| `MCJournal` | instances of `Journal` | |
| `Ingest` | the four ingestion workers, the publication gate, group preparation and the commit boundary, next to a direct writer | `ingest.rs`, `ingest_flow.rs`, `ingest_flow_workers.rs`, `publication_gate.rs`, `commit_boundary.rs`, the group path of `engine.rs` |
| `MCIngest` | instances of `Ingest` | |

### Flow

`head`, `closed` (the top bit of the same word), `reclaimed`, `charged`,
`fenced`, the slots' `published` and `entry` words and the stages' `finished`
cursors are the fields of `Core`. `prod[p]` is a producer inside `try_claim`,
`claim_until` or `claim_async`: its program counter, its charge, its sequence and
whether it waits; `stage[s]` is a consumer inside `next_until`, `coalesce`,
`finish` or `reclaim`; `wake[s]` is the stage's one-place wake-up channel; `gate`
is the holder of the reclaim mutex, and `gateView[s]` is what `finished[s]` was
when stage `s` last released it. `log` and `got` are history: what was claimed and what each stage received.

Every access that another thread can observe is a step of its own: charging,
the compare-and-swap of the head, the refund, filling and publishing the slot,
the failure check of `next_until` and its poll, each slot that `reclaim` empties,
and the store of `reclaimed`. Taking the gate and reading all the sinks' cursors
is one step, `LockGate`, but what it reads is not their current value: for each
peer it is any value from `gateView`, which the mutex makes visible, up to the
peer's latest store, which the acquire load may miss (`GateReads`). That includes
every result of the separate loads the code makes. Payloads are abstracted to the
producer that published them, or `Cancelled` for a claim that was dropped.
A stage may be abandoned at any point, which fences the ring.

### Journal

`disk` maps a segment to its file: its items (header, groups, seal), how much of
it is written and how much is synced, in *grains* so that an item can be cut in
the middle; a header has two places to be cut, because recovery reads a 32-byte
prefix of it. `dir` and `nameOps` are the directory and its changes not yet
synced. `journal` is the in-memory `Journal`; `pc` and `call` are the operation
in progress; `root` is the durable checkpoint of the caller.

Every I/O operation is a step that may succeed, fail, or be the last one before
a crash. The file system promises no more than: a successful sync makes the file
durable, an unsynced write survives as some prefix, and unsynced name changes
persist in their order, which is what the code's comment on back-to-front
deletion relies on. Checksums appear by what they decide: a cut item is seen as
cut. Sizes are in units (a header, a trailer, a seal and a record weigh one), so
that the budget arithmetic is the code's.

### Ingest

`Ingest` stands on the other two models: it uses the ring by what `Flow` shows of
it (claimed events in order, one `finished` cursor per stage, each behind the one
before, a closed and a fenced flag) and the log by what `Journal` shows of it (an
append is durable, refused, or ambiguous). `events`, `payload` and `answer` are
the ring's events, what each currently carries (`Payload`) and what its
completion channel was sent; `book` is the registry; `worker[w]` is a thread:
where it is, the events it holds and the epoch it owns. A prepared epoch with a
sequence owns the publication lease; it travels from the preparer through the
ring to the committer, and `gate` is what the lease protects. `state` is the part
of the engine's `State` the protocol reads: the committed sequence, the receipts
and the fence. `acked` records every success a client was told. `waiter` is a
caller in `submit_wait`: registered with the ingestor's own `Notify`
(`notified` says that it has fired since), trying, found full, or asleep. This is
not the waiting of `Flow`'s `claim_until`, which the ingestor does not use.

A critical section under the book's or `State`'s mutex is one step. So is
everything a thread does alone between two of them: taking a delivery and
working on it, the health check with the append (a fence or a crash between
them looks like one before or after both), and the fence with the decrement of
`workers_left` in `worker_finished`. Admission arithmetic, static validation,
digests, windows and budgets appear as the choice between accepting and refusing
a request in `Outcome`, and the row, byte and time limits of a group as the choice
of a shorter length in `group_len`; once a request id has a receipt, it is its duplicate or
refused. `PressureCheckpoint` gives up the gate once, keeping the outcomes that
are already durable, as `prepare_group_attempts` does for its off-lock checkpoint.

A panic can strike a worker before each of its steps, with or without `State`'s
mutex held where the code holds it. It unwinds as the code does: the delivery and
the stage fence the ring, the epoch drops its lease, the lease poisons the gate.
`RemoteFence` is the remote tier finding another owner. `Restart` is a crash at
any point followed by replay. Not in this model: panics of the direct writer's
own thread, the idempotency floors, raw-memory envelopes and waiting for them,
statistics, and a worker thread that cannot be spawned: `Ingestor::new` then
returns the error before anybody can submit.

## Runs

| run | question |
| --- | --- |
| `flow_race` | two producers at the last slot: has every slot one owner, is the byte charge conserved |
| `flow_sinks` | two stages that both gate reclamation: the proofs' invariant, reclamation behind both, charges returned once |
| `flow_chain` | does the chain used by ingestion keep its order and implement `Broadcast` |
| `flow_drain` | after close, is everything delivered and returned |
| `flow_waiters` | is a producer that waits for capacity woken when there is some |
| `journal_recovery` | does reopening accept everything the journal can leave behind; is the scan right; is the disk budget kept |
| `journal_contract` | does the journal implement `DurableLog` |
| `ingest_pipeline` | with a panic or a remote fence anywhere: has the lease one owner, do memory and log agree, is nothing installed or acknowledged behind a fence, does a flush cover the writes before it |
| `ingest_commit` | with a direct writer, failing appends and crashes: is an id committed once, is every success durable, do memory and log agree |
| `ingest_answers` | after a panic or a fence: is everybody answered, do all workers leave, does the lease come back |
| `ingest_direct` | the last two with a direct writer competing for the gate |
| `ingest_waiters` | is a caller that waits in `submit_wait` woken |

### Bounds

`SEQUENCE_MASK` is a small number instead of 2^63 - 1, so that the sequence limit
is reached. Each `Flow` run has the part of the concurrency its question is about:

| run | producers | stages | slots | bytes, charges | sequences | what happens |
| --- | --- | --- | --- | --- | --- | --- |
| `flow_race` | 2 | 1 | 2 | 4, {1, 2} | 3 | both at the compare-and-swap for the last slot, also while the stage is between emptying a slot and advancing `reclaimed`; a refund while the other producer and a live entry are charged; a slot used again |
| `flow_sinks` | 1 | 2 sinks | 2 | 4, {2, 5} | 3 | both slots live, batches of two, either stage reclaiming for both, a charge that never fits |
| `flow_chain` | 1 | 2 chained | 2 | 3, {1, 2} | 3 | the bytes or the slots run out first, batches of two |
| `flow_drain` | 1 | 2 sinks | 1 | 2, {2} | 3 | every slot used three times, each stage last to finish in turn |
| `flow_waiters` | 2 | 1 | 1 | 4, {2, 3} | 2 | both charges fit and they meet at the only slot, or one waits for the other's bytes |

Two producers with two stages on two slots at once have over ten million states
and are left to the proofs, which cover slot ownership, reclamation and the
broadcast for all of them; the byte charge is checked with two producers and with
two stages, not with both.

`Journal` runs use up to five sequences and five segment identifiers with three
segments of at most two groups: rotation, a rotation forced by a covered gap,
reclamation of one and of all segments and several crashes all happen. No
`Journal` run bounds the number of crashes.

`Ingest` runs use a ring of two and groups of up to two, except `ingest_waiters`,
whose ring of one is full at once. `ingest_pipeline` has three events, so that a
group meets a barrier, a duplicate in its own group and a slot used again;
`ingest_answers` has two, so that a group can be parked in the ring, lease
included, while another request waits behind it. `MaxFaults` = 1 allows one panic
or remote fence per run of the process: with the first, the pipeline is over, and
the interesting part is how it ends. `ingest_commit` has no such faults: there the
appends fail and the process crashes and recovers (`MaxRuns` = 2) next to a direct
writer, and its two request ids let a group commit one while the direct writer
commits the other. The liveness runs use one id. Ids are symmetric in the safety
runs.

### Fairness

Liveness runs assume weak fairness of each started producer and of each stage
thread that is running, which is what an operating system's scheduler gives a
runnable thread; nothing is assumed of new requests, of `close`, of `fence`, of
deadlines or of a consumer abandoning its stage.

`Ingest` assumes that its four workers, the direct writer and a caller inside
`submit_wait` that is not asleep run whenever they can. It assumes nothing of who gets the publication gate: the condition variable
of `PublicationGate` keeps no queue. `EveryoneAnswered` and `ShutdownEnds` are
therefore stated for the case that direct writers eventually stop
(`DirectsEnd`); `LeaseReturns` needs no such premise. Deadlock is not checked in
`Ingest`, because after a shutdown nothing is left to do; `ShutdownEnds` says that
this is how it stops.

## Proofs

`FlowProofs`, with its lemma modules, proves for any finite set of producers, any number of stages with
any dependency graph on earlier stages, and any capacity, byte budget and
sequence limit (`FlowAssumption`):

* `Invariance`: `Spec => []IndInv`. `SlotOwnership` and `ReclaimBehindStages`
  are not inductive: a slot's state follows from the cursors only if the one
  holder of the reclaim gate and the minimum it has computed are described as well
  (`GateInv`), the cursors are ordered along the dependencies (`CursorInv`), and
  each slot is in the state its sequence number's position says (`SlotInv`).
  `LogInv` ties the slots to the delivery history.
* `TypeCorrect`, `Ownership`, `Reclamation`: the three safety invariants.
* `Refinement`: `Spec => BroadcastSpec`, step by step under that invariant.

Left to TLC: liveness (fairness is out of the prover's reach), the conservation
of the byte charge (a sum over producers and slots needs induction over a set),
everything about `Journal`, whose scan is a recursive function over segments, and
`Ingest` for now.

## Not modelled

Metrics and traces, formatting and parsing, query planning and the adapters to
DuckDB: no decision of the modelled protocols depends on them, or they transform
one request without shared state.

## Plan

In order: checkpoints, root publication, pins and garbage collection under
crashes; idempotency floors, on top of both; the legacy log; the raw-memory
budget; lifecycle policy; the remote tier; control jobs; the query worker pool;
the clients' request tracking. Proofs to follow the models: first `LeaseAccounted`,
`LogAgreement` and `CommittedOnce` of `Ingest`, whose inductive invariant has to
say where the lease is and what a prepared epoch knows of the receipts.
