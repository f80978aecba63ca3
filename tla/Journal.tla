------------------------------- MODULE Journal -------------------------------
(***************************************************************************)
(* The segmented write-ahead journal, src/src/journal.rs, over a file      *)
(* system that loses what was not synced.                                  *)
(*                                                                         *)
(* A segment file is a sequence of items (one header, groups, at most one  *)
(* seal) of which a prefix was really written.  Written prefixes are       *)
(* measured in grains, the distinctions recovery makes: a header has three *)
(* (nothing that tells the first sequence, its low bytes, all of it, and   *)
(* the rest), any other item two (torn, complete).  Budgets are counted in *)
(* units of 64 bytes, where a torn item counts in full.                    *)
(*                                                                         *)
(* File-system assumptions: a successful file sync makes the whole file    *)
(* durable; a crash keeps, of unsynced writes, any prefix; unsynced name   *)
(* changes of a directory persist in the order they were made.             *)
(***************************************************************************)
EXTENDS Integers, Sequences, FiniteSets, FiniteSetsExt, Functions

CONSTANTS
  Values,         \* what a record can hold
  MaxRecords,     \* JournalConfig.max_records_per_group
  SegmentBytes,   \* JournalConfig.segment_bytes, in units
  MaxTotalBytes,  \* JournalConfig.max_total_bytes, in units
  MaxSegments,    \* JournalConfig.max_segments
  MaxSequence,    \* the largest value of a record sequence
  MaxSegmentId,   \* the largest value of a segment ID
  NoValue, NoJournal

HEADER == 1
SEAL == 1
TRAILER == 1

\* append_plan: a frame is a header, a trailer and its records.
FrameBytes(count) == HEADER + TRAILER + count

ASSUME JournalAssumption ==
  /\ MaxRecords \in Nat \ {0} /\ MaxSegments \in Nat \ {0}
  /\ MaxSequence \in Nat \ {0} /\ MaxSegmentId \in Nat \ {0}
  /\ NoValue \notin Values
  /\ SegmentBytes \in Nat /\ SegmentBytes >= FrameBytes(MaxRecords) + HEADER + SEAL
  /\ MaxTotalBytes \in Nat /\ MaxTotalBytes >= SegmentBytes

VARIABLES
  disk,      \* segment ID -> the file's items, its written and its synced grains
  dir,       \* the IDs the directory lists
  nameOps,   \* name changes of the directory since its last sync, in order
  journal,   \* the Journal object, or NoJournal
  pc,        \* where the running call is
  call,      \* its arguments
  root,      \* sequence covered by the caller's durable checkpoint root
  log,       \* every record shown to the caller, by receipt or by replay
  inflight   \* the group of an append without receipt

files == <<disk, dir, nameOps>>
ghosts == <<log, inflight>>
vars == <<disk, dir, nameOps, journal, pc, call, root, log, inflight>>

Sequence == 0..MaxSequence
Ids == 1..MaxSegmentId

-----------------------------------------------------------------------------
(* Files.                                                                  *)

Header(first) == [kind |-> "header", first |-> first, count |-> 0, value |-> NoValue]
Group(first, count, v) == [kind |-> "group", first |-> first, count |-> count, value |-> v]
Seal(next) == [kind |-> "seal", first |-> next, count |-> 0, value |-> NoValue]

NoFile == [items |-> <<>>, written |-> 0, synced |-> 0]

\* Grains of a file that holds n complete items.
Grains(n) == IF n = 0 THEN 0 ELSE 1 + 2 * n

\* Number of complete items of a file.
Whole(f) == IF f.written < 3 THEN 0 ELSE (f.written - 1) \div 2

\* The file ends in an item that is not complete.
Torn(f) == f.written # Grains(Whole(f)) \/ Whole(f) = 0

Bytes(item) == CASE item.kind = "header" -> HEADER
                 [] item.kind = "group" -> FrameBytes(item.count)
                 [] item.kind = "seal" -> SEAL

\* Bytes of the first n items of a file.
BytesOf(f, n) == SumFunctionOnSet([k \in 1..n |-> Bytes(f.items[k])], 1..n)

\* Bytes the file occupies; a torn item counts in full.
FileBytes(f) == BytesOf(f, IF Torn(f) THEN Whole(f) + 1 ELSE Whole(f))

\* File::write_all of one more item, of which g grains reach the file.
Written(f, item, g) ==
  [f EXCEPT !.items = SubSeq(@, 1, Whole(f)) \o <<item>>,
            !.written = IF Whole(f) = 0 THEN g ELSE @ + g]

\* The file with its items cut to the ones its grains reach.
Trim(f) == [f EXCEPT !.items = SubSeq(@, 1, IF Torn(f) THEN Whole(f) + 1 ELSE Whole(f))]

\* File::sync_all.
Synced(f) == Trim([f EXCEPT !.synced = f.written])

WholeGrains(item) == IF item.kind = "header" THEN 3 ELSE 2

\* Mutant: a receipt without the file sync.
Stored_NoSync(f, item) == Written(f, item, WholeGrains(item))

\* write_file then sync_file, both successful.
Stored(f, item) == Synced(Written(f, item, WholeGrains(item)))

\* write_file or sync_file failed: any part of the item is in the file.
Spoilt(f, item) == {Trim(Written(f, item, g)) : g \in 0..WholeGrains(item)}

\* What a crash can leave of a file.
Survivors(f) == {Trim([f EXCEPT !.written = g, !.synced = g]) :
                   g \in Min({f.written, f.synced})..Max({f.written, f.synced})}

\* The directory if only the first n unsynced name changes persist.
DirAfter(n) ==
  LET lost == {nameOps[k] : k \in (n + 1)..Len(nameOps)}
  IN  (dir \ {o.id : o \in {p \in lost : p.op = "create"}})
        \cup {o.id : o \in {p \in lost : p.op = "unlink"}}

-----------------------------------------------------------------------------
(* Recovery, open_with_checkpoint.                                         *)

floor_next == root + 1

Previous(id) == Max({k \in dir : k < id} \cup {0})

IsLast(id) == id = Max(dir)

\* First sequence of a segment: read from the header when enough of it is
\* there, else the one that continues the previous segment, unless the bytes
\* present contradict it.
FirstOf(id, previous_next) ==
  LET f == disk[id]
      contiguous == IF Previous(id) = 0 /\ id # 1 THEN floor_next ELSE previous_next
  IN  IF f.written >= 2 THEN f.items[1].first
      ELSE IF f.written = 0 \/ f.items[1].first = contiguous THEN contiguous
      ELSE floor_next

\* inspect_reader's ScanEnd.next: the sequence after the last complete group.
ScanEnd(id, first) ==
  LET f == disk[id]
  IN  IF Whole(f) = 0 THEN first ELSE f.items[Whole(f)].first + f.items[Whole(f)].count

\* The scan of all segments in ID order: first sequence and end of each one.
Scan ==
  LET end[id \in dir \cup {0}] ==
        IF id = 0 THEN 1 ELSE ScanEnd(id, FirstOf(id, end[Previous(id)]))
  IN  [id \in dir |-> [previous_next |-> end[Previous(id)],
                       first |-> FirstOf(id, end[Previous(id)]),
                       next |-> end[id]]]

Sealed(f) == Whole(f) > 0 /\ f.items[Whole(f)].kind = "seal"

\* inspect_reader accepts the file with this first sequence.  A group's place and
\* extent are checked once its header is read, so also when its end is missing.
Inspects(id, first) ==
  LET f == disk[id]
      Cut == IF Torn(f) /\ Whole(f) > 0 THEN {Whole(f) + 1} ELSE {}
  IN  /\ f.written >= 1 => f.items[1].first = first
      /\ Torn(f) => IsLast(id)
      /\ \A k \in 2..Whole(f) \cup Cut :
           f.items[k].kind = "group" =>
             /\ f.items[k].first = f.items[k - 1].first + f.items[k - 1].count
             /\ BytesOf(f, k) + SEAL <= SegmentBytes
      /\ \A k \in 2..Whole(f) :
           f.items[k].kind = "seal" =>
             /\ f.items[k].first = f.items[k - 1].first + f.items[k - 1].count
             /\ k = Whole(f) /\ ~Torn(f)

\* The order and ID checks of one segment against its predecessor.
Follows(id, s) ==
  /\ IF Previous(id) = 0
     THEN s.first <= floor_next
     ELSE s.first = s.previous_next
            \/ (s.first >= s.previous_next /\ s.first <= floor_next)
  /\ \/ id = Previous(id) + 1
     \/ root > 0 /\ s.previous_next <= floor_next /\ s.first <= floor_next

\* The last segment once its torn tail is repaired: a header is completed,
\* anything else is cut off.
Repaired(id, first) ==
  LET f == disk[id]
  IN  IF Whole(f) = 0
      THEN [f EXCEPT !.items = <<Header(first)>>, !.written = 3]
      ELSE [f EXCEPT !.written = Grains(Whole(f))]

DiskBytes(d) == SumFunctionOnSet([id \in dir |-> FileBytes(d[id])], dir)

RepairedDisk ==
  IF dir = {} \/ Sealed(disk[Max(dir)]) THEN disk
  ELSE [disk EXCEPT ![Max(dir)] = Repaired(Max(dir), Scan[Max(dir)].first)]

\* Every ensure! of open_with_checkpoint.
Admissible ==
  /\ Cardinality(dir) <= MaxSegments
  /\ \A id \in dir : FileBytes(disk[id]) <= SegmentBytes
  /\ DiskBytes(disk) <= MaxTotalBytes
  /\ \A id \in dir :
       /\ Follows(id, Scan[id])
       /\ Inspects(id, Scan[id].first)
       /\ IsLast(id) \/ Sealed(disk[id])
  /\ dir # {} /\ ~Sealed(disk[Max(dir)]) =>
       LET f == RepairedDisk[Max(dir)]
       IN  /\ DiskBytes(RepairedDisk) + SEAL <= MaxTotalBytes
           /\ FileBytes(f) + SEAL <= SegmentBytes

\* The Journal object open_with_checkpoint returns.
Recovered ==
  [segments |-> [id \in dir |-> [first |-> Scan[id].first, last |-> Scan[id].next - 1,
                                 len |-> FileBytes(RepairedDisk[id])]],
   active |-> dir # {} /\ ~Sealed(disk[Max(dir)]),
   next_sequence |-> IF dir = {} THEN floor_next ELSE Max({Scan[Max(dir)].next, floor_next}),
   next_segment_id |-> Max(dir \cup {0}) + 1,
   checkpoint_sequence |-> root,
   disk_bytes |-> DiskBytes(RepairedDisk),
   fenced |-> FALSE]

-----------------------------------------------------------------------------
(* Calls.                                                                  *)

NoCall == [kind |-> "none", count |-> 0, value |-> NoValue, covered |-> {}]

Usable == pc = "ready" /\ ~journal.fenced

Active == Max(DOMAIN journal.segments)

\* Mutant: an active segment the root has run past is appended to.
Rotates_IgnoresGap(count) ==
  \/ ~journal.active
  \/ journal.segments[Active].len + FrameBytes(count) + SEAL > SegmentBytes

\* append_plan's rotate.
Rotates(count) ==
  \/ ~journal.active
  \/ journal.segments[Active].len + FrameBytes(count) + SEAL > SegmentBytes
  \/ journal.segments[Active].last + 1 # journal.next_sequence

\* Mutant: the frame may use the room of its own segment's seal.
Reserve_NoSeal(count) ==
  IF ~Rotates(count) THEN 0 ELSE HEADER + (IF journal.active THEN SEAL ELSE 0)

\* append_plan's reserve: the seals and the header the append may still need.
Reserve(count) ==
  IF ~Rotates(count) THEN SEAL ELSE HEADER + SEAL + (IF journal.active THEN SEAL ELSE 0)

\* Mutant: the last sequence is not kept for next_sequence.
HasSequence_Last(count) == journal.next_sequence + count <= MaxSequence + 1

\* append_plan: next_sequence.checked_add of the record count.
HasSequence(count) == journal.next_sequence + count <= MaxSequence

\* append_plan with check_capacity.
Admits(count) ==
  /\ HasSequence(count)
  /\ Rotates(count) => /\ journal.next_segment_id + 1 <= MaxSegmentId
                       /\ Cardinality(DOMAIN journal.segments) < MaxSegments
  /\ journal.disk_bytes + FrameBytes(count) + Reserve(count) <= MaxTotalBytes

Init ==
  /\ disk = [id \in Ids |-> NoFile] /\ dir = {} /\ nameOps = <<>>
  /\ journal = NoJournal /\ pc = "closed" /\ call = NoCall
  /\ root = 0 /\ log = <<>> /\ inflight = <<>>

\* append_group: admission, then fence until the receipt.
append_group(count, v) ==
  /\ Usable /\ Admits(count)
  /\ journal' = [journal EXCEPT !.fenced = TRUE]
  /\ call' = [NoCall EXCEPT !.kind = "append", !.count = count, !.value = v]
  /\ pc' = IF ~Rotates(count) THEN "frame" ELSE IF journal.active THEN "seal" ELSE "create"
  /\ inflight' = [k \in 1..count |-> v]
  /\ UNCHANGED <<files, root, log>>

\* seal_snapshot: seal the active segment, if there is one.
seal_snapshot ==
  /\ Usable /\ journal.active
  /\ journal' = [journal EXCEPT !.fenced = TRUE]
  /\ call' = [NoCall EXCEPT !.kind = "snapshot"] /\ pc' = "seal"
  /\ UNCHANGED <<files, root, ghosts>>

\* reclaim_through(root): the longest prefix of covered segments, unless
\* nothing is covered or floor zero would lose a prefix of a live tail.
reclaim_through ==
  LET S == DOMAIN journal.segments
      covered == {id \in S : \A k \in S : k <= id => journal.segments[k].last <= root}
  IN  /\ Usable
      /\ root >= journal.checkpoint_sequence
      /\ root <= journal.next_sequence - 1
      /\ IF covered = {} \/ (root = 0 /\ covered # S)
         THEN /\ journal' = [journal EXCEPT !.checkpoint_sequence = root]
              /\ UNCHANGED <<call, pc>>
         ELSE /\ journal' = [journal EXCEPT !.fenced = TRUE]
              /\ call' = [NoCall EXCEPT !.kind = "reclaim", !.covered = covered]
              /\ pc' = IF covered = S /\ journal.active THEN "seal" ELSE "unlink"
      /\ UNCHANGED <<files, root, ghosts>>

\* An I/O error returns to the caller; the journal stays fenced.
Fail ==
  /\ pc' = "ready"
  /\ call' = NoCall
  /\ UNCHANGED <<journal, root, ghosts>>

\* Return to the caller with the fence lifted.
Done(j) ==
  /\ journal' = [j EXCEPT !.fenced = FALSE]
  /\ pc' = "ready" /\ call' = NoCall

\* seal_active: append the seal and sync the file.
seal_active ==
  LET item == Seal(journal.segments[Active].last + 1)
      sealed == [journal EXCEPT !.active = FALSE, !.segments[Active].len = @ + SEAL,
                                !.disk_bytes = @ + SEAL]
  IN  /\ pc = "seal"
      /\ \/ /\ disk' = [disk EXCEPT ![Active] = Stored(@, item)]
            /\ CASE call.kind = "append" -> journal' = sealed /\ pc' = "create" /\ call' = call
                 [] call.kind = "reclaim" -> journal' = sealed /\ pc' = "unlink" /\ call' = call
                 [] call.kind = "snapshot" -> Done(sealed)
            /\ UNCHANGED <<root, ghosts>>
         \/ /\ \E f \in Spoilt(disk[Active], item) : disk' = [disk EXCEPT ![Active] = f]
            /\ Fail
      /\ UNCHANGED <<dir, nameOps>>

\* rotate, after the seal: create the file, write and sync its header.
CreateSegment ==
  LET id == journal.next_segment_id
      item == Header(journal.next_sequence)
      named == /\ dir' = dir \cup {id}
               /\ nameOps' = Append(nameOps, [op |-> "create", id |-> id])
  IN  /\ pc = "create"
      /\ \/ /\ named
            /\ disk' = [disk EXCEPT ![id] = Stored(NoFile, item)]
            /\ pc' = "created"
            /\ UNCHANGED <<journal, call, root, ghosts>>
         \/ /\ named
            /\ \E f \in Spoilt(NoFile, item) : disk' = [disk EXCEPT ![id] = f]
            /\ Fail
         \/ UNCHANGED files /\ Fail

\* rotate, the directory sync and the new segment's metadata.
InstallSegment ==
  LET id == journal.next_segment_id
      first == journal.next_sequence
  IN  /\ pc = "created"
      /\ \/ /\ nameOps' = <<>>
            /\ journal' = [journal EXCEPT
                 !.segments = [k \in DOMAIN @ \cup {id} |->
                    IF k = id THEN [first |-> first, last |-> first - 1, len |-> HEADER]
                              ELSE journal.segments[k]],
                 !.active = TRUE, !.next_segment_id = @ + 1, !.disk_bytes = @ + HEADER]
            /\ pc' = "frame"
            /\ UNCHANGED <<call, root, ghosts>>
         \/ nameOps' = nameOps /\ Fail
      /\ UNCHANGED <<disk, dir>>

\* append_group, the frame: write, sync, install, receipt.
WriteFrame ==
  LET next == journal.next_sequence
      item == Group(next, call.count, call.value)
  IN  /\ pc = "frame"
      /\ \/ /\ disk' = [disk EXCEPT ![Active] = Stored(@, item)]
            /\ Done([journal EXCEPT !.segments[Active].len = @ + Bytes(item),
                                    !.segments[Active].last = next + call.count - 1,
                                    !.disk_bytes = @ + Bytes(item),
                                    !.next_sequence = next + call.count])
            /\ log' = log \o inflight /\ inflight' = <<>>
            /\ UNCHANGED root
         \/ /\ \E f \in Spoilt(disk[Active], item) : disk' = [disk EXCEPT ![Active] = f]
            /\ Fail
      /\ UNCHANGED <<dir, nameOps>>

\* Mutant: the oldest covered segment goes first.
Victim_Oldest == Min(call.covered \cap dir)

\* reclaim_through unlinks covered segments back to front.
Victim == Max(call.covered \cap dir)

\* reclaim_through, one fs::remove_file.
UnlinkSegment ==
  LET id == Victim
  IN  /\ pc = "unlink" /\ call.covered \cap dir # {}
      /\ \/ /\ dir' = dir \ {id}
            /\ nameOps' = Append(nameOps, [op |-> "unlink", id |-> id])
            /\ \/ UNCHANGED <<journal, pc, call, root, ghosts>>
               \/ Fail
         \/ UNCHANGED <<dir, nameOps>> /\ Fail
      /\ UNCHANGED disk

\* reclaim_through, the directory sync and the credits.
FinishReclaim ==
  LET kept == DOMAIN journal.segments \ call.covered
  IN  /\ pc = "unlink" /\ call.covered \cap dir = {}
      /\ \/ /\ nameOps' = <<>>
            /\ disk' = [id \in Ids |-> IF id \in call.covered THEN NoFile ELSE disk[id]]
            /\ Done([journal EXCEPT
                 !.segments = Restrict(@, kept),
                 !.next_segment_id = IF root = 0 THEN 1 ELSE @,
                 !.disk_bytes = @ - SumFunctionOnSet(
                      [id \in call.covered |-> journal.segments[id].len], call.covered),
                 !.checkpoint_sequence = root])
            /\ UNCHANGED <<root, ghosts>>
         \/ UNCHANGED <<disk, nameOps>> /\ Fail
      /\ UNCHANGED dir

-----------------------------------------------------------------------------
(* The caller and the machine.                                             *)

\* The caller makes a checkpoint root durable.
AdvanceRoot(c) ==
  /\ Usable /\ c > root /\ c <= journal.next_sequence - 1
  /\ root' = c
  /\ UNCHANGED <<files, journal, pc, call, ghosts>>

\* Drop of the Journal: the process ends or its owner reopens after a fence.
Drop ==
  /\ pc = "ready"
  /\ journal' = NoJournal /\ pc' = "closed"
  /\ UNCHANGED <<files, call, root, ghosts>>

\* The machine stops at any point, also inside open.
Crash ==
  LET loose == {id \in Ids : disk[id].written # disk[id].synced}
  IN  /\ pc # "corrupt"
      /\ \E n \in 0..Len(nameOps) : dir' = DirAfter(n)
      /\ \E left \in [loose -> UNION {Survivors(disk[id]) : id \in loose}] :
           /\ \A id \in loose : left[id] \in Survivors(disk[id])
           /\ disk' = [id \in Ids |-> IF id \notin dir' THEN NoFile
                                      ELSE IF id \in loose THEN left[id] ELSE disk[id]]
      /\ nameOps' = <<>>
      /\ journal' = NoJournal /\ pc' = "closed" /\ call' = NoCall
      /\ UNCHANGED <<root, ghosts>>

\* open_with_checkpoint up to the repair of the tail.
open_with_checkpoint ==
  /\ pc = "closed"
  /\ IF Admissible
     THEN /\ journal' = Recovered /\ pc' = "opening"
          /\ disk' = RepairedDisk
     ELSE /\ pc' = "corrupt"
          /\ UNCHANGED <<disk, journal>>
  /\ UNCHANGED <<dir, nameOps, call, root, ghosts>>

\* The value a replay finds for one sequence.
ReplayAt(n) ==
  LET items == UNION {{disk[id].items[k] : k \in 1..Whole(disk[id])} : id \in dir}
      held == {g.value : g \in {i \in items : i.kind = "group" /\ i.first <= n
                                                /\ n < i.first + i.count}}
  IN  IF Cardinality(held) = 1 THEN CHOOSE v \in held : TRUE ELSE NoValue

\* open_with_checkpoint, the syncs; the caller then replays above its root.
FinishOpen ==
  /\ pc = "opening"
  /\ \/ /\ disk' = [id \in Ids |-> IF id \in dir THEN Synced(disk[id]) ELSE NoFile]
        /\ nameOps' = <<>>
        /\ pc' = "ready"
        /\ log' = [n \in 1..(journal.next_sequence - 1) |->
                     IF n <= root THEN log[n] ELSE ReplayAt(n)]
        /\ inflight' = <<>>
        /\ UNCHANGED journal
     \/ /\ pc' = "closed" /\ journal' = NoJournal
        /\ UNCHANGED <<disk, nameOps, ghosts>>
  /\ UNCHANGED <<dir, call, root>>

Next ==
  \/ \E count \in 1..MaxRecords, v \in Values : append_group(count, v)
  \/ seal_snapshot \/ reclaim_through
  \/ seal_active \/ CreateSegment \/ InstallSegment \/ WriteFrame
  \/ UnlinkSegment \/ FinishReclaim
  \/ \E c \in Sequence : AdvanceRoot(c)
  \/ Drop \/ Crash \/ open_with_checkpoint \/ FinishOpen

Spec == Init /\ [][Next]_vars

-----------------------------------------------------------------------------
(* Properties.                                                             *)

Items == {Header(n) : n \in 1..MaxSequence} \cup {Seal(n) : n \in 1..MaxSequence}
           \cup {Group(n, c, v) : n \in 1..MaxSequence, c \in 1..MaxRecords, v \in Values}

\* The variables hold what their declarations say.
TypeOK ==
  /\ DOMAIN disk = Ids
  /\ \A id \in Ids : /\ \A k \in 1..Len(disk[id].items) : disk[id].items[k] \in Items
                     /\ disk[id].written \in Nat /\ disk[id].synced \in Nat
  /\ dir \subseteq Ids
  /\ \A k \in 1..Len(nameOps) : nameOps[k] \in [op : {"create", "unlink"}, id : Ids]
  /\ pc \in {"closed", "opening", "corrupt", "ready", "seal", "create", "created",
             "frame", "unlink"}
  /\ (journal = NoJournal) = (pc \in {"closed", "corrupt"})
  /\ journal # NoJournal =>
       /\ DOMAIN journal.segments \subseteq Ids
       /\ journal.next_sequence \in 1..MaxSequence
       /\ journal.next_segment_id \in Ids
       /\ journal.disk_bytes \in Nat
  /\ root \in Sequence
  /\ \A k \in 1..Len(log) : log[k] \in Values

\* Whatever a failed write, a failed sync, a restart or a crash left behind, at
\* any step of append, rotation, sealing, reclamation or an earlier recovery,
\* open_with_checkpoint under the durable root accepts the directory: none of
\* its ensure! checks takes an interrupted operation for corruption.
RecoverySucceeds == pc # "corrupt"

\* While the journal is usable its metadata says what is on disk, all of it
\* synced: so scan finds every segment at its length, interior ones sealed, and
\* ends at the frontier (the "changed" checks of scan cannot fire), and the
\* bytes charged are the bytes used.
ScanSucceeds ==
  Usable =>
    /\ nameOps = <<>> /\ dir = DOMAIN journal.segments
    /\ journal.disk_bytes = DiskBytes(disk)
    /\ \A id \in dir :
         LET s == journal.segments[id]
             f == disk[id]
         IN  /\ f.synced = f.written /\ ~Torn(f) /\ s.len = FileBytes(f)
             /\ f.items[1].first = s.first /\ ScanEnd(id, s.first) = s.last + 1
             /\ Sealed(f) = ~(IsLast(id) /\ journal.active)
    /\ journal.next_sequence = Max({journal.checkpoint_sequence + 1}
                                     \cup {journal.segments[id].last + 1 : id \in dir})

\* The directory never outgrows its configuration, not even with the remains of
\* an interrupted rotation or frame, and an active segment can always be sealed.
DiskBudget ==
  /\ Cardinality(dir) <= MaxSegments
  /\ DiskBytes(disk) <= MaxTotalBytes
  /\ \A id \in dir : FileBytes(disk[id]) <= SegmentBytes
  /\ Usable /\ journal.active => journal.disk_bytes + SEAL <= MaxTotalBytes

Contract == INSTANCE DurableLog

\* What a caller was shown, by receipt or by replay, stays: a crash, a failed
\* append or reclamation loses no record above the durable root, adds at most
\* the one group whose append was interrupted, and that one whole.
DurableLogSpec == Contract!Spec

=============================================================================
