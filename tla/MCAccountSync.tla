--------------------------- MODULE MCAccountSync ---------------------------
(* Small accounts for AccountSync: the edits, faults and prompts of each course. *)
EXTENDS AccountSync, SyncMerge, TLC

Quiet == [e \in Events |-> 0]
Course(devices, slots, manual, left) ==
    [devices |-> devices, slots |-> slots, manual |-> manual, left |-> left]

\* a course for one of the devices, or one of the slots, is there for each of them, so
\* that devices and slots stay interchangeable
OneSlot(left)      == {Course(Devices, {i}, {}, left) : i \in Slots}
OneDevice(left)    == {Course({d}, Slots, {}, left) : d \in Devices}
OneManual(left)    == {Course(Devices, Slots, {d}, left) : d \in Devices}
OnlyManual(left)   == {Course(Devices, {i}, Devices, left) : i \in Slots}

\* a device set to "Manual only" beside one that syncs: torn runs, a hide, a failed probe
Merge   == OneManual([Quiet EXCEPT !.edit = 2, !.torn = 1, !.hide = 1, !.cold = 1, !.probe = 1, !.sync = 1])
\* a publish that storage misses, a read-back that does not find it
Confirm == OneSlot([Quiet EXCEPT !.edit = 1, !.slice = 1, !.lost = 1, !.miss = 1])
\* a lagging replica and restarts, before the inbox is known
First   == OneSlot([Quiet EXCEPT !.edit = 1, !.stale = 1, !.crash = 1, !.cold = 1])

\* a failed push, a restart, an unreadable inbox; a lost push, a failed merge
Dirty   == OneDevice([Quiet EXCEPT !.edit = 2, !.fail = 1, !.crash = 1, !.sync = 1, !.noread = 1])
Strand  == OneDevice([Quiet EXCEPT !.edit = 2, !.lost = 1, !.fail = 1, !.crash = 1, !.broken = 1, !.sync = 1])
PushCourses == Dirty \cup Strand
SafeCourses == Merge \cup Confirm \cup First \cup PushCourses

LiveCourses    == OneSlot([Quiet EXCEPT !.edit = 1, !.fail = 1, !.crash = 1])
HideCourses    == OneDevice([Quiet EXCEPT !.edit = 2, !.hide = 1])
RaceCourses    == OneDevice([Quiet EXCEPT !.edit = 2, !.lost = 1, !.cold = 1])
ProbeCourses   == OneSlot([Quiet EXCEPT !.edit = 1, !.lost = 1, !.crash = 1, !.cold = 1, !.probe = 1])
ManualCourses  == OnlyManual([Quiet EXCEPT !.edit = 2, !.sync = 1])
SliceCourses   == OneSlot([Quiet EXCEPT !.slice = 2])
StampCourses   == OneSlot([Quiet EXCEPT !.slice = 2, !.edit = 1])
ReplicaCourses == OneSlot([Quiet EXCEPT !.edit = 2, !.stale = 1])

\* devices are interchangeable, and so are the operations of a device
Perms == Permutations(Devices) \cup Permutations(Slots)

-----------------------------------------------------------------------------
(* What the merge of the parts does not promise, one example each, which TLC  *)
(* evaluates; AccountSync_proofs says what it does promise.                   *)

Rec(joined, created, val, ts) == [on |-> TRUE, joined |-> joined, created |-> created,
                                  val |-> [f \in Fields |-> val], ts |-> [f \in Fields |-> ts], left |-> 0]
Word == CHOOSE v \in Values : v # Blank

\* a field stamped twice in one millisecond: each device ends with the value of the other
ASSUME TiesSwap ==
    LET a == Rec(1, 1, Word, 2)
        b == Rec(1, 1, Blank, 2)
    IN  MergeChannel(a, b).val # MergeChannel(b, a).val

\* a copy of an older version, with a creation time only: whether its time still counts against a
\* leave depends on the order the snapshots are folded in
ASSUME OldCopiesOrder ==
    LET a == Rec(0, 3, Blank, 0)
        b == Rec(1, 1, Blank, 0)
        c == Absent(2)
    IN  /\ ~MergeChannel(MergeChannel(a, b), c).on
        /\ MergeChannel(a, MergeChannel(b, c)).on

\* a field stamped before a leave is gone or back after a new join, by the order of the folds
ASSUME FieldsOrderAcrossLeave ==
    LET a == Rec(1, 1, Word, 2)
        b == Absent(3)
        c == Rec(4, 4, Blank, 0)
    IN  MergeChannel(MergeChannel(a, b), c).val # MergeChannel(MergeChannel(a, c), b).val

\* a deleted message still takes one of the places that are kept
ASSUME DeletedTakesPlace ==
    LET none == [m \in Ids |-> 0]
        a == [held |-> {1}, text |-> [m \in Ids |-> Word], edited |-> none, gone |-> none]
        b == [a EXCEPT !.held = {2}]
        d == [b EXCEPT !.held = {}, !.gone = [none EXCEPT ![2] = 5]]
    IN  /\ MergeSent(MergeSent(a, b, 1), d, 1).held = {}
        /\ MergeSent(a, MergeSent(b, d, 1), 1).held = {1}
=============================================================================
