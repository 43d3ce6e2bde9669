------------------------------ MODULE MCMessages ------------------------------
(* Small channels for Messages: the acts and faults of each course. *)
EXTENDS Messages

CONSTANTS d1, d2

Quiet == [e \in TimelineEvents |-> 0]
Course(one, past, changes, left) ==
    [one |-> one, past |-> past, changes |-> changes, left |-> left @@ Quiet]

\* what storage holds at first: messages of d2, and overrides of them
Message(i) == [id |-> i, by |-> d2]
Edit(ts, i) == [ts |-> ts, target |-> i, del |-> FALSE]
Delete(ts, i) == [ts |-> ts, target |-> i, del |-> TRUE]

\* a send fails, is kept, sent again; storage loses it or is late with it
SendCourse == Course(FALSE, {}, {}, [send |-> 1, resend |-> 2, fail |-> 2, lost |-> 1, crash |-> 1, open |-> 2])
LandCourse == Course(FALSE, {}, {}, [send |-> 1, resend |-> 1, lost |-> 1, late |-> 1, readfail |-> 1, open |-> 1, delete |-> 1])
\* history and its overrides in any order, failing reads and their retries, a second opening
OpenCourse == Course(FALSE, {Message(1), Message(2)}, {Edit(3, 2), Delete(4, 1)},
                     [readfail |-> 3, open |-> 2, sweep |-> 1])
RefreshCourse == Course(FALSE, {Message(1)}, {Edit(2, 1), Delete(3, 1)}, [readfail |-> 3, refresh |-> 1, open |-> 1])
\* rows and overrides arrive as they are published, across reopenings
LiveCourse == Course(FALSE, {Message(1), Message(2)}, {Edit(3, 1), Delete(4, 1)},
                     [live |-> 3, open |-> 2, readfail |-> 1, sweep |-> 1, reorder |-> 1])
PageCourse == Course(FALSE, {Message(1), Message(2), Message(3)}, {Delete(4, 1)}, [page |-> 1, sweep |-> 1, open |-> 1])
PassCourses == {SendCourse, LandCourse, OpenCourse, LiveCourse, RefreshCourse, PageCourse}

\* a page brings a row that is being verified as it arrives
RecheckCourses == {Course(FALSE, {Message(1), Message(2)}, {Delete(3, 1)}, [page |-> 1, open |-> 1])}
\* an edit arrives after a later one
OrderCourses == {Course(FALSE, {Message(1)}, {Edit(2, 1), Edit(3, 1)}, [open |-> 1, reorder |-> 1])}
\* an edit of its own time comes with a page after a later one
PastCourses == {Course(FALSE, {Message(1), Message(3), Message(4)}, {Edit(2, 1), Edit(5, 1)}, [page |-> 1, open |-> 1])}
\* the channel is opened again at once
QuickCourses == {Course(FALSE, {Message(1), Message(2)}, {}, [open |-> 2, quick |-> 1])}
\* a reload within 30 seconds of sending
OwnCourses == {Course(FALSE, {}, {}, [send |-> 1, crash |-> 1, open |-> 2])}
\* the deletion of an old message is older than the window of the opening
WindowCourses == {Course(FALSE, {Message(1), Message(2), Message(3)}, {Delete(4, 1), Edit(5, 3), Edit(6, 2)}, [page |-> 1, open |-> 1])}
LandCourses == {LandCourse}
KeepCourses == {Course(FALSE, {}, {}, [send |-> 1, fail |-> 1, delete |-> 1, open |-> 1])}
\* two devices of the author: one deletes a message that the other edits later
TwinCourses == {Course(TRUE, {Message(1)}, {Delete(2, 1), Edit(3, 1)}, [open |-> 2])}
=============================================================================
