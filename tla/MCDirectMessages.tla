-------------------------- MODULE MCDirectMessages --------------------------
(* Small conversations for DirectMessages: the acts and faults of each course. *)
EXTENDS DirectMessages

Quiet == [e \in Events |-> 0]
Course(inorder, past, bounds) == [inorder |-> inorder, past |-> past, left |-> bounds @@ Quiet]

Text(i, ts, at) == [id |-> i, kind |-> "text", ts |-> ts, at |-> at]
One   == <<Text(1, 1, 1)>>
Two   == <<Text(1, 1, 1), Text(2, 2, 2)>>
Three == <<Text(1, 1, 1), Text(2, 2, 2), Text(3, 3, 3)>>

\* the live subscription falls silent, reads fail, two rows share a millisecond
DeafCourse == Course(TRUE, One, [peer |-> 2, same |-> 1, start |-> 1, fail |-> 1])
\* a record that cannot be saved, a replay that fails
FaultCourses == {Course(TRUE, One, [start |-> 1, nosave |-> 1, noreplay |-> 1, open |-> 1, search |-> 1, begin |-> 1]),
                 Course(TRUE, One, [start |-> 1, noreplay |-> 1, peer |-> 1])}
\* the conversation is left while rows arrive, and comes back with a newer one
LeaveCourse == Course(TRUE, One, [peer |-> 1, start |-> 2, end |-> 1, leave |-> 1])
ChangeCourse == Course(TRUE, <<>>, [peer |-> 1, change |-> 1, start |-> 2, end |-> 1])
\* searches beside the arrival of rows, failing ones, in a conversation left and begun again
SearchCourses == {Course(TRUE, Two, [start |-> 1, open |-> 1, search |-> 2, peer |-> 1]),
                  Course(TRUE, Three, [start |-> 1, open |-> 1, search |-> 3, fail |-> 1]),
                  Course(TRUE, Three, [start |-> 1, open |-> 1, search |-> 3, leave |-> 1, begin |-> 1])}
\* own sends fail and are sent again, across openings, restarts, a deletion and a leave
SendCourses == {Course(TRUE, <<>>, [start |-> 2, end |-> 1, begin |-> 1, compose |-> 1, resend |-> 1, fail |-> 2,
                                    open |-> 2, erase |-> 1]),
                Course(TRUE, <<>>, [start |-> 1, begin |-> 2, compose |-> 1, resend |-> 1, fail |-> 2, leave |-> 1,
                                    open |-> 1])}
PassCourses == {DeafCourse, LeaveCourse, ChangeCourse} \cup FaultCourses \cup SearchCourses \cup SendCourses

\* own messages older than what the replay brings
OwnCourses == {Course(TRUE, <<>>, [start |-> 2, end |-> 1, begin |-> 1, compose |-> 1, peer |-> 2, open |-> 1, search |-> 1])}
\* a message that was sent again, long after it was written
LateCourses == {Course(TRUE, <<Text(1, 1, 1), Text(2, 2, 2), Text(3, 1, 3)>>, [start |-> 1, open |-> 1, search |-> 1])}
\* the conversation is left for another while a page is filed
AbortCourses == {Course(TRUE, Three, [start |-> 1, begin |-> 1, open |-> 1, search |-> 2, abort |-> 1])}
\* the live subscription skips a row
GapCourses == {Course(FALSE, One, [start |-> 1, peer |-> 2])}
\* a row follows one that was dropped because the record could not be saved
NoSaveCourses == {Course(TRUE, One, [start |-> 1, nosave |-> 1, peer |-> 1])}
=============================================================================
