------------------------------ MODULE MCTransfers ------------------------------
(* Small downloads for Transfers: the peers, acts and faults of each course. *)
EXTENDS Transfers

CONSTANTS s1, s2

Quiet == [e \in Events |-> 0]
Whole == [s \in Seeders |-> {}]
Course(db, spoiled, serving, left) ==
    [db |-> db, spoiled |-> spoiled @@ Whole, online |-> serving, left |-> left @@ Quiet]
NoSpoil == [s \in {} |-> {}]

\* requests and pieces are lost, a peer leaves
LossCourse == Course(FALSE, NoSpoil, {s1, s2}, [start |-> 1, lose |-> 1, leave |-> 1])
\* announces are lost, a peer joins, the path is slow
SlowCourse == Course(FALSE, NoSpoil, {s1}, [start |-> 1, slow |-> 1, mute |-> 1, lose |-> 1, join |-> 1])
\* a large file, paused, resumed, cancelled, reloaded, with a timer that fires early
PauseCourse == Course(TRUE, NoSpoil, {s1}, [start |-> 2, pause |-> 1, restart |-> 1])
CancelCourse == Course(TRUE, NoSpoil, {s1}, [start |-> 2, cancel |-> 1])
EarlyCourse == Course(TRUE, NoSpoil, {s1}, [start |-> 1, early |-> 1, lose |-> 1])
\* a peer serves some pieces corrupt
SpoilCourse == Course(FALSE, s1 :> {1, 2}, {s1, s2}, [start |-> 1, early |-> 1])
SpoilDbCourse == Course(TRUE, s1 :> {1}, {s1, s2}, [start |-> 1, pause |-> 1])
\* the file is seeded, stopped, seeded again, forgotten
SeedCourse == Course(TRUE, NoSpoil, {s1}, [start |-> 1, stop |-> 1, reseed |-> 1, remove |-> 1,
                                            askfail |-> 1, tellfail |-> 1, diskfull |-> 1])
PassCourses == {LossCourse, SlowCourse, PauseCourse, CancelCourse, EarlyCourse,
                SpoilCourse, SpoilDbCourse, SeedCourse}

\* a peer whose copy is corrupt serves first; IndexedDB is full; a source request throws
SpoilCourses == {Course(FALSE, s1 :> {1, 2}, {s1, s2}, [start |-> 1])}
FullCourses == {Course(TRUE, NoSpoil, {s1}, [start |-> 1, diskfull |-> 1])}
AskCourses == {Course(FALSE, NoSpoil, {s1}, [start |-> 1, askfail |-> 1])}
\* the seeding is stopped while its record is being written, and the page is loaded again
StopCourses == {Course(TRUE, NoSpoil, {s1}, [start |-> 1, stop |-> 1, restart |-> 1])}
\* a download is cancelled while a piece is verified, and started again
AgainCourses == {CancelCourse}
=============================================================================
