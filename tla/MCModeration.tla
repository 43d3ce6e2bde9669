---------------------------- MODULE MCModeration ----------------------------
(* Small channels for Moderation: the acts and faults of each course. *)
EXTENDS Moderation, TLC

Quiet == [e \in Events |-> 0]
Course(devices, lists, left) == [devices |-> devices, lists |-> lists, left |-> left]

\* the devices of the owner are interchangeable: where one is enough, any will do
OneOwner(lists, left) == {Course({CHOOSE o \in Owners : TRUE} \cup Mods, lists, left)}

\* publishes that storage misses, a read and a publish that fail, a session that ends
Landing == {Course(Owners, Delegated, [Quiet EXCEPT !.act = 1, !.lost = 2, !.stale = 1, !.crash = 1, !.fail = 1])}
\* two devices of the owner take the same revision; a cold session reads nothing
Collide == {Course(Owners, Delegated, [Quiet EXCEPT !.act = 2, !.stale = 1, !.crash = 1])}
\* the owner absorbs, or lifts, what a moderator did, who is dismissed; a snapshot grows old
Deltas  == OneOwner(Delegated, [Quiet EXCEPT !.act = 1, !.delta = 2, !.dismiss = 1])
           \cup OneOwner(Delegated, [Quiet EXCEPT !.act = 2, !.delta = 1])
           \cup OneOwner(Lists, [Quiet EXCEPT !.act = 1, !.delta = 1, !.ttl = 1])
SafetyCourses == Landing \cup Collide \cup Deltas

\* the owner acts twice while the first publish is on its way
RaceCourses == {Course({o}, Delegated, [Quiet EXCEPT !.act = 2, !.lost = 2]) : o \in Owners}
LiftCourses == OneOwner(Delegated, [Quiet EXCEPT !.act = 2, !.delta = 1])
TtlCourses  == OneOwner(Delegated, [Quiet EXCEPT !.act = 1, !.delta = 1, !.ttl = 1])
=============================================================================
