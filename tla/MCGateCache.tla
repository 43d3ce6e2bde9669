---------------------------- MODULE MCGateCache -----------------------------
(* Small instances of GateCache: the changes and faults of each course. *)
EXTENDS GateCache

Quiet == [e \in Events |-> 0]
Course(urls, slow, calls, left) == [urls |-> urls, slow |-> slow, calls |-> calls, left |-> left]

Two     == {e \in Urls : e <= 2}
OneCall == {CHOOSE c \in Calls : TRUE}

\* an endpoint that lags, and two epochs, around one call
Lagging == {Course(Two, {Earliest(Urls)}, OneCall, [Quiet EXCEPT !.change = 1, !.epoch = 2])}
\* access comes and goes around the adoption of an epoch, with two calls under way and a batch
Overlap == {Course(Two, {}, Calls, [Quiet EXCEPT !.change = 2, !.epoch = 1, !.members = 1])}
\* the endpoints disagree, fail, and are left out or taken in again by a probe
Rounds  == {Course(Urls, {e}, OneCall, [Quiet EXCEPT !.change = 2, !.fail = 1, !.probe = 1]) : e \in Urls}
\* both endpoints lag
Behind  == {Course(Two, Two, OneCall, [Quiet EXCEPT !.change = 2, !.epoch = 1, !.members = 1, !.fail = 1])}

\* a read fails on one endpoint and on the next
Fails   == {Course(Two, {}, OneCall, [Quiet EXCEPT !.change = 1, !.fail = 2])}

AllCourses == Lagging \cup Overlap \cup Rounds \cup Behind \cup Fails

\* a states() read answered before a cut and its rotation, and taken after them
BatchCourses == {Course(Two, {}, Calls, [Quiet EXCEPT !.change = 1, !.epoch = 1, !.members = 1])}
\* one read of a message's author, and the key request of the same account
WordCourses == {Course(Two, {Earliest(Urls)}, OneCall, [Quiet EXCEPT !.change = 1])}
=============================================================================
