---------------------------- MODULE MCEpochKeys ----------------------------
(* Small channels for EpochKeys: the owner's devices a1 and a2, a member's m. *)
EXTENDS EpochKeys, TLC

CONSTANTS a1, a2, m, owner, member

AccountOfDevice == [d \in Devices |-> IF d = m THEN member ELSE owner]

Quiet == [e \in Events |-> 0]
Course(devices, keys, asks, left) ==
    [devices |-> devices, keys |-> keys, asks |-> asks, left |-> left]

\* corrupted wraps, foreign announces, a lost message, an unreadable gate, one key
Noise   == Course({a1, m}, 1, 1, [Quiet EXCEPT !.live = 2, !.junk = 1, !.lost = 1, !.rpc = 1])
\* a rotation around a cut and a readmission
CutWave == Course({a1, m}, 2, 1, [Quiet EXCEPT !.cut = 1, !.admit = 1])
\* two devices of the owner mint the same epoch
Fork    == Course({a1, a2, m}, 2, 0, [Quiet EXCEPT !.live = 1])
\* rotations of two devices in a channel that ages
Aging   == Course({a1, a2}, 3, 0, [Quiet EXCEPT !.age = 1])
\* a restart of either device at any moment
Crash   == Course({a1, m}, 1, 1, [Quiet EXCEPT !.crash = 1])
\* both owner's devices, a member's, and a request
Forked  == Course({a1, a2, m}, 2, 1, [Quiet EXCEPT !.live = 2])
\* a read of -4 fails
NoRead  == Course({a1, a2}, 3, 0, [Quiet EXCEPT !.read = 1, !.age = 1])

SafetyCourses == {Noise, CutWave, Fork, Aging, Crash}
LiveCourses   == {Crash}
ForkCourses   == {Fork}
CutCourses    == {CutWave}
CrashCourses  == {[Crash EXCEPT !.keys = 2]}
ForkedCourses == {Forked}
NoReadCourses == {NoRead}

\* keys and request ids are interchangeable
Perms == Permutations(Keys) \cup Permutations(RequestIds)
=============================================================================
