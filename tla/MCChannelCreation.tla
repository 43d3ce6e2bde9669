-------------------------- MODULE MCChannelCreation --------------------------
(* Gated and public channels for ChannelCreation, and the faults of each course. *)
EXTENDS ChannelCreation

CONSTANTS g1, g2, p1

ModeOf == g1 :> "closed" @@ g2 :> "paid" @@ p1 :> "none"
OneMode == g1 :> "closed" @@ g2 :> "closed" @@ p1 :> "none"

Quiet == [e \in CreationEvents |-> 0]
Course(begin, left) == [begin |-> begin, left |-> left @@ Quiet]

\* every fault of the chain, and reloads
GatedCourse == Course({g1}, [refuse |-> 1, lost |-> 1, unread |-> 1, reload |-> 2])
PublicCourse == Course({p1}, [refuse |-> 1, lost |-> 1, unread |-> 2, reload |-> 1])
\* a write that fails for good, and the repair of what it left out
HealCourse == Course({g1}, [refuse |-> 2, repair |-> 1, rekey |-> 1, reload |-> 1])
HealPublicCourse == Course({p1}, [refuse |-> 2, unread |-> 1, repair |-> 1])
\* the account changes, the disk fails
AwayCourse == Course({g1}, [away |-> 1, lost |-> 1, reload |-> 1, diskfail |-> 1, rekey |-> 1])
AwayPublicCourse == Course({p1}, [away |-> 1, lost |-> 1, reload |-> 1, diskfail |-> 1])
\* interrupted creations that grow old, or are discarded
OldCourse == Course({g1}, [reload |-> 2, hour |-> 1, discard |-> 1, unread |-> 1, lost |-> 1])
OldPublicCourse == Course({p1}, [reload |-> 2, hour |-> 1, discard |-> 1, unread |-> 1])
\* two creations at once
PairCourse == Course({g1, g2}, [refuse |-> 1])
PassCourses == {GatedCourse, PublicCourse, HealCourse, HealPublicCourse, AwayCourse, AwayPublicCourse,
                OldCourse, OldPublicCourse, PairCourse}

ThiefCourses == {Course({g1, g2}, [lost |-> 1, refuse |-> 1])}
HalfCourses == {Course({p1}, [refuse |-> 2])}
TwiceCourses == {Course({p1}, [refuse |-> 2, unread |-> 1])}
KeyCourses == {Course({g1}, [reload |-> 1, rekey |-> 1])}
=============================================================================
