--------------------------- MODULE MCRotationDebt ---------------------------
(* Small channels for RotationDebt: the outside events and faults of each course. *)
EXTENDS RotationDebt

Quiet == [e \in Events |-> 0]
Course(members, sends, left) == [members |-> members, sends |-> sends, left |-> left]

One == {CHOOSE a \in Members : TRUE}
OneMember(sends, left) == {Course(One, sends, left)}

\* the cuts of two members, one after the other or over each other
Pairs    == {Course(Members, {}, [Quiet EXCEPT !.cut = 2, !.fail = 1])}
\* losses of two members elsewhere, one of them let in again, and a wrap this session did not see
Sweeps   == {Course(Members, {}, [Quiet EXCEPT !.elsewhere = 2, !.admit = 1, !.unseen = 1])}
\* a send beside a cut: the channel left and joined again, a crash, a new connection, a lost receipt
Sessions == OneMember(Sends, [Quiet EXCEPT !.cut = 1, !.admit = 1, !.crash = 1, !.leave = 1, !.reconnect = 1,
                                           !.receipt = 1])
\* a send and an edit beside rotations that fail
Retries  == OneMember(Sends, [Quiet EXCEPT !.cut = 1, !.fail = 2, !.edit = 1])
\* a cut here and a loss elsewhere, a crash, a failure, an unreadable gate
Losses   == OneMember({}, [Quiet EXCEPT !.cut = 1, !.elsewhere = 1, !.admit = 1, !.crash = 1, !.fail = 1, !.flags = 1])
AllCourses == Pairs \cup Sweeps \cup Sessions \cup Retries \cup Losses

RecutCourses  == OneMember({}, [Quiet EXCEPT !.cut = 2, !.admit = 1, !.fail = 1])
EditCourses   == OneMember(Sends, [Quiet EXCEPT !.cut = 1, !.edit = 1])
FlagsCourses  == OneMember({}, [Quiet EXCEPT !.flags = 1])
HiddenCourses == OneMember({}, [Quiet EXCEPT !.cut = 1, !.elsewhere = 1, !.admit = 1, !.unseen = 1])
=============================================================================
