-------------------------- MODULE MCSubscriptions ---------------------------
(* Small instances of Subscriptions: the faults and clicks of each course. *)
EXTENDS Subscriptions

Sound == [e \in FaultKinds |-> 0]
Idle  == [e \in Events |-> 0]
Course(ff, clicks, there) == [faults |-> ff, start |-> "starting", left |-> clicks, joined |-> there]

ContentAfterOverrides == <<"override", "content">>

\* channels joined before; the rest can be previewed
Home == CHOOSE c \in Chans : TRUE
Two  == Chans \ {CHOOSE c \in Chans \ {Home} : TRUE}

SwitchCourses == {
  \* channels chosen one after another, and closed
  Course(Sound, [Idle EXCEPT !.select = 3], Chans),
  Course(Sound, [Idle EXCEPT !.select = 2, !.close = 1], Chans),
  \* the client is replaced beside a switch
  Course([Sound EXCEPT !.health = 1], [Idle EXCEPT !.select = 2], Two),
  \* a node that fails beside the opening of a channel
  Course([Sound EXCEPT !.health = 1, !.dead = 1, !.offline = 1], [Idle EXCEPT !.select = 1], {Home})}

PreviewCourses == {
  \* previews browsed and left
  Course(Sound, [Idle EXCEPT !.enter = 2, !.close = 1], {}),
  \* the client is replaced beside a preview
  Course([Sound EXCEPT !.health = 1], [Idle EXCEPT !.enter = 1, !.close = 1], {}),
  \* from a channel to a preview, and back or away
  Course(Sound, [Idle EXCEPT !.select = 1, !.enter = 1, !.close = 1], {Home}),
  Course(Sound, [Idle EXCEPT !.select = 2, !.enter = 1], {Home}),
  \* a preview joined, from another preview, beside a channel, before it is closed
  Course(Sound, [Idle EXCEPT !.enter = 2, !.join = 1], {}),
  Course(Sound, [Idle EXCEPT !.select = 1, !.enter = 1, !.join = 1], {Home}),
  Course(Sound, [Idle EXCEPT !.enter = 1, !.join = 1, !.close = 1], {})}

FaultCourses == {
  \* a subscribe that fails; one that comes on a client going down
  Course(Sound, [Idle EXCEPT !.enter = 1, !.close = 1, !.fail = 1], {}),
  Course([Sound EXCEPT !.health = 1], [Idle EXCEPT !.select = 1, !.late = 1], {Home}),
  \* a preview left behind while nothing starts, and the next one
  [Course(Sound, [Idle EXCEPT !.select = 1, !.enter = 2, !.close = 1], {Home}) EXCEPT !.start = "hung"],
  \* a preview closed while it is joined
  Course(Sound, [Idle EXCEPT !.enter = 1, !.join = 1, !.close = 1, !.again = 1], {}),
  \* the client alone
  Course([Sound EXCEPT !.health = 2, !.dead = 2, !.slow = 1, !.hung = 1, !.offline = 1, !.kick = 1], Idle, {})}

AllCourses == SwitchCourses \cup PreviewCourses \cup FaultCourses
AllFaults  == {c.faults : c \in AllCourses}

-----------------------------------------------------------------------------
(* Courses for what the code does not keep                                  *)

\* back to a channel while it is being left; a preview closed while it is joined
AgainCourses == {Course(Sound, [Idle EXCEPT !.select = 3, !.again = 1], Two)}
JoinCourses  == {Course(Sound, [Idle EXCEPT !.enter = 1, !.join = 1, !.close = 1, !.again = 1], {})}
\* a channel opened over a subscribe that fails, or on a client going down
FailCourses  == {Course(Sound, [Idle EXCEPT !.select = 1, !.fail = 1], {Home})}
LateCourses  == {Course([Sound EXCEPT !.health = 1], [Idle EXCEPT !.select = 1, !.late = 1], {Home})}
\* a preview while the client is replaced, or left for a channel and entered again
LostCourses  == {Course([Sound EXCEPT !.health = 1], [Idle EXCEPT !.enter = 1], {})}
BrowseCourses == {Course(Sound, [Idle EXCEPT !.enter = 3, !.close = 1], {})}
OrphanCourses == {Course(Sound, [Idle EXCEPT !.select = 1, !.enter = 2, !.close = 1], Two)}
\* three channels chosen fast, and the client replaced
SwapCourses  == {Course([Sound EXCEPT !.health = 1], [Idle EXCEPT !.select = 3], Chans)}
\* a channel, a preview, and away; one channel or another opened and left
StrayCourses == {Course(Sound, [Idle EXCEPT !.select = 1, !.enter = 1, !.close = 1], {Home})}
LeakCourses  == {Course(Sound, [Idle EXCEPT !.select = 1, !.close = 1], {Home})}
PollCourses  == {Course(Sound, [Idle EXCEPT !.select = 2], Two)}
=============================================================================
