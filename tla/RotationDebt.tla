---------------------------- MODULE RotationDebt ----------------------------
(***************************************************************************)
(* Who reads on after being cut from a gated channel: the rotation owed     *)
(* after a cut (channels/RotationRetry.js), the cuts and sends that call it *)
(* (channels/Membership.js, channels/MessageFlow.js) and the sweep for      *)
(* access lost elsewhere (channels.js, _rotateForLostAccess).               *)
(*                                                                         *)
(* One channel, the owner's session on one device, and the other accounts.  *)
(* The epoch protocol is EpochKeys; here an announce either replaces the    *)
(* key in force or, numbered before an announce that went out first, loses  *)
(* the conflict rule and changes nothing.  `holds' is who has the key in    *)
(* force.  Saving a channel record is one step with the change it saves.    *)
(* A send and every other publish (edits, deletes) is a bare event.         *)
(***************************************************************************)
EXTENDS Naturals, Sequences

CONSTANTS Members,      \* accounts other than the owner's
          Sends,        \* messages the owner sends, each retried at will
          Courses       \* bounds of the behaviours: each starts on one of these

Events == {"cut", "elsewhere", "admit", "fail", "crash", "unseen", "flags", "leave", "edit",
           "receipt", "reconnect"}

\* a course: the members and sends there are, and how often each fault or outside event
\* may still happen
CourseStates == [members : SUBSET Members, sends : SUBSET Sends, left : [Events -> Nat]]

ASSUME RotationDebtAssumption ==
    /\ Courses \subseteq CourseStates
    /\ Sends \cap {"cut", "resume", "loop"} = {}

VARIABLES
    gate,       \* the contract's verdict per account
    holds,      \* accounts that have the key in force
    seen,       \* those this session saw a wrap of it for (getCurrentKeyHolders)
    up,         \* the session runs and is connected
    stored,     \* the channel is stored here (stillOwned)
    opened,     \* the channel was opened in this session
    owed,       \* the addresses owed a rotation (localStorage)
    snapshot,   \* accessSnapshot of the channel record
    cover,      \* rotatedForNoAccess of the channel record
    cutting,    \* the owner's cuts whose transaction is mined and whose debt is not recorded
    chain,      \* callers of _attempt, in the order their attempts run
    att,        \* the attempt in flight: the one of Head(chain)
    loop,       \* the retry loop
    send,       \* the state of each send
    sweep,      \* _rotateForLostAccess in flight
    course,     \* what is left of the course of this behaviour
    cutHere,    \* history: accounts out by a cut recorded here
    recut,      \* history: recorded again while the rotation for their earlier cut was past
                \*          the point where it can cut them
    regained,   \* history: accounts readmitted under a key they may still have
    before      \* history: cutHere when each send began

keyVars   == <<gate, holds, seen>>
localVars == <<up, stored, opened>>
recVars   == <<snapshot, cover>>
runVars   == <<chain, att, loop, send>>
hist      == <<cutHere, recut, regained, before>>
vars == <<keyVars, localVars, owed, recVars, cutting, runVars, sweep, course, hist>>

Callers  == Sends \cup {"cut", "resume", "loop"}
AttemptStates == [phase : {"none", "asked", "numbered", "out", "paid"},
                  who : SUBSET Members, fresh : BOOLEAN]
SweepStates   == [phase : {"none", "reading", "read", "asked", "numbered", "out"},
                  access : SUBSET Members, lost : SUBSET Members, banned : SUBSET Members,
                  pending : SUBSET Members, cover : SUBSET Members,
                  fresh : BOOLEAN, mine : BOOLEAN]
NoAtt    == [phase |-> "none", who |-> {}, fresh |-> FALSE]
NoSweep  == [phase |-> "none", access |-> {}, lost |-> {}, banned |-> {}, pending |-> {},
             cover |-> {}, fresh |-> FALSE, mine |-> FALSE]
In       == {a \in Members : gate[a] = "in"}

Spend(e) == course.left[e] > 0 /\ course' = [course EXCEPT !.left[e] = @ - 1]

(***************************************************************************)
(* A rotation goes out (rotateEpoch): nobody but the owner has the new key, *)
(* unless another epoch went out since this one read the announces.         *)
(***************************************************************************)
KeyReplaced(fresh) ==
    /\ holds'    = IF fresh THEN {} ELSE holds
    /\ seen'     = IF fresh THEN {} ELSE seen
    /\ recut'    = IF fresh THEN {} ELSE recut
    /\ regained' = IF fresh THEN regained \cap In ELSE regained
    /\ UNCHANGED <<gate, cutHere, before>>

\* a member with access is answered a request for the key in force
Answer(a) ==
    /\ gate[a] = "in" /\ a \notin holds
    /\ up \/ holds # {}
    /\ holds' = holds \cup {a}
    /\ \/ UNCHANGED course /\ seen' = IF opened THEN seen \cup {a} ELSE seen
       \/ opened /\ Spend("unseen") /\ UNCHANGED seen
    /\ UNCHANGED <<gate, localVars, owed, recVars, cutting, runVars, sweep, hist>>

(***************************************************************************)
(* The gate: cuts made elsewhere (a moderator, another device of the owner, *)
(* an expired subscription, a sold token) and members let in again.         *)
(***************************************************************************)
LoseAccess(a, how) ==
    /\ gate[a] = "in"
    /\ Spend("elsewhere")
    /\ gate' = [gate EXCEPT ![a] = how]
    /\ UNCHANGED <<holds, seen, localVars, owed, recVars, cutting, runVars, sweep, hist>>

LetIn(a, to) ==
    /\ gate[a] # "in" /\ gate[a] # to
    /\ Spend("admit")
    /\ gate' = [gate EXCEPT ![a] = to]
    /\ IF to = "in"
       THEN /\ cutHere' = cutHere \ {a}
            /\ recut' = recut \ {a}
            /\ regained' = regained \cup {a}
            /\ before' = [i \in Sends |-> before[i] \ {a}]
       ELSE UNCHANGED hist
    /\ UNCHANGED <<holds, seen, localVars, owed, recVars, cutting, runVars, sweep>>

(***************************************************************************)
(* removeMember and banMemberLevels: the transaction, then (after saving    *)
(* the record) rotateFor.  A receipt that never comes records nothing.      *)
(***************************************************************************)
CutMined(a, how) ==
    /\ up /\ stored /\ a \notin cutting
    /\ gate[a] # how /\ (how = "out" => gate[a] = "in")
    /\ Spend("cut")
    /\ gate' = [gate EXCEPT ![a] = how]
    /\ cutting' = cutting \cup {a}
    /\ UNCHANGED <<holds, seen, localVars, owed, recVars, runVars, sweep, hist>>

CutFails(a) ==
    /\ a \in cutting
    /\ Spend("receipt")
    /\ cutting' = cutting \ {a}
    /\ UNCHANGED <<keyVars, localVars, owed, recVars, runVars, sweep, hist>>

\* the rotation in flight for a can no longer take the key from a
PastHelping(a) == /\ a \in att.who
                  /\ att.phase = "out" \/ (att.phase = "numbered" /\ ~att.fresh)

RotateFor(a) ==
    /\ a \in cutting
    /\ cutting' = cutting \ {a}
    /\ IF stored
       THEN /\ owed' = owed \cup {a}
            /\ chain' = Append(chain, "cut")
            /\ cutHere' = IF a \in In THEN cutHere ELSE cutHere \cup {a}
            /\ recut' = IF a \notin In /\ PastHelping(a) THEN recut \cup {a} ELSE recut
       ELSE UNCHANGED <<owed, chain, cutHere, recut>>
    /\ UNCHANGED <<keyVars, localVars, recVars, att, loop, send, sweep, course, regained, before>>

(***************************************************************************)
(* An attempt (_attempt, _rotateOnce): one at a time, in the order asked.   *)
(* Phases: the addresses are read, the epoch is numbered, the announce is   *)
(* out, the debt is cleared; then the caller gets its answer.               *)
(***************************************************************************)
EnsureLoopNever(debt) == loop                                    \* mutant of EnsureLoop
EnsureLoop(debt) == IF debt = {} \/ loop # "none" THEN loop ELSE "asleep"

SettledAnyway(done) == "cleared"                                 \* mutant of Settled
Settled(done) == IF done THEN "cleared" ELSE "idle"

\* what the caller at the head of the chain does with its answer
Answered(done) ==
    LET c == Head(chain) IN
    /\ chain' = Tail(chain)
    /\ att' = NoAtt
    /\ loop' = CASE c = "loop"           -> IF owed = {} THEN "none" ELSE "asleep"
                 [] c \in {"cut", "resume"} -> IF done THEN loop ELSE EnsureLoop(owed)
                 [] OTHER                -> loop
    /\ send' = IF c \in Sends THEN [send EXCEPT ![c] = Settled(done)] ELSE send

AttemptStart ==
    /\ chain # <<>> /\ att.phase = "none"
    /\ IF owed = {}
       THEN Answered(TRUE)
       ELSE IF ~stored THEN Answered(FALSE)
       ELSE /\ att' = [phase |-> "asked", who |-> owed, fresh |-> FALSE]
            /\ UNCHANGED <<chain, loop, send>>
    /\ UNCHANGED <<keyVars, localVars, owed, recVars, cutting, sweep, course, hist>>

AttemptNumber ==
    /\ att.phase = "asked"
    /\ att' = [att EXCEPT !.phase = "numbered", !.fresh = TRUE]
    /\ UNCHANGED <<keyVars, localVars, owed, recVars, cutting, chain, loop, send, sweep, course, hist>>

AttemptOut ==
    /\ att.phase = "numbered"
    /\ KeyReplaced(att.fresh)
    /\ att' = [att EXCEPT !.phase = "out"]
    /\ sweep' = [sweep EXCEPT !.fresh = @ /\ ~att.fresh]
    /\ UNCHANGED <<localVars, owed, recVars, cutting, chain, loop, send, course>>

UnpaidNone(who) == {}                                            \* mutant of Unpaid
Unpaid(who)     == owed \ who

AttemptPaid ==
    /\ att.phase = "out"
    /\ att' = [att EXCEPT !.phase = "paid"]
    /\ owed' = Unpaid(att.who)
    /\ cover' = IF stored THEN cover \cup att.who ELSE cover
    /\ UNCHANGED <<keyVars, localVars, snapshot, cutting, chain, loop, send, sweep, course, hist>>

AttemptDone ==
    /\ att.phase = "paid"
    /\ Answered(owed = {})
    /\ UNCHANGED <<keyVars, localVars, owed, recVars, cutting, sweep, course, hist>>

\* rotateEpoch throws: the node is down, or a step after the announce failed
AttemptFail ==
    /\ att.phase \in {"asked", "numbered"}
    /\ Spend("fail")
    /\ \/ UNCHANGED <<keyVars, sweep, hist>>
       \/ /\ att.phase = "numbered" /\ KeyReplaced(att.fresh)
          /\ sweep' = [sweep EXCEPT !.fresh = @ /\ ~att.fresh]
    /\ Answered(FALSE)
    /\ UNCHANGED <<localVars, owed, recVars, cutting>>

\* a debt on a channel that is not stored is dropped
Dropped == owed' = {} /\ cutHere' = {} /\ before' = [i \in Sends |-> {}]

LoopWake ==
    /\ loop = "asleep"
    /\ IF stored
       THEN /\ chain' = Append(chain, "loop")
            /\ loop' = "waiting"
            /\ UNCHANGED <<owed, hist>>
       ELSE /\ Dropped
            /\ loop' = "none"
            /\ UNCHANGED <<chain, recut, regained>>
    /\ UNCHANGED <<keyVars, localVars, recVars, cutting, att, send, sweep, course>>

\* resumeOwedRotations: only the channels stored are asked about
TakenUp == IF stored /\ owed # {} THEN Append(chain, "resume") ELSE chain

Reconnect ==
    /\ up /\ Spend("reconnect")
    /\ chain' = TakenUp
    /\ UNCHANGED <<keyVars, localVars, owed, recVars, cutting, att, loop, send, sweep, hist>>

(***************************************************************************)
(* Sends settle the debt first (_publishTracked); edits and deletes do not. *)
(***************************************************************************)
SendStart(i) ==
    /\ up /\ stored /\ send[i] = "idle"
    /\ before' = [before EXCEPT ![i] = cutHere]
    /\ IF owed = {}
       THEN send' = [send EXCEPT ![i] = "cleared"] /\ UNCHANGED chain
       ELSE send' = [send EXCEPT ![i] = "settling"] /\ chain' = Append(chain, i)
    /\ UNCHANGED <<keyVars, localVars, owed, recVars, cutting, att, loop, sweep, course,
                   cutHere, recut, regained>>

\* publishWithRetry: published, or failed for good
Publish(i) ==
    /\ send[i] = "cleared"
    /\ send' = [send EXCEPT ![i] = "idle"]
    /\ UNCHANGED <<keyVars, localVars, owed, recVars, cutting, chain, att, loop, sweep, course, hist>>

Edit ==
    /\ up /\ stored /\ Spend("edit")
    /\ UNCHANGED <<keyVars, localVars, owed, recVars, cutting, runVars, sweep, hist>>

(***************************************************************************)
(* The session.                                                            *)
(***************************************************************************)
\* startEpochKeys: the -4 history tells who has the key in force, as far as it is read
Open ==
    /\ up /\ stored /\ ~opened
    /\ opened' = TRUE
    /\ \/ seen' = holds /\ UNCHANGED course
       \/ Spend("unseen") /\ seen' \in SUBSET holds
    /\ UNCHANGED <<gate, holds, up, stored, owed, recVars, cutting, runVars, sweep, hist>>

\* leaving drops the record and the key state; coming back starts a new record
Leave ==
    /\ up /\ stored /\ Spend("leave")
    /\ stored' = FALSE /\ opened' = FALSE
    /\ seen' = {} /\ snapshot' = {} /\ cover' = {}
    /\ sweep' = [sweep EXCEPT !.mine = FALSE]
    /\ UNCHANGED <<gate, holds, up, owed, cutting, runVars, hist>>

Rejoin ==
    /\ up /\ ~stored
    /\ stored' = TRUE
    /\ UNCHANGED <<keyVars, up, opened, owed, recVars, cutting, runVars, sweep, course, hist>>

Crash ==
    /\ up /\ Spend("crash")
    /\ up' = FALSE /\ opened' = FALSE /\ seen' = {}
    /\ cutting' = {} /\ chain' = <<>> /\ att' = NoAtt /\ loop' = "none" /\ sweep' = NoSweep
    /\ send' = [i \in Sends |-> "idle"]
    /\ UNCHANGED <<gate, holds, stored, owed, recVars, hist>>

Restart ==
    /\ ~up
    /\ up' = TRUE
    /\ chain' = TakenUp
    /\ UNCHANGED <<keyVars, stored, opened, owed, recVars, cutting, att, loop, send, sweep, course, hist>>

(***************************************************************************)
(* The sweep for access lost elsewhere, on every open by the owner.         *)
(***************************************************************************)
SweepStart ==
    /\ up /\ opened /\ sweep.phase = "none" /\ owed = {}
    /\ sweep' = [NoSweep EXCEPT !.phase = "reading", !.mine = TRUE]
    /\ UNCHANGED <<keyVars, localVars, owed, recVars, cutting, runVars, course, hist>>

\* getGateMemberFlags: the roster and the gate add to the candidates this device knows.
\* When states() cannot be read, the fallback reports nobody with access.
SweepRead(extra) ==
    LET asked == snapshot \cup cover \cup seen \cup extra IN
    /\ sweep.phase = "reading"
    /\ \/ /\ sweep' = [sweep EXCEPT !.phase = "read", !.access = asked \cap In,
                         !.lost = asked \ In, !.banned = {a \in asked : gate[a] = "banned"}]
          /\ UNCHANGED course
       \/ /\ Spend("flags")
          /\ sweep' = [sweep EXCEPT !.phase = "read", !.lost = asked,
                         !.banned = {a \in asked : gate[a] = "banned"}]
    /\ UNCHANGED <<keyVars, localVars, owed, recVars, cutting, runVars, hist>>

PendingUncovered(covered) ==                                     \* mutant of Pending
    ((sweep.lost \cap snapshot) \cup sweep.banned) \ covered
Pending(covered) ==
    (((sweep.lost \cap snapshot) \cup sweep.banned) \ covered) \cup (sweep.lost \cap seen)

SweepJudge ==
    LET covered == cover \ sweep.access
        due     == Pending(covered)
    IN  /\ sweep.phase = "read"
        /\ IF due = {}
           THEN /\ sweep' = NoSweep
                /\ IF sweep.mine THEN cover' = covered /\ snapshot' = sweep.access
                                 ELSE UNCHANGED recVars
           ELSE /\ sweep' = [sweep EXCEPT !.phase = "asked", !.pending = due,
                               !.cover = covered \cup due]
                /\ UNCHANGED recVars
        /\ UNCHANGED <<keyVars, localVars, owed, cutting, runVars, course, hist>>

SweepNumber ==
    /\ sweep.phase = "asked"
    /\ sweep' = [sweep EXCEPT !.phase = "numbered", !.fresh = TRUE]
    /\ UNCHANGED <<keyVars, localVars, owed, recVars, cutting, runVars, course, hist>>

SweepOut ==
    /\ sweep.phase = "numbered"
    /\ KeyReplaced(sweep.fresh)
    /\ sweep' = [sweep EXCEPT !.phase = "out"]
    /\ att' = [att EXCEPT !.fresh = @ /\ ~sweep.fresh]
    /\ UNCHANGED <<localVars, owed, recVars, cutting, chain, loop, send, course>>

SweepSave ==
    /\ sweep.phase = "out"
    /\ sweep' = NoSweep
    /\ IF sweep.mine THEN cover' = sweep.cover /\ snapshot' = sweep.access
                     ELSE UNCHANGED recVars
    /\ UNCHANGED <<keyVars, localVars, owed, cutting, runVars, course, hist>>

\* the rotation failed: nothing is recorded, the next open judges again
RecordAnyway == cover' = sweep.cover /\ snapshot' = sweep.access \* mutant of RecordKept
RecordKept   == UNCHANGED recVars

SweepFail ==
    /\ sweep.phase \in {"asked", "numbered"}
    /\ Spend("fail")
    /\ \/ UNCHANGED <<keyVars, att, hist>>
       \/ /\ sweep.phase = "numbered" /\ KeyReplaced(sweep.fresh)
          /\ att' = [att EXCEPT !.fresh = @ /\ ~sweep.fresh]
    /\ RecordKept
    /\ sweep' = NoSweep
    /\ UNCHANGED <<localVars, owed, cutting, chain, loop, send>>

(***************************************************************************)
Init ==
    /\ course \in Courses
    /\ gate \in {g \in [Members -> {"in", "out"}] : \A a \in Members \ course.members : g[a] = "out"}
    /\ holds \in SUBSET Members /\ holds \subseteq In
    /\ seen = {} /\ up = TRUE /\ stored = TRUE /\ opened = FALSE
    /\ owed = {} /\ snapshot = {} /\ cover = {} /\ cutting = {}
    /\ chain = <<>> /\ att = NoAtt /\ loop = "none" /\ sweep = NoSweep
    /\ send = [i \in Sends |-> "idle"]
    /\ cutHere = {} /\ recut = {} /\ regained = {}
    /\ before = [i \in Sends |-> {}]

Attempt == AttemptStart \/ AttemptNumber \/ AttemptOut \/ AttemptPaid \/ AttemptDone \/ AttemptFail
Sweep   == \/ SweepStart \/ \E extra \in SUBSET course.members : SweepRead(extra)
           \/ SweepJudge \/ SweepNumber \/ SweepOut \/ SweepSave \/ SweepFail
Session == Open \/ Leave \/ Rejoin \/ Crash \/ Restart \/ Reconnect

Next ==
    \/ \E a \in course.members : Answer(a) \/ CutFails(a) \/ RotateFor(a)
    \/ \E a \in course.members, how \in {"out", "banned"} : LoseAccess(a, how) \/ CutMined(a, how)
    \/ \E a \in course.members, to \in {"in", "out"} : LetIn(a, to)
    \/ Attempt \/ LoopWake \/ Sweep \/ Session \/ Edit
    \/ \E i \in course.sends : SendStart(i) \/ Publish(i)

Spec == Init /\ [][Next]_vars

(***************************************************************************)
(* Fairness: promises resolve and timers fire while the session runs; the   *)
(* owner comes back after a crash and keeps opening the channel.            *)
(***************************************************************************)
Fairness == /\ WF_vars(Attempt) /\ WF_vars(LoopWake)
            /\ WF_vars(\E a \in Members : RotateFor(a))
            /\ WF_vars(Sweep) /\ WF_vars(Open) /\ WF_vars(Restart)

FairSpec == Spec /\ Fairness

(***************************************************************************)
(* Properties.                                                             *)
(***************************************************************************)
\* The debt, the attempt, the loop, the sweep and the sends are what their types say, and an
\* attempt runs only for a caller that waits for it.
TypeOK ==
    /\ gate \in [Members -> {"in", "out", "banned"}]
    /\ holds \subseteq Members /\ seen \subseteq holds
    /\ up \in BOOLEAN /\ stored \in BOOLEAN /\ opened \in BOOLEAN
    /\ owed \subseteq Members /\ snapshot \subseteq Members /\ cover \subseteq Members
    /\ cutting \subseteq Members
    /\ chain \in Seq(Callers)
    /\ att \in AttemptStates
    /\ loop \in {"none", "asleep", "waiting"}
    /\ send \in [Sends -> {"idle", "settling", "cleared"}]
    /\ sweep \in SweepStates
    /\ course \in CourseStates
    /\ cutHere \subseteq Members /\ recut \subseteq Members /\ regained \subseteq Members
    /\ before \in [Sends -> SUBSET Members]
    /\ att.phase # "none" => chain # <<>>

\* A debt outlives everything but a rotation that cut its address off: an account out by a cut
\* recorded on this device has the key in force only while the rotation is owed for it
\* (RotationRetry), whatever crashes, sweeps, retries and sends run beside it.  The exception is
\* an account let in and cut again while the rotation for its first cut was past helping.
NoDebtForgotten == \A a \in cutHere \cap holds : a \in owed \cup recut

\* A message is never published to somebody cut before the send began (_publishTracked settles
\* first): the key in force at the publish is not theirs, though cuts made since may be owed.
SendsKeepOut == \A i \in Sends : send[i] = "cleared" => before[i] \cap holds \subseteq recut

\* What lets the sweep skip a covered account: whoever is covered and has the key in force got it
\* by being let in again after the rotation that covered them.
\* Courses with an unreadable gate are left out: one misread is judged as everybody having lost access.
CoveredRegained == cover \cap holds \subseteq regained
CoverSound == course.left.flags = 0 => []CoveredRegained

\* An owed rotation goes out, or is dropped with the channel: the loop, the next session and the
\* sends between them never leave it behind, unless the owner leaves the channel and the session ends.
DebtIsPaid == course.left.leave = 0 => \A a \in Members : a \in owed ~> a \notin owed

\* While every wrap is seen and the owner keeps the channel, whoever loses access by any hand, with any crash between the
\* transaction and the debt, stops having the key in force, or is let in again.
LossEndsReading ==
    course.left.unseen = 0 /\ course.left.leave = 0 =>
        \A a \in Members : gate[a] # "in" /\ a \in holds ~> a \notin holds \/ gate[a] = "in"

\* Not upheld: a debt recorded here lasts until the key in force is not the cut account's.
EveryDebtKept == \A a \in cutHere \cap holds : a \in owed

\* Not upheld: `an owed rotation goes first, or the publish does not go'.
OwedGoesFirst == [][(Edit \/ \E i \in Sends : Publish(i) /\ send' # send) => owed = {}]_vars

\* Not upheld: `in the last snapshot with access, now without: rotate'.
LostAccessRotates ==
    [][SweepJudge => \A a \in snapshot \cap sweep.lost :
                        a \in holds /\ gate[a] # "in" => a \in sweep'.pending]_vars
=============================================================================
