--------------------------- MODULE OnChain_proofs ---------------------------
(***************************************************************************)
(* Proofs about the two machines whose writes are transactions:            *)
(* RotationDebt, for any accounts, sends and bounds, and ChannelCreation,  *)
(* for any creations, faults and bounds.                                   *)
(*                                                                         *)
(* NoDebtForgotten is not inductive: clearing a debt (AttemptPaid) is sound*)
(* only because the addresses it clears lost the key in force when the     *)
(* announce went out, or earlier when another announce beat it (PaidOK).   *)
(* The session's cuts are out of the gate (CutIsOut), so nobody answers    *)
(* them, and a send remembers only such cuts (BeforeOK).                   *)
(*                                                                         *)
(* Nor are the properties of ChannelCreation: a write is not paid twice    *)
(* because of what the plan has left (Ordered), a paid channel is not lost *)
(* because each gate the session keeps is its own clone (Owned) and each   *)
(* answer still to be applied stays true (AnswerTrue), and a repair leaves *)
(* nothing because its report names all that was missing (Tells, Works).   *)
(***************************************************************************)
EXTENDS RotationDebt, ChannelCreation, FiniteSetTheorems, SequenceTheorems, TLAPS

-----------------------------------------------------------------------------
(***************************************************************************)
(* RotationDebt                                                            *)
(***************************************************************************)
CutIsOut == cutHere \cap In = {}
BeforeOK == \A i \in Sends : before[i] \subseteq cutHere
Past     == att.phase = "out" \/ (att.phase = "numbered" /\ ~att.fresh)
PaidOK   == Past => att.who \cap cutHere \cap holds \subseteq recut

DebtInv == NoDebtForgotten /\ CutIsOut /\ BeforeOK /\ PaidOK /\ SendsKeepOut

\* an event spent leaves a course
LEMMA Spent == ASSUME course \in CourseStates, NEW e \in Events, Spend(e)
               PROVE  course' \in CourseStates
  <1>1. course.left[e] \in Nat /\ course.left[e] > 0
    BY DEF Spend, CourseStates
  <1>2. [course.left EXCEPT ![e] = @ - 1] \in [Events -> Nat]
    BY <1>1 DEF CourseStates
  <1>3. course' = [course EXCEPT !.left = [course.left EXCEPT ![e] = @ - 1]]
    BY DEF Spend, CourseStates
  <1> QED BY <1>2, <1>3 DEF CourseStates

\* who acts in a course are members and sends
LEMMA InCourse == TypeOK => course.members \subseteq Members /\ course.sends \subseteq Sends
  BY DEF TypeOK, CourseStates

\* no attempt and no sweep are well typed
LEMMA NothingTyped ==
    /\ NoAtt \in AttemptStates /\ NoAtt.phase = "none"
    /\ NoSweep \in SweepStates
  BY DEF NoAtt, NoSweep, AttemptStates, SweepStates

\* another announce going out only marks the rotation in flight (KeyReplaced's callers)
LEMMA MarkTyped ==
    ASSUME att \in AttemptStates, sweep \in SweepStates
    PROVE  /\ att.fresh \in BOOLEAN /\ sweep.fresh \in BOOLEAN /\ att.who \subseteq Members
           /\ sweep.access \subseteq Members /\ sweep.cover \subseteq Members
           /\ [att EXCEPT !.fresh = @ /\ ~sweep.fresh] \in AttemptStates
           /\ [sweep EXCEPT !.fresh = @ /\ ~att.fresh] \in SweepStates
           /\ [sweep EXCEPT !.mine = FALSE] \in SweepStates
           /\ [att EXCEPT !.phase = "out"] \in AttemptStates
           /\ [att EXCEPT !.phase = "paid"] \in AttemptStates
           /\ [sweep EXCEPT !.phase = "out"] \in SweepStates
  BY DEF AttemptStates, SweepStates


LEMMA ReadTyped ==
    ASSUME NEW s \in SweepStates, NEW A \in SUBSET Members, NEW B \in SUBSET Members,
           NEW C \in SUBSET Members
    PROVE  /\ [s EXCEPT !.phase = "read", !.access = A, !.lost = B, !.banned = C] \in SweepStates
           /\ [s EXCEPT !.phase = "read", !.lost = B, !.banned = C] \in SweepStates
           /\ [s EXCEPT !.phase = "asked", !.pending = A, !.cover = B] \in SweepStates
           /\ s.access \subseteq Members /\ s.lost \subseteq Members /\ s.banned \subseteq Members
           /\ s.cover \subseteq Members
  BY DEF SweepStates

\* a caller joins the chain
LEMMA Joined ==
    ASSUME chain \in Seq(Callers), NEW c \in Callers
    PROVE  Append(chain, c) \in Seq(Callers) /\ Append(chain, c) # <<>>
  <1>1. Append(chain, c) \in Seq(Callers) /\ Len(Append(chain, c)) = Len(chain) + 1
    OBVIOUS
  <1>2. Len(chain) \in Nat /\ Len(<<>>) = 0
    OBVIOUS
  <1> QED BY <1>1, <1>2

\* the session starts with nothing running
LEMMA EmptyTyped == /\ <<>> \in Seq(Callers)
                    /\ [i \in Sends |-> "idle"] \in [Sends -> {"idle", "settling", "cleared"}]
                    /\ [i \in Sends |-> {}] \in [Sends -> SUBSET Members]
  OBVIOUS

LEMMA CallerNames == /\ "cut" \in Callers /\ "resume" \in Callers /\ "loop" \in Callers
                     /\ Sends \subseteq Callers
  BY DEF Callers

-----------------------------------------------------------------------------
\* Type correctness: the initial state is well typed (Init).
LEMMA InitTyped == Init => TypeOK
  BY NothingTyped, EmptyTyped, RotationDebtAssumption DEF Init, TypeOK, In

\* Every step of the debt, the sweep, the gate and the session keeps the types (Next).
LEMMA StepTyped == TypeOK /\ [Next]_vars => TypeOK'
<1> SUFFICES ASSUME TypeOK, [Next]_vars PROVE TypeOK'
  OBVIOUS
<1>0. /\ "cut" \in Events /\ "elsewhere" \in Events /\ "admit" \in Events /\ "fail" \in Events
      /\ "crash" \in Events /\ "unseen" \in Events /\ "flags" \in Events /\ "leave" \in Events
      /\ "edit" \in Events /\ "receipt" \in Events /\ "reconnect" \in Events
  BY DEF Events
<1> USE <1>0, Spent, NothingTyped, Joined, CallerNames DEF TypeOK, keyVars, localVars, recVars, runVars, hist
<1>1. ASSUME NEW a \in Members, Answer(a) PROVE TypeOK'
  BY <1>1 DEF Answer
<1>2. ASSUME NEW a \in Members, CutFails(a) PROVE TypeOK'
  BY <1>2 DEF CutFails
<1>3. ASSUME NEW a \in Members, RotateFor(a) PROVE TypeOK'
  BY <1>3 DEF RotateFor, In
<1>4. ASSUME NEW a \in Members, NEW how \in {"out", "banned"}, LoseAccess(a, how) PROVE TypeOK'
  BY <1>4 DEF LoseAccess
<1>5. ASSUME NEW a \in Members, NEW how \in {"out", "banned"}, CutMined(a, how) PROVE TypeOK'
  BY <1>5 DEF CutMined
<1>6. ASSUME NEW a \in Members, NEW to \in {"in", "out"}, LetIn(a, to) PROVE TypeOK'
  BY <1>6 DEF LetIn
<1>7. ASSUME NEW done \in BOOLEAN, chain # <<>>, Answered(done)
      PROVE /\ chain' \in Seq(Callers) /\ att' = NoAtt
            /\ loop' \in {"none", "asleep", "waiting"}
            /\ send' \in [Sends -> {"idle", "settling", "cleared"}]
  BY <1>7 DEF Callers, Answered, EnsureLoop, Settled
<1>8. CASE Attempt
  <2>1. CASE AttemptStart
    <3>1. [phase |-> "asked", who |-> owed, fresh |-> FALSE] \in AttemptStates
      BY DEF AttemptStates
    <3>2. CASE owed = {} \/ ~stored
      BY <2>1, <1>7, <3>2 DEF AttemptStart
    <3>3. CASE owed # {} /\ stored
      BY <2>1, <3>1, <3>3 DEF AttemptStart
    <3> QED BY <3>2, <3>3
  <2>2. CASE AttemptNumber
    BY <2>2 DEF AttemptNumber, AttemptStates
  <2>3. CASE AttemptOut
    BY <2>3, MarkTyped DEF KeyReplaced, In, AttemptOut
  <2>4. CASE AttemptPaid
    BY <2>4, MarkTyped DEF AttemptPaid, Unpaid
  <2>5. CASE AttemptDone
    BY <2>5 DEF AttemptDone, Answered, EnsureLoop, Settled, Callers
  <2>6. CASE AttemptFail
    BY <2>6, <1>7, MarkTyped DEF KeyReplaced, In, AttemptFail
  <2> QED BY <1>8, <2>1, <2>2, <2>3, <2>4, <2>5, <2>6 DEF Attempt
<1>9. CASE LoopWake
  BY <1>9 DEF LoopWake, Dropped
<1>10. CASE Sweep
  <2>1. CASE SweepStart
    BY <2>1 DEF SweepStart, NoSweep, SweepStates
  <2>2. ASSUME NEW extra \in SUBSET Members, SweepRead(extra) PROVE TypeOK'
    <3> DEFINE asked == snapshot \cup cover \cup seen \cup extra
               ok  == asked \cap In
               out == asked \ In
               bad == {a \in asked : gate[a] = "banned"}
    <3>1. asked \in SUBSET Members /\ ok \in SUBSET Members /\ out \in SUBSET Members /\ bad \in SUBSET Members
      BY DEF In
    <3>2. \/ sweep' = [sweep EXCEPT !.phase = "read", !.access = ok, !.lost = out, !.banned = bad]
          \/ sweep' = [sweep EXCEPT !.phase = "read", !.lost = asked, !.banned = bad]
      BY <2>2 DEF SweepRead
    <3>3. course' \in CourseStates
      BY <2>2 DEF SweepRead
    <3> HIDE DEF ok, out, bad, asked
    <3>4. /\ [sweep EXCEPT !.phase = "read", !.access = ok, !.lost = out, !.banned = bad] \in SweepStates
          /\ [sweep EXCEPT !.phase = "read", !.lost = asked, !.banned = bad] \in SweepStates
      <4> HIDE DEF TypeOK
      <4>1. sweep \in SweepStates
        BY DEF TypeOK
      <4> QED BY ONLY <3>1, <4>1, ReadTyped
    <3> QED BY <2>2, <3>2, <3>3, <3>4 DEF SweepRead
  <2>3. CASE SweepJudge
    <3> DEFINE covered == cover \ sweep.access
               owing == Pending(covered)
               all == covered \cup owing
    <3>1. covered \in SUBSET Members /\ owing \in SUBSET Members /\ all \in SUBSET Members
          /\ sweep.access \in SUBSET Members
      BY ReadTyped DEF Pending
    <3>2. /\ \/ sweep' = NoSweep
             \/ sweep' = [sweep EXCEPT !.phase = "asked", !.pending = owing, !.cover = all]
          /\ cover' \in {cover, covered} /\ snapshot' \in {snapshot, sweep.access}
      BY <2>3 DEF SweepJudge
    <3> HIDE DEF covered, owing, all
    <3>3. [sweep EXCEPT !.phase = "asked", !.pending = owing, !.cover = all] \in SweepStates
      <4> HIDE DEF TypeOK
      <4>1. sweep \in SweepStates
        BY DEF TypeOK
      <4> QED BY ONLY <3>1, <4>1, ReadTyped
    <3> QED BY <2>3, <3>1, <3>2, <3>3 DEF SweepJudge
  <2>4. CASE SweepNumber
    BY <2>4 DEF SweepNumber, SweepStates
  <2>5. CASE SweepOut
    BY <2>5, MarkTyped DEF KeyReplaced, In, SweepOut
  <2>6. CASE SweepSave
    BY <2>6, MarkTyped DEF SweepSave
  <2>7. CASE SweepFail
    <3>1. att' \in AttemptStates /\ (att.phase # "none" => att'.phase # "none") /\ att'.phase = att.phase
      BY <2>7, MarkTyped DEF SweepFail, AttemptStates
    <3>2. holds' \subseteq Members /\ seen' \subseteq holds' /\ recut' \subseteq Members
          /\ regained' \subseteq Members /\ UNCHANGED <<gate, cutHere, before>>
      BY <2>7 DEF SweepFail, KeyReplaced, In
    <3> QED BY <2>7, <3>1, <3>2 DEF SweepFail, RecordKept
  <2> QED BY <1>10, InCourse, <2>1, <2>2, <2>3, <2>4, <2>5, <2>6, <2>7 DEF Sweep
<1>11. CASE Session
  <2>1. CASE Open
    BY <2>1 DEF Open
  <2>2. CASE Leave
    BY <2>2, MarkTyped DEF Leave
  <2>3. CASE Rejoin
    BY <2>3 DEF Rejoin
  <2>4. CASE Crash
    BY <2>4, EmptyTyped DEF Crash
  <2>5. CASE Restart
    BY <2>5 DEF Restart, TakenUp
  <2>6. CASE Reconnect
    BY <2>6 DEF Reconnect, TakenUp
  <2> QED BY <1>11, <2>1, <2>2, <2>3, <2>4, <2>5, <2>6 DEF Session
<1>12. CASE Edit
  BY <1>12 DEF Edit
<1>13. ASSUME NEW i \in Sends, SendStart(i) PROVE TypeOK'
  BY <1>13 DEF SendStart
<1>14. ASSUME NEW i \in Sends, Publish(i) PROVE TypeOK'
  BY <1>14 DEF Publish
<1>15. CASE UNCHANGED vars
  BY <1>15 DEF vars
<1> QED BY InCourse, <1>1, <1>2, <1>3, <1>4, <1>5, <1>6, <1>8, <1>9, <1>10, <1>11, <1>12, <1>13, <1>14, <1>15
        DEF Next

-----------------------------------------------------------------------------
\* The initial state owes nothing and has cut nobody (Init).
LEMMA InitDebt == Init => DebtInv
  BY DEF Init, DebtInv, NoDebtForgotten, CutIsOut, BeforeOK, Past, PaidOK, SendsKeepOut, NoAtt

\* A rotation going out, by an attempt, a sweep or a failed one, keeps the debts: a fresh one takes
\* the key from everybody, a beaten one changes nothing (KeyReplaced).
LEMMA ReplacedKeeps ==
    ASSUME TypeOK, DebtInv, NEW fresh \in BOOLEAN, KeyReplaced(fresh)
    PROVE  /\ holds' = {} \/ (~fresh /\ holds' = holds /\ recut' = recut)
           /\ cutHere' = cutHere /\ before' = before /\ In' = In
  BY DEF KeyReplaced, In

\* The caller of an attempt is answered: a send is cleared only with nothing owed (Answered).
LEMMA AnsweredKeeps ==
    ASSUME TypeOK, DebtInv, att' = NoAtt,
           \A i \in Sends : send'[i] = "cleared" => send[i] = "cleared" \/ owed = {},
           UNCHANGED <<owed, cutHere, before, gate>>,
           holds' = {} \/ UNCHANGED <<holds, recut>>
    PROVE  DebtInv'
  <1> USE DEF DebtInv, NoDebtForgotten, CutIsOut, BeforeOK, SendsKeepOut, In
  <1>1. NoDebtForgotten' /\ CutIsOut' /\ BeforeOK'
    OBVIOUS
  <1>2. PaidOK'
    BY NothingTyped DEF PaidOK, Past, NoAtt
  <1>3. SendsKeepOut'
    OBVIOUS
  <1> QED BY <1>1, <1>2, <1>3

\* Every step keeps the debts (Next).
LEMMA StepDebt == TypeOK /\ DebtInv /\ [Next]_vars => DebtInv'
<1> SUFFICES ASSUME TypeOK, DebtInv, [Next]_vars PROVE DebtInv'
  OBVIOUS
<1> USE DEF DebtInv, NoDebtForgotten, CutIsOut, BeforeOK, Past, PaidOK, SendsKeepOut,
            keyVars, localVars, recVars, runVars, hist, In
<1>1. ASSUME NEW a \in Members, Answer(a) PROVE DebtInv'
  BY <1>1 DEF Answer
<1>2. ASSUME NEW a \in Members, CutFails(a) PROVE DebtInv'
  BY <1>2 DEF CutFails
<1>3. ASSUME NEW a \in Members, RotateFor(a) PROVE DebtInv'
  BY <1>3 DEF RotateFor, PastHelping
<1>4. ASSUME NEW a \in Members, NEW how \in {"out", "banned"}, LoseAccess(a, how) PROVE DebtInv'
  BY <1>4 DEF LoseAccess, TypeOK
<1>5. ASSUME NEW a \in Members, NEW how \in {"out", "banned"}, CutMined(a, how) PROVE DebtInv'
  BY <1>5 DEF CutMined, TypeOK
<1>6. ASSUME NEW a \in Members, NEW to \in {"in", "out"}, LetIn(a, to) PROVE DebtInv'
  BY <1>6 DEF LetIn, TypeOK
<1>8. CASE Attempt
  <2>1. CASE AttemptStart
    <3>1. CASE owed = {} \/ ~stored
      <4>1. att' = NoAtt /\ \A i \in Sends : send'[i] = "cleared" => send[i] = "cleared" \/ owed = {}
        BY <2>1, <3>1 DEF AttemptStart, Answered, Settled, TypeOK
      <4>2. UNCHANGED <<owed, cutHere, before, gate, holds, recut>>
        BY <2>1 DEF AttemptStart
      <4> HIDE DEF DebtInv
      <4> QED BY <4>1, <4>2, AnsweredKeeps
    <3>2. CASE owed # {} /\ stored
      <4>1. att' = [phase |-> "asked", who |-> owed, fresh |-> FALSE] /\ send' = send
        BY <2>1, <3>2 DEF AttemptStart
      <4>2. UNCHANGED <<owed, cutHere, before, gate, holds, recut>>
        BY <2>1 DEF AttemptStart
      <4>3. ~Past'
        BY <4>1
      <4> QED BY <4>1, <4>2, <4>3
    <3> QED BY <3>1, <3>2
  <2>2. CASE AttemptNumber
    BY <2>2 DEF AttemptNumber, TypeOK, AttemptStates
  <2>3. CASE AttemptOut
    BY <2>3, ReplacedKeeps, MarkTyped DEF AttemptOut, TypeOK, AttemptStates
  <2>4. CASE AttemptPaid
    BY <2>4 DEF AttemptPaid, Unpaid, TypeOK, AttemptStates
  <2>5. CASE AttemptDone
    <3>1. att' = NoAtt /\ \A i \in Sends : send'[i] = "cleared" => send[i] = "cleared" \/ owed = {}
      BY <2>5 DEF AttemptDone, Answered, Settled, TypeOK
    <3>2. UNCHANGED <<owed, cutHere, before, gate, holds, recut>>
      BY <2>5 DEF AttemptDone
    <3> HIDE DEF DebtInv
    <3> QED BY <3>1, <3>2, AnsweredKeeps
  <2>6. CASE AttemptFail
    <3>1. att' = NoAtt /\ \A i \in Sends : send'[i] = "cleared" => send[i] = "cleared" \/ owed = {}
      BY <2>6 DEF AttemptFail, Answered, Settled, TypeOK
    <3>2. /\ UNCHANGED <<owed, cutHere, before, gate>>
          /\ holds' = {} \/ UNCHANGED <<holds, recut>>
      BY <2>6 DEF AttemptFail, KeyReplaced
    <3> HIDE DEF DebtInv
    <3> QED BY <3>1, <3>2, AnsweredKeeps
  <2> QED BY <1>8, <2>1, <2>2, <2>3, <2>4, <2>5, <2>6 DEF Attempt
<1>9. CASE LoopWake
  BY <1>9 DEF LoopWake, Dropped
<1>10. CASE Sweep
  <2>1. CASE SweepStart
    BY <2>1 DEF SweepStart
  <2>2. ASSUME NEW extra \in SUBSET Members, SweepRead(extra) PROVE DebtInv'
    BY <2>2 DEF SweepRead
  <2>3. CASE SweepJudge
    BY <2>3 DEF SweepJudge
  <2>4. CASE SweepNumber
    BY <2>4 DEF SweepNumber
  <2>5. CASE SweepOut
    BY <2>5, ReplacedKeeps, MarkTyped DEF SweepOut, TypeOK, AttemptStates
  <2>6. CASE SweepSave
    BY <2>6 DEF SweepSave
  <2>7. CASE SweepFail
    BY <2>7, ReplacedKeeps, MarkTyped DEF SweepFail, TypeOK, AttemptStates
  <2> QED BY <1>10, InCourse, <2>1, <2>2, <2>3, <2>4, <2>5, <2>6, <2>7 DEF Sweep
<1>11. CASE Session
  <2>1. CASE Open
    BY <2>1 DEF Open
  <2>2. CASE Leave
    BY <2>2 DEF Leave
  <2>3. CASE Rejoin
    BY <2>3 DEF Rejoin
  <2>4. CASE Crash
    BY <2>4 DEF Crash, NoAtt
  <2>5. CASE Restart
    BY <2>5 DEF Restart
  <2>6. CASE Reconnect
    BY <2>6 DEF Reconnect
  <2> QED BY <1>11, <2>1, <2>2, <2>3, <2>4, <2>5, <2>6 DEF Session
<1>12. CASE Edit
  BY <1>12 DEF Edit
<1>13. ASSUME NEW i \in Sends, SendStart(i) PROVE DebtInv'
  BY <1>13 DEF SendStart, TypeOK
<1>14. ASSUME NEW i \in Sends, Publish(i) PROVE DebtInv'
  BY <1>14 DEF Publish, TypeOK
<1>15. CASE UNCHANGED vars
  BY <1>15 DEF vars
<1> QED BY InCourse, <1>1, <1>2, <1>3, <1>4, <1>5, <1>6, <1>8, <1>9, <1>10, <1>11, <1>12, <1>13, <1>14, <1>15
        DEF Next

-----------------------------------------------------------------------------
\* The invariant holds in every reachable state.
THEOREM DebtInvariance == Spec => [](TypeOK /\ DebtInv)
<1>1. Init => TypeOK /\ DebtInv
  BY InitTyped, InitDebt
<1>2. TypeOK /\ DebtInv /\ [Next]_vars => (TypeOK /\ DebtInv)'
  BY StepTyped, StepDebt
<1> QED BY <1>1, <1>2, PTL DEF Spec

\* The states of the debt, the sweep and the session are always well typed.
THEOREM DebtTyped == Spec => []TypeOK
<1>1. TypeOK /\ DebtInv => TypeOK
  OBVIOUS
<1> QED BY <1>1, DebtInvariance, PTL

\* A cut recorded on this device leaves the account without the key in force, or owed a rotation
\* (RotationRetry), for any accounts, failures, crashes and order of attempts.
THEOREM DebtsOutliveFaults == Spec => []NoDebtForgotten
<1>1. TypeOK /\ DebtInv => NoDebtForgotten
  BY DEF DebtInv
<1> QED BY <1>1, DebtInvariance, PTL

\* What a send publishes, nobody cut before it began can read (settle in _publishTracked).
THEOREM SendsExcludeTheCut == Spec => []SendsKeepOut
<1>1. TypeOK /\ DebtInv => SendsKeepOut
  BY DEF DebtInv
<1> QED BY <1>1, DebtInvariance, PTL

-----------------------------------------------------------------------------
(* What is covered                                                          *)
(*                                                                         *)
(* CoveredRegained is not inductive: who is covered is decided before the    *)
(* rotation, and recorded after it.  So whoever a cut, a debt, an attempt or  *)
(* a sweep names must be out, or let in again since (LetBack); and once the   *)
(* rotation can no longer take a key, or went out, who it names and has the   *)
(* key in force got it back since (GoneOK).                                  *)

LetBack ==
    /\ (cutting \cup owed \cup att.who \cup cover) \cap In \subseteq regained
    /\ (sweep.lost \cup sweep.cover) \cap In \subseteq regained
    /\ sweep.banned \subseteq sweep.lost

SweepPast == sweep.phase = "out" \/ (sweep.phase = "numbered" /\ ~sweep.fresh)
GoneOK ==
    /\ CoveredRegained
    /\ Past => att.who \cap holds \subseteq regained
    /\ SweepPast => sweep.cover \cap holds \subseteq regained

CoverInv == course.left.flags = 0 /\ LetBack /\ GoneOK

LEMMA InitCover == Init /\ course.left.flags = 0 => CoverInv
  BY DEF Init, CoverInv, LetBack, GoneOK, CoveredRegained, Past, SweepPast, NoAtt, NoSweep

\* An unreadable gate stays unheard of.
LEMMA NoFlags ==
    ASSUME TypeOK, course.left.flags = 0, NEW e \in Events, Spend(e)
    PROVE  e # "flags" /\ course'.left.flags = 0
  BY DEF TypeOK, CourseStates, Spend, Events

\* A rotation going out, with the mark it leaves on the other one in flight.
LEMMA ReplacedCovers ==
    ASSUME TypeOK, CoverInv, NEW fresh \in BOOLEAN, KeyReplaced(fresh)
    PROVE  /\ In' = In /\ regained \cap In \subseteq regained'
           /\ fresh => holds' = {}
           /\ ~fresh => holds' = holds /\ regained' = regained
  BY DEF KeyReplaced, In

\* Every step keeps who is covered (Next).
LEMMA StepCover == TypeOK /\ CoverInv /\ [Next]_vars => CoverInv'
<1> SUFFICES ASSUME TypeOK, CoverInv, [Next]_vars PROVE CoverInv'
  OBVIOUS
<1>0. /\ "cut" \in Events /\ "elsewhere" \in Events /\ "admit" \in Events /\ "fail" \in Events
      /\ "crash" \in Events /\ "unseen" \in Events /\ "flags" \in Events /\ "leave" \in Events
      /\ "edit" \in Events /\ "receipt" \in Events /\ "reconnect" \in Events
  BY DEF Events
<1>f. course.left.flags = 0
  BY DEF CoverInv
<1> USE <1>0, <1>f, NoFlags DEF CoverInv, LetBack, GoneOK, CoveredRegained, Past, SweepPast, keyVars, localVars, recVars,
            runVars, hist, In
<1>1. ASSUME NEW a \in Members, Answer(a) PROVE CoverInv'
  BY <1>1 DEF Answer
<1>2. ASSUME NEW a \in Members, CutFails(a) PROVE CoverInv'
  BY <1>2 DEF CutFails
<1>3. ASSUME NEW a \in Members, RotateFor(a) PROVE CoverInv'
  BY <1>3 DEF RotateFor
<1>4. ASSUME NEW a \in Members, NEW how \in {"out", "banned"}, LoseAccess(a, how) PROVE CoverInv'
  BY <1>4 DEF LoseAccess, TypeOK
<1>5. ASSUME NEW a \in Members, NEW how \in {"out", "banned"}, CutMined(a, how) PROVE CoverInv'
  BY <1>5 DEF CutMined, TypeOK
<1>6. ASSUME NEW a \in Members, NEW to \in {"in", "out"}, LetIn(a, to) PROVE CoverInv'
  BY <1>6 DEF LetIn, TypeOK
<1>8. CASE Attempt
  <2>1. CASE AttemptStart
    <3>1. att' = NoAtt \/ att' = [phase |-> "asked", who |-> owed, fresh |-> FALSE]
      BY <2>1 DEF AttemptStart, Answered
    <3>2. /\ att'.who \subseteq owed /\ ~Past'
          /\ UNCHANGED <<gate, holds, owed, cover, cutting, sweep, course, regained>>
      BY <2>1, <3>1 DEF AttemptStart, NoAtt
    <3> QED BY <3>2
  <2>2. CASE AttemptNumber
    BY <2>2 DEF AttemptNumber, TypeOK, AttemptStates
  <2>3. CASE AttemptOut
    BY <2>3, ReplacedCovers, MarkTyped DEF AttemptOut, TypeOK, AttemptStates, SweepStates
  <2>4. CASE AttemptPaid
    BY <2>4 DEF AttemptPaid, Unpaid, TypeOK, AttemptStates
  <2>5. CASE AttemptDone
    BY <2>5 DEF AttemptDone, Answered, NoAtt
  <2>6. CASE AttemptFail
    <3>1. att' = NoAtt
      BY <2>6 DEF AttemptFail, Answered
    <3>2. CASE UNCHANGED <<keyVars, sweep, hist>>
      BY <2>6, <3>1, <3>2 DEF AttemptFail, NoAtt
    <3>3. CASE /\ att.phase = "numbered" /\ KeyReplaced(att.fresh)
               /\ sweep' = [sweep EXCEPT !.fresh = @ /\ ~att.fresh]
      BY <2>6, <3>1, <3>3, ReplacedCovers, MarkTyped DEF AttemptFail, NoAtt, TypeOK, SweepStates
    <3> QED BY <2>6, <3>2, <3>3 DEF AttemptFail
  <2> QED BY <1>8, <2>1, <2>2, <2>3, <2>4, <2>5, <2>6 DEF Attempt
<1>9. CASE LoopWake
  BY <1>9 DEF LoopWake, Dropped
<1>10. CASE Sweep
  <2>1. CASE SweepStart
    BY <2>1 DEF SweepStart, NoSweep
  <2>2. ASSUME NEW extra \in SUBSET Members, SweepRead(extra) PROVE CoverInv'
    <3>1. ~Spend("flags")
      BY DEF Spend
    <3>2. PICK asked : sweep' = [sweep EXCEPT !.phase = "read", !.access = asked \cap In, !.lost = asked \ In,
                                             !.banned = {a \in asked : gate[a] = "banned"}]
      BY <2>2, <3>1 DEF SweepRead
    <3>3. /\ sweep'.phase = "read" /\ sweep'.lost \cap In = {} /\ sweep'.cover = sweep.cover
          /\ sweep'.banned \subseteq asked
      BY <3>2 DEF TypeOK, SweepStates
    <3>4. sweep'.banned \subseteq sweep'.lost
      BY <3>2 DEF TypeOK, SweepStates
    <3>5. UNCHANGED <<gate, holds, owed, cover, cutting, att, course, regained>>
      BY <2>2, <3>1 DEF SweepRead
    <3> QED BY <3>3, <3>4, <3>5
  <2>3. CASE SweepJudge
    <3> DEFINE covered == cover \ sweep.access
               owing     == Pending(covered)
    <3>1. owing \subseteq sweep.lost /\ covered \subseteq cover
      BY DEF Pending
    <3>2. UNCHANGED <<gate, holds, owed, cutting, att, course, regained>> /\ cover' \subseteq cover
      BY <2>3 DEF SweepJudge
    <3>3. CASE sweep' = NoSweep
      BY <3>2, <3>3 DEF NoSweep
    <3>4. CASE sweep' = [sweep EXCEPT !.phase = "asked", !.pending = owing, !.cover = covered \cup owing]
      <4> HIDE DEF owing, covered
      <4>1. /\ sweep'.phase = "asked" /\ sweep'.lost = sweep.lost /\ sweep'.banned = sweep.banned
            /\ sweep'.cover = covered \cup owing
        BY <3>4 DEF TypeOK, SweepStates
      <4> QED BY <3>1, <3>2, <4>1
    <3> QED BY <2>3, <3>3, <3>4 DEF SweepJudge
  <2>4. CASE SweepNumber
    BY <2>4 DEF SweepNumber, TypeOK, SweepStates
  <2>5. CASE SweepOut
    BY <2>5, ReplacedCovers, MarkTyped DEF SweepOut, TypeOK, AttemptStates, SweepStates
  <2>6. CASE SweepSave
    BY <2>6 DEF SweepSave, NoSweep
  <2>7. CASE SweepFail
    BY <2>7, ReplacedCovers, MarkTyped DEF SweepFail, RecordKept, NoSweep, TypeOK, AttemptStates
  <2> QED BY <1>10, InCourse, <2>1, <2>2, <2>3, <2>4, <2>5, <2>6, <2>7 DEF Sweep
<1>11. CASE Session
  <2>1. CASE Open
    BY <2>1 DEF Open
  <2>2. CASE Leave
    BY <2>2 DEF Leave, TypeOK, SweepStates
  <2>3. CASE Rejoin
    BY <2>3 DEF Rejoin
  <2>4. CASE Crash
    BY <2>4 DEF Crash, NoAtt, NoSweep
  <2>5. CASE Restart
    BY <2>5 DEF Restart
  <2>6. CASE Reconnect
    BY <2>6 DEF Reconnect
  <2> QED BY <1>11, <2>1, <2>2, <2>3, <2>4, <2>5, <2>6 DEF Session
<1>12. CASE Edit
  BY <1>12 DEF Edit
<1>13. ASSUME NEW i \in Sends, SendStart(i) PROVE CoverInv'
  BY <1>13 DEF SendStart
<1>14. ASSUME NEW i \in Sends, Publish(i) PROVE CoverInv'
  BY <1>14 DEF Publish
<1>15. CASE UNCHANGED vars
  BY <1>15 DEF vars
<1> QED BY InCourse, <1>1, <1>2, <1>3, <1>4, <1>5, <1>6, <1>8, <1>9, <1>10, <1>11, <1>12, <1>13, <1>14, <1>15
        DEF Next

\* Whoever the sweep skips as covered has not kept a key: who has the one in force was let in again
\* (_rotateForLostAccess, rotatedForNoAccess), however rotations, cuts and sweeps run beside each other.
THEOREM CoveredDidNotKeep == Spec => CoverSound
<1>1. Init /\ course.left.flags = 0 => CoverInv
  BY InitCover
<1>2. TypeOK /\ CoverInv /\ [Next]_vars => CoverInv'
  BY StepCover
<1>3. CoverInv => CoveredRegained
  BY DEF CoverInv, GoneOK
<1> QED BY <1>1, <1>2, <1>3, DebtTyped, PTL DEF Spec, CoverSound

-----------------------------------------------------------------------------
(***************************************************************************)
(* ChannelCreation                                                         *)
(*                                                                         *)
(* BaseInv: what a run is doing, and what must be on chain, on disk and in *)
(* memory for it to be doing that. HeldInv: every gate the session has of a*)
(* channel was deployed by its creation. MendedInv: a diagnosis, and a     *)
(* repair that goes by it, still name all that the chain lacks.            *)
(***************************************************************************)
Fails == {"stop", "skip", "skipTwo", "recover", "pass"}
StepSet == [w : Writes, ask : BOOLEAN, tries : Nat, fail : Fails]
Modes == {"idle", "ask", "send", "mined", "recover", "save", "over"} \cup Ending
RunSet == [kind : {"idle", "create", "repair"}, todo : Seq(StepSet), mode : Modes, round : Nat,
           gate : Nat, ask : BOOLEAN, recovered : BOOLEAN, failed : BOOLEAN]
LookSet == [of : Creations, finish : BOOLEAN, found : Nat, seen : {"unread", "there", "missing"}]

\* the types of the variables
Typed ==
    /\ clones \in Seq([by : Gated, mine : BOOLEAN])
    /\ onChain \in [Creations -> SUBSET Writes]
    /\ records \in [Creations -> [on : BOOLEAN, gate : Nat, start : Nat, old : BOOLEAN]]
    /\ saved \in [Creations -> SUBSET Nat]
    /\ listed \in [Creations -> SUBSET Nat]
    /\ keyring \in [Creations -> [publish : Nat, interactions : Nat]]
    /\ present \in BOOLEAN
    /\ run \in [Creations -> RunSet]
    /\ report \in [Creations -> [full : BOOLEAN, steps : Seq(StepSet)]]
    /\ states \in [Creations -> {"none", "resumable", "waiting", "unreadable"}]
    /\ looks \subseteq LookSet
    /\ ahead \in CreationStates

\* the clones that the creation of c deployed, and whether it is deploying one
MadeBy(c) == {i \in DOMAIN clones : clones[i].by = c}
Deploying(c) == Creating(c) /\ run[c].todo = DeployOf(None)

\* a run has steps left exactly in the modes that work through them, and only a creation deploys
Shaped(c) ==
    /\ run[c].kind = "idle" <=> run[c].mode = "idle"
    /\ run[c].mode \in {"ask", "send", "mined", "recover"} => run[c].todo # <<>>
    /\ run[c].mode \in {"save"} \cup Ending => Creating(c) /\ run[c].todo = <<>>
    /\ run[c].mode = "over" => run[c].kind = "repair" /\ run[c].todo = <<>>
    /\ \A i \in DOMAIN run[c].todo : run[c].todo[i].w.op = "gate" => Deploying(c)
    /\ \A i \in DOMAIN report[c].steps : report[c].steps[i].w.op # "gate"

\* a channel whose creation has not begun has nothing anywhere
Fresh(c) == c \in ahead.begin =>
    ~records[c].on /\ onChain[c] = {} /\ MadeBy(c) = {} /\ ~Busy(c) /\ listed[c] = {} /\ saved[c] = {}

\* a deploy is sent once, before any write, and the record has no gate until it is mined
Deploys(c) == Deploying(c) =>
    /\ c \in Gated /\ run[c].mode \in {"send", "mined"} /\ run[c].round = 1 /\ run[c].gate = None
    /\ ~run[c].recovered /\ records[c].gate = None
    /\ run[c].mode = "send" => MadeBy(c) = {}
    /\ run[c].mode = "mined" => MadeBy(c) # {}

\* a creation under way has its record
Claimed(c) == Creating(c) => records[c].on

\* a gated record without a gate has written nothing (finishPendingCreate starts at its deploy)
Bare(c) == c \in Gated /\ records[c].on /\ records[c].gate = None =>
    onChain[c] = {} /\ listed[c] = {} /\ saved[c] = {} /\ (Busy(c) => Deploying(c))

\* a creation has one clone
OneClone(c) == \A i, j \in MadeBy(c) : i = j

\* past its first write a creation has the stream of its messages, or is about to ask for it again
Founded(c) ==
    /\ onChain[c] # {} \/ listed[c] # {} \/ saved[c] # {} \/ run[c].kind = "repair" => Exists(c, "message")
    /\ Creating(c) /\ ~Deploying(c) =>
        \/ Exists(c, "message")
        \/ /\ run[c].mode \in {"ask", "send", "recover"}
           /\ Current(c).w.op = "stream" /\ Current(c).w.on = "message" /\ Current(c).fail = "recover"

\* the end of a creation keeps its channel and its keys before the record goes (_runCreate)
Held(c) == present =>
    /\ saved[c] # {} => listed[c] # {}
    /\ run[c].mode \in Ending => listed[c] # {}
    /\ run[c].mode \in Ending \ {"store"} => saved[c] # {}
    /\ c \in Gated /\ run[c].mode \in {"adoptInteractions", "complete"} => keyring[c].publish # None
    /\ c \in Gated /\ run[c].mode = "complete" => keyring[c].interactions # None

\* of a plan that was not recovered, each write stands once, and what is sent unasked is not on chain
Ordered(c) == Creating(c) /\ ~Deploying(c) /\ ~run[c].recovered =>
    LET todo == run[c].todo IN
    /\ \A i \in DOMAIN todo : todo[i].w.op # "clone"
    /\ \A i, j \in DOMAIN todo : i # j => todo[i].w.op # todo[j].w.op \/ todo[i].w.on # todo[j].w.on
    /\ \A i \in DOMAIN todo : i > 1 /\ ~todo[i].ask => ~InPlace(c, todo[i].w)
    /\ run[c].mode = "send" => Current(c).w.op = "allow" \/ ~InPlace(c, Current(c).w)

\* the first half of PaidOnce
SentOnceAsked == \A t \in twice : t.unasked \/ t.w.op = "allow"

Base(c) == Shaped(c) /\ Fresh(c) /\ Deploys(c) /\ Claimed(c) /\ Bare(c) /\ OneClone(c)
           /\ Founded(c) /\ Held(c) /\ Ordered(c)
\* a gated channel is found by its clone
LooksFind == \A l \in looks : l.seen = "there" /\ l.of \in Gated => l.found # None

BaseInv == Typed /\ SentOnceAsked /\ LooksFind /\ \A c \in Creations : Base(c)


-----------------------------------------------------------------------------
(* Plans: the steps of a creation *)

Differ(x, y) == x.w.op # y.w.op \/ x.w.on # y.w.on
Apart(q) == \A i, j \in DOMAIN q : i # j => Differ(q[i], q[j])

\* what a concatenation holds
LEMMA Joins ==
    ASSUME NEW T, NEW q \in Seq(T), NEW r \in Seq(T)
    PROVE  /\ q \o r \in Seq(T)
           /\ ToSet(q \o r) = ToSet(q) \cup ToSet(r)
           /\ q # <<>> => (q \o r) # <<>> /\ (q \o r)[1] = q[1]
  <1>1. /\ q \o r \in Seq(T) /\ Len(q \o r) = Len(q) + Len(r)
        /\ \A i \in 1..Len(q) : (q \o r)[i] = q[i]
        /\ \A i \in 1..Len(r) : (q \o r)[i + Len(q)] = r[i]
        /\ DOMAIN (q \o r) = 1..(Len(q) + Len(r)) /\ DOMAIN q = 1..Len(q) /\ DOMAIN r = 1..Len(r)
        /\ Len(q) \in Nat /\ Len(r) \in Nat
    OBVIOUS
  <1>2. ToSet(q \o r) \subseteq ToSet(q) \cup ToSet(r)
    <2> SUFFICES ASSUME NEW i \in 1..(Len(q) + Len(r))
                 PROVE  (q \o r)[i] \in ToSet(q) \cup ToSet(r)
      BY <1>1 DEF ToSet
    <2>1. CASE i \in 1..Len(q)
      BY <2>1, <1>1 DEF ToSet
    <2>2. CASE i \notin 1..Len(q)
      <3>1. i - Len(q) \in 1..Len(r) /\ (i - Len(q)) + Len(q) = i
        BY <2>2, <1>1
      <3>2. (q \o r)[i] = r[i - Len(q)]
        BY <3>1, <1>1
      <3> QED BY <3>1, <3>2, <1>1 DEF ToSet
    <2> QED BY <2>1, <2>2
  <1>3. ToSet(q) \subseteq ToSet(q \o r)
    <2>1. \A i \in DOMAIN q : i \in DOMAIN (q \o r) /\ (q \o r)[i] = q[i]
      BY <1>1
    <2> QED BY <2>1 DEF ToSet
  <1>4. ToSet(r) \subseteq ToSet(q \o r)
    <2>1. \A i \in DOMAIN r : i + Len(q) \in DOMAIN (q \o r) /\ (q \o r)[i + Len(q)] = r[i]
      BY <1>1
    <2> QED BY <2>1 DEF ToSet
  <1>5. q # <<>> => (q \o r) # <<>> /\ (q \o r)[1] = q[1]
    <2>1. q # <<>> => Len(q) >= 1
      BY <1>1, EmptySeq
    <2> QED BY <2>1, <1>1, EmptySeq
  <1> QED BY <1>1, <1>2, <1>3, <1>4, <1>5

\* steps that differ stay so in a concatenation
LEMMA JoinsApart ==
    ASSUME NEW T, NEW q \in Seq(T), NEW r \in Seq(T), Apart(q), Apart(r),
           \A x \in ToSet(q), y \in ToSet(r) : Differ(x, y)
    PROVE  Apart(q \o r)
  <1>1. /\ \A i \in 1..Len(q) : (q \o r)[i] = q[i]
        /\ \A i \in 1..Len(r) : (q \o r)[i + Len(q)] = r[i]
        /\ DOMAIN (q \o r) = 1..(Len(q) + Len(r)) /\ DOMAIN q = 1..Len(q) /\ DOMAIN r = 1..Len(r)
        /\ Len(q) \in Nat /\ Len(r) \in Nat
    OBVIOUS
  <1> SUFFICES ASSUME NEW i \in 1..(Len(q) + Len(r)), NEW j \in 1..(Len(q) + Len(r)), i # j
               PROVE  Differ((q \o r)[i], (q \o r)[j])
    BY <1>1 DEF Apart
  <1>2. \A k \in 1..(Len(q) + Len(r)) :
            \/ k \in DOMAIN q /\ (q \o r)[k] = q[k] /\ q[k] \in ToSet(q)
            \/ k - Len(q) \in DOMAIN r /\ (q \o r)[k] = r[k - Len(q)] /\ r[k - Len(q)] \in ToSet(r)
               /\ k \notin DOMAIN q
    <2> TAKE k \in 1..(Len(q) + Len(r))
    <2>1. CASE k \in 1..Len(q)
      BY <2>1, <1>1 DEF ToSet
    <2>2. CASE k \notin 1..Len(q)
      <3>1. k - Len(q) \in 1..Len(r) /\ (k - Len(q)) + Len(q) = k
        BY <2>2, <1>1
      <3> QED BY <3>1, <2>2, <1>1 DEF ToSet
    <2> QED BY <2>1, <2>2
  <1>3. CASE i \in DOMAIN q /\ j \in DOMAIN q
    BY <1>3, <1>2, <1>1 DEF Apart
  <1>4. CASE i \in DOMAIN q /\ j \notin DOMAIN q
    BY <1>4, <1>2
  <1>5. CASE i \notin DOMAIN q /\ j \in DOMAIN q
    <2>1. Differ((q \o r)[j], (q \o r)[i])
      BY <1>5, <1>2
    <2> QED BY <2>1 DEF Differ
  <1>6. CASE i \notin DOMAIN q /\ j \notin DOMAIN q
    <2>1. i - Len(q) # j - Len(q)
      BY <1>1
    <2> QED BY <2>1, <1>6, <1>2 DEF Apart
  <1> QED BY <1>3, <1>4, <1>5, <1>6

\* the empty plan, a plan of one step and a plan of two
LEMMA Short ==
    ASSUME NEW T
    PROVE  /\ <<>> \in Seq(T) /\ ToSet(<<>>) = {} /\ Apart(<<>>)
           /\ \A x \in T : <<x>> \in Seq(T) /\ ToSet(<<x>>) = {x} /\ Apart(<<x>>) /\ <<x>> # <<>>
                           /\ <<x>>[1] = x
           /\ \A x, y \in T : /\ <<x, y>> \in Seq(T) /\ ToSet(<<x, y>>) = {x, y}
                              /\ Differ(x, y) => Apart(<<x, y>>)
  <1>1. <<>> \in Seq(T) /\ DOMAIN <<>> = {}
    OBVIOUS
  <1>2. \A x \in T : <<x>> \in Seq(T) /\ DOMAIN <<x>> = {1} /\ <<x>>[1] = x /\ <<x>> # <<>>
    OBVIOUS
  <1>3. \A x, y \in T : <<x, y>> \in Seq(T) /\ DOMAIN <<x, y>> = {1, 2} /\ <<x, y>>[1] = x /\ <<x, y>>[2] = y
    OBVIOUS
  <1>4. ToSet(<<>>) = {} /\ Apart(<<>>)
    BY <1>1, Zenon DEF ToSet, Apart
  <1>5. \A x \in T : ToSet(<<x>>) = {x} /\ Apart(<<x>>)
    BY <1>2 DEF ToSet, Apart
  <1>6. \A x, y \in T : ToSet(<<x, y>>) = {x, y} /\ (Differ(x, y) => Apart(<<x, y>>))
    BY <1>3 DEF ToSet, Apart, Differ
  <1> QED BY <1>1, <1>2, <1>3, <1>4, <1>5, <1>6

\* InOrder holds what its parts hold, begins with the message stream's part and keeps steps apart
LEMMA InOrderHolds ==
    ASSUME NEW T, NEW S \in SUBSET Roles, NEW f, \A s \in S : f[s] \in Seq(T)
    PROVE  /\ InOrder(S, f) \in Seq(T)
           /\ ToSet(InOrder(S, f)) = UNION {ToSet(f[s]) : s \in S}
           /\ "message" \in S /\ f["message"] # <<>> =>
                InOrder(S, f) # <<>> /\ InOrder(S, f)[1] = f["message"][1]
           /\ (/\ \A s \in S : Apart(f[s])
               /\ \A s, t \in S : s # t => \A x \in ToSet(f[s]), y \in ToSet(f[t]) : Differ(x, y))
              => Apart(InOrder(S, f))
  <1> DEFINE of(s) == IF s \in S THEN f[s] ELSE <<>>
             p1 == of("message")
             p2 == p1 \o of("ephemeral")
             p3 == p2 \o of("admin")
             p4 == p3 \o of("keys")
             p5 == p4 \o of("interactions")
             fits == /\ \A s \in S : Apart(f[s])
                     /\ \A s, t \in S : s # t => \A x \in ToSet(f[s]), y \in ToSet(f[t]) : Differ(x, y)
  <1>1. InOrder(S, f) = p5
    BY DEF InOrder
  <1>2. \A s \in Roles : of(s) \in Seq(T) /\ (s \in S => of(s) = f[s]) /\ (s \notin S => ToSet(of(s)) = {})
    BY Short
  <1>3. fits => \A s \in Roles : Apart(of(s))
    BY Short, <1>2
  <1>4. fits => \A s, t \in Roles : s # t => \A x \in ToSet(of(s)), y \in ToSet(of(t)) : Differ(x, y)
    <2> SUFFICES ASSUME fits, NEW s \in Roles, NEW t \in Roles, s # t,
                        NEW x \in ToSet(of(s)), NEW y \in ToSet(of(t))
                 PROVE  Differ(x, y)
      OBVIOUS
    <2>1. s \in S /\ t \in S
      BY <1>2
    <2>2. x \in ToSet(f[s]) /\ y \in ToSet(f[t])
      BY <2>1
    <2> QED BY <2>1, <2>2
  <1>5. /\ "message" \in Roles /\ "ephemeral" \in Roles /\ "admin" \in Roles /\ "keys" \in Roles
        /\ "interactions" \in Roles
        /\ \A s \in Roles : s \in {"message", "ephemeral", "admin", "keys", "interactions"}
    BY DEF Roles
  <1> HIDE DEF of
  <1>6. p1 \in Seq(T) /\ p2 \in Seq(T) /\ p3 \in Seq(T) /\ p4 \in Seq(T) /\ p5 \in Seq(T)
    BY <1>2, <1>5
  <1>7. /\ ToSet(p2) = ToSet(of("message")) \cup ToSet(of("ephemeral"))
        /\ ToSet(p3) = ToSet(p2) \cup ToSet(of("admin"))
        /\ ToSet(p4) = ToSet(p3) \cup ToSet(of("keys"))
        /\ ToSet(p5) = ToSet(p4) \cup ToSet(of("interactions"))
    <2> HIDE DEF p1, p2, p3, p4
    <2>1. ToSet(p5) = ToSet(p4) \cup ToSet(of("interactions"))
      BY <1>2, <1>5, <1>6, Joins
    <2>2. ToSet(p4) = ToSet(p3) \cup ToSet(of("keys"))
      BY <1>2, <1>5, <1>6, Joins DEF p4
    <2>3. ToSet(p3) = ToSet(p2) \cup ToSet(of("admin"))
      BY <1>2, <1>5, <1>6, Joins DEF p3
    <2>4. ToSet(p2) = ToSet(of("message")) \cup ToSet(of("ephemeral"))
      BY <1>2, <1>5, <1>6, Joins DEF p2, p1
    <2> QED BY <2>1, <2>2, <2>3, <2>4
  <1>8. ToSet(p5) = UNION {ToSet(of(s)) : s \in Roles}
    BY <1>7, <1>5
  <1>9. UNION {ToSet(of(s)) : s \in Roles} = UNION {ToSet(f[s]) : s \in S}
    BY <1>2, Zenon
  <1>10. fits => Apart(p5)
    <2> SUFFICES ASSUME fits PROVE Apart(p5)
      OBVIOUS
    <2> USE <1>2, <1>3, <1>4, <1>5, <1>6, <1>7
    <2> HIDE DEF fits
    <2>1. Apart(p2)
      BY JoinsApart DEF p2, p1
    <2> HIDE DEF p1, p2
    <2>2. Apart(p3)
      BY <2>1, JoinsApart DEF p3
    <2> HIDE DEF p3
    <2>3. Apart(p4)
      BY <2>2, JoinsApart DEF p4
    <2> HIDE DEF p4
    <2> QED BY <2>3, JoinsApart DEF p5
  <1>11. "message" \in S /\ f["message"] # <<>> => p5 # <<>> /\ p5[1] = f["message"][1]
    <2> SUFFICES ASSUME "message" \in S, f["message"] # <<>> PROVE p5 # <<>> /\ p5[1] = f["message"][1]
      OBVIOUS
    <2> USE <1>2, <1>5, <1>6
    <2>1. p1 # <<>> /\ p1[1] = f["message"][1]
      OBVIOUS
    <2> HIDE DEF p1
    <2>2. p2 # <<>> /\ p2[1] = p1[1]
      BY <2>1, Joins
    <2> HIDE DEF p2
    <2>3. p3 # <<>> /\ p3[1] = p2[1]
      BY <2>2, Joins
    <2> HIDE DEF p3
    <2>4. p4 # <<>> /\ p4[1] = p3[1]
      BY <2>3, Joins
    <2> HIDE DEF p4
    <2>5. p5 # <<>> /\ p5[1] = p4[1]
      BY <2>4, Joins
    <2> QED BY <2>1, <2>2, <2>3, <2>4, <2>5
  <1> QED BY <1>1, <1>6, <1>8, <1>9, <1>10, <1>11

LEMMA StepFields ==
    ASSUME NEW op, NEW s, NEW g, NEW ask, NEW tries, NEW fail
    PROVE  LET x == Step(op, s, g, ask, tries, fail)
           IN  x.w.op = op /\ x.w.on = s /\ x.w.gate = g /\ x.ask = ask /\ x.tries = tries /\ x.fail = fail
               /\ x.w = Write(op, s, g)
  BY DEF Step, Write

Ops == {"gate", "stream", "grant", "clone", "node", "days", "allow"}

LEMMA WriteTyped ==
    ASSUME NEW op \in Ops, NEW s \in Streams \cup {"gate"}, NEW g \in Nat, NEW ask \in BOOLEAN,
           NEW tries \in Nat, NEW fail \in Fails
    PROVE  Step(op, s, g, ask, tries, fail) \in StepSet
  BY DEF Step, Write, StepSet, Writes, Ops

LEMMA RolesTyped ==
    ASSUME NEW c \in Creations
    PROVE  /\ RolesOf(c) \subseteq Streams /\ RolesOf(c) \subseteq Roles /\ Streams \subseteq Roles
           /\ "message" \in RolesOf(c) /\ "message" \in Streams /\ "ephemeral" \in Streams
           /\ Rounds \in Nat
  BY CreationAssumption DEF RolesOf

\* one step for each role
LEMMA EachHolds ==
    ASSUME NEW S \in SUBSET Streams, NEW op \in Ops, NEW g \in Nat, NEW ask \in BOOLEAN, NEW fail \in Fails
    PROVE  LET q == Each(S, op, g, ask, fail)
           IN  /\ q \in Seq(StepSet) /\ Apart(q)
               /\ \A x \in ToSet(q) : x.w.op = op /\ x.ask = ask /\ x.fail = fail
               /\ "message" \in S => q # <<>> /\ q[1] = Step(op, "message", g, ask, Rounds, fail)
  <1> DEFINE st(s) == Step(op, s, g, ask, Rounds, fail)
             f == [s \in Roles |-> <<st(s)>>]
  <1>1. S \subseteq Roles /\ Rounds \in Nat
    BY CreationAssumption
  <1>2. \A s \in S : f[s] = <<st(s)>> /\ st(s) \in StepSet
    BY <1>1, WriteTyped
  <1>3. \A s : st(s).w.op = op /\ st(s).w.on = s /\ st(s).ask = ask /\ st(s).fail = fail
    BY StepFields
  <1>4. Each(S, op, g, ask, fail) = InOrder(S, f)
    BY DEF Each
  <1> HIDE DEF f, st
  <1>5. ASSUME NEW s \in S
        PROVE  f[s] \in Seq(StepSet) /\ ToSet(f[s]) = {st(s)} /\ Apart(f[s]) /\ f[s] # <<>> /\ f[s][1] = st(s)
    <2>1. f[s] = <<st(s)>> /\ st(s) \in StepSet
      BY <1>2
    <2>2. \A x \in StepSet : <<x>> \in Seq(StepSet) /\ ToSet(<<x>>) = {x} /\ Apart(<<x>>) /\ <<x>> # <<>> /\ <<x>>[1] = x
      BY Short
    <2> QED BY <2>1, <2>2
  <1>6. ASSUME NEW s \in S, NEW t \in S, s # t, NEW x \in ToSet(f[s]), NEW y \in ToSet(f[t])
        PROVE  Differ(x, y)
    <2>1. x = st(s) /\ y = st(t)
      BY <1>5
    <2>2. x.w.on = s /\ y.w.on = t
      BY <2>1, <1>3
    <2> QED BY <1>6, <2>2 DEF Differ
  <1>7. ASSUME NEW x \in UNION {ToSet(f[s]) : s \in S} PROVE x.w.op = op /\ x.ask = ask /\ x.fail = fail
    <2>1. PICK s \in S : x \in ToSet(f[s])
      OBVIOUS
    <2>2. x = st(s)
      BY <1>5, <2>1
    <2> QED BY <2>2, <1>3
  <1>8. \A s \in S : f[s] \in Seq(StepSet) /\ Apart(f[s])
    BY <1>5
  <1>9. \A s, t \in S : s # t => \A x \in ToSet(f[s]), y \in ToSet(f[t]) : Differ(x, y)
    BY <1>6
  <1>10. "message" \in S => f["message"] # <<>> /\ f["message"][1] = st("message")
    BY <1>5
  <1>11. /\ InOrder(S, f) \in Seq(StepSet) /\ Apart(InOrder(S, f))
         /\ ToSet(InOrder(S, f)) = UNION {ToSet(f[s]) : s \in S}
         /\ "message" \in S /\ f["message"] # <<>> =>
              InOrder(S, f) # <<>> /\ InOrder(S, f)[1] = f["message"][1]
    BY <1>1, <1>8, <1>9, InOrderHolds
  <1> QED BY <1>10, <1>11, <1>4, <1>7 DEF st

\* a node and a retention for each role but the ephemeral one
LEMMA StorageHolds ==
    ASSUME NEW S \in SUBSET Streams, NEW g \in Nat, NEW ask \in BOOLEAN
    PROVE  LET q == StorageOf(S, g, ask)
           IN  /\ q \in Seq(StepSet) /\ Apart(q)
               /\ \A x \in ToSet(q) : x.w.op \in {"node", "days"} /\ x.ask = ask /\ x.fail \in {"skip", "skipTwo"}
  <1> DEFINE n(s) == Step("node", s, g, ask, Rounds, "skipTwo")
             d(s) == Step("days", s, g, ask, Rounds, "skip")
             f == [s \in Roles |-> <<n(s), d(s)>>]
             U == S \ {"ephemeral"}
  <1>1. U \subseteq Roles /\ U \subseteq Streams /\ Rounds \in Nat
    BY CreationAssumption
  <1>2. \A s \in U : f[s] = <<n(s), d(s)>> /\ n(s) \in StepSet /\ d(s) \in StepSet
    BY <1>1, WriteTyped DEF Ops, Fails
  <1>3. /\ \A s : n(s).w.op = "node" /\ n(s).w.on = s /\ n(s).ask = ask /\ n(s).fail = "skipTwo"
        /\ \A s : d(s).w.op = "days" /\ d(s).w.on = s /\ d(s).ask = ask /\ d(s).fail = "skip"
    BY StepFields
  <1>4. StorageOf(S, g, ask) = InOrder(U, f)
    BY DEF StorageOf
  <1> HIDE DEF n, d, U, f
  <1>5. ASSUME NEW s \in U PROVE f[s] \in Seq(StepSet) /\ ToSet(f[s]) = {n(s), d(s)} /\ Apart(f[s])
    <2>1. Differ(n(s), d(s))
      BY <1>3 DEF Differ
    <2>2. f[s] = <<n(s), d(s)>> /\ n(s) \in StepSet /\ d(s) \in StepSet
      BY <1>2
    <2> QED BY <2>1, <2>2, Short
  <1>6. ASSUME NEW s \in U, NEW t \in U, s # t, NEW x \in ToSet(f[s]), NEW y \in ToSet(f[t])
        PROVE  Differ(x, y)
    <2>1. x \in {n(s), d(s)} /\ y \in {n(t), d(t)}
      BY <1>5
    <2>2. x.w.on = s /\ y.w.on = t
      BY <2>1, <1>3
    <2> QED BY <1>6, <2>2 DEF Differ
  <1>7. ASSUME NEW x \in UNION {ToSet(f[s]) : s \in U}
        PROVE  x.w.op \in {"node", "days"} /\ x.ask = ask /\ x.fail \in {"skip", "skipTwo"}
    <2>1. PICK s \in U : x \in ToSet(f[s])
      OBVIOUS
    <2>2. x \in {n(s), d(s)}
      BY <1>5, <2>1
    <2> QED BY <2>2, <1>3
  <1>8. \A s \in U : f[s] \in Seq(StepSet) /\ Apart(f[s])
    BY <1>5
  <1>9. \A s, t \in U : s # t => \A x \in ToSet(f[s]), y \in ToSet(f[t]) : Differ(x, y)
    BY <1>6
  <1>10. InOrder(U, f) \in Seq(StepSet) /\ ToSet(InOrder(U, f)) = UNION {ToSet(f[s]) : s \in U} /\ Apart(InOrder(U, f))
    BY <1>1, <1>8, <1>9, InOrderHolds
  <1> QED BY <1>4, <1>7, <1>10

LEMMA AllowHolds ==
    ASSUME NEW c \in Creations, NEW g \in Nat, NEW ask \in BOOLEAN
    PROVE  LET q == AllowOf(c, g, ask)
           IN  /\ q \in Seq(StepSet) /\ Apart(q)
               /\ \A x \in ToSet(q) : x.w.op = "allow" /\ x.ask = ask /\ x.fail = "skip"
  <1> DEFINE x == Step("allow", "gate", g, ask, 1, "skip")
  <1>1. x \in StepSet /\ x.w.op = "allow" /\ x.ask = ask /\ x.fail = "skip"
    BY DEF Step, Write, StepSet, Writes, Fails
  <1> HIDE DEF x
  <1>2. AllowOf(c, g, ask) = IF c \in Gated THEN <<x>> ELSE <<>>
    BY DEF AllowOf, x
  <1> QED BY <1>1, <1>2, Short

\* what a creation sends: the message stream first, no write twice, no gate
LEMMA PlanHolds ==
    ASSUME NEW c \in Creations, NEW g \in Nat, NEW ask \in BOOLEAN
    PROVE  LET q == CreatePlan(c, g, ask)
           IN  /\ q \in Seq(StepSet) /\ Apart(q) /\ q # <<>>
               /\ \A x \in ToSet(q) : x.w.op \notin {"gate", "clone"} /\ x.ask = ask
               /\ q[1].w.op = "stream" /\ q[1].w.on = "message" /\ q[1].fail = "recover" /\ q[1].ask = ask
  <1> DEFINE S == RolesOf(c)
             a == Each(S, "stream", g, ask, "recover")
             b == Each(S, "grant", g, ask, "skip")
             d == StorageOf(S, g, ask)
             e == AllowOf(c, g, ask)
  <1>0. "stream" \in Ops /\ "grant" \in Ops /\ "recover" \in Fails /\ "skip" \in Fails
    BY DEF Ops, Fails
  <1>1. S \in SUBSET Streams /\ "message" \in S
    BY RolesTyped
  <1>2. CreatePlan(c, g, ask) = ((a \o b) \o d) \o e
    BY DEF CreatePlan
  <1> HIDE DEF S
  <1>3. /\ a \in Seq(StepSet) /\ Apart(a)
        /\ \A x \in ToSet(a) : x.w.op = "stream" /\ x.ask = ask /\ x.fail = "recover"
        /\ a # <<>> /\ a[1] = Step("stream", "message", g, ask, Rounds, "recover")
    <2>1. LET q == Each(S, "stream", g, ask, "recover")
          IN  /\ q \in Seq(StepSet) /\ Apart(q)
              /\ \A x \in ToSet(q) : x.w.op = "stream" /\ x.ask = ask /\ x.fail = "recover"
              /\ "message" \in S => q # <<>> /\ q[1] = Step("stream", "message", g, ask, Rounds, "recover")
      BY <1>0, <1>1, EachHolds
    <2> QED BY <2>1, <1>1
  <1>4. /\ b \in Seq(StepSet) /\ Apart(b)
        /\ \A x \in ToSet(b) : x.w.op = "grant" /\ x.ask = ask /\ x.fail = "skip"
    BY <1>0, <1>1, EachHolds
  <1>5. d \in Seq(StepSet) /\ Apart(d) /\ \A x \in ToSet(d) : x.w.op \in {"node", "days"} /\ x.ask = ask
    BY <1>1, StorageHolds
  <1>6. e \in Seq(StepSet) /\ Apart(e) /\ \A x \in ToSet(e) : x.w.op = "allow" /\ x.ask = ask
    BY AllowHolds
  <1> HIDE DEF a, b, d, e
  <1>7. /\ a \o b \in Seq(StepSet) /\ ToSet(a \o b) = ToSet(a) \cup ToSet(b)
        /\ a \o b # <<>> /\ (a \o b)[1] = a[1]
    BY <1>3, <1>4, Joins
  <1>8. Apart(a \o b)
    <2>1. \A x \in ToSet(a), y \in ToSet(b) : Differ(x, y)
      BY <1>3, <1>4 DEF Differ
    <2> QED BY <2>1, <1>3, <1>4, JoinsApart
  <1>9. \A x \in ToSet(a \o b) : x.w.op \in {"stream", "grant"} /\ x.ask = ask
    BY <1>7, <1>3, <1>4
  <1> DEFINE ab == a \o b
  <1> HIDE DEF ab
  <1>10. /\ ab \o d \in Seq(StepSet) /\ ToSet(ab \o d) = ToSet(ab) \cup ToSet(d)
         /\ ab \o d # <<>> /\ (ab \o d)[1] = ab[1]
    <2>1. ab \in Seq(StepSet) /\ ab # <<>>
      BY <1>7 DEF ab
    <2> QED BY <2>1, <1>5, Joins
  <1>11. Apart(ab \o d)
    <2>1. \A x \in ToSet(ab), y \in ToSet(d) : Differ(x, y)
      BY <1>9, <1>5 DEF Differ, ab
    <2>2. ab \in Seq(StepSet) /\ Apart(ab)
      BY <1>7, <1>8 DEF ab
    <2> QED BY <2>1, <2>2, <1>5, JoinsApart
  <1>12. \A x \in ToSet(ab \o d) : x.w.op \in {"stream", "grant", "node", "days"} /\ x.ask = ask
    BY <1>10, <1>9, <1>5 DEF ab
  <1> DEFINE abd == ab \o d
  <1> HIDE DEF abd
  <1>13. /\ abd \o e \in Seq(StepSet) /\ ToSet(abd \o e) = ToSet(abd) \cup ToSet(e)
         /\ abd \o e # <<>> /\ (abd \o e)[1] = abd[1]
    <2>1. abd \in Seq(StepSet) /\ abd # <<>>
      BY <1>10 DEF abd
    <2> QED BY <2>1, <1>6, Joins
  <1>14. Apart(abd \o e)
    <2>1. \A x \in ToSet(abd), y \in ToSet(e) : Differ(x, y)
      BY <1>12, <1>6 DEF Differ, abd
    <2>2. abd \in Seq(StepSet) /\ Apart(abd)
      BY <1>10, <1>11 DEF abd
    <2> QED BY <2>1, <2>2, <1>6, JoinsApart
  <1>15. \A x \in ToSet(abd \o e) : x.w.op \notin {"gate", "clone"} /\ x.ask = ask
    BY <1>13, <1>12, <1>6 DEF abd
  <1>16. CreatePlan(c, g, ask) = abd \o e
    BY <1>2 DEF abd, ab
  <1>17. (abd \o e)[1] = Step("stream", "message", g, ask, Rounds, "recover")
    BY <1>13, <1>10, <1>7, <1>3 DEF abd, ab
  <1> QED BY <1>13, <1>14, <1>15, <1>16, <1>17, StepFields

\* what createStream's recovery goes on to send: no gate
LEMMA RecoveryHolds ==
    ASSUME NEW c \in Creations, NEW g \in Nat, NEW ask \in BOOLEAN, NEW there \in BOOLEAN
    PROVE  LET q == RecoveryPlan(c, g, ask, there)
           IN  q \in Seq(StepSet) /\ \A x \in ToSet(q) : x.w.op # "gate"
  <1> DEFINE grant(s) == IF c \in Gated THEN <<>> ELSE <<Step("grant", s, g, FALSE, Rounds, "skip")>>
             m == grant("message")
             n == IF there THEN <<>>
                  ELSE <<Step("stream", "ephemeral", g, FALSE, 1, IF c \in Gated THEN "skip" ELSE "skipTwo")>>
             o == grant("ephemeral")
             d == StorageOf({"message"}, g, ask)
             e == AllowOf(c, g, ask)
             fine(q) == q \in Seq(StepSet) /\ \A x \in ToSet(q) : x.w.op # "gate"
  <1>0. Rounds \in Nat /\ "message" \in Streams /\ "ephemeral" \in Streams
    BY RolesTyped
  <1>1. RecoveryPlan(c, g, ask, there) = (((m \o n) \o o) \o d) \o e
    BY DEF RecoveryPlan
  <1>2. \A s \in {"message", "ephemeral"} : fine(grant(s))
    <2> SUFFICES ASSUME NEW s \in {"message", "ephemeral"} PROVE fine(grant(s))
      OBVIOUS
    <2> DEFINE x == Step("grant", s, g, FALSE, Rounds, "skip")
    <2>1. x \in StepSet /\ x.w.op = "grant"
      <3>1. "grant" \in Ops /\ "skip" \in Fails /\ FALSE \in BOOLEAN /\ s \in Streams \cup {"gate"}
        BY <1>0 DEF Ops, Fails
      <3>2. x \in StepSet
        BY <3>1, <1>0, WriteTyped
      <3> QED BY <3>2 DEF Step, Write
    <2>2. grant(s) \in {<<>>, <<x>>}
      OBVIOUS
    <2> HIDE DEF fine, x, grant
    <2>3. fine(<<x>>) /\ fine(<<>>)
      BY <2>1, Short DEF fine
    <2> QED BY <2>2, <2>3
  <1>3. fine(n)
    <2> DEFINE k == IF c \in Gated THEN "skip" ELSE "skipTwo"
               x == Step("stream", "ephemeral", g, FALSE, 1, k)
    <2>1. k \in Fails /\ "stream" \in Ops /\ FALSE \in BOOLEAN /\ 1 \in Nat
          /\ "ephemeral" \in Streams \cup {"gate"}
      BY <1>0 DEF Fails, Ops
    <2> HIDE DEF k
    <2>2. x \in StepSet /\ x.w.op = "stream"
      <3>1. x \in StepSet
        BY <2>1, WriteTyped
      <3> QED BY <3>1 DEF Step, Write
    <2> USE DEF k
    <2> HIDE DEF x, fine
    <2>3. fine(<<x>>) /\ fine(<<>>)
      BY <2>2, Short DEF fine
    <2> QED BY <2>3 DEF x
  <1>4. fine(d)
    BY <1>0, StorageHolds
  <1>5. fine(e)
    BY AllowHolds
  <1>6. \A q, r : fine(q) /\ fine(r) => fine(q \o r)
    BY Joins
  <1>7. fine(m) /\ fine(o)
    BY <1>2
  <1> HIDE DEF fine, m, n, o, d, e, grant
  <1> QED BY <1>1, <1>3, <1>4, <1>5, <1>6, <1>7 DEF fine

-----------------------------------------------------------------------------
(* Runs: what is under way of a channel *)

Drop(q, n) == SubSeq(q, n + 1, Len(q))

\* a plan without its first steps
LEMMA DropHolds ==
    ASSUME NEW q \in Seq(StepSet), NEW n \in {1, 2}
    PROVE  /\ Drop(q, n) \in Seq(StepSet)
           /\ \A i \in DOMAIN Drop(q, n) : i + n \in DOMAIN q /\ Drop(q, n)[i] = q[i + n] /\ i \in Nat /\ i >= 1
           /\ q # <<>> => Tail(q) = Drop(q, 1)
           /\ DOMAIN q \subseteq Nat \ {0}
  <1>1. Drop(q, n) \in Seq(StepSet) /\ \A i \in DOMAIN Drop(q, n) : i + n \in DOMAIN q /\ Drop(q, n)[i] = q[i + n]
    BY DEF Drop
  <1>2. DOMAIN Drop(q, n) \subseteq Nat \ {0} /\ DOMAIN q \subseteq Nat \ {0}
    BY <1>1
  <1>3. q # <<>> => Tail(q) = Drop(q, 1)
    BY DEF Drop
  <1> QED BY <1>1, <1>2, <1>3

\* Going keeps all of a run but its plan, and sends or asks for the plan's first step
LEMMA Goes ==
    ASSUME NEW r \in RunSet, r.kind \in {"create", "repair"}, NEW q \in Seq(StepSet)
    PROVE  LET g == Going(r, q)
           IN  /\ g \in RunSet /\ g.kind = r.kind /\ g.todo = q /\ g.round = 1 /\ g.gate = r.gate
               /\ g.ask = r.ask /\ g.recovered = r.recovered /\ g.failed = r.failed
               /\ q = <<>> => g.mode = IF r.kind = "repair" THEN "over" ELSE "save"
               /\ q # <<>> => g.mode = IF q[1].ask THEN "ask" ELSE "send"
  <1> DEFINE m == CASE q = <<>> -> IF r.kind = "repair" THEN "over" ELSE "save"
                    [] OTHER -> IF q[1].ask THEN "ask" ELSE "send"
  <1>1. m \in Modes
    BY DEF Modes
  <1>2. q = <<>> => m = IF r.kind = "repair" THEN "over" ELSE "save"
    OBVIOUS
  <1>3. q # <<>> => m = IF q[1].ask THEN "ask" ELSE "send"
    OBVIOUS
  <1>4. Going(r, q) = [r EXCEPT !.todo = q, !.round = 1, !.mode = m]
    BY DEF Going
  <1> HIDE DEF m
  <1>5. LET g == [r EXCEPT !.todo = q, !.round = 1, !.mode = m]
        IN  /\ g \in RunSet /\ g.kind = r.kind /\ g.todo = q /\ g.round = 1 /\ g.gate = r.gate
            /\ g.ask = r.ask /\ g.recovered = r.recovered /\ g.failed = r.failed /\ g.mode = m
    BY <1>1 DEF RunSet
  <1> QED BY <1>2, <1>3, <1>4, <1>5

LEMMA IdleTyped ==
    /\ Idle \in RunSet /\ Idle.kind = "idle" /\ Idle.mode = "idle" /\ Idle.todo = <<>>
  BY DEF Idle, RunSet, Modes, None

LEMMA Starts ==
    ASSUME NEW kind \in {"create", "repair"}, NEW q \in Seq(StepSet), NEW g \in Nat, NEW ask \in BOOLEAN
    PROVE  LET s == Start(kind, q, g, ask)
           IN  /\ s \in RunSet /\ s.kind = kind /\ s.todo = q /\ s.round = 1 /\ s.gate = g
               /\ ~s.recovered /\ ~s.failed
               /\ q = <<>> => s.mode = IF kind = "repair" THEN "over" ELSE "save"
               /\ q # <<>> => s.mode = IF q[1].ask THEN "ask" ELSE "send"
  <1> DEFINE r == [Idle EXCEPT !.kind = kind, !.gate = g, !.ask = ask]
  <1>1. /\ r \in RunSet /\ r.kind = kind /\ r.gate = g /\ r.recovered = FALSE /\ r.failed = FALSE
    <2>1. Idle \in RunSet /\ Idle.recovered = FALSE /\ Idle.failed = FALSE
      BY IdleTyped DEF Idle
    <2>2. r \in RunSet
      BY <2>1 DEF RunSet
    <2>3. r.kind = kind /\ r.gate = g /\ r.recovered = Idle.recovered /\ r.failed = Idle.failed
      BY <2>1 DEF RunSet
    <2> QED BY <2>1, <2>2, <2>3
  <1>3. ~r.recovered /\ ~r.failed
    BY <1>1
  <1>2. Start(kind, q, g, ask) = Going(r, q)
    BY DEF Start
  <1> HIDE DEF r
  <1>4. r.kind \in {"create", "repair"}
    BY <1>1
  <1> QED BY <1>1, <1>2, <1>3, <1>4, Goes

\* the deploy of a gate: one step, sent once, whose failure ends the creation
LEMMA DeployHolds ==
    LET q == DeployOf(None)
    IN  /\ q \in Seq(StepSet) /\ q # <<>> /\ DOMAIN q = {1}
        /\ q[1].w.op = "gate" /\ q[1].w.on = "gate" /\ q[1].tries = 1 /\ q[1].fail = "stop" /\ ~q[1].ask
  <1> DEFINE x == Step("gate", "gate", None, FALSE, 1, "stop")
  <1>1. x \in StepSet /\ x.w.op = "gate" /\ x.w.on = "gate" /\ x.tries = 1 /\ x.fail = "stop" /\ ~x.ask
    BY DEF Step, Write, StepSet, Writes, Fails, None
  <1>2. DeployOf(None) = <<x>>
    BY DEF DeployOf
  <1> HIDE DEF x
  <1> QED BY <1>1, <1>2

\* the write of a run that asks, sends or waits for a receipt
LEMMA HasCurrent ==
    ASSUME Typed, NEW c \in Creations, Shaped(c), run[c].mode \in {"ask", "send", "mined", "recover"}
    PROVE  /\ run[c] \in RunSet /\ run[c].todo \in Seq(StepSet) /\ run[c].todo # <<>>
           /\ 1 \in DOMAIN run[c].todo /\ Current(c) = run[c].todo[1] /\ Current(c) \in StepSet
           /\ Current(c).w \in Writes /\ run[c].kind \in {"create", "repair"} /\ Busy(c)
           /\ Current(c).w.op = "gate" => Deploying(c)
           /\ Deploying(c) => Current(c).w.op = "gate"
  <1>1. run[c] \in RunSet /\ run[c].todo \in Seq(StepSet) /\ run[c].todo # <<>>
    BY DEF Typed, RunSet, Shaped
  <1>2. 1 \in DOMAIN run[c].todo /\ run[c].todo[1] \in StepSet
    BY <1>1, EmptySeq
  <1>3. run[c].kind \in {"create", "repair"} /\ Busy(c)
    BY <1>1 DEF RunSet, Shaped, Busy
  <1>4. Deploying(c) => Current(c).w.op = "gate"
    BY DeployHolds DEF Deploying, Current
  <1> QED BY <1>1, <1>2, <1>3, <1>4 DEF Current, Shaped, StepSet

\* what a round that failed can come to
Retries(c) == run[c].round < Current(c).tries
              /\ run' = [run EXCEPT ![c] = [run[c] EXCEPT !.round = run[c].round + 1, !.mode = "ask"]]
Stops(c) == Current(c).fail = "stop" /\ run[c].round >= Current(c).tries /\ run' = [run EXCEPT ![c] = Idle]
Recovers(c) == Current(c).fail = "recover" /\ run' = [run EXCEPT ![c] = [run[c] EXCEPT !.failed = TRUE, !.mode = "recover"]]
Skips(c) == Current(c).fail \in {"skip", "skipTwo", "pass"}
            /\ run' = [run EXCEPT ![c] = Going([run[c] EXCEPT !.failed = run[c].failed \/ Current(c).fail # "pass"],
                                                Drop(run[c].todo, IF Current(c).fail = "skipTwo" THEN 2 ELSE 1))]

LEMMA RoundFails ==
    ASSUME Typed, NEW c \in Creations, Shaped(c), run[c].mode \in {"ask", "send", "mined"}, NextRound(c)
    PROVE  Retries(c) \/ Stops(c) \/ Recovers(c) \/ Skips(c)
  <1>1. Current(c) \in StepSet /\ run[c] \in RunSet
    BY HasCurrent
  <1>2. Current(c).fail \in Fails /\ Current(c).tries \in Nat /\ run[c].round \in Nat /\ run[c].failed \in BOOLEAN
    BY <1>1 DEF StepSet, RunSet
  <1>3. CASE run[c].round < Current(c).tries
    BY <1>3, <1>2, <1>1 DEF NextRound, Retries, Typed, RunSet
  <1>4. CASE ~(run[c].round < Current(c).tries)
    <2>1. GivesUp(c) /\ run[c].round >= Current(c).tries
      BY <1>4, <1>2 DEF NextRound
    <2>2. CASE Current(c).fail = "stop"
      BY <2>1, <2>2 DEF GivesUp, Ends, Stops
    <2>3. CASE Current(c).fail = "recover"
      <3>1. (run[c].failed \/ Current(c).fail # "pass") = TRUE
        BY <2>3
      <3>2. run' = [run EXCEPT ![c] = [[run[c] EXCEPT !.failed = TRUE] EXCEPT !.mode = "recover"]]
        BY <2>1, <2>3, <3>1 DEF GivesUp
      <3>3. [[run[c] EXCEPT !.failed = TRUE] EXCEPT !.mode = "recover"] = [run[c] EXCEPT !.failed = TRUE, !.mode = "recover"]
        BY <1>1 DEF RunSet
      <3> QED BY <2>3, <3>2, <3>3 DEF Recovers
    <2>4. CASE Current(c).fail = "skipTwo"
      <3>1. run' = [run EXCEPT ![c] = LET r == [run[c] EXCEPT !.failed = @ \/ Current(c).fail # "pass"]
                                      IN  Going(r, SubSeq(r.todo, 3, Len(r.todo)))]
        BY <2>1, <2>4 DEF GivesUp
      <3>2. [run[c] EXCEPT !.failed = @ \/ Current(c).fail # "pass"].todo = run[c].todo
        BY <1>1 DEF RunSet
      <3> QED BY <2>4, <3>1, <3>2 DEF Skips, Drop
    <2>5. CASE Current(c).fail \in {"skip", "pass"}
      <3>1. run' = [run EXCEPT ![c] = LET r == [run[c] EXCEPT !.failed = @ \/ Current(c).fail # "pass"]
                                      IN  Going(r, SubSeq(r.todo, 2, Len(r.todo)))]
        BY <2>1, <2>5 DEF GivesUp
      <3>2. [run[c] EXCEPT !.failed = @ \/ Current(c).fail # "pass"].todo = run[c].todo
        BY <1>1 DEF RunSet
      <3>3. (IF Current(c).fail = "skipTwo" THEN 2 ELSE 1) = 1 /\ Current(c).fail \in {"skip", "skipTwo", "pass"}
        BY <2>5
      <3>4. Drop(run[c].todo, 1) = SubSeq(run[c].todo, 2, Len(run[c].todo))
        BY DEF Drop
      <3>5. run' = [run EXCEPT ![c] = Going([run[c] EXCEPT !.failed = run[c].failed \/ Current(c).fail # "pass"],
                                            Drop(run[c].todo, 1))]
        BY <3>1, <3>2, <3>4
      <3> QED BY <3>3, <3>5 DEF Skips
    <2> QED BY <2>2, <2>3, <2>4, <2>5, <1>2 DEF Fails
  <1> QED BY <1>3, <1>4

-----------------------------------------------------------------------------
(* Steps of one run, and the channels they leave alone *)

\* what a step may change of a channel whose run it moves, and of the others
Rest(c) == /\ records'[c].on = records[c].on /\ records'[c].gate = records[c].gate /\ records'[c].start = records[c].start
           /\ onChain'[c] = onChain[c] /\ keyring'[c] = keyring[c]
           /\ listed'[c] = listed[c] /\ saved'[c] \in {saved[c], listed[c]}
           /\ report'[c] = report[c] /\ (present' => present)
           /\ MadeBy(c)' = MadeBy(c) /\ ahead'.begin \subseteq ahead.begin
Kept(c) == Rest(c) /\ run'[c] = run[c]

LEMMA KeptBase ==
    ASSUME Typed, NEW c \in Creations, Base(c), Kept(c)
    PROVE  Base(c)'
  <1> USE DEF Kept, Rest
  <1>1. Creating(c)' = Creating(c) /\ Deploying(c)' = Deploying(c) /\ Busy(c)' = Busy(c) /\ Current(c)' = Current(c)
    BY DEF Creating, Deploying, Busy, Current
  <1>2. Exists(c, "message")' = Exists(c, "message") /\ \A w : InPlace(c, w)' = InPlace(c, w)
    BY DEF Exists, InPlace
  <1>3. Shaped(c)'
    BY <1>1 DEF Base, Shaped
  <1>4. Fresh(c)'
    BY <1>1 DEF Base, Fresh
  <1>5. Deploys(c)'
    BY <1>1 DEF Base, Deploys
  <1>6. Claimed(c)'
    BY <1>1 DEF Base, Claimed
  <1>7. Bare(c)'
    BY <1>1 DEF Base, Bare
  <1>8. OneClone(c)'
    BY DEF Base, OneClone
  <1>9. Founded(c)'
    BY <1>1, <1>2 DEF Base, Founded
  <1>10. Held(c)'
    BY <1>1 DEF Base, Held
  <1>11. Ordered(c)'
    BY <1>1, <1>2 DEF Base, Ordered
  <1> QED BY <1>3, <1>4, <1>5, <1>6, <1>7, <1>8, <1>9, <1>10, <1>11 DEF Base

\* a run ends
LEMMA CeasesBase ==
    ASSUME Typed, NEW c \in Creations, Base(c), Rest(c), run'[c] = Idle
    PROVE  Base(c)'
  <1> USE DEF Rest
  <1>1. /\ run'[c].kind = "idle" /\ run'[c].mode = "idle" /\ run'[c].todo = <<>> /\ ~Creating(c)' /\ ~Deploying(c)'
        /\ ~Busy(c)'
    BY IdleTyped DEF Creating, Deploying, Busy
  <1>2. Exists(c, "message")' = Exists(c, "message")
    BY DEF Exists
  <1>3. Shaped(c)'
    <2>1. \A i : i \notin DOMAIN run'[c].todo
      BY <1>1
    <2> QED BY <1>1, <2>1 DEF Base, Shaped, Ending
  <1>4. Fresh(c)'
    BY <1>1 DEF Base, Fresh
  <1>5. Deploys(c)' /\ Claimed(c)' /\ Ordered(c)'
    BY <1>1 DEF Deploys, Claimed, Ordered
  <1>6. Bare(c)'
    BY <1>1 DEF Base, Bare
  <1>7. OneClone(c)'
    BY DEF Base, OneClone
  <1>8. Founded(c)'
    BY <1>1, <1>2 DEF Base, Founded
  <1>9. Held(c)'
    BY <1>1 DEF Base, Held, Ending
  <1> QED BY <1>3, <1>4, <1>5, <1>6, <1>7, <1>8, <1>9 DEF Base

\* a run asks, sends again or turns to recovery, its plan unchanged
LEMMA WaitsBase ==
    ASSUME Typed, NEW c \in Creations, Base(c), Rest(c), ~Deploying(c),
           run[c].mode \in {"ask", "send", "mined"}, run'[c].mode \in {"ask", "send", "recover"},
           run'[c].kind = run[c].kind, run'[c].todo = run[c].todo, run'[c].recovered = run[c].recovered,
           run'[c].mode = "send" => Current(c).w.op = "allow" \/ ~InPlace(c, Current(c).w)
    PROVE  Base(c)'
  <1> USE DEF Rest
  <1>0. Shaped(c)
    BY DEF Base
  <1>1. /\ Creating(c)' = Creating(c) /\ ~Deploying(c)' /\ Busy(c)' /\ Busy(c) /\ Current(c)' = Current(c)
        /\ run[c].todo # <<>>
    BY <1>0, HasCurrent DEF Creating, Deploying, Busy, Current
  <1>2. Exists(c, "message")' = Exists(c, "message") /\ \A w : InPlace(c, w)' = InPlace(c, w)
    BY DEF Exists, InPlace
  <1>3. Shaped(c)'
    BY <1>1 DEF Base, Shaped, Ending, Busy
  <1>4. Fresh(c)'
    BY <1>1 DEF Base, Fresh
  <1>5. Deploys(c)'
    BY <1>1 DEF Base, Deploys
  <1>6. Claimed(c)'
    BY <1>1 DEF Base, Claimed
  <1>7. Bare(c)'
    BY <1>1 DEF Base, Bare
  <1>8. OneClone(c)'
    BY DEF Base, OneClone
  <1>9. Founded(c)'
    BY <1>1, <1>2 DEF Base, Founded
  <1>10. Held(c)'
    BY <1>1 DEF Base, Held, Ending
  <1>11. Ordered(c)'
    BY <1>1, <1>2 DEF Base, Ordered
  <1> QED BY <1>3, <1>4, <1>5, <1>6, <1>7, <1>8, <1>9, <1>10, <1>11 DEF Base

\* a run goes on to what is left of its plan
LEMMA DropsBase ==
    ASSUME Typed, NEW c \in Creations, Base(c), Rest(c), ~Deploying(c),
           run[c].mode \in {"ask", "send", "mined"}, Creating(c) => Exists(c, "message"),
           NEW r \in RunSet, r.kind = run[c].kind, r.recovered = run[c].recovered,
           NEW n \in {1, 2}, run'[c] = Going(r, Drop(run[c].todo, n))
    PROVE  Base(c)'
  <1> USE DEF Rest
  <1> DEFINE q == Drop(run[c].todo, n)
  <1>0. Shaped(c)
    BY DEF Base
  <1>1. run[c].todo \in Seq(StepSet) /\ run[c].kind \in {"create", "repair"} /\ Busy(c)
    BY <1>0, HasCurrent
  <1>2. /\ q \in Seq(StepSet)
        /\ \A i \in DOMAIN q : i + n \in DOMAIN run[c].todo /\ q[i] = run[c].todo[i + n] /\ i \in Nat /\ i >= 1
    BY <1>1, DropHolds
  <1> HIDE DEF q
  <1>3. /\ run'[c].kind = run[c].kind /\ run'[c].todo = q /\ run'[c].recovered = run[c].recovered
        /\ q = <<>> => run'[c].mode = IF run[c].kind = "repair" THEN "over" ELSE "save"
        /\ q # <<>> => run'[c].mode = IF q[1].ask THEN "ask" ELSE "send"
    BY <1>1, <1>2, Goes DEF q
  <1>4. \A i \in DOMAIN q : q[i].w.op # "gate"
    BY <1>0, <1>2 DEF Shaped
  <1>5. Creating(c)' = Creating(c) /\ ~Deploying(c)' /\ Busy(c)'
    BY <1>1, <1>3, <1>4, DeployHolds DEF Creating, Deploying, Busy
  <1>6. Exists(c, "message")' = Exists(c, "message") /\ \A w : InPlace(c, w)' = InPlace(c, w)
    BY DEF Exists, InPlace
  <1>7. Shaped(c)'
    <2>1. CASE q = <<>>
      BY <2>1, <1>0, <1>1, <1>3, <1>4, <1>5 DEF Shaped, Creating, Ending
    <2>2. CASE q # <<>>
      <3>1. run'[c].mode \in {"ask", "send"}
        BY <2>2, <1>3
      <3> QED BY <3>1, <2>2, <1>0, <1>1, <1>3, <1>4, <1>5 DEF Shaped, Ending
    <2> QED BY <2>1, <2>2
  <1>8. Fresh(c)'
    BY <1>1 DEF Base, Fresh
  <1>9. Deploys(c)'
    BY <1>5 DEF Deploys
  <1>10. Claimed(c)'
    BY <1>5 DEF Base, Claimed
  <1>11. Bare(c)'
    BY <1>1 DEF Base, Bare
  <1>12. OneClone(c)'
    BY DEF Base, OneClone
  <1>13. Founded(c)'
    BY <1>3, <1>5, <1>6 DEF Base, Founded, Creating
  <1>14. Held(c)'
    <2>1. run'[c].mode \notin Ending
      BY <1>3 DEF Ending
    <2> QED BY <2>1 DEF Base, Held, Ending
  <1>15. Ordered(c)'
    <2> SUFFICES ASSUME Creating(c), ~run[c].recovered
                 PROVE  Ordered(c)'
      BY <1>3, <1>5 DEF Ordered
    <2> DEFINE todo == run[c].todo
    <2>1. /\ \A i \in DOMAIN todo : todo[i].w.op # "clone"
          /\ \A i, j \in DOMAIN todo : i # j => todo[i].w.op # todo[j].w.op \/ todo[i].w.on # todo[j].w.on
          /\ \A i \in DOMAIN todo : i > 1 /\ ~todo[i].ask => ~InPlace(c, todo[i].w)
      BY DEF Base, Ordered
    <2> HIDE DEF todo
    <2>2. \A i \in DOMAIN q : /\ i + n \in DOMAIN todo /\ q[i] = todo[i + n] /\ i \in Nat /\ i + n > 1
      BY <1>2 DEF todo
    <2>3. \A i \in DOMAIN q : q[i].w.op # "clone" /\ (~q[i].ask => ~InPlace(c, q[i].w))
      BY <2>1, <2>2
    <2>4. \A i, j \in DOMAIN q : i # j => q[i].w.op # q[j].w.op \/ q[i].w.on # q[j].w.on
      <3> TAKE i, j \in DOMAIN q
      <3>1. i # j => i + n # j + n
        BY <2>2
      <3> QED BY <3>1, <2>1, <2>2
    <2>5. run'[c].mode = "send" => ~InPlace(c, q[1].w)
      <3> SUFFICES ASSUME run'[c].mode = "send" PROVE ~InPlace(c, q[1].w)
        OBVIOUS
      <3>1. q # <<>>
        BY <1>3
      <3>2. ~q[1].ask /\ 1 \in DOMAIN q
        BY <3>1, <1>2, <1>3, EmptySeq
      <3> QED BY <3>2, <2>3
    <2> QED BY <2>3, <2>4, <2>5, <1>3, <1>6 DEF Ordered, Current
  <1> QED BY <1>7, <1>8, <1>9, <1>10, <1>11, <1>12, <1>13, <1>14, <1>15 DEF Base

\* a round that failed: the run asks again, goes on without the write, recovers or ends
LEMMA RoundBase ==
    ASSUME Typed, NEW c \in Creations, Base(c), Rest(c), run[c].mode \in {"ask", "send", "mined"}, NextRound(c)
    PROVE  /\ Base(c)' /\ run' \in [Creations -> RunSet] /\ \A d \in Creations \ {c} : run'[d] = run[d]
  <1>0. Shaped(c) /\ Founded(c) /\ Deploys(c)
    BY DEF Base
  <1>1. Retries(c) \/ Stops(c) \/ Recovers(c) \/ Skips(c)
    BY <1>0, RoundFails
  <1>2. /\ run[c] \in RunSet /\ run[c].todo \in Seq(StepSet) /\ Current(c) \in StepSet /\ run[c].kind \in {"create", "repair"}
        /\ (Current(c).w.op = "gate" <=> Deploying(c)) /\ run \in [Creations -> RunSet]
    BY <1>0, HasCurrent DEF Typed
  <1>3. Deploying(c) => Current(c).fail = "stop" /\ Current(c).tries = 1 /\ run[c].round = 1
    BY <1>0, DeployHolds DEF Deploying, Deploys, Current
  <1>4. CASE Retries(c)
    <2> DEFINE k == run[c].round + 1
               r == [run[c] EXCEPT !.round = k, !.mode = "ask"]
    <2>0. k \in Nat
      BY <1>2 DEF RunSet
    <2> HIDE DEF k
    <2>1. r \in RunSet /\ r.kind = run[c].kind /\ r.todo = run[c].todo /\ r.recovered = run[c].recovered /\ r.mode = "ask"
      BY <2>0, <1>2 DEF RunSet, Modes
    <2> HIDE DEF r
    <2>2. run' = [run EXCEPT ![c] = r]
      BY <1>4 DEF Retries, r, k
    <2>3. ~Deploying(c)
      BY <1>3, <1>4 DEF Retries
    <2>4. run'[c] = r /\ run' \in [Creations -> RunSet] /\ \A d \in Creations \ {c} : run'[d] = run[d]
      BY <2>1, <2>2, <1>2
    <2>5. Base(c)'
      BY <2>1, <2>3, <2>4, WaitsBase
    <2> QED BY <2>4, <2>5
  <1>5. CASE Stops(c)
    <2>1. run'[c] = Idle /\ run' \in [Creations -> RunSet] /\ \A d \in Creations \ {c} : run'[d] = run[d]
      BY <1>2, <1>5, IdleTyped DEF Stops
    <2> QED BY <2>1, CeasesBase
  <1>6. CASE Recovers(c)
    <2> DEFINE f == TRUE
               r == [run[c] EXCEPT !.failed = f, !.mode = "recover"]
    <2>0. f \in BOOLEAN
      OBVIOUS
    <2> HIDE DEF f
    <2>1. r \in RunSet /\ r.kind = run[c].kind /\ r.todo = run[c].todo /\ r.recovered = run[c].recovered /\ r.mode = "recover"
      BY <2>0, <1>2 DEF RunSet, Modes
    <2> HIDE DEF r
    <2>2. run' = [run EXCEPT ![c] = r]
      BY <1>6 DEF Recovers, r, f
    <2>3. ~Deploying(c)
      BY <1>3, <1>6 DEF Recovers
    <2>4. run'[c] = r /\ run' \in [Creations -> RunSet] /\ \A d \in Creations \ {c} : run'[d] = run[d]
      BY <2>1, <2>2, <1>2
    <2>5. Base(c)'
      BY <2>1, <2>3, <2>4, WaitsBase
    <2> QED BY <2>4, <2>5
  <1>7. CASE Skips(c)
    <2> DEFINE f == run[c].failed \/ Current(c).fail # "pass"
               r == [run[c] EXCEPT !.failed = f]
               n == IF Current(c).fail = "skipTwo" THEN 2 ELSE 1
               q == Drop(run[c].todo, n)
    <2>1. f \in BOOLEAN /\ n \in {1, 2}
      OBVIOUS
    <2> HIDE DEF f, n
    <2>2. r \in RunSet /\ r.kind = run[c].kind /\ r.recovered = run[c].recovered
      BY <1>2, <2>1 DEF RunSet
    <2> HIDE DEF r
    <2>3. run' = [run EXCEPT ![c] = Going(r, q)]
      BY <1>7 DEF Skips, r, f, n
    <2>4. q \in Seq(StepSet)
      BY <1>2, <2>1, DropHolds
    <2>5. Going(r, q) \in RunSet
      BY <2>2, <2>4, <1>2, Goes
    <2>6. run'[c] = Going(r, q) /\ run' \in [Creations -> RunSet] /\ \A d \in Creations \ {c} : run'[d] = run[d]
      BY <2>3, <2>5, <1>2
    <2>7. ~Deploying(c) /\ Current(c).fail # "recover"
      BY <1>3, <1>7 DEF Skips
    <2>8. Creating(c) => Exists(c, "message")
      BY <2>7, <1>0 DEF Founded
    <2>9. Base(c)'
      BY <2>1, <2>2, <2>6, <2>7, <2>8, DropsBase
    <2> QED BY <2>6, <2>9
  <1> QED BY <1>1, <1>4, <1>5, <1>6, <1>7

-----------------------------------------------------------------------------
(* Each action keeps the invariant: what a run does *)

\* a fault spent leaves a course
LEMMA HappensTyped ==
    ASSUME ahead \in CreationStates, NEW e \in CreationEvents, Happens(e)
    PROVE  ahead' \in CreationStates /\ ahead'.begin = ahead.begin
  <1>1. ahead.left[e] \in Nat /\ ahead.left[e] > 0
    BY DEF Happens, CreationStates
  <1>2. [ahead.left EXCEPT ![e] = @ - 1] \in [CreationEvents -> Nat]
    BY <1>1 DEF CreationStates
  <1>3. ahead' = [ahead EXCEPT !.left = [ahead.left EXCEPT ![e] = @ - 1]]
    BY DEF Happens, CreationStates
  <1> QED BY <1>2, <1>3 DEF CreationStates

OnlyRuns == UNCHANGED <<clones, onChain, records, saved, keyring, present, listed, report, states, looks>>
Spends == ahead' = ahead \/ \E e \in CreationEvents : Happens(e)

LEMMA SpendsTyped ==
    ASSUME Typed, Spends PROVE ahead' \in CreationStates /\ ahead'.begin = ahead.begin
  BY HappensTyped DEF Typed, Spends

\* a step that only moves runs leaves the rest of every channel
LEMMA OnlyRunsRest ==
    ASSUME Typed, OnlyRuns, Spends, NEW c \in Creations
    PROVE  Rest(c)
  <1>1. ahead'.begin = ahead.begin
    BY SpendsTyped
  <1> QED BY <1>1 DEF OnlyRuns, Rest, MadeBy

LEMMA OnlyRunKept ==
    ASSUME BaseInv, NEW c \in Creations, OnlyRuns, Spends, SentOnceAsked', Base(c)',
           run' \in [Creations -> RunSet], \A d \in Creations \ {c} : run'[d] = run[d]
    PROVE  BaseInv'
  <1>1. ASSUME NEW d \in Creations PROVE Base(d)'
    <2>1. CASE d = c
      BY <2>1
    <2>2. CASE d # c
      <3>1. Kept(d)
        BY <2>2, OnlyRunsRest DEF BaseInv, Kept
      <3> QED BY <3>1, KeptBase DEF BaseInv
    <2> QED BY <2>1, <2>2
  <1>2. ahead' \in CreationStates
    BY SpendsTyped DEF BaseInv
  <1>3. Typed'
    BY <1>2 DEF BaseInv, Typed, OnlyRuns
  <1>4. LooksFind'
    BY DEF BaseInv, LooksFind, OnlyRuns
  <1> QED BY <1>1, <1>3, <1>4 DEF BaseInv

\* the run of c is given r
LEMMA RunGiven ==
    ASSUME Typed, NEW c \in Creations, NEW r \in RunSet, run' = [run EXCEPT ![c] = r]
    PROVE  run'[c] = r /\ run' \in [Creations -> RunSet] /\ \A d \in Creations \ {c} : run'[d] = run[d]
  BY DEF Typed

\* the mode of a run
LEMMA ModeGiven ==
    ASSUME NEW r \in RunSet, NEW m \in Modes
    PROVE  LET x == [r EXCEPT !.mode = m]
           IN  x \in RunSet /\ x.mode = m /\ x.kind = r.kind /\ x.todo = r.todo /\ x.recovered = r.recovered
               /\ x.gate = r.gate /\ x.failed = r.failed /\ x.round = r.round
  BY DEF RunSet

\* the question before a send
LEMMA AskBase ==
    ASSUME BaseInv, NEW c \in Creations, Ask(c)
    PROVE  BaseInv'
  <1>1. Typed /\ Base(c) /\ Shaped(c) /\ Founded(c) /\ Deploys(c) /\ run[c].mode = "ask"
    BY DEF BaseInv, Base, Ask
  <1>2. OnlyRuns /\ Spends /\ twice' = twice
    BY DEF Ask, OnlyRuns, Spends, ledger, disk, CreationEvents
  <1>3. SentOnceAsked'
    BY <1>2 DEF BaseInv, SentOnceAsked
  <1>4. Rest(c)
    BY <1>1, <1>2, OnlyRunsRest
  <1>5. ~Deploying(c)
    BY <1>1 DEF Deploys
  <1>6. /\ run[c] \in RunSet /\ run[c].todo \in Seq(StepSet) /\ run[c].todo # <<>> /\ run[c].kind \in {"create", "repair"}
        /\ Current(c) \in StepSet
    BY <1>1, HasCurrent
  <1>7. CASE InPlace(c, Current(c).w) /\ run' = [run EXCEPT ![c] = Going(run[c], Tail(run[c].todo))]
    <2>1. Tail(run[c].todo) = Drop(run[c].todo, 1) /\ Drop(run[c].todo, 1) \in Seq(StepSet)
      BY <1>6, DropHolds
    <2>2. Going(run[c], Drop(run[c].todo, 1)) \in RunSet
      BY <1>6, <2>1, Goes
    <2>3. run'[c] = Going(run[c], Drop(run[c].todo, 1)) /\ run' \in [Creations -> RunSet]
          /\ \A d \in Creations \ {c} : run'[d] = run[d]
      BY <1>1, <1>7, <2>1, <2>2, RunGiven
    <2>4. Creating(c) => Exists(c, "message")
      BY <1>1, <1>5, <1>7 DEF Founded, InPlace
    <2>5. Base(c)'
      BY <1>1, <1>4, <1>5, <1>6, <2>3, <2>4, DropsBase
    <2> QED BY <2>3, <2>5, <1>2, <1>3, OnlyRunKept
  <1>8. CASE (~InPlace(c, Current(c).w) \/ Current(c).w.op = "allow") /\ run' = [run EXCEPT ![c] = [run[c] EXCEPT !.mode = "send"]]
    <2> DEFINE r == [run[c] EXCEPT !.mode = "send"]
    <2>1. r \in RunSet /\ r.mode = "send" /\ r.kind = run[c].kind /\ r.todo = run[c].todo /\ r.recovered = run[c].recovered
      BY <1>6, ModeGiven DEF Modes
    <2> HIDE DEF r
    <2>2. run'[c] = r /\ run' \in [Creations -> RunSet] /\ \A d \in Creations \ {c} : run'[d] = run[d]
      BY <1>1, <1>8, <2>1, RunGiven DEF r
    <2>3. Base(c)'
      BY <1>1, <1>4, <1>5, <1>8, <2>1, <2>2, WaitsBase
    <2> QED BY <2>2, <2>3, <1>2, <1>3, OnlyRunKept
  <1>9. CASE NextRound(c)
    <2>1. Base(c)' /\ run' \in [Creations -> RunSet] /\ \A d \in Creations \ {c} : run'[d] = run[d]
      BY <1>1, <1>4, <1>9, RoundBase
    <2> QED BY <2>1, <1>2, <1>3, OnlyRunKept
  <1>10. \/ InPlace(c, Current(c).w) /\ run' = [run EXCEPT ![c] = Going(run[c], Tail(run[c].todo))]
         \/ (~InPlace(c, Current(c).w) \/ Current(c).w.op = "allow") /\ run' = [run EXCEPT ![c] = [run[c] EXCEPT !.mode = "send"]]
         \/ NextRound(c)
    BY <1>1 DEF Ask, Typed
  <1> QED BY <1>7, <1>8, <1>9, <1>10

\* what is sent of what the chain already had was not asked for, or is an allowlist
LEMMA SendAsked ==
    ASSUME BaseInv, NEW c \in Creations, Send(c)
    PROVE  SentOnceAsked'
  <1>1. Typed /\ Base(c) /\ Shaped(c) /\ run[c].mode = "send"
    BY DEF BaseInv, Base, Send
  <1>2. run[c] \in RunSet /\ run[c].kind \in {"create", "repair"} /\ (Current(c).w.op = "gate" <=> Deploying(c))
    BY <1>1, HasCurrent
  <1> DEFINE u == run[c].recovered \/ run[c].kind = "repair"
             t == [of |-> c, w |-> Current(c).w, unasked |-> u]
  <1>3. InPlace(c, Current(c).w) => u \/ Current(c).w.op = "allow"
    <2>1. CASE Deploying(c)
      <3>1. onChain[c] = {}
        BY <1>1, <2>1 DEF Base, Deploys, Claimed, Bare, Deploying
      <3>2. ~InPlace(c, Current(c).w)
        BY <3>1, <2>1, <1>2 DEF InPlace
      <3> QED BY <3>2
    <2>2. CASE ~Deploying(c)
      BY <1>1, <1>2, <2>2 DEF Base, Ordered, Creating
    <2> QED BY <2>1, <2>2
  <1>4. twice' \in {twice, twice \cup {t}} /\ (twice' # twice => InPlace(c, Current(c).w))
    BY DEF Send
  <1>5. t.unasked = u /\ t.w = Current(c).w
    OBVIOUS
  <1> HIDE DEF t, u
  <1>6. CASE twice' = twice
    BY <1>6 DEF BaseInv, SentOnceAsked
  <1>7. CASE twice' = twice \cup {t} /\ InPlace(c, Current(c).w)
    BY <1>3, <1>5, <1>7 DEF BaseInv, SentOnceAsked
  <1> QED BY <1>4, <1>6, <1>7

\* a clone more
LEMMA CloneMore ==
    ASSUME Typed, NEW c \in Gated, NEW m \in BOOLEAN, clones' = Append(clones, [by |-> c, mine |-> m])
    PROVE  /\ clones' \in Seq([by : Gated, mine : BOOLEAN])
           /\ Len(clones) + 1 \in Nat /\ Len(clones') = Len(clones) + 1
           /\ \A i \in DOMAIN clones : i \in DOMAIN clones' /\ clones'[i] = clones[i]
           /\ clones'[Len(clones) + 1] = [by |-> c, mine |-> m]
           /\ MadeBy(c)' = MadeBy(c) \cup {Len(clones) + 1}
           /\ \A d \in Creations \ {c} : MadeBy(d)' = MadeBy(d)
           /\ DOMAIN clones = 1..Len(clones)
  <1> DEFINE e == [by |-> c, mine |-> m]
  <1>1. e \in [by : Gated, mine : BOOLEAN] /\ e.by = c
    OBVIOUS
  <1>2. clones \in Seq([by : Gated, mine : BOOLEAN])
    BY DEF Typed
  <1> HIDE DEF e
  <1>3. clones' = Append(clones, e)
    BY DEF e
  <1>4. /\ clones' \in Seq([by : Gated, mine : BOOLEAN]) /\ Len(clones') = Len(clones) + 1 /\ Len(clones) \in Nat
        /\ DOMAIN clones = 1..Len(clones) /\ DOMAIN clones' = 1..(Len(clones) + 1)
        /\ \A i \in 1..Len(clones) : clones'[i] = clones[i]
        /\ clones'[Len(clones) + 1] = e
    BY <1>1, <1>2, <1>3
  <1>5. \A i \in DOMAIN clones' : i \in DOMAIN clones \/ i = Len(clones) + 1
    BY <1>4
  <1>6. MadeBy(c)' = MadeBy(c) \cup {Len(clones) + 1}
    BY <1>1, <1>4, <1>5 DEF MadeBy
  <1>7. \A d \in Creations \ {c} : MadeBy(d)' = MadeBy(d)
    BY <1>1, <1>4, <1>5 DEF MadeBy
  <1> QED BY <1>4, <1>6, <1>7 DEF e

\* the transaction is mined, or refused
LEMMA SendBase ==
    ASSUME BaseInv, NEW c \in Creations, Send(c)
    PROVE  BaseInv'
  <1>1. Typed /\ Base(c) /\ Shaped(c) /\ Founded(c) /\ Deploys(c) /\ Claimed(c) /\ Bare(c) /\ Ordered(c) /\ run[c].mode = "send"
    BY DEF BaseInv, Base, Send
  <1>2. SentOnceAsked'
    BY SendAsked
  <1>3. /\ run[c] \in RunSet /\ run[c].todo \in Seq(StepSet) /\ run[c].todo # <<>> /\ run[c].kind \in {"create", "repair"}
        /\ Current(c) \in StepSet /\ Current(c).w \in Writes /\ 1 \in DOMAIN run[c].todo /\ Busy(c)
        /\ (Current(c).w.op = "gate" <=> Deploying(c)) /\ Current(c) = run[c].todo[1]
    BY <1>1, HasCurrent
  <1>4. /\ UNCHANGED <<records, saved, keyring, present, listed, report, states, looks>> /\ Spends
    BY DEF Send, Spends, disk, CreationEvents
  <1>5. ahead' \in CreationStates /\ ahead'.begin = ahead.begin
    BY <1>1, <1>4, SpendsTyped
  <1> DEFINE r == [run[c] EXCEPT !.mode = "mined"]
  <1>6. r \in RunSet /\ r.mode = "mined" /\ r.kind = run[c].kind /\ r.todo = run[c].todo /\ r.recovered = run[c].recovered
        /\ r.gate = run[c].gate /\ r.round = run[c].round
    BY <1>3, ModeGiven DEF Modes
  <1>7. LooksFind'
    BY <1>4 DEF BaseInv, LooksFind
  <1> HIDE DEF r
  <1>8. CASE NextRound(c) /\ UNCHANGED ledger
    <2>1. OnlyRuns
      BY <1>4, <1>8 DEF OnlyRuns, ledger
    <2>2. Base(c)' /\ run' \in [Creations -> RunSet] /\ \A d \in Creations \ {c} : run'[d] = run[d]
      BY <1>1, <1>4, <1>8, <2>1, OnlyRunsRest, RoundBase
    <2> QED BY <2>1, <2>2, <1>2, <1>4, OnlyRunKept
  <1>9. CASE /\ Current(c).w.op = "gate" /\ clones' = Append(clones, [by |-> c, mine |-> present])
             /\ UNCHANGED onChain /\ run' = [run EXCEPT ![c] = r]
    <2>1. Deploying(c) /\ c \in Gated /\ present \in BOOLEAN /\ MadeBy(c) = {}
      BY <1>1, <1>3, <1>9 DEF Deploys, Typed
    <2>2. run'[c] = r /\ run' \in [Creations -> RunSet] /\ \A d \in Creations \ {c} : run'[d] = run[d]
      BY <1>1, <1>6, <1>9, RunGiven
    <2>3. /\ clones' \in Seq([by : Gated, mine : BOOLEAN]) /\ MadeBy(c)' = {Len(clones) + 1}
          /\ \A d \in Creations \ {c} : MadeBy(d)' = MadeBy(d)
      BY <1>1, <2>1, <1>9, CloneMore
    <2>4. ASSUME NEW d \in Creations, d # c PROVE Base(d)'
      <3>1. Kept(d)
        BY <2>4, <2>2, <2>3, <1>4, <1>5, <1>9 DEF Kept, Rest
      <3> QED BY <3>1, KeptBase DEF BaseInv
    <2>5. Base(c)'
      <3>1. Deploying(c)' /\ Creating(c)' /\ Busy(c)' /\ Busy(c) /\ Creating(c)
        BY <1>6, <2>1, <2>2, <1>3 DEF Deploying, Creating, Busy
      <3>2. Shaped(c)'
        BY <1>1, <1>3, <1>4, <1>6, <2>2, <3>1 DEF Shaped, Ending
      <3>3. Fresh(c)'
        BY <1>1, <1>5, <3>1 DEF Base, Fresh
      <3>4. Deploys(c)' /\ OneClone(c)'
        BY <1>1, <1>4, <1>6, <2>1, <2>2, <2>3 DEF Deploys, OneClone
      <3>5. Claimed(c)' /\ Bare(c)'
        BY <1>1, <1>4, <1>9, <3>1 DEF Claimed, Bare
      <3>6. Founded(c)'
        BY <1>1, <1>4, <1>9, <1>6, <2>2, <3>1 DEF Founded, Exists, Creating
      <3>7. Held(c)'
        BY <1>1, <1>4, <1>6, <2>2 DEF Base, Held, Ending
      <3>8. Ordered(c)'
        BY <3>1 DEF Ordered
      <3> QED BY <3>2, <3>3, <3>4, <3>5, <3>6, <3>7, <3>8 DEF Base
    <2>6. Typed'
      BY <1>1, <1>4, <1>5, <1>9, <2>2, <2>3 DEF Typed
    <2> QED BY <1>2, <1>7, <2>4, <2>5, <2>6 DEF BaseInv
  <1>10. CASE /\ Current(c).w.op # "gate" /\ onChain' = [onChain EXCEPT ![c] = @ \cup {Current(c).w}]
              /\ UNCHANGED clones /\ run' = [run EXCEPT ![c] = r]
    <2>1. ~Deploying(c)
      BY <1>3, <1>10
    <2>2. run'[c] = r /\ run' \in [Creations -> RunSet] /\ \A d \in Creations \ {c} : run'[d] = run[d]
      BY <1>1, <1>6, <1>10, RunGiven
    <2>3. /\ onChain'[c] = onChain[c] \cup {Current(c).w} /\ onChain' \in [Creations -> SUBSET Writes]
          /\ \A d \in Creations \ {c} : onChain'[d] = onChain[d]
          /\ \A d \in Creations : MadeBy(d)' = MadeBy(d)
      BY <1>1, <1>3, <1>10 DEF Typed, MadeBy
    <2>4. ASSUME NEW d \in Creations, d # c PROVE Base(d)'
      <3>1. Kept(d)
        BY <2>4, <2>2, <2>3, <1>4, <1>5 DEF Kept, Rest
      <3> QED BY <3>1, KeptBase DEF BaseInv
    <2>5. Base(c)'
      <3>1. /\ ~Deploying(c)' /\ (Creating(c)' <=> Creating(c)) /\ Busy(c)' /\ Busy(c) /\ Current(c)' = Current(c)
        BY <1>6, <2>1, <2>2, <1>3 DEF Deploying, Creating, Busy, Current
      <3>2. Shaped(c)'
        BY <1>1, <1>3, <1>4, <1>6, <2>1, <2>2, <3>1 DEF Shaped, Ending
      <3>3. Fresh(c)'
        BY <1>1, <1>5, <3>1 DEF Base, Fresh
      <3>4. Deploys(c)' /\ OneClone(c)'
        BY <1>1, <2>3, <3>1 DEF Base, Deploys, OneClone
      <3>5. Claimed(c)'
        BY <1>1, <1>4, <3>1 DEF Claimed
      <3>6. Bare(c)'
        BY <1>1, <1>4, <3>1, <2>1 DEF Bare
      <3>7. Exists(c, "message")'
        BY <1>1, <1>3, <2>1, <2>3 DEF Founded, Exists, Creating
      <3>8. Founded(c)'
        BY <3>7 DEF Founded
      <3>9. Held(c)'
        BY <1>1, <1>4, <1>6, <2>2 DEF Base, Held, Ending
      <3>10. Ordered(c)'
        <4> SUFFICES ASSUME Creating(c), ~run[c].recovered PROVE Ordered(c)'
          BY <1>6, <2>2, <3>1 DEF Ordered
        <4> DEFINE todo == run[c].todo
        <4>1. /\ \A i \in DOMAIN todo : todo[i].w.op # "clone"
              /\ \A i, j \in DOMAIN todo : i # j => todo[i].w.op # todo[j].w.op \/ todo[i].w.on # todo[j].w.on
              /\ \A i \in DOMAIN todo : i > 1 /\ ~todo[i].ask => ~InPlace(c, todo[i].w)
          BY <1>1, <2>1 DEF Ordered
        <4>2. ASSUME NEW i \in DOMAIN todo, i > 1, ~todo[i].ask, NEW w, w = todo[i].w PROVE ~InPlace(c, w)'
          <5>1. ~InPlace(c, w) /\ w.op # "clone"
            BY <4>1, <4>2
          <5>2. w.op # Current(c).w.op \/ w.on # Current(c).w.on
            <6>1. i # 1
              BY <4>2
            <6> QED BY <6>1, <4>1, <4>2, <1>3
          <5>3. w # Current(c).w
            BY <5>2
          <5> HIDE DEF todo
          <5>4. CASE w.op = "stream"
            <6>1. ~Exists(c, w.on)
              BY <5>1, <5>4 DEF InPlace
            <6>2. ~(Current(c).w.op = "stream" /\ Current(c).w.on = w.on)
              BY <5>2, <5>4
            <6>3. ~Exists(c, w.on)'
              BY <6>1, <6>2, <2>3 DEF Exists
            <6> QED BY <6>3, <5>4 DEF InPlace
          <5>5. CASE w.op # "stream"
            BY <5>1, <5>3, <5>5, <2>3 DEF InPlace
          <5> QED BY <5>4, <5>5
        <4>3. run'[c].todo = todo /\ run'[c].mode = "mined"
          BY <1>6, <2>2
        <4> HIDE DEF todo
        <4> QED BY <4>1, <4>2, <4>3 DEF Ordered
      <3> QED BY <3>2, <3>3, <3>4, <3>5, <3>6, <3>8, <3>9, <3>10 DEF Base
    <2>6. Typed'
      BY <1>1, <1>4, <1>5, <1>10, <2>2, <2>3 DEF Typed
    <2> QED BY <1>2, <1>7, <2>4, <2>5, <2>6 DEF BaseInv
  <1>11. \/ NextRound(c) /\ UNCHANGED ledger
         \/ /\ Current(c).w.op = "gate" /\ clones' = Append(clones, [by |-> c, mine |-> present])
            /\ UNCHANGED onChain /\ run' = [run EXCEPT ![c] = r]
         \/ /\ Current(c).w.op # "gate" /\ onChain' = [onChain EXCEPT ![c] = @ \cup {Current(c).w}]
            /\ UNCHANGED clones /\ run' = [run EXCEPT ![c] = r]
    BY <1>1 DEF Send, r, Typed
  <1> QED BY <1>8, <1>9, <1>10, <1>11

LEMMA StartsCreate ==
    ASSUME NEW q \in Seq(StepSet), q # <<>>, NEW g \in Nat, NEW ask \in BOOLEAN,
           NEW r, r = Start("create", q, g, ask)
    PROVE  /\ r.kind = "create" /\ r.todo = q /\ r.round = 1 /\ r.gate = g /\ ~r.recovered
           /\ r.mode = IF q[1].ask THEN "ask" ELSE "send"
  <1> DEFINE k == "create"
             s == Start(k, q, g, ask)
  <1>1. k \in {"create", "repair"} /\ k # "repair"
    OBVIOUS
  <1> HIDE DEF k
  <1>2. /\ s.kind = k /\ s.todo = q /\ s.round = 1 /\ s.gate = g /\ ~s.recovered
        /\ s.mode = IF q[1].ask THEN "ask" ELSE "send"
    BY <1>1, Starts
  <1> QED BY <1>2 DEF k

\* a creation that begins to send its plan, or to ask for it
LEMMA PlanBase ==
    ASSUME Typed, NEW c \in Creations, Base(c), NEW g \in Nat, NEW ask \in BOOLEAN,
           run'[c] = Start("create", CreatePlan(c, g, ask), g, ask),
           records'[c].on, c \in Gated => records'[c].gate # None, c \notin ahead'.begin,
           onChain'[c] = onChain[c], keyring'[c] = keyring[c], listed'[c] = listed[c], saved'[c] = saved[c],
           report'[c] = report[c], MadeBy(c)' = MadeBy(c), present' = present, ~ask => onChain[c] = {}
    PROVE  Base(c)'
  <1> DEFINE q == CreatePlan(c, g, ask)
  <1>1. /\ q \in Seq(StepSet) /\ Apart(q) /\ q # <<>> /\ \A x \in ToSet(q) : x.w.op \notin {"gate", "clone"} /\ x.ask = ask
        /\ q[1].w.op = "stream" /\ q[1].w.on = "message" /\ q[1].fail = "recover" /\ q[1].ask = ask
    BY PlanHolds
  <1> HIDE DEF q
  <1>2. \A i \in DOMAIN q : q[i].w.op \notin {"gate", "clone"} /\ q[i].ask = ask
    BY <1>1 DEF ToSet
  <1>3. /\ run'[c].kind = "create" /\ run'[c].todo = q /\ ~run'[c].recovered
        /\ run'[c].mode = IF ask THEN "ask" ELSE "send"
    <2>1. run'[c] = Start("create", q, g, ask)
      BY DEF q
    <2>2. /\ run'[c].kind = "create" /\ run'[c].todo = q /\ ~run'[c].recovered
          /\ run'[c].mode = IF q[1].ask THEN "ask" ELSE "send"
      BY <1>1, <2>1, StartsCreate
    <2>3. q[1].ask <=> ask
      BY <1>1
    <2> QED BY <2>2, <2>3
  <1>4. Creating(c)' /\ Busy(c)' /\ ~Deploying(c)' /\ Current(c)' = q[1]
    BY <1>1, <1>3, DeployHolds DEF Creating, Busy, Deploying, Current
  <1>5. Exists(c, "message")' = Exists(c, "message")
    BY DEF Exists
  <1>6. Shaped(c)'
    BY <1>1, <1>2, <1>3, <1>4 DEF Base, Shaped, Ending
  <1>7. Fresh(c)' /\ Deploys(c)' /\ Claimed(c)' /\ Bare(c)' /\ OneClone(c)'
    BY <1>4 DEF Base, Fresh, Deploys, Claimed, Bare, OneClone
  <1>8. Founded(c)'
    BY <1>1, <1>3, <1>4, <1>5 DEF Base, Founded
  <1>9. Held(c)'
    BY <1>3 DEF Base, Held, Ending
  <1>10. Ordered(c)'
    <2>1. \A i, j \in DOMAIN q : i # j => q[i].w.op # q[j].w.op \/ q[i].w.on # q[j].w.on
      BY <1>1 DEF Apart, Differ
    <2>2. ~ask => \A w : w.op # "clone" => ~InPlace(c, w)'
      BY DEF InPlace, Exists
    <2>3. 1 \in DOMAIN q
      BY <1>1, EmptySeq
    <2>4. \A i \in DOMAIN q : ~q[i].ask => ~InPlace(c, q[i].w)'
      <3> TAKE i \in DOMAIN q
      <3>1. q[i].w.op # "clone" /\ q[i].ask = ask
        BY <1>2
      <3>2. CASE ~ask
        <4> DEFINE w == q[i].w
        <4>1. w.op # "clone" /\ onChain'[c] = {}
          BY <3>1, <3>2
        <4> QED BY <4>1 DEF InPlace, Exists
      <3> QED BY <3>1, <3>2
    <2> QED BY <1>2, <1>3, <1>4, <2>1, <2>3, <2>4 DEF Ordered
  <1> QED BY <1>6, <1>7, <1>8, <1>9, <1>10 DEF Base

\* its receipt is read, or is not
LEMMA ReceiptBase ==
    ASSUME BaseInv, NEW c \in Creations, Receipt(c)
    PROVE  BaseInv'
  <1>1. Typed /\ Base(c) /\ Shaped(c) /\ Founded(c) /\ Deploys(c) /\ Claimed(c) /\ Bare(c) /\ Fresh(c) /\ run[c].mode = "mined"
    BY DEF BaseInv, Base, Receipt
  <1>2. SentOnceAsked'
    BY DEF BaseInv, SentOnceAsked, Receipt
  <1>3. /\ run[c] \in RunSet /\ run[c].todo \in Seq(StepSet) /\ run[c].todo # <<>> /\ run[c].kind \in {"create", "repair"}
        /\ Current(c) \in StepSet /\ Busy(c) /\ (Current(c).w.op = "gate" <=> Deploying(c))
    BY <1>1, HasCurrent
  <1>4. UNCHANGED <<clones, onChain, saved, keyring, present, listed, report, states, looks>> /\ Spends
    BY DEF Receipt, ledger, Spends, CreationEvents
  <1>5. CASE Current(c).w.op # "gate" /\ run' = [run EXCEPT ![c] = Going(run[c], Tail(run[c].todo))] /\ records' = records
    <2>1. Tail(run[c].todo) = Drop(run[c].todo, 1) /\ Drop(run[c].todo, 1) \in Seq(StepSet)
      BY <1>3, DropHolds
    <2>2. Going(run[c], Drop(run[c].todo, 1)) \in RunSet
      BY <1>3, <2>1, Goes
    <2>3. run'[c] = Going(run[c], Drop(run[c].todo, 1)) /\ run' \in [Creations -> RunSet]
          /\ \A d \in Creations \ {c} : run'[d] = run[d]
      BY <1>1, <1>5, <2>1, <2>2, RunGiven
    <2>4. ~Deploying(c) /\ (Creating(c) => Exists(c, "message"))
      BY <1>1, <1>3, <1>5 DEF Founded
    <2>5. OnlyRuns
      BY <1>4, <1>5 DEF OnlyRuns
    <2>6. Rest(c)
      BY <1>1, <1>4, <2>5, OnlyRunsRest
    <2>7. Base(c)'
      BY <1>1, <1>3, <2>3, <2>4, <2>6, DropsBase
    <2> QED BY <2>3, <2>5, <2>7, <1>2, <1>4, OnlyRunKept
  <1>6. CASE (run' = [run EXCEPT ![c] = Idle] \/ NextRound(c)) /\ records' = records
    <2>1. OnlyRuns
      BY <1>4, <1>6 DEF OnlyRuns
    <2>2. Rest(c)
      BY <1>1, <1>4, <2>1, OnlyRunsRest
    <2>3. Base(c)' /\ run' \in [Creations -> RunSet] /\ \A d \in Creations \ {c} : run'[d] = run[d]
      <3>1. CASE NextRound(c)
        BY <1>1, <2>2, <3>1, RoundBase
      <3>2. CASE run' = [run EXCEPT ![c] = Idle]
        BY <1>1, <2>2, <3>2, IdleTyped, RunGiven, CeasesBase
      <3> QED BY <1>6, <3>1, <3>2
    <2> QED BY <2>1, <2>3, <1>2, <1>4, OnlyRunKept
  <1> DEFINE g == Max({i \in DOMAIN clones : clones[i].by = c})
  <1>7. CASE /\ Current(c).w.op = "gate" /\ present
             /\ records' = [records EXCEPT ![c].gate = g, ![c].on = TRUE]
             /\ run' = [run EXCEPT ![c] = Start("create", CreatePlan(c, g, FALSE), g, FALSE)]
    <2>1. Deploying(c) /\ Creating(c) /\ c \in Gated /\ records[c].on /\ records[c].gate = None /\ onChain[c] = {}
          /\ MadeBy(c) # {}
      BY <1>1, <1>3, <1>7 DEF Deploys, Deploying, Claimed, Bare
    <2>2. PICK x \in MadeBy(c) : MadeBy(c) = {x}
      BY <1>1, <2>1 DEF Base, OneClone
    <2>3. x \in Nat /\ x # None
      BY <2>2, <1>1 DEF MadeBy, Typed, None
    <2>4. g = x
      BY <2>2, <2>3 DEF Max, MadeBy
    <2> HIDE DEF g
    <2>5. CreatePlan(c, g, FALSE) \in Seq(StepSet) /\ FALSE \in BOOLEAN /\ g \in Nat
      BY <2>3, <2>4, PlanHolds
    <2> DEFINE r == Start("create", CreatePlan(c, g, FALSE), g, FALSE)
    <2>6. r \in RunSet
      BY <2>5, Starts
    <2>7. run'[c] = r /\ run' \in [Creations -> RunSet] /\ \A d \in Creations \ {c} : run'[d] = run[d]
      BY <1>1, <1>7, <2>6, RunGiven
    <2>8. /\ records'[c].gate = g /\ records'[c].on
          /\ records' \in [Creations -> [on : BOOLEAN, gate : Nat, start : Nat, old : BOOLEAN]]
          /\ \A d \in Creations \ {c} : records'[d] = records[d]
      <3> DEFINE t == TRUE
                 recordSet == [on : BOOLEAN, gate : Nat, start : Nat, old : BOOLEAN]
                 n == [records[c] EXCEPT !.gate = g, !.on = t]
      <3>1. records \in [Creations -> recordSet] /\ records[c] \in recordSet /\ t \in BOOLEAN /\ t
        BY <1>1 DEF Typed
      <3>2. records' = [records EXCEPT ![c] = n]
        BY <1>7, <3>1
      <3> HIDE DEF t
      <3>3. n \in recordSet /\ n.gate = g /\ n.on
        BY <2>5, <3>1
      <3> HIDE DEF n, recordSet
      <3>4. records' \in [Creations -> recordSet] /\ records'[c] = n /\ \A d \in Creations \ {c} : records'[d] = records[d]
        BY <3>1, <3>2, <3>3
      <3> QED BY <3>3, <3>4 DEF recordSet
    <2>9. ahead' \in CreationStates /\ ahead'.begin = ahead.begin
      BY <1>1, <1>4, SpendsTyped
    <2>10. c \notin ahead'.begin
      BY <1>1, <2>1, <2>9 DEF Fresh
    <2>11. \A d \in Creations : MadeBy(d)' = MadeBy(d)
      BY <1>4 DEF MadeBy
    <2>12. Base(c)'
      BY <1>1, <1>4, <2>1, <2>3, <2>4, <2>5, <2>7, <2>8, <2>10, <2>11, PlanBase
    <2>13. ASSUME NEW d \in Creations, d # c PROVE Base(d)'
      <3>1. Kept(d)
        BY <2>13, <1>4, <2>7, <2>8, <2>9, <2>11 DEF Kept, Rest
      <3> QED BY <3>1, KeptBase DEF BaseInv
    <2>14. Typed' /\ LooksFind'
      BY <1>4, <2>7, <2>8, <2>9 DEF BaseInv, Typed, LooksFind
    <2> QED BY <1>2, <2>12, <2>13, <2>14 DEF BaseInv
  <1> HIDE DEF g
  <1>8. \/ Current(c).w.op # "gate" /\ run' = [run EXCEPT ![c] = Going(run[c], Tail(run[c].todo))] /\ records' = records
        \/ (run' = [run EXCEPT ![c] = Idle] \/ NextRound(c)) /\ records' = records
        \/ /\ Current(c).w.op = "gate" /\ present
           /\ records' = [records EXCEPT ![c].gate = g, ![c].on = TRUE]
           /\ run' = [run EXCEPT ![c] = Start("create", CreatePlan(c, g, FALSE), g, FALSE)]
    BY <1>1 DEF Receipt, Ends, Typed, g
  <1> QED BY <1>5, <1>6, <1>7, <1>8

\* a creation begins: its record, and the deploy of its gate or its plan
LEMMA BeginBase ==
    ASSUME BaseInv, NEW c \in Creations, Begin(c)
    PROVE  BaseInv'
  <1>1. Typed /\ Base(c) /\ c \in ahead.begin /\ present
    BY DEF BaseInv, Begin
  <1>2. UNCHANGED <<clones, onChain, saved, keyring, present, listed, report, states, due, looks, twice>>
    BY DEF Begin, ledger
  <1>3. ~records[c].on /\ onChain[c] = {} /\ MadeBy(c) = {} /\ ~Busy(c) /\ listed[c] = {} /\ saved[c] = {}
    BY <1>1 DEF Base, Fresh
  <1>4. ahead' \in CreationStates /\ ahead'.begin = ahead.begin \ {c}
    BY <1>1 DEF Begin, Typed, CreationStates
  <1> DEFINE n == [NoRecord EXCEPT !.on = TRUE, !.start = Len(clones)]
  <1>5. n \in [on : BOOLEAN, gate : Nat, start : Nat, old : BOOLEAN] /\ n.on /\ n.gate = None
    <2>1. Len(clones) \in Nat
      BY <1>1 DEF Typed
    <2> QED BY <2>1 DEF NoRecord, None
  <1> HIDE DEF n
  <1>6. /\ records'[c] = n /\ \A d \in Creations \ {c} : records'[d] = records[d]
        /\ records' \in [Creations -> [on : BOOLEAN, gate : Nat, start : Nat, old : BOOLEAN]]
    BY <1>1, <1>5 DEF Begin, Typed, n
  <1>7. \A d \in Creations : MadeBy(d)' = MadeBy(d)
    BY <1>2 DEF MadeBy
  <1>8. SentOnceAsked' /\ LooksFind'
    BY <1>2 DEF BaseInv, SentOnceAsked, LooksFind
  <1> DEFINE q == IF c \in Gated THEN DeployOf(None) ELSE CreatePlan(c, None, FALSE)
             r == Start("create", q, None, FALSE)
  <1>9. None \in Nat /\ FALSE \in BOOLEAN
    BY DEF None
  <1>10. q \in Seq(StepSet)
    BY <1>9, DeployHolds, PlanHolds
  <1> HIDE DEF q
  <1>11. r \in RunSet
    BY <1>9, <1>10, Starts
  <1>12. run' = [run EXCEPT ![c] = r]
    BY DEF Begin, q
  <1>13. run'[c] = r /\ run' \in [Creations -> RunSet] /\ \A d \in Creations \ {c} : run'[d] = run[d]
    BY <1>1, <1>11, <1>12, RunGiven
  <1>14. ASSUME NEW d \in Creations, d # c PROVE Base(d)'
    <2>1. Kept(d)
      BY <1>14, <1>2, <1>4, <1>6, <1>7, <1>13 DEF Kept, Rest
    <2> QED BY <2>1, KeptBase DEF BaseInv
  <1>15. Base(c)'
    <2>1. CASE c \notin Gated
      <3>1. run'[c] = Start("create", CreatePlan(c, None, FALSE), None, FALSE)
        BY <2>1, <1>13 DEF q
      <3> QED BY <3>1, <2>1, <1>1, <1>2, <1>3, <1>4, <1>5, <1>6, <1>7, <1>9, PlanBase
    <2>2. CASE c \in Gated
      <3>1. q = DeployOf(None) /\ q # <<>> /\ ~q[1].ask
        BY <2>2, DeployHolds DEF q
      <3>2. /\ run'[c].kind = "create" /\ run'[c].todo = q /\ run'[c].round = 1 /\ run'[c].gate = None
            /\ ~run'[c].recovered /\ run'[c].mode = "send"
        <4> DEFINE b == FALSE
        <4>1. b \in BOOLEAN
          OBVIOUS
        <4>2. run'[c] = Start("create", q, None, b)
          BY <1>13
        <4> HIDE DEF b
        <4> QED BY <3>1, <1>9, <1>10, <4>1, <4>2, StartsCreate
      <3>3. Creating(c)' /\ Deploying(c)' /\ Busy(c)'
        BY <3>1, <3>2 DEF Creating, Deploying, Busy
      <3>4. Shaped(c)'
        BY <3>1, <3>2, <3>3, <1>1, <1>2 DEF Base, Shaped, Ending
      <3>5. Fresh(c)' /\ Deploys(c)' /\ Claimed(c)' /\ Bare(c)' /\ OneClone(c)'
        BY <3>2, <3>3, <2>2, <1>2, <1>3, <1>4, <1>5, <1>6, <1>7 DEF Fresh, Deploys, Claimed, Bare, OneClone
      <3>6. Founded(c)' /\ Ordered(c)'
        BY <3>2, <3>3, <1>2, <1>3 DEF Founded, Ordered
      <3>7. Held(c)'
        BY <3>2, <1>2, <1>3 DEF Held, Ending
      <3> QED BY <3>4, <3>5, <3>6, <3>7 DEF Base
    <2> QED BY <2>1, <2>2
  <1>16. Typed'
    BY <1>1, <1>2, <1>4, <1>6, <1>13 DEF Typed
  <1> QED BY <1>8, <1>14, <1>15, <1>16 DEF BaseInv

\* createStream's catch
LEMMA RecoverBase ==
    ASSUME BaseInv, NEW c \in Creations, Recover(c)
    PROVE  BaseInv'
  <1>1. Typed /\ Base(c) /\ Shaped(c) /\ Deploys(c) /\ run[c].mode = "recover"
    BY DEF BaseInv, Base, Recover
  <1>2. OnlyRuns /\ Spends /\ SentOnceAsked'
    BY DEF Recover, OnlyRuns, Spends, ledger, disk, CreationEvents, BaseInv, SentOnceAsked
  <1>3. Rest(c)
    BY <1>1, <1>2, OnlyRunsRest
  <1>4. /\ run[c] \in RunSet /\ run[c].todo \in Seq(StepSet) /\ run[c].todo # <<>> /\ run[c].kind \in {"create", "repair"}
        /\ Busy(c)
    BY <1>1, HasCurrent
  <1>5. CASE run' = [run EXCEPT ![c] = Idle]
    <2>1. run'[c] = Idle /\ run' \in [Creations -> RunSet] /\ \A d \in Creations \ {c} : run'[d] = run[d]
      BY <1>1, <1>5, IdleTyped, RunGiven
    <2> QED BY <1>1, <1>2, <1>3, <2>1, CeasesBase, OnlyRunKept
  <1> DEFINE f == TRUE
             r == [run[c] EXCEPT !.recovered = f]
  <1>6. ASSUME NEW there \in BOOLEAN, Exists(c, "message"),
               run' = [run EXCEPT ![c] = Going(r, RecoveryPlan(c, run[c].gate, run[c].ask, there))]
        PROVE  BaseInv'
    <2> DEFINE q == RecoveryPlan(c, run[c].gate, run[c].ask, there)
    <2>1. q \in Seq(StepSet) /\ \A x \in ToSet(q) : x.w.op # "gate"
      <3>1. run[c].gate \in Nat /\ run[c].ask \in BOOLEAN
        BY <1>4 DEF RunSet
      <3> QED BY <3>1, RecoveryHolds
    <2> HIDE DEF q
    <2>2. \A i \in DOMAIN q : q[i].w.op # "gate"
      BY <2>1 DEF ToSet
    <2>3. f \in BOOLEAN /\ f
      OBVIOUS
    <2> HIDE DEF f
    <2>4. r \in RunSet /\ r.kind = run[c].kind /\ r.recovered = f
      BY <1>4, <2>3 DEF RunSet
    <2> HIDE DEF r
    <2>5. /\ Going(r, q) \in RunSet /\ Going(r, q).kind = run[c].kind /\ Going(r, q).todo = q /\ Going(r, q).recovered = f
          /\ q = <<>> => Going(r, q).mode = IF run[c].kind = "repair" THEN "over" ELSE "save"
          /\ q # <<>> => Going(r, q).mode = IF q[1].ask THEN "ask" ELSE "send"
      BY <1>4, <2>1, <2>4, Goes
    <2>6. run' = [run EXCEPT ![c] = Going(r, q)]
      BY <1>6 DEF q
    <2>7. run'[c] = Going(r, q) /\ run' \in [Creations -> RunSet] /\ \A d \in Creations \ {c} : run'[d] = run[d]
      BY <1>1, <2>5, <2>6, RunGiven
    <2>8. Base(c)'
      <3> USE <1>3 DEF Rest
      <3>1. (Creating(c)' <=> Creating(c)) /\ ~Deploying(c)' /\ Busy(c)' /\ Exists(c, "message")' /\ run'[c].recovered
        <4>1. Exists(c, "message")'
          BY <1>6 DEF Exists
        <4>2. run'[c].kind = run[c].kind /\ run'[c].todo = q /\ run'[c].recovered
          BY <2>3, <2>5, <2>7
        <4>3. ~Deploying(c)'
          BY <4>2, <2>2, DeployHolds DEF Deploying
        <4> QED BY <4>1, <4>2, <4>3, <1>4 DEF Creating, Busy
      <3>2. ~Deploying(c)
        BY <1>1 DEF Deploys
      <3>3. Shaped(c)'
        <4>1. CASE q = <<>>
          BY <4>1, <1>1, <1>4, <2>2, <2>5, <2>7, <3>1 DEF Shaped, Creating, Ending
        <4>2. CASE q # <<>>
          <5>1. run'[c].mode \in {"ask", "send"}
            BY <4>2, <2>5, <2>7
          <5> QED BY <5>1, <4>2, <1>1, <1>4, <2>2, <2>5, <2>7, <3>1 DEF Shaped, Ending
        <4> QED BY <4>1, <4>2
      <3>4. Fresh(c)'
        BY <1>1, <1>4 DEF Base, Fresh
      <3>5. Deploys(c)' /\ Ordered(c)' /\ Founded(c)'
        BY <3>1 DEF Deploys, Ordered, Founded
      <3>6. Claimed(c)' /\ Bare(c)' /\ OneClone(c)'
        BY <1>1, <1>4, <3>1, <3>2 DEF Base, Claimed, Bare, OneClone
      <3>7. Held(c)'
        <4>1. run'[c].mode \notin Ending
          BY <2>5, <2>7 DEF Ending
        <4> QED BY <4>1, <1>1 DEF Base, Held, Ending
      <3> QED BY <3>3, <3>4, <3>5, <3>6, <3>7 DEF Base
    <2> QED BY <1>2, <2>7, <2>8, OnlyRunKept
  <1>7. \/ run' = [run EXCEPT ![c] = Idle]
        \/ \E there \in BOOLEAN : /\ Exists(c, "message")
              /\ run' = [run EXCEPT ![c] = Going(r, RecoveryPlan(c, run[c].gate, run[c].ask, there))]
    <2>1. PICK told \in SUBSET {s \in {"message", "ephemeral"} : Exists(c, s)} :
            IF "message" \notin told THEN Ends(c)
            ELSE run' = [run EXCEPT ![c] = Going([@ EXCEPT !.recovered = TRUE],
                               RecoveryPlan(c, @.gate, @.ask, "ephemeral" \in told))]
      BY DEF Recover
    <2>2. CASE "message" \notin told
      BY <2>1, <2>2 DEF Ends
    <2>3. CASE "message" \in told
      <3>1. ("ephemeral" \in told) \in BOOLEAN
        OBVIOUS
      <3>2. Exists(c, "message")
        BY <2>3
      <3>3. run' = [run EXCEPT ![c] = Going([run[c] EXCEPT !.recovered = TRUE],
                               RecoveryPlan(c, run[c].gate, run[c].ask, "ephemeral" \in told))]
        BY <2>1, <2>3
      <3> QED BY <3>1, <3>2, <3>3
    <2> QED BY <2>2, <2>3
  <1> HIDE DEF r
  <1> QED BY <1>5, <1>6, <1>7

-----------------------------------------------------------------------------
(* Each action keeps the invariant: the end of a creation *)

\* a creation that has sent its plan saves its channel
LEMMA EndingBase ==
    ASSUME Typed, NEW c \in Creations, Base(c), run[c].mode \in {"save"} \cup Ending, run'[c].mode \in Ending,
           run'[c].kind = run[c].kind, run'[c].todo = run[c].todo,
           records'[c] = records[c], onChain'[c] = onChain[c], report'[c] = report[c], MadeBy(c)' = MadeBy(c),
           ahead' = ahead, Held(c)'
    PROVE  Base(c)'
  <1>1. run[c].kind = "create" /\ run[c].todo = <<>> /\ Busy(c)
    BY DEF Base, Shaped, Creating, Busy
  <1>2. Creating(c) /\ Creating(c)' /\ Busy(c)' /\ ~Deploying(c) /\ ~Deploying(c)' /\ \A i : i \notin DOMAIN run'[c].todo
    BY <1>1, DeployHolds DEF Creating, Busy, Deploying
  <1>3. Exists(c, "message")
    BY <1>1, <1>2 DEF Base, Founded, Ending
  <1>4. Exists(c, "message")'
    BY <1>3 DEF Exists
  <1>5. Shaped(c)'
    BY <1>1, <1>2 DEF Base, Shaped, Ending
  <1>6. Fresh(c)' /\ Deploys(c)' /\ Claimed(c)' /\ Bare(c)' /\ OneClone(c)'
    BY <1>1, <1>2 DEF Base, Fresh, Deploys, Claimed, Bare, OneClone
  <1>7. Founded(c)'
    BY <1>4 DEF Founded
  <1>8. Ordered(c)'
    BY <1>1, <1>2 DEF Ordered, Ending
  <1> QED BY <1>5, <1>6, <1>7, <1>8 DEF Base

\* what such a step changes of the run
LEMMA EndingRun ==
    ASSUME Typed, NEW c \in Creations, NEW m \in Ending, run' = [run EXCEPT ![c].mode = m]
    PROVE  /\ run'[c].mode = m /\ run'[c].kind = run[c].kind /\ run'[c].todo = run[c].todo /\ run'[c].gate = run[c].gate
           /\ run' \in [Creations -> RunSet] /\ \A d \in Creations \ {c} : run'[d] = run[d]
  <1>1. run[c] \in RunSet /\ m \in Modes
    BY DEF Typed, Modes
  <1> DEFINE r == [run[c] EXCEPT !.mode = m]
  <1>2. r \in RunSet /\ r.mode = m /\ r.kind = run[c].kind /\ r.todo = run[c].todo /\ r.gate = run[c].gate
    BY <1>1, ModeGiven
  <1>3. run' = [run EXCEPT ![c] = r]
    BY DEF Typed
  <1> HIDE DEF r
  <1> QED BY <1>2, <1>3, RunGiven

LEMMA ListsBase ==
    ASSUME BaseInv, NEW c \in Creations, Lists(c)
    PROVE  BaseInv'
  <1>1. Typed /\ Base(c) /\ Held(c) /\ run[c].mode = "save"
    BY DEF BaseInv, Base, Lists
  <1>2. /\ UNCHANGED <<clones, onChain, records, saved, keyring, present, report, states, looks, ahead, twice>>
    BY DEF Lists, ledger, disk
  <1>3. SentOnceAsked' /\ LooksFind' /\ \A d \in Creations : MadeBy(d)' = MadeBy(d)
    BY <1>2 DEF BaseInv, SentOnceAsked, LooksFind, MadeBy
  <1>4. CASE present
    <2>1. "store" \in Ending /\ listed' = [listed EXCEPT ![c] = {run[c].gate}] /\ run' = [run EXCEPT ![c].mode = "store"]
      BY <1>4 DEF Lists, Ending
    <2>2. /\ run'[c].mode = "store" /\ run'[c].kind = run[c].kind /\ run'[c].todo = run[c].todo
          /\ run' \in [Creations -> RunSet] /\ \A d \in Creations \ {c} : run'[d] = run[d]
      BY <1>1, <2>1, EndingRun
    <2>3. run[c].gate \in Nat
      BY <1>1 DEF Typed, RunSet
    <2>4. /\ listed'[c] = {run[c].gate} /\ listed' \in [Creations -> SUBSET Nat]
          /\ \A d \in Creations \ {c} : listed'[d] = listed[d]
      BY <1>1, <2>1, <2>3 DEF Typed
    <2>5. Held(c)'
      BY <2>2, <2>4 DEF Held, Ending
    <2>6. Base(c)'
      BY <1>1, <1>2, <1>3, <2>1, <2>2, <2>5, EndingBase
    <2>7. ASSUME NEW d \in Creations, d # c PROVE Base(d)'
      <3>1. Kept(d)
        BY <2>7, <1>2, <1>3, <2>2, <2>4 DEF Kept, Rest
      <3> QED BY <3>1, KeptBase DEF BaseInv
    <2>8. Typed'
      BY <1>1, <1>2, <2>2, <2>4 DEF Typed
    <2> QED BY <1>3, <2>6, <2>7, <2>8 DEF BaseInv
  <1>5. CASE ~present
    <2>1. run' = [run EXCEPT ![c] = Idle] /\ OnlyRuns /\ Spends
      BY <1>2, <1>5 DEF Lists, Ends, OnlyRuns, Spends
    <2>2. run'[c] = Idle /\ run' \in [Creations -> RunSet] /\ \A d \in Creations \ {c} : run'[d] = run[d]
      BY <1>1, <2>1, IdleTyped, RunGiven
    <2> QED BY <1>1, <1>3, <2>1, <2>2, OnlyRunsRest, CeasesBase, OnlyRunKept
  <1> QED BY <1>4, <1>5

LEMMA StoresBase ==
    ASSUME BaseInv, NEW c \in Creations, Stores(c)
    PROVE  BaseInv'
  <1>1. Typed /\ Base(c) /\ Held(c) /\ run[c].mode = "store"
    BY DEF BaseInv, Base, Stores
  <1>2. /\ UNCHANGED <<clones, onChain, records, keyring, present, listed, report, states, looks, twice>> /\ Spends
    BY DEF Stores, ledger, Spends, CreationEvents
  <1>3. SentOnceAsked' /\ LooksFind' /\ \A d \in Creations : MadeBy(d)' = MadeBy(d)
    BY <1>2 DEF BaseInv, SentOnceAsked, LooksFind, MadeBy
  <1> DEFINE m == IF c \in Gated THEN "adoptPublish" ELSE "complete"
  <1>4. CASE /\ saved' = IF present THEN listed ELSE saved
             /\ run' = [run EXCEPT ![c].mode = m] /\ ahead' = ahead
    <2>1. m \in Ending \ {"store"} /\ (c \in Gated => m = "adoptPublish")
      BY DEF Ending
    <2> HIDE DEF m
    <2>2. /\ run'[c].mode = m /\ run'[c].kind = run[c].kind /\ run'[c].todo = run[c].todo
          /\ run' \in [Creations -> RunSet] /\ \A d \in Creations \ {c} : run'[d] = run[d]
      BY <1>1, <1>4, <2>1, EndingRun
    <2>3. saved' \in [Creations -> SUBSET Nat] /\ \A d \in Creations : saved'[d] \in {saved[d], listed[d]}
      BY <1>1, <1>4 DEF Typed
    <2>4. Held(c)'
      BY <1>1, <1>2, <1>4, <2>1, <2>2 DEF Held, Ending
    <2>5. Base(c)'
      BY <1>1, <1>2, <1>3, <1>4, <2>1, <2>2, <2>4, EndingBase DEF Ending
    <2>6. ASSUME NEW d \in Creations, d # c PROVE Base(d)'
      <3>1. Kept(d)
        BY <2>6, <1>2, <1>3, <1>4, <2>2, <2>3 DEF Kept, Rest
      <3> QED BY <3>1, KeptBase DEF BaseInv
    <2>7. Typed'
      BY <1>1, <1>2, <1>4, <2>2, <2>3 DEF Typed
    <2> QED BY <1>3, <2>5, <2>6, <2>7 DEF BaseInv
  <1>5. CASE run' = [run EXCEPT ![c] = Idle] /\ saved' = saved
    <2>1. OnlyRuns
      BY <1>2, <1>5 DEF OnlyRuns
    <2>2. run'[c] = Idle /\ run' \in [Creations -> RunSet] /\ \A d \in Creations \ {c} : run'[d] = run[d]
      BY <1>1, <1>5, IdleTyped, RunGiven
    <2> QED BY <1>1, <1>2, <1>3, <2>1, <2>2, OnlyRunsRest, CeasesBase, OnlyRunKept
  <1> QED BY <1>4, <1>5 DEF Stores, Ends

\* the shared keys are adopted, one after the other
LEMMA AdoptBase ==
    ASSUME BaseInv, NEW c \in Creations, AdoptsPublish(c) \/ AdoptsInteractions(c)
    PROVE  BaseInv'
  <1>1. Typed /\ Base(c) /\ Held(c) /\ run[c].mode \in {"adoptPublish", "adoptInteractions"}
    BY DEF BaseInv, Base, AdoptsPublish, AdoptsInteractions
  <1>2. UNCHANGED <<clones, onChain, records, saved, present, listed, report, states, looks, ahead, twice>>
    BY DEF AdoptsPublish, AdoptsInteractions, ledger
  <1>3. SentOnceAsked' /\ LooksFind' /\ \A d \in Creations : MadeBy(d)' = MadeBy(d)
    BY <1>2 DEF BaseInv, SentOnceAsked, LooksFind, MadeBy
  <1>4. keyring[c] \in [publish : Nat, interactions : Nat] /\ 1 \in Nat /\ 1 # None
    BY <1>1 DEF Typed, None
  <1>5. /\ keyring' \in [Creations -> [publish : Nat, interactions : Nat]]
        /\ \A d \in Creations \ {c} : keyring'[d] = keyring[d]
        /\ AdoptsPublish(c) /\ present => keyring'[c].publish # None
        /\ AdoptsInteractions(c) /\ present =>
             keyring'[c].interactions # None /\ keyring'[c].publish = keyring[c].publish
    <2>1. CASE AdoptsPublish(c)
      <3>1. run[c].mode = "adoptPublish"
        BY <2>1 DEF AdoptsPublish
      <3>2. ~AdoptsInteractions(c)
        BY <3>1 DEF AdoptsInteractions
      <3> QED BY <2>1, <3>2, <1>1, <1>4 DEF AdoptsPublish, Typed
    <2>2. CASE AdoptsInteractions(c)
      <3>1. run[c].mode = "adoptInteractions"
        BY <2>2 DEF AdoptsInteractions
      <3>2. ~AdoptsPublish(c)
        BY <3>1 DEF AdoptsPublish
      <3> QED BY <2>2, <3>2, <1>1, <1>4 DEF AdoptsInteractions, Typed
    <2> QED BY <2>1, <2>2
  <1>6. PICK m \in {"adoptInteractions", "complete"} :
           /\ run' = [run EXCEPT ![c].mode = m]
           /\ (m = "adoptInteractions" /\ AdoptsPublish(c)) \/ (m = "complete" /\ AdoptsInteractions(c))
    BY DEF AdoptsPublish, AdoptsInteractions
  <1>7. /\ run'[c].mode = m /\ run'[c].kind = run[c].kind /\ run'[c].todo = run[c].todo
        /\ run' \in [Creations -> RunSet] /\ \A d \in Creations \ {c} : run'[d] = run[d]
    <2>1. m \in Ending
      BY DEF Ending
    <2> QED BY <1>1, <1>6, <2>1, EndingRun
  <1>8. Held(c)'
    <2>1. CASE AdoptsPublish(c) /\ m = "adoptInteractions"
      BY <2>1, <1>1, <1>2, <1>5, <1>7 DEF Held, Ending
    <2>2. CASE AdoptsInteractions(c) /\ m = "complete"
      <3>1. run[c].mode = "adoptInteractions"
        BY <2>2 DEF AdoptsInteractions
      <3> QED BY <3>1, <2>2, <1>1, <1>2, <1>5, <1>7 DEF Held, Ending
    <2> QED BY <1>6, <2>1, <2>2
  <1>9. Base(c)'
    <2>1. run[c].mode \in {"save"} \cup Ending /\ run'[c].mode \in Ending
      BY <1>1, <1>7 DEF Ending
    <2> QED BY <2>1, <1>1, <1>2, <1>3, <1>7, <1>8, EndingBase
  <1>10. ASSUME NEW d \in Creations, d # c PROVE Base(d)'
    <2>1. Kept(d)
      BY <1>10, <1>2, <1>3, <1>5, <1>7 DEF Kept, Rest
    <2> QED BY <2>1, KeptBase DEF BaseInv
  <1>11. Typed'
    BY <1>1, <1>2, <1>5, <1>7 DEF Typed
  <1> QED BY <1>3, <1>9, <1>10, <1>11 DEF BaseInv

\* the record of a channel that no creation is under way for is dropped
LEMMA OffBase ==
    ASSUME Typed, NEW c \in Creations, Base(c), records'[c] = NoRecord,
           run'[c] = Idle \/ (run'[c] = run[c] /\ ~Creating(c)), onChain'[c] = onChain[c],
           keyring'[c] = keyring[c], listed'[c] = listed[c], saved'[c] = saved[c], report'[c] = report[c],
           MadeBy(c)' = MadeBy(c), present' = present, ahead'.begin = ahead.begin
    PROVE  Base(c)'
  <1>1. ~records'[c].on
    BY DEF NoRecord
  <1>2. ~Creating(c)' /\ ~Deploying(c)' /\ (Busy(c)' => Busy(c)) /\ (run'[c].kind = "repair" => run[c].kind = "repair")
    BY IdleTyped DEF Creating, Deploying, Busy
  <1>3. Exists(c, "message")' = Exists(c, "message")
    BY DEF Exists
  <1>4. Shaped(c)'
    <2>1. CASE run'[c] = Idle
      <3>1. \A i : i \notin DOMAIN run'[c].todo
        BY <2>1, IdleTyped
      <3> QED BY <2>1, <3>1, IdleTyped DEF Base, Shaped, Ending
    <2>2. CASE run'[c] = run[c] /\ ~Creating(c)
      <3>1. Creating(c)' = Creating(c) /\ Deploying(c)' = Deploying(c)
        BY <2>2 DEF Creating, Deploying
      <3> QED BY <2>2, <3>1 DEF Base, Shaped
    <2> QED BY <2>1, <2>2
  <1>5. Fresh(c)' /\ Deploys(c)' /\ Claimed(c)' /\ Bare(c)' /\ OneClone(c)'
    BY <1>1, <1>2 DEF Base, Fresh, Deploys, Claimed, Bare, OneClone
  <1>6. Founded(c)' /\ Ordered(c)'
    BY <1>2, <1>3 DEF Base, Founded, Ordered
  <1>7. Held(c)'
    BY IdleTyped DEF Base, Held, Ending
  <1> QED BY <1>4, <1>5, <1>6, <1>7 DEF Base

LEMMA NoRecordTyped ==
    NoRecord \in [on : BOOLEAN, gate : Nat, start : Nat, old : BOOLEAN]
  BY DEF NoRecord, None

\* PendingCreates.complete
LEMMA CompletesBase ==
    ASSUME BaseInv, NEW c \in Creations, Completes(c)
    PROVE  BaseInv'
  <1>1. Typed /\ Base(c)
    BY DEF BaseInv
  <1>2. UNCHANGED <<clones, onChain, saved, keyring, present, listed, report, looks, ahead, twice>>
    BY DEF Completes, ledger
  <1>3. SentOnceAsked' /\ LooksFind' /\ \A d \in Creations : MadeBy(d)' = MadeBy(d)
    BY <1>2 DEF BaseInv, SentOnceAsked, LooksFind, MadeBy
  <1>4. run'[c] = Idle /\ run' \in [Creations -> RunSet] /\ \A d \in Creations \ {c} : run'[d] = run[d]
    BY <1>1, IdleTyped, RunGiven DEF Completes
  <1>5. /\ records' \in [Creations -> [on : BOOLEAN, gate : Nat, start : Nat, old : BOOLEAN]]
        /\ records'[c] \in {NoRecord, records[c]} /\ \A d \in Creations \ {c} : records'[d] = records[d]
    BY <1>1, NoRecordTyped DEF Completes, Typed
  <1>6. Base(c)'
    <2>1. CASE records'[c] = NoRecord
      BY <2>1, <1>1, <1>2, <1>3, <1>4, OffBase
    <2>2. CASE records'[c] = records[c]
      <3>1. Rest(c)
        BY <2>2, <1>2, <1>3 DEF Rest
      <3> QED BY <3>1, <1>1, <1>4, CeasesBase
    <2> QED BY <1>5, <2>1, <2>2
  <1>7. ASSUME NEW d \in Creations, d # c PROVE Base(d)'
    <2>1. Kept(d)
      BY <1>7, <1>2, <1>3, <1>4, <1>5 DEF Kept, Rest
    <2> QED BY <2>1, KeptBase DEF BaseInv
  <1>8. states' \in [Creations -> {"none", "resumable", "waiting", "unreadable"}]
    BY <1>1 DEF Completes, Typed
  <1>9. Typed'
    BY <1>1, <1>2, <1>4, <1>5, <1>8 DEF Typed
  <1> QED BY <1>3, <1>6, <1>7, <1>9 DEF BaseInv

-----------------------------------------------------------------------------
(* Each action keeps the invariant: what the chain is asked *)

\* an answer keeps the chain, the channels and the other records
LEMMA JudgedBase ==
    ASSUME BaseInv, NEW l \in LookSet, Judged(l),
           l.seen = "there" /\ l.of \in Gated => l.found # None \/ records[l.of].gate # None,
           UNCHANGED <<clones, onChain, saved, keyring, present, listed, report, ahead, twice>>
    PROVE  /\ \A d \in Creations : Base(d)'
           /\ run' \in [Creations -> RunSet]
           /\ records' \in [Creations -> [on : BOOLEAN, gate : Nat, start : Nat, old : BOOLEAN]]
           /\ states' \in [Creations -> {"none", "resumable", "waiting", "unreadable"}]
  <1> DEFINE c == l.of
             recordSet == [on : BOOLEAN, gate : Nat, start : Nat, old : BOOLEAN]
             there == present /\ records[c].on
             late == l.found # None /\ (Creating(c) \/ ~there)
  <1>1. c \in Creations /\ l.found \in Nat /\ Typed /\ Base(c) /\ \A d \in Creations : Base(d)
    BY DEF LookSet, BaseInv
  <1>2. \A d \in Creations : MadeBy(d)' = MadeBy(d)
    BY DEF MadeBy
  <1>3. states' \in [Creations -> {"none", "resumable", "waiting", "unreadable"}]
    BY <1>1 DEF Judged, Typed
  <1>4. CASE run' = run /\ records' = records
    <2>1. \A d \in Creations : Kept(d)
      BY <1>2, <1>4 DEF Kept, Rest
    <2> QED BY <2>1, <1>1, <1>3, <1>4, KeptBase DEF Typed
  <1> DEFINE given == records' = IF l.found = None THEN records ELSE [records EXCEPT ![c].gate = l.found]
  <1>5. CASE ~late /\ given /\ (run' = run \/ (~Busy(c) /\ there
             /\ run' = [run EXCEPT ![c] = Start("create", CreatePlan(c, records'[c].gate, TRUE), records'[c].gate, TRUE)]))
             /\ l.seen = "there"
    <2>1. /\ records' \in [Creations -> recordSet] /\ records'[c].on = records[c].on
          /\ \A d \in Creations \ {c} : records'[d] = records[d]
          /\ records'[c].gate = IF l.found = None THEN records[c].gate ELSE l.found
      <3>1. records \in [Creations -> recordSet] /\ records[c] \in recordSet
        BY <1>1 DEF Typed
      <3>2. CASE l.found = None
        BY <3>1, <3>2, <1>5
      <3>3. CASE l.found # None
        <4> DEFINE n == [records[c] EXCEPT !.gate = l.found]
        <4>1. n \in recordSet /\ n.on = records[c].on /\ n.gate = l.found
          BY <1>1, <3>1
        <4>2. records' = [records EXCEPT ![c] = n]
          BY <1>5, <3>1, <3>3
        <4> HIDE DEF n, recordSet, c
        <4>3. records' \in [Creations -> recordSet] /\ records'[c] = n /\ \A d \in Creations \ {c} : records'[d] = records[d]
          BY <1>1, <3>1, <4>1, <4>2
        <4> QED BY <4>1, <4>3, <3>3
      <3> QED BY <3>2, <3>3
    <2>2. records'[c].gate \in Nat
      BY <2>1, <1>1
    <2>3. c \in Gated => records'[c].gate # None
      BY <1>5, <2>1
    <2> HIDE DEF recordSet, given
    <2>4. CASE run' = run
      <3>1. ASSUME NEW d \in Creations, d # c PROVE Base(d)'
        <4>1. Kept(d)
          BY <1>2, <2>1, <2>4, <3>1 DEF Kept, Rest
        <4> QED BY <4>1, <1>1, KeptBase
      <3>2. Base(c)'
        <4>1. CASE records'[c] = records[c]
          <5>1. Kept(c)
            BY <1>1, <1>2, <2>4, <4>1 DEF Kept, Rest
          <5> QED BY <5>1, <1>1, KeptBase
        <4>2. CASE records'[c] # records[c]
          <5>1. l.found # None
            BY <1>5, <4>2 DEF given
          <5>2. ~Creating(c) /\ records[c].on
            BY <5>1, <1>5
          <5>3. Creating(c)' = Creating(c) /\ Deploying(c)' = Deploying(c) /\ Busy(c)' = Busy(c) /\ ~Deploying(c)
            BY <2>4, <5>2 DEF Creating, Deploying, Busy
          <5>4. Exists(c, "message")' = Exists(c, "message")
            BY DEF Exists
          <5> HIDE DEF c
          <5>5. Shaped(c)'
            BY <1>1, <2>4, <5>3 DEF Base, Shaped
          <5>6. Fresh(c)' /\ Deploys(c)' /\ Claimed(c)' /\ OneClone(c)' /\ Ordered(c)'
            BY <1>1, <1>2, <2>1, <2>4, <5>2, <5>3 DEF Base, Fresh, Deploys, Claimed, OneClone, Ordered
          <5>7. Bare(c)'
            BY <2>3 DEF Bare
          <5>8. Founded(c)'
            BY <1>1, <2>4, <5>2, <5>3, <5>4 DEF Base, Founded
          <5>9. Held(c)'
            BY <1>1, <2>4 DEF Base, Held
          <5> QED BY <5>5, <5>6, <5>7, <5>8, <5>9 DEF Base
        <4> QED BY <4>1, <4>2
      <3> QED BY <3>1, <3>2, <2>1, <1>1, <1>3, <2>4 DEF Typed, recordSet
    <2>5. CASE ~Busy(c) /\ there
               /\ run' = [run EXCEPT ![c] = Start("create", CreatePlan(c, records'[c].gate, TRUE), records'[c].gate, TRUE)]
      <3> DEFINE g == records'[c].gate
                 ask == TRUE
                 r == Start("create", CreatePlan(c, g, ask), g, ask)
      <3>0. ask \in BOOLEAN /\ ask
        OBVIOUS
      <3>00. run' = [run EXCEPT ![c] = r]
        BY <2>5
      <3> HIDE DEF ask
      <3>1. CreatePlan(c, g, ask) \in Seq(StepSet)
        BY <1>1, <2>2, <3>0, PlanHolds
      <3>2. r \in RunSet
        BY <2>2, <3>0, <3>1, Starts
      <3>3. run'[c] = r /\ run' \in [Creations -> RunSet] /\ \A d \in Creations \ {c} : run'[d] = run[d]
        <4> HIDE DEF r, c
        <4> QED BY <1>1, <3>00, <3>2, RunGiven
      <3>4. ASSUME NEW d \in Creations, d # c PROVE Base(d)'
        <4>1. Kept(d)
          BY <1>2, <2>1, <3>3, <3>4 DEF Kept, Rest
        <4> QED BY <4>1, <1>1, KeptBase
      <3>5. c \notin ahead'.begin /\ records'[c].on
        BY <1>1, <2>1, <2>5 DEF Base, Fresh
      <3>6. Base(c)'
        <4>1. run'[c] = Start("create", CreatePlan(c, g, ask), g, ask)
          BY <3>3
        <4>2. g \in Nat
          BY <2>2
        <4>3. /\ onChain'[c] = onChain[c] /\ keyring'[c] = keyring[c] /\ listed'[c] = listed[c] /\ saved'[c] = saved[c]
              /\ report'[c] = report[c] /\ MadeBy(c)' = MadeBy(c)
          BY <1>1, <1>2
        <4> HIDE DEF c
        <4>4. c \in Gated => records'[c].gate # None
          BY <2>3
        <4> HIDE DEF g, r
        <4> QED BY <1>1, <3>0, <3>5, <4>1, <4>2, <4>3, <4>4, PlanBase
      <3> QED BY <3>3, <3>4, <3>6, <2>1, <1>3 DEF recordSet
    <2> QED BY <1>5, <2>4, <2>5
  <1>6. CASE run' = run /\ records' = [records EXCEPT ![c] = NoRecord] /\ ~Creating(c)
    <2>1. /\ records'[c] = NoRecord /\ records' \in [Creations -> recordSet] /\ \A d \in Creations \ {c} : records'[d] = records[d]
      BY <1>1, <1>6, NoRecordTyped DEF Typed
    <2>2. Base(c)'
      <3> HIDE DEF c
      <3> QED BY <1>1, <1>2, <1>6, <2>1, OffBase
    <2>3. ASSUME NEW d \in Creations, d # c PROVE Base(d)'
      <3>1. Kept(d)
        BY <1>2, <1>6, <2>1, <2>3 DEF Kept, Rest
      <3> QED BY <3>1, <1>1, KeptBase
    <2> QED BY <1>1, <1>3, <1>6, <2>1, <2>2, <2>3 DEF Typed
  <1>7. \/ run' = run /\ records' = records
        \/ ~late /\ given /\ (run' = run \/ (~Busy(c) /\ there
             /\ run' = [run EXCEPT ![c] = Start("create", CreatePlan(c, records'[c].gate, TRUE), records'[c].gate, TRUE)]))
             /\ l.seen = "there"
        \/ run' = run /\ records' = [records EXCEPT ![c] = NoRecord] /\ ~Creating(c)
    <2>1. CASE l.seen = "there" /\ ~late
      BY <2>1 DEF Judged
    <2>2. CASE ~(l.seen = "there" /\ ~late)
      BY <2>2 DEF Judged
    <2> QED BY <2>1, <2>2
  <1> HIDE DEF c, there, late, given
  <1> QED BY <1>4, <1>5, <1>6, <1>7, <1>3

\* the first of some naturals
LEMMA First == ASSUME NEW S, S \subseteq Nat, S # {} PROVE Min(S) \in S
  <1>1. PICK x \in S : \A y \in S : ~ (<<y, x>> \in OpToRel(<, Nat))
    BY NatLessThanWellFounded, WFMin
  <1>2. \A y \in S : x =< y
    <2> TAKE y \in S
    <2>1. ~(y < x)
      BY <1>1 DEF OpToRel
    <2> QED BY <2>1
  <1> QED BY <1>2 DEF Min

\* a clone that is found is one
LEMMA Found ==
    ASSUME Typed, NEW c \in Creations
    PROVE  /\ FoundGate(c) \in Nat
           /\ FoundGates(c) # {} => FoundGate(c) \in FoundGates(c) /\ FoundGate(c) # None
           /\ FoundGates(c) \subseteq DOMAIN clones /\ DOMAIN clones \subseteq Nat \ {0}
  <1>1. DOMAIN clones \subseteq Nat \ {0}
    BY DEF Typed
  <1>2. FoundGates(c) \subseteq DOMAIN clones
    BY DEF FoundGates
  <1>3. FoundGates(c) # {} => Min(FoundGates(c)) \in FoundGates(c)
    BY <1>1, <1>2, First
  <1> QED BY <1>1, <1>2, <1>3 DEF FoundGate, None

\* an answer that is taken at once, or a question that waits for the chain
LEMMA QuestionBase ==
    ASSUME BaseInv, NEW c \in Creations, NEW finish \in BOOLEAN, Question(c, finish),
           UNCHANGED <<clones, onChain, saved, keyring, present, listed, report, twice>>
    PROVE  BaseInv'
  <1> DEFINE base == [of |-> c, finish |-> finish, found |-> None, seen |-> "there"]
             g == FoundGate(c)
  <1>1. Typed /\ SentOnceAsked' /\ \A d \in Creations : MadeBy(d)' = MadeBy(d)
    BY DEF BaseInv, SentOnceAsked, MadeBy
  <1>2. base \in LookSet /\ base.found = None /\ base.of = c /\ base.seen = "there"
    BY DEF LookSet, None
  <1>3. CASE c \in Gated /\ records[c].gate # None
    <2>1. Judged(base) /\ looks' = looks /\ ahead' = ahead
      BY <1>3 DEF Question
    <2> HIDE DEF base
    <2>2. /\ \A d \in Creations : Base(d)'
          /\ run' \in [Creations -> RunSet]
          /\ records' \in [Creations -> [on : BOOLEAN, gate : Nat, start : Nat, old : BOOLEAN]]
          /\ states' \in [Creations -> {"none", "resumable", "waiting", "unreadable"}]
      BY <1>2, <1>3, <2>1, JudgedBase
    <2>3. Typed'
      BY <1>1, <2>1, <2>2 DEF Typed
    <2>4. LooksFind'
      BY <2>1 DEF BaseInv, LooksFind
    <2> QED BY <1>1, <2>2, <2>3, <2>4 DEF BaseInv
  <1>4. CASE ~(c \in Gated /\ records[c].gate # None)
    <2>1. UNCHANGED <<states, records, run>> /\ Spends
      BY <1>4 DEF Question, Spends, CreationEvents
    <2>2. ahead' \in CreationStates /\ ahead'.begin = ahead.begin
      BY <1>1, <2>1, SpendsTyped
    <2>3. PICK v : /\ looks' = looks \cup {v}
                   /\ \/ v = [base EXCEPT !.seen = "unread"]
                      \/ c \in Gated /\ v = [base EXCEPT !.found = g, !.seen = IF g = None THEN "missing" ELSE "there"]
                      \/ c \notin Gated /\ v = [base EXCEPT !.seen = IF Exists(c, "message") THEN "there" ELSE "missing"]
      BY <1>4 DEF Question
    <2>4. g \in Nat
      BY <1>1, Found
    <2> HIDE DEF g
    <2>5. v \in LookSet /\ (v.seen = "there" /\ v.of \in Gated => v.found # None)
      <3>1. CASE v = [base EXCEPT !.seen = "unread"]
        BY <3>1 DEF LookSet, None
      <3>2. CASE c \in Gated /\ v = [base EXCEPT !.found = g, !.seen = IF g = None THEN "missing" ELSE "there"]
        BY <3>2, <2>4 DEF LookSet
      <3>3. CASE c \notin Gated /\ v = [base EXCEPT !.seen = IF Exists(c, "message") THEN "there" ELSE "missing"]
        BY <3>3 DEF LookSet, None
      <3> QED BY <2>3, <3>1, <3>2, <3>3
    <2>6. ASSUME NEW d \in Creations PROVE Base(d)'
      <3>1. Kept(d)
        BY <1>1, <2>1, <2>2 DEF Kept, Rest
      <3> QED BY <3>1, KeptBase DEF BaseInv
    <2>7. Typed'
      BY <1>1, <2>1, <2>2, <2>3, <2>5 DEF Typed
    <2>8. LooksFind'
      BY <2>3, <2>5 DEF BaseInv, LooksFind
    <2> QED BY <1>1, <2>6, <2>7, <2>8 DEF BaseInv
  <1> QED BY <1>3, <1>4

\* reconcileAll and finishPendingCreate
LEMMA AskedBase ==
    ASSUME BaseInv, NEW c \in Creations, Reconcile(c) \/ Finish(c)
    PROVE  BaseInv'
  <1>1. UNCHANGED <<clones, onChain, saved, keyring, present, listed, report, twice>>
    BY DEF Reconcile, Finish, ledger
  <1>2. CASE Question(c, FALSE)
    BY <1>1, <1>2, QuestionBase
  <1>3. CASE Question(c, TRUE)
    BY <1>1, <1>3, QuestionBase
  <1>4. CASE UNCHANGED <<states, records, run, looks, ahead>>
    <2>1. ASSUME NEW d \in Creations PROVE Base(d)'
      <3>1. Kept(d)
        BY <1>1, <1>4 DEF Kept, Rest, MadeBy
      <3> QED BY <3>1, KeptBase DEF BaseInv
    <2>2. Typed' /\ SentOnceAsked' /\ LooksFind'
      BY <1>1, <1>4 DEF BaseInv, Typed, SentOnceAsked, LooksFind
    <2> QED BY <2>1, <2>2 DEF BaseInv
  <1> QED BY <1>2, <1>3, <1>4 DEF Reconcile, Finish

LEMMA AnswersBase ==
    ASSUME BaseInv, ChainAnswers
    PROVE  BaseInv'
  <1>1. PICK l \in looks : looks' = looks \ {l} /\ Judged(l)
    BY DEF ChainAnswers
  <1>2. UNCHANGED <<clones, onChain, saved, keyring, present, listed, report, ahead, twice>>
    BY DEF ChainAnswers, ledger
  <1>3. l \in LookSet /\ (l.seen = "there" /\ l.of \in Gated => l.found # None) /\ Typed
    BY DEF BaseInv, Typed, LooksFind
  <1>4. /\ \A d \in Creations : Base(d)'
        /\ run' \in [Creations -> RunSet]
        /\ records' \in [Creations -> [on : BOOLEAN, gate : Nat, start : Nat, old : BOOLEAN]]
        /\ states' \in [Creations -> {"none", "resumable", "waiting", "unreadable"}]
    BY <1>1, <1>2, <1>3, JudgedBase
  <1>5. Typed' /\ SentOnceAsked' /\ LooksFind'
    BY <1>1, <1>2, <1>3, <1>4 DEF BaseInv, Typed, SentOnceAsked, LooksFind
  <1> QED BY <1>4, <1>5 DEF BaseInv

LEMMA DiscardBase ==
    ASSUME BaseInv, NEW c \in Creations, Discard(c)
    PROVE  BaseInv'
  <1>1. UNCHANGED <<clones, onChain, saved, keyring, present, listed, run, report, looks, twice>> /\ Typed /\ Base(c)
        /\ ~Creating(c) /\ Spends
    BY DEF Discard, ledger, BaseInv, Spends, CreationEvents
  <1>2. ahead' \in CreationStates /\ ahead'.begin = ahead.begin
    BY <1>1, SpendsTyped
  <1>3. /\ records' \in [Creations -> [on : BOOLEAN, gate : Nat, start : Nat, old : BOOLEAN]]
        /\ records'[c] = NoRecord /\ \A d \in Creations \ {c} : records'[d] = records[d]
    BY <1>1, NoRecordTyped DEF Discard, Typed
  <1>4. \A d \in Creations : MadeBy(d)' = MadeBy(d)
    BY <1>1 DEF MadeBy
  <1>5. Base(c)'
    BY <1>1, <1>2, <1>3, <1>4, OffBase
  <1>6. ASSUME NEW d \in Creations, d # c PROVE Base(d)'
    <2>1. Kept(d)
      BY <1>6, <1>1, <1>2, <1>3, <1>4 DEF Kept, Rest
    <2> QED BY <2>1, KeptBase DEF BaseInv
  <1>7. states' \in [Creations -> {"none", "resumable", "waiting", "unreadable"}]
    BY <1>1 DEF Discard, Typed
  <1>8. Typed' /\ SentOnceAsked' /\ LooksFind'
    BY <1>1, <1>2, <1>3, <1>7 DEF BaseInv, Typed, SentOnceAsked, LooksFind
  <1> QED BY <1>5, <1>6, <1>8 DEF BaseInv

-----------------------------------------------------------------------------
(* Each action keeps the invariant: the repair *)

Mends(q) == \A x \in ToSet(q) : /\ x.fail \in {"skip", "skipTwo", "pass"} /\ x.w.op # "gate"
                                /\ x.fail = "pass" => x.w.op = "days"
Writing(q) == {x.w : x \in ToSet(q)}

\* a repair starts with a question or a send
LEMMA RepairStarts ==
    ASSUME NEW q \in Seq(StepSet), q # <<>>, NEW ask \in BOOLEAN
    PROVE  LET s == Start("repair", q, None, ask)
           IN  s \in RunSet /\ s.kind = "repair" /\ s.todo = q /\ s.mode \in {"ask", "send"}
  <1> DEFINE k == "repair"
             s == Start(k, q, None, ask)
  <1>1. k \in {"create", "repair"} /\ None \in Nat
    BY DEF None
  <1> HIDE DEF k
  <1>2. s \in RunSet /\ s.kind = k /\ s.todo = q /\ s.mode = IF q[1].ask THEN "ask" ELSE "send"
    BY <1>1, Starts
  <1> HIDE DEF s
  <1>3. s \in RunSet /\ s.kind = k /\ s.todo = q /\ s.mode \in {"ask", "send"}
    BY <1>2
  <1> QED BY <1>3 DEF s, k

LEMMA GrantHolds ==
    ASSUME NEW c \in Creations, NEW s \in Streams, NEW g \in Nat
    PROVE  LET x == OwnGrant(c, s, g)
           IN  /\ x \in StepSet /\ x.fail = "skip" /\ x.w.on = s /\ x.w.gate = g
               /\ x.w.op = IF c \in Gated /\ s \in {"message", "ephemeral", "interactions"} THEN "clone" ELSE "grant"
  <1> DEFINE op == IF c \in Gated /\ s \in {"message", "ephemeral", "interactions"} THEN "clone" ELSE "grant"
             b == FALSE
             x == Step(op, s, g, b, Rounds, "skip")
  <1>1. op \in Ops /\ b \in BOOLEAN /\ Rounds \in Nat /\ "skip" \in Fails /\ s \in Streams \cup {"gate"}
    BY CreationAssumption DEF Ops, Fails
  <1>2. OwnGrant(c, s, g) = x
    BY DEF OwnGrant
  <1> HIDE DEF op, b
  <1>3. x \in StepSet
    BY <1>1, WriteTyped
  <1>4. x.fail = "skip" /\ x.w.on = s /\ x.w.gate = g /\ x.w.op = op
    BY StepFields
  <1> HIDE DEF x
  <1> QED BY <1>2, <1>3, <1>4 DEF op

\* the steps found for a stream name everything it lacks
LEMMA StepsHold ==
    ASSUME NEW c \in Creations, NEW s \in Streams, NEW g \in Nat
    PROVE  LET q == StepsOf(c, s, g)
           IN  /\ q \in Seq(StepSet) /\ Mends(q)
               /\ ~Exists(c, s) => Write("stream", s, g) \in Writing(q)
               /\ ~InPlace(c, OwnGrant(c, s, g).w) => OwnGrant(c, s, g).w \in Writing(q)
               /\ s # "ephemeral" /\ ~InPlace(c, Write("node", s, g)) => Write("node", s, g) \in Writing(q)
  <1> DEFINE b == FALSE
             new == ~Exists(c, s)
             grant == OwnGrant(c, s, g)
             lacks(op) == ~InPlace(c, Write(op, s, g))
             kept == s # "ephemeral"
             paced == InPlace(c, Write("days", "message", g))
             st == Step("stream", s, g, b, Rounds, "skip")
             nd == Step("node", s, g, b, 1, "skipTwo")
             da == Step("days", s, g, b, 1, "pass")
             dr == Step("days", s, g, b, Rounds, "skip")
             u == IF new THEN <<st>> ELSE <<>>
             v == IF new \/ ~InPlace(c, grant.w) THEN <<grant>> ELSE <<>>
             w == IF kept /\ lacks("node") THEN <<nd, da>>
                  ELSE IF kept /\ s # "message" /\ paced /\ lacks("days") THEN <<dr>> ELSE <<>>
             fine(q) == q \in Seq(StepSet) /\ Mends(q)
  <1>1. StepsOf(c, s, g) = (u \o v) \o w
    BY DEF StepsOf
  <1>2. b \in BOOLEAN /\ Rounds \in Nat /\ 1 \in Nat /\ s \in Streams \cup {"gate"}
        /\ "stream" \in Ops /\ "node" \in Ops /\ "days" \in Ops /\ "skip" \in Fails /\ "skipTwo" \in Fails /\ "pass" \in Fails
    BY CreationAssumption DEF Ops, Fails
  <1> HIDE DEF b
  <1>3. st \in StepSet /\ nd \in StepSet /\ da \in StepSet /\ dr \in StepSet
    BY <1>2, WriteTyped
  <1>4. /\ st.w = Write("stream", s, g) /\ st.w.op = "stream" /\ st.fail = "skip"
        /\ nd.w = Write("node", s, g) /\ nd.w.op = "node" /\ nd.fail = "skipTwo"
        /\ da.w.op = "days" /\ da.fail = "pass" /\ dr.w.op = "days" /\ dr.fail = "skip"
    BY StepFields
  <1>5. grant \in StepSet /\ grant.fail = "skip" /\ grant.w.op \in {"clone", "grant"}
    BY GrantHolds
  <1> HIDE DEF st, nd, da, dr, grant, new, lacks, kept, paced
  <1>6. fine(u) /\ (new => st \in ToSet(u))
    BY <1>3, <1>4, Short DEF Mends
  <1>7. fine(v) /\ (~InPlace(c, grant.w) => grant \in ToSet(v))
    BY <1>5, Short DEF Mends
  <1>8. fine(w) /\ (kept /\ lacks("node") => nd \in ToSet(w))
    <2>1. CASE w = <<nd, da>>
      <3>1. <<nd, da>> \in Seq(StepSet) /\ ToSet(<<nd, da>>) = {nd, da}
        BY <1>3, Short
      <3> HIDE DEF w
      <3> QED BY <2>1, <3>1, <1>4 DEF Mends
    <2>2. CASE ~(kept /\ lacks("node"))
      <3>1. w \in {<<>>, <<dr>>}
        BY <2>2
      <3> HIDE DEF w
      <3>2. fine(w)
        <4>1. <<>> \in Seq(StepSet) /\ ToSet(<<>>) = {} /\ <<dr>> \in Seq(StepSet) /\ ToSet(<<dr>>) = {dr}
          BY <1>3, Short
        <4>2. Mends(<<>>) /\ Mends(<<dr>>)
          BY <4>1, <1>4 DEF Mends
        <4> QED BY <3>1, <4>1, <4>2
      <3> QED BY <3>2, <2>2
    <2> QED BY <2>1, <2>2
  <1> HIDE DEF u, v, w
  <1>9. fine(u \o v) /\ ToSet(u \o v) = ToSet(u) \cup ToSet(v)
    BY <1>6, <1>7, Joins DEF Mends
  <1>10. fine((u \o v) \o w) /\ ToSet((u \o v) \o w) = (ToSet(u) \cup ToSet(v)) \cup ToSet(w)
    <2> DEFINE uv == u \o v
    <2>1. fine(uv) /\ ToSet(uv) = ToSet(u) \cup ToSet(v)
      BY <1>9
    <2> HIDE DEF uv
    <2>2. uv \o w \in Seq(StepSet) /\ ToSet(uv \o w) = ToSet(uv) \cup ToSet(w)
      BY <2>1, <1>8, Joins
    <2>3. fine(uv \o w) /\ ToSet(uv \o w) = (ToSet(u) \cup ToSet(v)) \cup ToSet(w)
      BY <2>1, <2>2, <1>8 DEF Mends
    <2> QED BY <2>3 DEF uv
  <1> DEFINE q == (u \o v) \o w
  <1>11. fine(q) /\ ToSet(q) = (ToSet(u) \cup ToSet(v)) \cup ToSet(w)
    BY <1>10
  <1> HIDE DEF q
  <1>12. new => Write("stream", s, g) \in Writing(q)
    BY <1>4, <1>6, <1>11 DEF Writing
  <1>13. ~InPlace(c, grant.w) => grant.w \in Writing(q)
    BY <1>7, <1>11 DEF Writing
  <1>14. kept /\ lacks("node") => Write("node", s, g) \in Writing(q)
    BY <1>4, <1>8, <1>11 DEF Writing
  <1>15. StepsOf(c, s, g) = q
    BY <1>1 DEF q
  <1> QED BY <1>11, <1>12, <1>13, <1>14, <1>15 DEF new, grant, kept, lacks

\* a report names everything that the streams it could read lack
LEMMA ReportHolds ==
    ASSUME NEW c \in Creations, NEW g \in Nat, NEW S \in SUBSET RolesOf(c)
    PROVE  LET q == InOrder(S, [s \in Roles |-> StepsOf(c, s, g)])
           IN  /\ q \in Seq(StepSet) /\ Mends(q)
               /\ \A s \in S : Writing(StepsOf(c, s, g)) \subseteq Writing(q)
  <1> DEFINE f == [s \in Roles |-> StepsOf(c, s, g)]
             q == InOrder(S, f)
  <1>1. S \subseteq Roles /\ S \subseteq Streams
    BY RolesTyped
  <1>2. \A s \in S : f[s] = StepsOf(c, s, g)
    BY <1>1
  <1> HIDE DEF f
  <1>3. \A s \in S : f[s] \in Seq(StepSet) /\ Mends(f[s])
    BY <1>1, <1>2, StepsHold
  <1>4. q \in Seq(StepSet) /\ ToSet(q) = UNION {ToSet(f[s]) : s \in S}
    BY <1>1, <1>3, InOrderHolds
  <1> HIDE DEF q
  <1>5. \A s \in S : ToSet(f[s]) \subseteq ToSet(q)
    BY <1>4
  <1>6. Mends(q)
    <2> SUFFICES ASSUME NEW x \in ToSet(q)
                 PROVE  x.fail \in {"skip", "skipTwo", "pass"} /\ x.w.op # "gate" /\ (x.fail = "pass" => x.w.op = "days")
      BY DEF Mends
    <2>1. PICK s \in S : x \in ToSet(f[s])
      BY <1>4
    <2> QED BY <2>1, <1>3 DEF Mends
  <1>7. \A s \in S : Writing(f[s]) \subseteq Writing(q)
    BY <1>5 DEF Writing
  <1> QED BY <1>2, <1>4, <1>6, <1>7 DEF q, f

\* diagnoseChannel
LEMMA DiagnoseBase ==
    ASSUME BaseInv, NEW c \in Creations, Diagnose(c)
    PROVE  BaseInv'
  <1>1. Typed /\ Base(c) /\ listed[c] # {} /\ ~Busy(c) /\ Spends
    BY DEF Diagnose, BaseInv, Spends, CreationEvents
  <1>2. UNCHANGED <<clones, onChain, records, saved, keyring, present, listed, run, states, looks, twice>>
    BY DEF Diagnose, ledger, disk
  <1>3. ahead' \in CreationStates /\ ahead'.begin = ahead.begin
    BY <1>1, SpendsTyped
  <1> DEFINE g == CHOOSE h \in listed[c] : TRUE
  <1>4. g \in Nat
    BY <1>1 DEF Typed
  <1>5. PICK unread \in {{}} \cup {{s} : s \in RolesOf(c)} :
            report' = [report EXCEPT ![c] =
                [full |-> unread = {},
                 steps |-> IF "message" \notin unread /\ ~Exists(c, "message") THEN <<>>
                           ELSE InOrder(RolesOf(c) \ unread, [s \in Roles |-> StepsOf(c, s, g)])]]
    BY DEF Diagnose
  <1> HIDE DEF g
  <1> DEFINE full == unread = {}
             q == InOrder(RolesOf(c) \ unread, [s \in Roles |-> StepsOf(c, s, g)])
             steps == IF "message" \notin unread /\ ~Exists(c, "message") THEN <<>> ELSE q
  <1>6. full \in BOOLEAN
    OBVIOUS
  <1>7. q \in Seq(StepSet) /\ Mends(q)
    BY <1>4, ReportHolds
  <1>8. <<>> \in Seq(StepSet) /\ Mends(<<>>)
    BY Short DEF Mends
  <1> HIDE DEF full, q
  <1>9. steps \in Seq(StepSet) /\ Mends(steps)
    BY <1>7, <1>8
  <1>10. report' = [report EXCEPT ![c] = [full |-> full, steps |-> steps]]
    BY <1>5 DEF full, q
  <1> HIDE DEF steps
  <1>11. /\ report' \in [Creations -> [full : BOOLEAN, steps : Seq(StepSet)]]
         /\ report'[c].steps = steps /\ \A d \in Creations \ {c} : report'[d] = report[d]
    BY <1>1, <1>6, <1>9, <1>10 DEF Typed
  <1>12. \A i \in DOMAIN steps : steps[i].w.op # "gate"
    BY <1>9 DEF Mends, ToSet
  <1>13. \A d \in Creations : MadeBy(d)' = MadeBy(d)
    BY <1>2 DEF MadeBy
  <1>14. Base(c)'
    <2>1. Creating(c)' = Creating(c) /\ Deploying(c)' = Deploying(c) /\ Busy(c)' = Busy(c) /\ Current(c)' = Current(c)
      BY <1>2 DEF Creating, Deploying, Busy, Current
    <2>2. Exists(c, "message")' = Exists(c, "message") /\ ~Creating(c)
      BY <1>1, <1>2 DEF Exists, Creating, Busy
    <2>3. Shaped(c)'
      BY <1>1, <1>2, <1>11, <1>12, <2>1 DEF Base, Shaped
    <2>4. Fresh(c)' /\ Deploys(c)' /\ Claimed(c)' /\ Bare(c)' /\ OneClone(c)' /\ Ordered(c)'
      BY <1>1, <1>2, <1>3, <1>13, <2>1, <2>2 DEF Base, Fresh, Deploys, Claimed, Bare, OneClone, Ordered
    <2>5. Founded(c)' /\ Held(c)'
      BY <1>1, <1>2, <2>1, <2>2 DEF Base, Founded, Held
    <2> QED BY <2>3, <2>4, <2>5 DEF Base
  <1>15. ASSUME NEW d \in Creations, d # c PROVE Base(d)'
    <2>1. Kept(d)
      BY <1>15, <1>2, <1>3, <1>11, <1>13 DEF Kept, Rest
    <2> QED BY <2>1, KeptBase DEF BaseInv
  <1>16. Typed' /\ SentOnceAsked' /\ LooksFind'
    BY <1>1, <1>2, <1>3, <1>11 DEF BaseInv, Typed, SentOnceAsked, LooksFind
  <1> QED BY <1>14, <1>15, <1>16 DEF BaseInv

\* repairChannel
LEMMA RepairBase ==
    ASSUME BaseInv, NEW c \in Creations, Repair(c)
    PROVE  BaseInv'
  <1>1. Typed /\ Base(c) /\ Shaped(c) /\ Founded(c) /\ listed[c] # {} /\ ~Busy(c)
    BY DEF Repair, BaseInv, Base
  <1>2. OnlyRuns /\ Spends /\ SentOnceAsked'
    BY DEF Repair, OnlyRuns, Spends, ledger, disk, BaseInv, SentOnceAsked
  <1>3. Rest(c)
    BY <1>1, <1>2, OnlyRunsRest
  <1> DEFINE q == report[c].steps
             b == FALSE
             r == Start("repair", q, None, b)
  <1>4. q \in Seq(StepSet) /\ q # <<>> /\ b \in BOOLEAN
    BY <1>1 DEF Repair, Typed
  <1>5. \A i \in DOMAIN q : q[i].w.op # "gate"
    BY <1>1 DEF Shaped
  <1>6. run' = [run EXCEPT ![c] = r]
    BY DEF Repair
  <1> HIDE DEF q, b
  <1>7. r \in RunSet /\ r.kind = "repair" /\ r.todo = q /\ r.mode \in {"ask", "send"}
    BY <1>4, RepairStarts
  <1> HIDE DEF r
  <1>8. run'[c] = r /\ run' \in [Creations -> RunSet] /\ \A d \in Creations \ {c} : run'[d] = run[d]
    BY <1>1, <1>6, <1>7, RunGiven
  <1>9. Base(c)'
    <2> USE <1>3 DEF Rest
    <2>1. run'[c].kind = "repair"
      BY <1>7, <1>8
    <2>2. ~Creating(c)' /\ ~Deploying(c)' /\ Busy(c)'
      BY <2>1 DEF Creating, Deploying, Busy
    <2>3. Exists(c, "message")'
      BY <1>1 DEF Founded, Exists
    <2>4. Shaped(c)'
      BY <1>1, <1>4, <1>5, <1>7, <1>8, <2>1 DEF Shaped, Ending
    <2>5. Fresh(c)' /\ Deploys(c)' /\ Claimed(c)' /\ Bare(c)' /\ OneClone(c)' /\ Ordered(c)'
      BY <1>1, <2>2 DEF Base, Fresh, Deploys, Claimed, Bare, OneClone, Ordered
    <2>6. Founded(c)'
      BY <2>2, <2>3 DEF Founded
    <2>7. Held(c)'
      BY <1>1, <1>7, <1>8 DEF Held, Ending
    <2> QED BY <2>4, <2>5, <2>6, <2>7 DEF Base
  <1> QED BY <1>2, <1>8, <1>9, OnlyRunKept

\* the panel diagnoses again
LEMMA RepairedBase ==
    ASSUME BaseInv, NEW c \in Creations, Repaired(c)
    PROVE  BaseInv'
  <1>1. Typed /\ Base(c) /\ UNCHANGED <<clones, onChain, records, saved, keyring, present, listed, states, looks, ahead, twice>>
    BY DEF Repaired, BaseInv, ledger, disk
  <1>2. \A d \in Creations : MadeBy(d)' = MadeBy(d)
    BY <1>1 DEF MadeBy
  <1>3. run'[c] = Idle /\ run' \in [Creations -> RunSet] /\ \A d \in Creations \ {c} : run'[d] = run[d]
    BY <1>1, IdleTyped, RunGiven DEF Repaired
  <1>4. NoReport \in [full : BOOLEAN, steps : Seq(StepSet)] /\ \A i : i \notin DOMAIN NoReport.steps
    <2>1. <<>> \in Seq(StepSet) /\ \A i : i \notin DOMAIN <<>>
      OBVIOUS
    <2> QED BY <2>1 DEF NoReport
  <1>5. /\ report' \in [Creations -> [full : BOOLEAN, steps : Seq(StepSet)]] /\ report'[c] = NoReport
        /\ \A d \in Creations \ {c} : report'[d] = report[d]
    BY <1>1, <1>4 DEF Repaired, Typed
  <1>6. Base(c)'
    <2>1. /\ run'[c].kind = "idle" /\ run'[c].mode = "idle" /\ run'[c].todo = <<>> /\ ~Creating(c)' /\ ~Deploying(c)'
          /\ ~Busy(c)' /\ \A i : i \notin DOMAIN run'[c].todo
      BY <1>3, IdleTyped DEF Creating, Deploying, Busy
    <2>2. Exists(c, "message")' = Exists(c, "message")
      BY <1>1 DEF Exists
    <2>3. Shaped(c)'
      BY <2>1, <1>4, <1>5 DEF Shaped, Ending
    <2>4. Fresh(c)' /\ Deploys(c)' /\ Claimed(c)' /\ Ordered(c)' /\ Bare(c)' /\ OneClone(c)'
      BY <2>1, <1>1, <1>2 DEF Base, Fresh, Deploys, Claimed, Ordered, Bare, OneClone
    <2>5. Founded(c)' /\ Held(c)'
      BY <2>1, <2>2, <1>1 DEF Base, Founded, Held, Ending
    <2> QED BY <2>3, <2>4, <2>5 DEF Base
  <1>7. ASSUME NEW d \in Creations, d # c PROVE Base(d)'
    <2>1. Kept(d)
      BY <1>7, <1>1, <1>2, <1>3, <1>5 DEF Kept, Rest
    <2> QED BY <2>1, KeptBase DEF BaseInv
  <1>8. Typed' /\ SentOnceAsked' /\ LooksFind'
    BY <1>1, <1>3, <1>5 DEF BaseInv, Typed, SentOnceAsked, LooksFind
  <1> QED BY <1>6, <1>7, <1>8 DEF BaseInv

-----------------------------------------------------------------------------
(* Each action keeps the invariant: the session *)

\* the page is loaded again
LEMMA ReloadBase ==
    ASSUME BaseInv, Reload
    PROVE  BaseInv'
  <1>1. Typed /\ Spends /\ UNCHANGED <<clones, onChain, records, saved, keyring, present, twice>> /\ listed' = saved
    BY DEF Reload, BaseInv, Spends, CreationEvents, ledger, disk
  <1>2. /\ run' = [c \in Creations |-> Idle] /\ report' = [c \in Creations |-> NoReport]
        /\ states' = [c \in Creations |-> "none"] /\ looks' = {}
    BY DEF Reload, Forgets
  <1>3. ahead' \in CreationStates /\ ahead'.begin = ahead.begin
    BY <1>1, SpendsTyped
  <1>4. NoReport \in [full : BOOLEAN, steps : Seq(StepSet)] /\ \A i : i \notin DOMAIN NoReport.steps
    <2>1. <<>> \in Seq(StepSet) /\ \A i : i \notin DOMAIN <<>>
      OBVIOUS
    <2> QED BY <2>1 DEF NoReport
  <1>5. ASSUME NEW c \in Creations PROVE Base(c)'
    <2>0. Base(c) /\ MadeBy(c)' = MadeBy(c) /\ report'[c] = NoReport
      BY <1>1, <1>2 DEF BaseInv, MadeBy
    <2>1. /\ run'[c].kind = "idle" /\ run'[c].mode = "idle" /\ run'[c].todo = <<>> /\ ~Creating(c)' /\ ~Deploying(c)'
          /\ ~Busy(c)' /\ \A i : i \notin DOMAIN run'[c].todo
      BY <1>2, IdleTyped DEF Creating, Deploying, Busy
    <2>2. Exists(c, "message")' = Exists(c, "message")
      BY <1>1 DEF Exists
    <2>3. Shaped(c)'
      BY <2>0, <2>1, <1>4 DEF Shaped, Ending
    <2>4. Fresh(c)' /\ Deploys(c)' /\ Claimed(c)' /\ Ordered(c)' /\ Bare(c)' /\ OneClone(c)'
      BY <2>0, <2>1, <1>1, <1>3 DEF Base, Fresh, Deploys, Claimed, Ordered, Bare, OneClone
    <2>5. Founded(c)' /\ Held(c)'
      BY <2>0, <2>1, <2>2, <1>1 DEF Base, Founded, Held, Ending
    <2> QED BY <2>3, <2>4, <2>5 DEF Base
  <1>6. Typed'
    BY <1>1, <1>2, <1>3, <1>4, IdleTyped DEF Typed
  <1>7. SentOnceAsked' /\ LooksFind'
    BY <1>1, <1>2 DEF BaseInv, SentOnceAsked, LooksFind
  <1> QED BY <1>5, <1>6, <1>7 DEF BaseInv

\* another account signs in, and this one again
LEMMA AwayBase ==
    ASSUME BaseInv, Away \/ Back
    PROVE  BaseInv'
  <1>1. /\ Typed /\ Spends
        /\ UNCHANGED <<clones, onChain, records, saved, keyring, run, report, states, looks, twice>>
        /\ \/ listed' = [c \in Creations |-> {}] /\ ~present'
           \/ listed' = saved /\ present' /\ \A c \in Creations : run[c].mode \notin Ending
        /\ present' \in BOOLEAN
    BY DEF Away, Back, BaseInv, Spends, CreationEvents, ledger, disk
  <1>2. ahead' \in CreationStates /\ ahead'.begin = ahead.begin
    BY <1>1, SpendsTyped
  <1>3. ASSUME NEW c \in Creations PROVE Base(c)'
    <2>0. Base(c) /\ MadeBy(c)' = MadeBy(c) /\ run'[c] = run[c] /\ (listed'[c] = {} \/ listed'[c] = saved[c])
      BY <1>1, <1>3 DEF BaseInv, MadeBy
    <2>1. Creating(c)' = Creating(c) /\ Deploying(c)' = Deploying(c) /\ Busy(c)' = Busy(c) /\ Current(c)' = Current(c)
      BY <2>0 DEF Creating, Deploying, Busy, Current
    <2>2. Exists(c, "message")' = Exists(c, "message") /\ \A w : InPlace(c, w)' = InPlace(c, w)
      BY <1>1 DEF Exists, InPlace
    <2>3. Shaped(c)'
      BY <1>1, <2>0, <2>1 DEF Base, Shaped
    <2>4. Fresh(c)' /\ Deploys(c)' /\ Claimed(c)' /\ OneClone(c)'
      BY <1>1, <1>2, <2>0, <2>1 DEF Base, Fresh, Deploys, Claimed, OneClone
    <2>5. Bare(c)'
      BY <1>1, <2>0, <2>1 DEF Base, Bare
    <2>6. Ordered(c)'
      BY <1>1, <2>0, <2>1, <2>2 DEF Base, Ordered
    <2>7. Founded(c)'
      BY <1>1, <2>0, <2>1, <2>2 DEF Base, Founded
    <2>8. Held(c)'
      BY <1>1, <2>0 DEF Base, Held, Ending
    <2> QED BY <2>3, <2>4, <2>5, <2>6, <2>7, <2>8 DEF Base
  <1>4. listed' \in [Creations -> SUBSET Nat]
    BY <1>1 DEF Typed
  <1>5. Typed' /\ SentOnceAsked' /\ LooksFind'
    BY <1>1, <1>2, <1>4 DEF BaseInv, Typed, SentOnceAsked, LooksFind
  <1> QED BY <1>3, <1>5 DEF BaseInv

\* an hour passes
LEMMA HourBase ==
    ASSUME BaseInv, Hour
    PROVE  BaseInv'
  <1>1. Typed /\ Spends /\ UNCHANGED <<clones, onChain, saved, keyring, present, listed, run, report, states, looks, twice>>
    BY DEF Hour, BaseInv, Spends, CreationEvents, ledger, memory
  <1>2. ahead' \in CreationStates /\ ahead'.begin = ahead.begin
    BY <1>1, SpendsTyped
  <1> DEFINE old(c) == records[c].old \/ records[c].on
             recordSet == [on : BOOLEAN, gate : Nat, start : Nat, old : BOOLEAN]
  <1>3. records' = [c \in Creations |-> [records[c] EXCEPT !.old = old(c)]]
    BY DEF Hour
  <1>4. \A c \in Creations : old(c) \in BOOLEAN /\ records[c] \in recordSet
    BY <1>1 DEF Typed
  <1> HIDE DEF old
  <1>5. ASSUME NEW c \in Creations
        PROVE  /\ records'[c] \in recordSet /\ records'[c].on = records[c].on /\ records'[c].gate = records[c].gate
               /\ records'[c].start = records[c].start
    BY <1>3, <1>4
  <1> HIDE DEF recordSet
  <1>6. records' \in [Creations -> recordSet]
    BY <1>3, <1>5
  <1>7. ASSUME NEW d \in Creations PROVE Base(d)'
    <2>1. Kept(d)
      BY <1>1, <1>2, <1>5 DEF Kept, Rest, MadeBy
    <2> QED BY <2>1, KeptBase DEF BaseInv
  <1>8. Typed' /\ SentOnceAsked' /\ LooksFind'
    BY <1>1, <1>2, <1>6 DEF BaseInv, Typed, SentOnceAsked, LooksFind, recordSet
  <1> QED BY <1>7, <1>8 DEF BaseInv

\* what a new publish key does to what the chain holds: grants of the first two streams go to the clone
Regrant(w) == IF w.op = "grant" /\ w.on \in {"message", "ephemeral"} THEN [w EXCEPT !.op = "clone"] ELSE w

LEMMA Regrants ==
    ASSUME NEW w \in Writes
    PROVE  /\ Regrant(w) \in Writes /\ Regrant(w).on = w.on /\ Regrant(w).gate = w.gate
           /\ Regrant(w).op \in {w.op, "clone"} /\ (w.op # "grant" => Regrant(w) = w)
           /\ (w.on \notin {"message", "ephemeral"} => Regrant(w) = w)
           /\ (Regrant(w).op = "stream" => Regrant(w) = w)
           /\ Regrant(w) = w \/ (w.op = "grant" /\ Regrant(w) = [w EXCEPT !.op = "clone"])
  BY DEF Regrant, Writes

LEMMA RekeyBase ==
    ASSUME BaseInv, NEW c \in Creations, Rekey(c)
    PROVE  BaseInv'
  <1>1. /\ Typed /\ Base(c) /\ Spends /\ UNCHANGED <<clones, records, saved, twice>> /\ listed[c] # {} /\ ~Busy(c)
        /\ UNCHANGED <<present, listed, run, report, states, looks>>
    BY DEF Rekey, BaseInv, Spends, CreationEvents, memory
  <1>2. ahead' \in CreationStates /\ ahead'.begin = ahead.begin
    BY <1>1, SpendsTyped
  <1>3. keyring[c].publish \in Nat /\ keyring[c].publish + 1 \in Nat /\ keyring[c].publish + 1 # None
    BY <1>1 DEF Typed, None
  <1>4. /\ keyring' \in [Creations -> [publish : Nat, interactions : Nat]]
        /\ \A d \in Creations \ {c} : keyring'[d] = keyring[d]
    BY <1>1, <1>3 DEF Rekey, Typed
  <1> DEFINE after == {Regrant(w) : w \in onChain[c]}
  <1>5. onChain' = [onChain EXCEPT ![c] = after]
    BY DEF Rekey, Regrant
  <1>6. onChain[c] \subseteq Writes /\ after \in SUBSET Writes
    BY <1>1, Regrants DEF Typed
  <1>7. /\ onChain'[c] = after /\ onChain' \in [Creations -> SUBSET Writes]
        /\ \A d \in Creations \ {c} : onChain'[d] = onChain[d]
    <2> HIDE DEF after
    <2> QED BY <1>1, <1>5, <1>6 DEF Typed
  <1>8. \A d \in Creations : MadeBy(d)' = MadeBy(d)
    BY <1>1 DEF MadeBy
  <1>9. Exists(c, "message")
    BY <1>1 DEF Base, Founded
  <1>10. Exists(c, "message")'
    <2>1. PICK w \in onChain[c] : w.op = "stream" /\ w.on = "message"
      BY <1>9 DEF Exists
    <2>2. Regrant(w) = w
      BY <2>1, <1>6, Regrants
    <2>3. w \in onChain'[c]
      BY <2>2, <1>7
    <2> QED BY <2>1, <2>3 DEF Exists
  <1>11. Base(c)'
    <2>1. Creating(c)' = Creating(c) /\ ~Creating(c) /\ Deploying(c)' = Deploying(c) /\ Busy(c)' = Busy(c) /\ Current(c)' = Current(c)
      BY <1>1 DEF Creating, Deploying, Busy, Current
    <2>2. Shaped(c)'
      BY <1>1, <2>1 DEF Base, Shaped
    <2>3. Fresh(c)' /\ Deploys(c)' /\ Claimed(c)' /\ OneClone(c)' /\ Ordered(c)' /\ Bare(c)'
      BY <1>1, <1>2, <1>8, <2>1 DEF Base, Fresh, Deploys, Claimed, OneClone, Ordered, Deploying, Bare
    <2>4. Founded(c)'
      BY <1>10, <2>1 DEF Founded
    <2>5. Held(c)'
      <3>1. run[c].mode = "idle"
        BY <1>1 DEF Base, Shaped, Busy
      <3> QED BY <3>1, <1>1 DEF Held, Ending
    <2> QED BY <2>2, <2>3, <2>4, <2>5 DEF Base
  <1>12. ASSUME NEW d \in Creations, d # c PROVE Base(d)'
    <2>1. Kept(d)
      BY <1>12, <1>1, <1>2, <1>4, <1>7, <1>8 DEF Kept, Rest
    <2> QED BY <2>1, KeptBase DEF BaseInv
  <1>13. Typed' /\ SentOnceAsked' /\ LooksFind'
    BY <1>1, <1>2, <1>4, <1>7 DEF BaseInv, Typed, SentOnceAsked, LooksFind
  <1> QED BY <1>11, <1>12, <1>13 DEF BaseInv

-----------------------------------------------------------------------------
(* Nothing is paid twice *)

LEMMA InitBase == CreationInit => BaseInv
  <1> SUFFICES ASSUME CreationInit PROVE BaseInv
    OBVIOUS
  <1>1. NoReport \in [full : BOOLEAN, steps : Seq(StepSet)] /\ \A i : i \notin DOMAIN NoReport.steps
    <2>1. <<>> \in Seq(StepSet) /\ \A i : i \notin DOMAIN <<>>
      OBVIOUS
    <2> QED BY <2>1 DEF NoReport
  <1>2. ahead \in CreationStates /\ clones \in Seq([by : Gated, mine : BOOLEAN]) /\ \A i : i \notin DOMAIN clones
    BY CreationAssumption DEF CreationInit
  <1>3. /\ onChain = [c \in Creations |-> {}] /\ records = [c \in Creations |-> NoRecord]
        /\ saved = [c \in Creations |-> {}] /\ listed = saved
        /\ keyring = [c \in Creations |-> [publish |-> None, interactions |-> None]]
        /\ present = TRUE /\ run = [c \in Creations |-> Idle] /\ report = [c \in Creations |-> NoReport]
        /\ states = [c \in Creations |-> "none"] /\ looks = {} /\ twice = {}
    BY DEF CreationInit
  <1>4. [publish |-> None, interactions |-> None] \in [publish : Nat, interactions : Nat]
    BY DEF None
  <1>5. Typed
    BY <1>1, <1>2, <1>3, <1>4, IdleTyped, NoRecordTyped DEF Typed
  <1>6. SentOnceAsked /\ LooksFind
    BY <1>3 DEF SentOnceAsked, LooksFind
  <1>7. ASSUME NEW c \in Creations PROVE Base(c)
    <2>1. /\ run[c].kind = "idle" /\ run[c].mode = "idle" /\ run[c].todo = <<>> /\ ~Creating(c) /\ ~Deploying(c)
          /\ ~Busy(c) /\ \A i : i \notin DOMAIN run[c].todo
      BY <1>3, IdleTyped DEF Creating, Deploying, Busy
    <2>2. /\ onChain[c] = {} /\ ~records[c].on /\ saved[c] = {} /\ listed[c] = {} /\ MadeBy(c) = {}
          /\ report[c] = NoReport
      BY <1>2, <1>3 DEF NoRecord, MadeBy
    <2>3. Shaped(c) /\ Fresh(c) /\ Deploys(c) /\ Claimed(c) /\ Bare(c) /\ OneClone(c)
      BY <1>1, <2>1, <2>2 DEF Shaped, Fresh, Deploys, Claimed, Bare, OneClone, Ending
    <2>4. Founded(c) /\ Held(c) /\ Ordered(c)
      BY <2>1, <2>2 DEF Founded, Held, Ordered, Ending
    <2> QED BY <2>3, <2>4 DEF Base
  <1> QED BY <1>5, <1>6, <1>7 DEF BaseInv

LEMMA StutterBase == ASSUME BaseInv, UNCHANGED creationVars PROVE BaseInv'
  <1>1. /\ UNCHANGED <<clones, onChain, records, saved, keyring, present, listed, run, report, states, looks, ahead, twice>>
    BY DEF creationVars, ledger, disk, memory
  <1>2. ASSUME NEW d \in Creations PROVE Base(d)'
    <2>1. Kept(d)
      BY <1>1 DEF Kept, Rest, MadeBy
    <2> QED BY <2>1, KeptBase DEF BaseInv
  <1>3. Typed' /\ SentOnceAsked' /\ LooksFind'
    BY <1>1 DEF BaseInv, Typed, SentOnceAsked, LooksFind
  <1> QED BY <1>2, <1>3 DEF BaseInv

LEMMA NextBase == BaseInv /\ [CreationNext]_creationVars => BaseInv'
  <1> SUFFICES ASSUME BaseInv, [CreationNext]_creationVars PROVE BaseInv'
    OBVIOUS
  <1>1. CASE UNCHANGED creationVars
    BY <1>1, StutterBase
  <1>2. CASE Work
    BY <1>2, AnswersBase, AskBase, SendBase, ReceiptBase, RecoverBase, ListsBase, StoresBase, AdoptBase,
       CompletesBase, AskedBase, RepairedBase DEF Work
  <1>3. CASE User
    BY <1>3, BeginBase, AskedBase, DiscardBase, DiagnoseBase, RepairBase, RekeyBase DEF User
  <1>4. CASE World
    BY <1>4, ReloadBase, AwayBase, HourBase DEF World
  <1> QED BY <1>1, <1>2, <1>3, <1>4 DEF CreationNext

\* No transaction is sent for what the chain already has, nor a second clone deployed, whatever
\* fails, reloads or switches account in between (executeWithRetryAndVerify, finishPendingCreate).
THEOREM PaysOnce == CreationSpec => []PaidOnce
  <1>1. BaseInv => PaidOnce
    <2> SUFFICES ASSUME BaseInv PROVE PaidOnce
      OBVIOUS
    <2>1. ASSUME NEW c \in Creations PROVE Cardinality({i \in DOMAIN clones : clones[i].by = c}) <= 1
      <3>1. MadeBy(c) = {} \/ \E i : MadeBy(c) = {i}
        BY DEF BaseInv, Base, OneClone
      <3>2. Cardinality(MadeBy(c)) <= 1
        <4>1. CASE MadeBy(c) = {}
          <5>1. Cardinality(MadeBy(c)) = 0
            BY <4>1, FS_EmptySet
          <5> QED BY <5>1
        <4>2. CASE \E i : MadeBy(c) = {i}
          <5>1. PICK i : MadeBy(c) = {i}
            BY <4>2
          <5>2. Cardinality(MadeBy(c)) = 1
            BY <5>1, FS_Singleton
          <5> QED BY <5>2
        <4> QED BY <3>1, <4>1, <4>2
      <3> QED BY <3>2 DEF MadeBy
    <2> QED BY <2>1 DEF PaidOnce, BaseInv, SentOnceAsked
  <1> QED BY <1>1, InitBase, NextBase, PTL DEF CreationSpec

-----------------------------------------------------------------------------
(* What was paid for is held *)

\* what backs a channel: a clone that its own creation deployed, or no gate
GateOf(c, g) == IF c \in Gated THEN g \in MadeBy(c) ELSE g = None

\* every gate that the session has of c is such a one, and came after the record of c began
Owned(c) ==
    /\ \A g \in listed[c] \cup saved[c] : GateOf(c, g)
    /\ records[c].gate # None => GateOf(c, records[c].gate)
    /\ Creating(c) /\ ~Deploying(c) => GateOf(c, run[c].gate)
    /\ records[c].on => records[c].start <= Len(clones) /\ \A i \in MadeBy(c) : i > records[c].start

PaidHeld(c) == Started(c) /\ c \notin discarded => records[c].on \/ (saved[c] # {} /\ KeysKept(c))

\* a creation whose deploy or first stream never landed
Untouched(c) == /\ ~Started(c) /\ ~Busy(c) /\ listed[c] = {} /\ saved[c] = {} /\ records[c].gate = None
                /\ c \notin ahead.begin

\* an answer that is still to be applied tells what is on the chain, and what never will be
AnswerTrue(l) ==
    /\ l.seen = "there" => IF l.of \in Gated THEN l.found \in MadeBy(l.of) /\ clones[l.found].mine
                           ELSE l.found = None /\ Exists(l.of, "message")
    /\ l.seen = "missing" => l.found = None /\ Untouched(l.of)

HeldInv == /\ \A c \in Creations : Owned(c) /\ PaidHeld(c)
           /\ \A l \in looks : AnswerTrue(l)

\* no two gated creations have one mode
OneEach == \A c, d \in Gated : Mode[c] = Mode[d] => c = d

LEMMA StartedBy == \A c : Started(c) <=> onChain[c] # {} \/ \E i \in MadeBy(c) : clones[i].mine
  BY DEF Started, MadeBy

\* what c had on the chain stays
Grows(c) == /\ MadeBy(c) \subseteq MadeBy(c)' /\ \A i \in MadeBy(c) : clones'[i] = clones[i]
            /\ Exists(c, "message") => Exists(c, "message")'

\* a step that gives c nothing new and takes nothing from it
Calm(c) ==
    /\ records'[c].on = records[c].on /\ records'[c].gate = records[c].gate /\ records'[c].start = records[c].start
    /\ Grows(c) /\ MadeBy(c)' = MadeBy(c) /\ Len(clones) <= Len(clones')
    /\ onChain'[c] # {} => onChain[c] # {}
    /\ listed'[c] \in {listed[c], saved[c], {}} /\ saved'[c] \in {saved[c], listed[c]}
    /\ saved[c] # {} => saved'[c] # {}
    /\ keyring[c].publish # None => keyring'[c].publish # None
    /\ keyring[c].interactions # None => keyring'[c].interactions # None
    /\ Creating(c)' /\ ~Deploying(c)' => Creating(c) /\ ~Deploying(c) /\ run'[c].gate = run[c].gate
    /\ Busy(c)' => Busy(c) \/ listed[c] # {}
    /\ ahead'.begin \subseteq ahead.begin /\ discarded \subseteq discarded'

LEMMA CalmHeld ==
    ASSUME Typed, Typed', NEW c \in Creations, Owned(c), PaidHeld(c), Calm(c)
    PROVE  Owned(c)' /\ PaidHeld(c)' /\ (Untouched(c) => Untouched(c)')
  <1> USE DEF Calm
  <1>1. \A g : GateOf(c, g)' <=> GateOf(c, g)
    BY DEF GateOf
  <1>2. Started(c)' => Started(c)
    <2>1. Started(c)' <=> onChain'[c] # {} \/ \E i \in MadeBy(c)' : clones'[i].mine
      BY DEF Started, MadeBy
    <2> QED BY <2>1, StartedBy DEF Grows
  <1>3. Owned(c)'
    <2>1. ASSUME NEW g \in listed'[c] \cup saved'[c] PROVE GateOf(c, g)'
      BY <1>1 DEF Owned
    <2>2. (records[c].gate # None => GateOf(c, records[c].gate))'
      BY DEF Owned, GateOf
    <2>3. (Creating(c) /\ ~Deploying(c) => GateOf(c, run[c].gate))'
      BY DEF Owned, GateOf
    <2>4. records'[c].on => records'[c].start <= Len(clones') /\ \A i \in MadeBy(c)' : i > records'[c].start
      <3>1. records[c].start \in Nat /\ Len(clones) \in Nat /\ Len(clones') \in Nat
        BY DEF Typed
      <3> QED BY <3>1 DEF Owned
    <2> QED BY <2>1, <2>2, <2>3, <2>4 DEF Owned
  <1>4. KeysKept(c) => KeysKept(c)'
    BY DEF KeysKept
  <1>5. PaidHeld(c)'
    BY <1>2, <1>4 DEF PaidHeld
  <1>6. Untouched(c) => Untouched(c)'
    BY <1>2 DEF Untouched
  <1> QED BY <1>3, <1>5, <1>6

\* a step that only concerns c
LEMMA OneHeld ==
    ASSUME Typed, Typed', HeldInv, NEW c \in Creations, \A d \in Creations \ {c} : Calm(d),
           Owned(c)', PaidHeld(c)', Untouched(c) => Untouched(c)', Grows(c), looks' \subseteq looks
    PROVE  HeldInv'
  <1>1. ASSUME NEW d \in Creations, d # c
        PROVE  Owned(d)' /\ PaidHeld(d)' /\ (Untouched(d) => Untouched(d)') /\ Grows(d)
    BY <1>1, CalmHeld DEF HeldInv, Calm
  <1>2. ASSUME NEW l \in looks' PROVE AnswerTrue(l)'
    <2>1. l \in looks /\ AnswerTrue(l) /\ l.of \in Creations
      BY DEF HeldInv, Typed, LookSet
    <2>2. Grows(l.of) /\ (Untouched(l.of) => Untouched(l.of)')
      BY <1>1, <2>1
    <2>3. l.seen = "there" /\ l.of \in Gated => l.found \in MadeBy(l.of)' /\ clones'[l.found].mine
      BY <2>1, <2>2 DEF AnswerTrue, Grows
    <2>4. l.seen = "there" /\ l.of \notin Gated => l.found = None /\ Exists(l.of, "message")'
      BY <2>1, <2>2 DEF AnswerTrue, Grows
    <2>5. l.seen = "missing" => l.found = None /\ Untouched(l.of)'
      BY <2>1, <2>2 DEF AnswerTrue
    <2> QED BY <2>3, <2>4, <2>5 DEF AnswerTrue
  <1> QED BY <1>1, <1>2 DEF HeldInv

LEMMA AllCalm ==
    ASSUME Typed, Typed', HeldInv, \A d \in Creations : Calm(d), looks' \subseteq looks
    PROVE  HeldInv'
  <1>1. CASE Creations = {}
    <2>1. looks' = {}
      BY <1>1 DEF Typed, LookSet
    <2> QED BY <1>1, <2>1 DEF HeldInv
  <1>2. CASE Creations # {}
    <2>1. PICK c \in Creations : TRUE
      BY <1>2
    <2>2. Owned(c)' /\ PaidHeld(c)' /\ (Untouched(c) => Untouched(c)') /\ Grows(c)
      BY CalmHeld DEF HeldInv, Calm
    <2> QED BY <2>2, OneHeld
  <1> QED BY <1>1, <1>2

\* what a run may come to with no other creation begun
RunGoes(c) == \/ run'[c] = Idle
              \/ run'[c].kind = run[c].kind /\ run'[c].gate = run[c].gate /\ (Deploying(c) => Deploying(c)')
Unmoved(c) ==
    /\ clones' = clones /\ onChain'[c] = onChain[c]
    /\ records'[c].on = records[c].on /\ records'[c].gate = records[c].gate /\ records'[c].start = records[c].start
    /\ listed'[c] \in {listed[c], saved[c], {}} /\ saved'[c] \in {saved[c], listed[c]}
    /\ saved[c] # {} => saved'[c] # {}
    /\ keyring[c].publish # None => keyring'[c].publish # None
    /\ keyring[c].interactions # None => keyring'[c].interactions # None
    /\ ahead'.begin \subseteq ahead.begin /\ discarded \subseteq discarded'

LEMMA GoesCalm ==
    ASSUME NEW c \in Creations, Typed, RunGoes(c) \/ run'[c] = run[c], Unmoved(c)
    PROVE  Calm(c)
  <1>1. Grows(c) /\ MadeBy(c)' = MadeBy(c) /\ Len(clones) <= Len(clones')
    BY DEF Unmoved, Grows, MadeBy, Exists, Typed
  <1>2. (Busy(c)' => Busy(c)) /\ (Creating(c)' => Creating(c))
    BY IdleTyped DEF RunGoes, Busy, Creating
  <1>3. Creating(c)' /\ ~Deploying(c)' => Creating(c) /\ ~Deploying(c) /\ run'[c].gate = run[c].gate
    BY <1>2, IdleTyped DEF RunGoes, Creating, Deploying
  <1> QED BY <1>1, <1>2, <1>3 DEF Unmoved, Calm

LEMMA RoundGoes ==
    ASSUME Typed, NEW c \in Creations, Base(c), run[c].mode \in {"ask", "send", "mined"}, NextRound(c)
    PROVE  RunGoes(c) /\ \A d \in Creations \ {c} : run'[d] = run[d]
  <1>0. Shaped(c)
    BY DEF Base
  <1>1. Retries(c) \/ Stops(c) \/ Recovers(c) \/ Skips(c)
    BY <1>0, RoundFails
  <1>2. /\ run[c] \in RunSet /\ run[c].todo \in Seq(StepSet) /\ run \in [Creations -> RunSet] /\ run[c].kind \in {"create", "repair"}
    BY <1>0, HasCurrent DEF Typed
  <1>3. \A d \in Creations \ {c} : run'[d] = run[d]
    BY <1>1, <1>2 DEF Retries, Stops, Recovers, Skips
  <1>4. CASE Retries(c)
    <2> DEFINE r == [run[c] EXCEPT !.round = run[c].round + 1, !.mode = "ask"]
    <2>1. r.kind = run[c].kind /\ r.todo = run[c].todo /\ r.gate = run[c].gate
      BY <1>2 DEF RunSet
    <2>2. run'[c] = r
      BY <1>2, <1>4 DEF Retries
    <2> HIDE DEF r
    <2> QED BY <1>3, <2>1, <2>2 DEF RunGoes, Deploying, Creating
  <1>5. CASE Stops(c)
    BY <1>2, <1>3, <1>5 DEF Stops, RunGoes
  <1>6. CASE Recovers(c)
    <2> DEFINE f == TRUE
               r == [run[c] EXCEPT !.failed = f, !.mode = "recover"]
    <2> HIDE DEF f
    <2>1. r.kind = run[c].kind /\ r.todo = run[c].todo /\ r.gate = run[c].gate
      BY <1>2 DEF RunSet
    <2>2. run'[c] = r
      BY <1>2, <1>6 DEF Recovers, f
    <2> HIDE DEF r
    <2> QED BY <1>3, <2>1, <2>2 DEF RunGoes, Deploying, Creating
  <1>7. CASE Skips(c)
    <2> DEFINE f == run[c].failed \/ Current(c).fail # "pass"
               r == [run[c] EXCEPT !.failed = f]
               n == IF Current(c).fail = "skipTwo" THEN 2 ELSE 1
               q == Drop(run[c].todo, n)
    <2>1. f \in BOOLEAN /\ n \in {1, 2}
      OBVIOUS
    <2> HIDE DEF f, n
    <2>2. r \in RunSet /\ r.kind = run[c].kind /\ r.gate = run[c].gate
      BY <1>2, <2>1 DEF RunSet
    <2> HIDE DEF r
    <2>3. q \in Seq(StepSet)
      BY <1>2, <2>1, DropHolds
    <2>4. run' = [run EXCEPT ![c] = Going(r, q)]
      BY <1>7 DEF Skips, r, f, n
    <2>5. Going(r, q).kind = run[c].kind /\ Going(r, q).gate = run[c].gate
      BY <1>2, <2>2, <2>3, Goes
    <2>6. run'[c] = Going(r, q)
      BY <1>2, <2>4
    <2>7. ~Deploying(c)
      BY <1>7, DeployHolds DEF Skips, Deploying, Current
    <2> QED BY <1>3, <2>5, <2>6, <2>7 DEF RunGoes
  <1> QED BY <1>1, <1>4, <1>5, <1>6, <1>7

\* a step of one run
LEMMA RunHeld ==
    ASSUME BaseInv, BaseInv', HeldInv, NEW c \in Creations, RunGoes(c), \A d \in Creations \ {c} : run'[d] = run[d],
           UNCHANGED <<clones, onChain, records, saved, keyring, present, listed, discarded, looks>>, ahead'.begin = ahead.begin
    PROVE  HeldInv'
  <1>1. \A d \in Creations : Unmoved(d)
    BY DEF Unmoved
  <1>2. \A d \in Creations : Calm(d)
    BY <1>1, GoesCalm DEF BaseInv
  <1> QED BY <1>2, AllCalm DEF BaseInv

-----------------------------------------------------------------------------
(* Each action keeps what was paid for: the writes *)

\* the run of c is Going on with what is left
LEMMA GoingGoes ==
    ASSUME Typed, NEW c \in Creations, run[c].kind \in {"create", "repair"}, ~Deploying(c),
           NEW r \in RunSet, r.kind = run[c].kind, r.gate = run[c].gate, NEW q \in Seq(StepSet),
           run' = [run EXCEPT ![c] = Going(r, q)]
    PROVE  RunGoes(c) /\ \A d \in Creations \ {c} : run'[d] = run[d]
  <1>1. Going(r, q) \in RunSet /\ Going(r, q).kind = r.kind /\ Going(r, q).gate = r.gate
    BY Goes
  <1>2. run'[c] = Going(r, q) /\ \A d \in Creations \ {c} : run'[d] = run[d]
    BY <1>1, RunGiven
  <1> QED BY <1>1, <1>2 DEF RunGoes

\* or only its mode changes
LEMMA ModeGoes ==
    ASSUME Typed, NEW c \in Creations, NEW m \in Modes, run' = [run EXCEPT ![c].mode = m]
    PROVE  RunGoes(c) /\ run'[c].mode = m /\ \A d \in Creations \ {c} : run'[d] = run[d]
  <1> DEFINE r == [run[c] EXCEPT !.mode = m]
  <1>1. run[c] \in RunSet
    BY DEF Typed
  <1>2. r \in RunSet /\ r.kind = run[c].kind /\ r.todo = run[c].todo /\ r.gate = run[c].gate /\ r.mode = m
    BY <1>1, ModeGiven
  <1>3. run' = [run EXCEPT ![c] = r]
    BY DEF Typed
  <1> HIDE DEF r
  <1>4. run'[c] = r /\ \A d \in Creations \ {c} : run'[d] = run[d]
    BY <1>2, <1>3, RunGiven
  <1> QED BY <1>2, <1>4 DEF RunGoes, Deploying, Creating

\* or it ends
LEMMA EndGoes ==
    ASSUME Typed, NEW c \in Creations, run' = [run EXCEPT ![c] = Idle]
    PROVE  RunGoes(c) /\ \A d \in Creations \ {c} : run'[d] = run[d]
  BY IdleTyped, RunGiven DEF RunGoes

LEMMA AskHeld ==
    ASSUME BaseInv, HeldInv, NEW c \in Creations, Ask(c)
    PROVE  HeldInv'
  <1>1. Typed /\ Base(c) /\ Shaped(c) /\ Deploys(c) /\ run[c].mode = "ask" /\ Spends
    BY DEF BaseInv, Base, Ask, Spends, CreationEvents
  <1>2. UNCHANGED <<clones, onChain, records, saved, keyring, present, listed, discarded, looks>> /\ ahead'.begin = ahead.begin
    BY <1>1, SpendsTyped DEF Ask, ledger, disk
  <1>3. /\ run[c] \in RunSet /\ run[c].todo \in Seq(StepSet) /\ run[c].todo # <<>> /\ run[c].kind \in {"create", "repair"}
        /\ ~Deploying(c)
    BY <1>1, HasCurrent DEF Deploys
  <1>4. BaseInv'
    BY AskBase
  <1>5. \/ run' = [run EXCEPT ![c] = Going(run[c], Tail(run[c].todo))]
        \/ run' = [run EXCEPT ![c].mode = "send"]
        \/ NextRound(c)
    BY <1>1 DEF Ask, Typed
  <1>6. RunGoes(c) /\ \A d \in Creations \ {c} : run'[d] = run[d]
    <2>1. CASE run' = [run EXCEPT ![c] = Going(run[c], Tail(run[c].todo))]
      <3>1. Tail(run[c].todo) \in Seq(StepSet)
        BY <1>3, DropHolds
      <3> QED BY <1>1, <1>3, <2>1, <3>1, GoingGoes
    <2>2. CASE run' = [run EXCEPT ![c].mode = "send"]
      BY <1>1, <2>2, ModeGoes DEF Modes
    <2>3. CASE NextRound(c)
      BY <1>1, <2>3, RoundGoes
    <2> QED BY <1>5, <2>1, <2>2, <2>3
  <1> QED BY <1>2, <1>4, <1>6, RunHeld

\* a step of c alone leaves the other channels alone
LEMMA OtherCalm ==
    ASSUME Typed, NEW d \in Creations, Len(clones) <= Len(clones'), MadeBy(d)' = MadeBy(d),
           \A i \in DOMAIN clones : clones'[i] = clones[i],
           run'[d] = run[d], records'[d] = records[d], onChain'[d] = onChain[d], saved'[d] = saved[d],
           listed'[d] = listed[d], keyring'[d] = keyring[d],
           ahead'.begin \subseteq ahead.begin, discarded \subseteq discarded'
    PROVE  Calm(d)
  <1>1. Grows(d)
    BY DEF Grows, MadeBy, Exists
  <1>2. (Busy(d)' => Busy(d)) /\ (Creating(d)' = Creating(d)) /\ (Deploying(d)' = Deploying(d))
    BY DEF Busy, Creating, Deploying
  <1> QED BY <1>1, <1>2 DEF Calm

LEMMA SendHeld ==
    ASSUME BaseInv, HeldInv, NEW c \in Creations, Send(c)
    PROVE  HeldInv'
  <1>1. /\ Typed /\ Base(c) /\ Shaped(c) /\ Deploys(c) /\ Claimed(c) /\ Founded(c) /\ Bare(c) /\ run[c].mode = "send" /\ Spends
        /\ Owned(c) /\ PaidHeld(c)
    BY DEF BaseInv, Base, HeldInv, Send, Spends, CreationEvents
  <1>2. UNCHANGED <<records, saved, keyring, present, listed, discarded, looks>> /\ ahead'.begin = ahead.begin
    BY <1>1, SpendsTyped DEF Send, disk
  <1>3. /\ run[c] \in RunSet /\ run[c].kind \in {"create", "repair"} /\ (Current(c).w.op = "gate" <=> Deploying(c))
        /\ Busy(c)
    BY <1>1, HasCurrent
  <1>4. BaseInv' /\ Typed'
    BY SendBase DEF BaseInv
  <1>5. \/ Deploying(c) /\ clones' = Append(clones, [by |-> c, mine |-> present]) /\ UNCHANGED onChain
           /\ run' = [run EXCEPT ![c].mode = "mined"]
        \/ ~Deploying(c) /\ onChain' = [onChain EXCEPT ![c] = @ \cup {Current(c).w}] /\ UNCHANGED clones
           /\ run' = [run EXCEPT ![c].mode = "mined"]
        \/ NextRound(c) /\ UNCHANGED ledger
    BY <1>3 DEF Send
  <1>6. CASE Deploying(c) /\ clones' = Append(clones, [by |-> c, mine |-> present]) /\ UNCHANGED onChain
             /\ run' = [run EXCEPT ![c].mode = "mined"]
    <2>1. RunGoes(c) /\ \A d \in Creations \ {c} : run'[d] = run[d]
      BY <1>1, <1>6, ModeGoes DEF Modes
    <2>2. Deploying(c)' /\ Creating(c) /\ c \in Gated /\ MadeBy(c) = {} /\ records[c].gate = None /\ records[c].on
          /\ listed[c] = {} /\ saved[c] = {}
      <3>1. Creating(c) /\ c \in Gated /\ MadeBy(c) = {} /\ records[c].gate = None /\ records[c].on
        BY <1>1, <1>6 DEF Deploying, Deploys, Claimed
      <3>2. ~(run'[c] = Idle)
        BY <1>1, <1>6, ModeGoes, IdleTyped DEF Modes
      <3> QED BY <3>1, <3>2, <2>1, <1>1, <1>6 DEF RunGoes, Bare
    <2>3. /\ Len(clones) \in Nat /\ Len(clones') = Len(clones) + 1 /\ \A i \in DOMAIN clones : clones'[i] = clones[i]
          /\ MadeBy(c)' = MadeBy(c) \cup {Len(clones) + 1} /\ \A d \in Creations \ {c} : MadeBy(d)' = MadeBy(d)
      <3>1. present \in BOOLEAN
        BY <1>1 DEF Typed
      <3>2. Len(clones) \in Nat
        BY <1>1 DEF Typed
      <3> QED BY <1>1, <1>6, <2>2, <3>1, <3>2, CloneMore
    <2>4. \A d \in Creations \ {c} : Calm(d)
      BY <1>1, <1>2, <1>6, <2>1, <2>3, OtherCalm
    <2>5. Owned(c)'
      <3>1. records[c].start \in Nat /\ records[c].start <= Len(clones)
        BY <1>1, <2>2 DEF Typed, Owned
      <3>2. records[c].start <= Len(clones') /\ \A i \in MadeBy(c)' : i > records[c].start
        BY <2>2, <2>3, <3>1
      <3> QED BY <1>2, <2>2, <3>2 DEF Owned
    <2>6. PaidHeld(c)' /\ ~Untouched(c) /\ Grows(c)
      BY <1>2, <1>3, <1>6, <2>2 DEF PaidHeld, Untouched, Grows, Exists
    <2> QED BY <1>1, <1>2, <1>4, <2>4, <2>5, <2>6, OneHeld
  <1>7. CASE ~Deploying(c) /\ onChain' = [onChain EXCEPT ![c] = @ \cup {Current(c).w}] /\ UNCHANGED clones
             /\ run' = [run EXCEPT ![c].mode = "mined"]
    <2>1. RunGoes(c) /\ \A d \in Creations \ {c} : run'[d] = run[d]
      BY <1>1, <1>7, ModeGoes DEF Modes
    <2>2. onChain'[c] = onChain[c] \cup {Current(c).w} /\ \A d \in Creations \ {c} : onChain'[d] = onChain[d]
      BY <1>1, <1>7 DEF Typed
    <2>3. \A d \in Creations : MadeBy(d)' = MadeBy(d) /\ Len(clones) <= Len(clones')
      BY <1>1, <1>7 DEF MadeBy, Typed
    <2>4. \A d \in Creations \ {c} : Calm(d)
      BY <1>1, <1>2, <1>7, <2>1, <2>2, <2>3, OtherCalm
    <2>5. Grows(c) /\ ~Untouched(c)
      BY <1>3, <1>7, <2>2, <2>3 DEF Grows, Exists, Untouched
    <2>6. Owned(c)'
      <3>1. \A g : GateOf(c, g)' = GateOf(c, g)
        BY <2>3 DEF GateOf
      <3>2. (Creating(c)' /\ ~Deploying(c)') => Creating(c) /\ run'[c].gate = run[c].gate
        BY <2>1, IdleTyped DEF RunGoes, Creating
      <3>3. (Creating(c) /\ ~Deploying(c) => GateOf(c, run[c].gate))'
        BY <1>1, <1>7, <2>3, <3>2 DEF Owned, GateOf
      <3> QED BY <1>1, <1>2, <1>7, <2>3, <3>1, <3>3 DEF Owned, GateOf
    <2>7. PaidHeld(c)'
      <3>1. CASE Creating(c)
        BY <1>1, <1>2, <3>1 DEF Claimed, PaidHeld
      <3>2. CASE run[c].kind = "repair"
        <4>1. Started(c)
          BY <1>1, <3>2 DEF Founded, Exists, Started
        <4> QED BY <1>1, <1>2, <4>1 DEF PaidHeld, KeysKept
      <3> QED BY <1>3, <3>1, <3>2 DEF Creating
    <2> QED BY <1>1, <1>2, <1>4, <2>4, <2>5, <2>6, <2>7, OneHeld
  <1>8. CASE NextRound(c) /\ UNCHANGED ledger
    <2>1. RunGoes(c) /\ \A d \in Creations \ {c} : run'[d] = run[d]
      BY <1>1, <1>8, RoundGoes
    <2> QED BY <1>2, <1>4, <1>8, <2>1, RunHeld DEF ledger
  <1> QED BY <1>5, <1>6, <1>7, <1>8

\* the clone that the receipt names is the one that was deployed
LEMMA ReadsGate ==
    ASSUME Typed, NEW c \in Creations, OneClone(c), MadeBy(c) # {}
    PROVE  Max({i \in DOMAIN clones : clones[i].by = c}) \in MadeBy(c)
  <1>1. PICK i : MadeBy(c) = {i}
    BY DEF OneClone
  <1>2. i \in Nat
    BY <1>1 DEF MadeBy, Typed
  <1> QED BY <1>1, <1>2 DEF Max, MadeBy

LEMMA ReceiptHeld ==
    ASSUME BaseInv, HeldInv, NEW c \in Creations, Receipt(c)
    PROVE  HeldInv'
  <1>1. /\ Typed /\ Base(c) /\ Shaped(c) /\ Deploys(c) /\ Claimed(c) /\ OneClone(c) /\ run[c].mode = "mined" /\ Spends
        /\ Owned(c) /\ PaidHeld(c)
    BY DEF BaseInv, Base, HeldInv, Receipt, Spends, CreationEvents
  <1>2. UNCHANGED <<clones, onChain, saved, keyring, present, listed, discarded, looks>> /\ ahead'.begin = ahead.begin
    BY <1>1, SpendsTyped DEF Receipt, ledger
  <1>3. /\ run[c] \in RunSet /\ run[c].kind \in {"create", "repair"} /\ (Current(c).w.op = "gate" <=> Deploying(c))
        /\ Busy(c) /\ run[c].todo \in Seq(StepSet) /\ run[c].todo # <<>>
    BY <1>1, HasCurrent
  <1>4. BaseInv' /\ Typed'
    BY ReceiptBase DEF BaseInv
  <1> DEFINE g == Max({i \in DOMAIN clones : clones[i].by = c})
  <1>5. \/ Deploying(c) /\ records' = [records EXCEPT ![c].gate = g, ![c].on = TRUE]
           /\ run' = [run EXCEPT ![c] = Start("create", CreatePlan(c, g, FALSE), g, FALSE)]
        \/ UNCHANGED records /\ ~Deploying(c) /\ run' = [run EXCEPT ![c] = Going(run[c], Tail(run[c].todo))]
        \/ UNCHANGED records /\ run' = [run EXCEPT ![c] = Idle]
        \/ UNCHANGED records /\ NextRound(c)
    BY <1>1, <1>3 DEF Receipt, Typed, Ends
  <1> HIDE DEF g
  <1>6. CASE Deploying(c) /\ records' = [records EXCEPT ![c].gate = g, ![c].on = TRUE]
             /\ run' = [run EXCEPT ![c] = Start("create", CreatePlan(c, g, FALSE), g, FALSE)]
    <2>1. g \in MadeBy(c) /\ g \in Nat /\ c \in Gated /\ MadeBy(c) \subseteq Nat
      <3>1. c \in Gated /\ MadeBy(c) # {}
        BY <1>1, <1>6 DEF Deploys
      <3>2. MadeBy(c) \subseteq Nat
        BY <1>1 DEF MadeBy, Typed
      <3>3. g \in MadeBy(c)
        BY <1>1, <3>1, ReadsGate DEF g
      <3> QED BY <3>1, <3>2, <3>3
    <2> DEFINE f == FALSE
               t == TRUE
               q == CreatePlan(c, g, f)
               r == Start("create", q, g, f)
               n == [records[c] EXCEPT !.gate = g, !.on = t]
    <2>2. f \in BOOLEAN /\ t \in BOOLEAN
      OBVIOUS
    <2>3. run' = [run EXCEPT ![c] = r] /\ records' = [records EXCEPT ![c] = n]
      BY <1>1, <1>6 DEF Typed
    <2>4. t
      OBVIOUS
    <2> HIDE DEF f, t
    <2>5. q \in Seq(StepSet) /\ q # <<>>
      BY <2>1, <2>2, PlanHolds
    <2> HIDE DEF q
    <2>6. r.kind = "create" /\ r.gate = g
      BY <2>1, <2>2, <2>5, StartsCreate
    <2>7. n.on /\ n.gate = g /\ n.start = records[c].start
      BY <1>1, <2>4 DEF Typed
    <2> HIDE DEF r, n
    <2>8. run'[c] = r /\ records'[c] = n /\ \A d \in Creations \ {c} : run'[d] = run[d] /\ records'[d] = records[d]
      BY <1>1, <2>3 DEF Typed
    <2>9. \A d \in Creations \ {c} : Calm(d)
      <3>1. \A d \in Creations : MadeBy(d)' = MadeBy(d) /\ Len(clones) <= Len(clones')
        BY <1>1, <1>2 DEF MadeBy, Typed
      <3> QED BY <1>1, <1>2, <2>8, <3>1, OtherCalm
    <2>10. Grows(c) /\ ~Untouched(c) /\ PaidHeld(c)'
      BY <1>2, <1>3, <2>7, <2>8 DEF Grows, Exists, Untouched, PaidHeld, MadeBy
    <2>11. Owned(c)'
      <3>1. MadeBy(c)' = MadeBy(c) /\ records[c].on
        BY <1>1, <1>2, <1>6 DEF MadeBy, Claimed, Deploying
      <3>2. (records[c].gate # None => GateOf(c, records[c].gate))'
        BY <2>1, <2>7, <2>8, <3>1 DEF GateOf
      <3>3. (Creating(c) /\ ~Deploying(c) => GateOf(c, run[c].gate))'
        BY <2>1, <2>6, <2>8, <3>1 DEF GateOf
      <3>4. ASSUME NEW h \in listed'[c] \cup saved'[c] PROVE GateOf(c, h)'
        BY <1>1, <1>2, <3>1 DEF Owned, GateOf
      <3> QED BY <1>1, <1>2, <2>7, <2>8, <3>1, <3>2, <3>3, <3>4 DEF Owned
    <2> QED BY <1>1, <1>2, <1>4, <2>9, <2>10, <2>11, OneHeld
  <1>7. CASE UNCHANGED records /\ ~Deploying(c) /\ run' = [run EXCEPT ![c] = Going(run[c], Tail(run[c].todo))]
    <2>1. Tail(run[c].todo) \in Seq(StepSet)
      BY <1>3, DropHolds
    <2>2. RunGoes(c) /\ \A d \in Creations \ {c} : run'[d] = run[d]
      BY <1>1, <1>3, <1>7, <2>1, GoingGoes
    <2> QED BY <1>2, <1>4, <1>7, <2>2, RunHeld
  <1>8. CASE UNCHANGED records /\ run' = [run EXCEPT ![c] = Idle]
    <2>1. RunGoes(c) /\ \A d \in Creations \ {c} : run'[d] = run[d]
      BY <1>1, <1>8, EndGoes
    <2> QED BY <1>2, <1>4, <1>8, <2>1, RunHeld
  <1>9. CASE UNCHANGED records /\ NextRound(c)
    <2>1. RunGoes(c) /\ \A d \in Creations \ {c} : run'[d] = run[d]
      BY <1>1, <1>9, RoundGoes
    <2> QED BY <1>2, <1>4, <1>9, <2>1, RunHeld
  <1> QED BY <1>5, <1>6, <1>7, <1>8, <1>9

-----------------------------------------------------------------------------
(* Each action keeps what was paid for: a creation, a repair, the session *)

LEMMA BeginHeld ==
    ASSUME BaseInv, HeldInv, NEW c \in Creations, Begin(c)
    PROVE  HeldInv'
  <1>1. Typed /\ Base(c) /\ Fresh(c) /\ Owned(c) /\ c \in ahead.begin
    BY DEF BaseInv, Base, HeldInv, Begin
  <1>2. UNCHANGED <<clones, onChain, saved, keyring, present, listed, discarded, looks>>
    BY DEF Begin, ledger
  <1>3. ahead'.begin \subseteq ahead.begin
    BY <1>1 DEF Begin, Typed, CreationStates
  <1>4. BaseInv' /\ Typed'
    BY BeginBase DEF BaseInv
  <1> DEFINE n == [NoRecord EXCEPT !.on = TRUE, !.start = Len(clones)]
             f == FALSE
             q == IF c \in Gated THEN DeployOf(None) ELSE CreatePlan(c, None, FALSE)
             r == Start("create", q, None, f)
  <1>5. n.on /\ n.gate = None /\ n.start = Len(clones)
    BY DEF NoRecord
  <1>6. records' = [records EXCEPT ![c] = n] /\ run' = [run EXCEPT ![c] = r]
    BY DEF Begin
  <1>7. None \in Nat /\ f \in BOOLEAN /\ q \in Seq(StepSet) /\ q # <<>>
    <2>1. f \in BOOLEAN /\ None \in Nat /\ f = FALSE
      BY DEF None
    <2> HIDE DEF f
    <2>2. q = IF c \in Gated THEN DeployOf(None) ELSE CreatePlan(c, None, f)
      BY <2>1
    <2> HIDE DEF q
    <2>3. CreatePlan(c, None, f) \in Seq(StepSet) /\ CreatePlan(c, None, f) # <<>>
      BY <2>1, PlanHolds
    <2> QED BY <2>1, <2>2, <2>3, DeployHolds
  <1>8. c \in Gated => q = DeployOf(None)
    OBVIOUS
  <1> HIDE DEF n, f, q
  <1>9. r.kind = "create" /\ r.gate = None /\ r.todo = q
    BY <1>7, StartsCreate
  <1> HIDE DEF r
  <1>10. /\ records'[c] = n /\ run'[c] = r
         /\ \A d \in Creations \ {c} : run'[d] = run[d] /\ records'[d] = records[d]
    BY <1>1, <1>6 DEF Typed
  <1>11. \A d \in Creations : MadeBy(d)' = MadeBy(d) /\ Len(clones) <= Len(clones') /\ Len(clones) \in Nat
    BY <1>1, <1>2 DEF MadeBy, Typed
  <1>12. \A d \in Creations \ {c} : Calm(d)
    BY <1>1, <1>2, <1>3, <1>10, <1>11, OtherCalm
  <1>13. Grows(c) /\ ~Untouched(c) /\ PaidHeld(c)'
    BY <1>1, <1>2, <1>5, <1>10, <1>11 DEF Grows, Exists, Untouched, PaidHeld
  <1>14. Owned(c)'
    <2>1. listed'[c] = {} /\ saved'[c] = {} /\ MadeBy(c)' = {}
      BY <1>1, <1>2, <1>11 DEF Fresh
    <2>2. (Creating(c) /\ ~Deploying(c) => GateOf(c, run[c].gate))'
      BY <1>8, <1>9, <1>10 DEF Creating, Deploying, GateOf
    <2> QED BY <1>2, <1>5, <1>10, <1>11, <2>1, <2>2 DEF Owned
  <1> QED BY <1>1, <1>2, <1>4, <1>12, <1>13, <1>14, OneHeld

LEMMA RecoverHeld ==
    ASSUME BaseInv, HeldInv, NEW c \in Creations, Recover(c)
    PROVE  HeldInv'
  <1>1. Typed /\ Base(c) /\ Shaped(c) /\ Deploys(c) /\ run[c].mode = "recover" /\ Spends
    BY DEF BaseInv, Base, Recover, Spends, CreationEvents
  <1>2. UNCHANGED <<clones, onChain, records, saved, keyring, present, listed, discarded, looks>> /\ ahead'.begin = ahead.begin
    BY <1>1, SpendsTyped DEF Recover, ledger, disk
  <1>3. run[c] \in RunSet /\ run[c].kind \in {"create", "repair"} /\ ~Deploying(c)
    BY <1>1, HasCurrent DEF Deploys
  <1>4. BaseInv'
    BY RecoverBase
  <1>5. RunGoes(c) /\ \A d \in Creations \ {c} : run'[d] = run[d]
    <2>1. CASE run' = [run EXCEPT ![c] = Idle]
      BY <1>1, <2>1, EndGoes
    <2>2. CASE \E b \in BOOLEAN : run' = [run EXCEPT ![c] = Going([run[c] EXCEPT !.recovered = TRUE],
                                                                  RecoveryPlan(c, run[c].gate, run[c].ask, b))]
      <3>1. PICK b \in BOOLEAN : run' = [run EXCEPT ![c] = Going([run[c] EXCEPT !.recovered = TRUE],
                                                                  RecoveryPlan(c, run[c].gate, run[c].ask, b))]
        BY <2>2
      <3> DEFINE t == TRUE
                 r == [run[c] EXCEPT !.recovered = t]
                 q == RecoveryPlan(c, run[c].gate, run[c].ask, b)
      <3>2. t \in BOOLEAN
        OBVIOUS
      <3>3. run' = [run EXCEPT ![c] = Going(r, q)]
        BY <3>1
      <3> HIDE DEF t
      <3>4. r \in RunSet /\ r.kind = run[c].kind /\ r.gate = run[c].gate
        BY <1>3, <3>2 DEF RunSet
      <3> HIDE DEF r
      <3>5. run[c].gate \in Nat /\ run[c].ask \in BOOLEAN
        BY <1>3 DEF RunSet
      <3>6. q \in Seq(StepSet)
        BY <3>5, RecoveryHolds
      <3> HIDE DEF q
      <3> QED BY <1>1, <1>3, <3>3, <3>4, <3>6, GoingGoes
    <2>3. \/ run' = [run EXCEPT ![c] = Idle]
          \/ \E b \in BOOLEAN : run' = [run EXCEPT ![c] = Going([run[c] EXCEPT !.recovered = TRUE],
                                                                RecoveryPlan(c, run[c].gate, run[c].ask, b))]
      <3>1. PICK told \in SUBSET {"message", "ephemeral"} :
              \/ run' = [run EXCEPT ![c] = Idle]
              \/ run' = [run EXCEPT ![c] = Going([run[c] EXCEPT !.recovered = TRUE],
                                                 RecoveryPlan(c, run[c].gate, run[c].ask, "ephemeral" \in told))]
        BY <1>1 DEF Recover, Ends, Typed
      <3>2. ("ephemeral" \in told) \in BOOLEAN
        OBVIOUS
      <3> QED BY <3>1, <3>2
    <2> QED BY <2>1, <2>2, <2>3
  <1> QED BY <1>2, <1>4, <1>5, RunHeld

LEMMA ListsHeld ==
    ASSUME BaseInv, HeldInv, NEW c \in Creations, Lists(c)
    PROVE  HeldInv'
  <1>1. /\ Typed /\ Base(c) /\ Shaped(c) /\ Deploys(c) /\ run[c].mode = "save" /\ Owned(c) /\ PaidHeld(c)
    BY DEF BaseInv, Base, HeldInv, Lists
  <1>2. UNCHANGED <<clones, onChain, records, saved, keyring, present, discarded, looks, ahead>>
    BY DEF Lists, ledger, disk
  <1>3. Creating(c) /\ ~Deploying(c) /\ Busy(c)
    BY <1>1 DEF Shaped, Deploys, Busy, Creating
  <1>4. BaseInv' /\ Typed'
    BY ListsBase DEF BaseInv
  <1>5. CASE listed' = listed /\ run' = [run EXCEPT ![c] = Idle]
    <2>1. RunGoes(c) /\ \A d \in Creations \ {c} : run'[d] = run[d]
      BY <1>1, <1>5, EndGoes
    <2> QED BY <1>2, <1>4, <1>5, <2>1, RunHeld
  <1>6. CASE listed' = [listed EXCEPT ![c] = {run[c].gate}] /\ run' = [run EXCEPT ![c].mode = "store"]
    <2>1. RunGoes(c) /\ \A d \in Creations \ {c} : run'[d] = run[d]
      BY <1>1, <1>6, ModeGoes DEF Modes, Ending
    <2>2. listed'[c] = {run[c].gate} /\ \A d \in Creations \ {c} : listed'[d] = listed[d]
      BY <1>1, <1>6 DEF Typed
    <2>3. \A d \in Creations : MadeBy(d)' = MadeBy(d) /\ Len(clones) <= Len(clones')
      BY <1>1, <1>2 DEF MadeBy, Typed
    <2>4. \A d \in Creations \ {c} : Calm(d)
      BY <1>1, <1>2, <2>1, <2>2, <2>3, OtherCalm
    <2>5. Grows(c) /\ ~Untouched(c)
      BY <1>2, <1>3, <2>3 DEF Grows, Exists, Untouched
    <2>6. PaidHeld(c)'
      BY <1>1, <1>2 DEF PaidHeld, Started, KeysKept
    <2>7. Owned(c)'
      <3>1. GateOf(c, run[c].gate)
        BY <1>1, <1>3 DEF Owned
      <3>2. (Creating(c) => GateOf(c, run[c].gate))'
        BY <1>3, <2>1, <2>3, <3>1, IdleTyped DEF RunGoes, Creating, GateOf
      <3>3. ASSUME NEW g \in listed'[c] \cup saved'[c] PROVE GateOf(c, g)'
        BY <1>1, <1>2, <2>2, <2>3, <3>1 DEF Owned, GateOf
      <3>4. (records[c].gate # None => GateOf(c, records[c].gate))'
        BY <1>1, <1>2, <2>3 DEF Owned, GateOf
      <3> QED BY <1>1, <1>2, <2>3, <3>2, <3>3, <3>4 DEF Owned
    <2> QED BY <1>1, <1>2, <1>4, <2>4, <2>5, <2>6, <2>7, OneHeld
  <1>7. \/ listed' = listed /\ run' = [run EXCEPT ![c] = Idle]
        \/ listed' = [listed EXCEPT ![c] = {run[c].gate}] /\ run' = [run EXCEPT ![c].mode = "store"]
    BY DEF Lists, Ends
  <1> QED BY <1>5, <1>6, <1>7

LEMMA StoresHeld ==
    ASSUME BaseInv, HeldInv, NEW c \in Creations, Stores(c)
    PROVE  HeldInv'
  <1>1. Typed /\ run[c].mode = "store" /\ Spends
    BY DEF BaseInv, Stores, Spends, CreationEvents
  <1>2. UNCHANGED <<clones, onChain, records, keyring, present, listed, discarded, looks>> /\ ahead'.begin = ahead.begin
    BY <1>1, SpendsTyped DEF Stores, ledger
  <1>3. Typed'
    BY StoresBase DEF BaseInv
  <1>4. RunGoes(c) /\ \A d \in Creations \ {c} : run'[d] = run[d]
    <2>1. CASE run' = [run EXCEPT ![c] = Idle]
      BY <1>1, <2>1, EndGoes
    <2>2. CASE run' = [run EXCEPT ![c].mode = "adoptPublish"]
      BY <1>1, <2>2, ModeGoes DEF Modes, Ending
    <2>3. CASE run' = [run EXCEPT ![c].mode = "complete"]
      BY <1>1, <2>3, ModeGoes DEF Modes, Ending
    <2>4. \/ run' = [run EXCEPT ![c] = Idle] \/ run' = [run EXCEPT ![c].mode = "adoptPublish"]
          \/ run' = [run EXCEPT ![c].mode = "complete"]
      BY DEF Stores, Ends
    <2> QED BY <2>1, <2>2, <2>3, <2>4
  <1>5. ASSUME NEW d \in Creations PROVE Calm(d)
    <2>1. saved' = saved \/ (saved' = listed /\ present)
      BY DEF Stores
    <2>2. present /\ saved[d] # {} => listed[d] # {}
      BY DEF BaseInv, Base, Held
    <2>3. saved'[d] \in {saved[d], listed[d]} /\ (saved[d] # {} => saved'[d] # {})
      BY <2>1, <2>2
    <2>4. Unmoved(d)
      BY <1>2, <2>3 DEF Unmoved
    <2> QED BY <1>1, <1>4, <2>4, GoesCalm
  <1> QED BY <1>1, <1>2, <1>3, <1>5, AllCalm

LEMMA AdoptHeld ==
    ASSUME BaseInv, HeldInv, NEW c \in Creations, AdoptsPublish(c) \/ AdoptsInteractions(c)
    PROVE  HeldInv'
  <1>1. Typed
    BY DEF BaseInv
  <1>2. UNCHANGED <<clones, onChain, records, saved, present, listed, discarded, looks, ahead>>
    BY DEF AdoptsPublish, AdoptsInteractions, ledger
  <1>3. Typed'
    BY AdoptBase DEF BaseInv
  <1>4. RunGoes(c) /\ \A d \in Creations \ {c} : run'[d] = run[d]
    <2>1. CASE run' = [run EXCEPT ![c].mode = "adoptInteractions"]
      BY <1>1, <2>1, ModeGoes DEF Modes, Ending
    <2>2. CASE run' = [run EXCEPT ![c].mode = "complete"]
      BY <1>1, <2>2, ModeGoes DEF Modes, Ending
    <2> QED BY <2>1, <2>2 DEF AdoptsPublish, AdoptsInteractions
  <1>5. ASSUME NEW d \in Creations PROVE Calm(d)
    <2>1. \/ keyring' = keyring \/ keyring' = [keyring EXCEPT ![c].publish = 1]
          \/ keyring' = [keyring EXCEPT ![c].interactions = 1]
      BY DEF AdoptsPublish, AdoptsInteractions
    <2>2. /\ keyring[d].publish # None => keyring'[d].publish # None
          /\ keyring[d].interactions # None => keyring'[d].interactions # None
      <3>1. keyring \in [Creations -> [publish : Nat, interactions : Nat]] /\ 1 # None
        BY <1>1 DEF Typed, None
      <3>2. CASE keyring' = [keyring EXCEPT ![c].publish = 1]
        BY <3>1, <3>2
      <3>3. CASE keyring' = [keyring EXCEPT ![c].interactions = 1]
        BY <3>1, <3>3
      <3> QED BY <2>1, <3>2, <3>3
    <2>3. Unmoved(d)
      BY <1>2, <2>2 DEF Unmoved
    <2> QED BY <1>1, <1>4, <2>3, GoesCalm
  <1> QED BY <1>1, <1>2, <1>3, <1>5, AllCalm

\* the record of c is dropped
LEMMA OffHeld ==
    ASSUME BaseInv, BaseInv', HeldInv, NEW c \in Creations,
           UNCHANGED <<clones, onChain, saved, keyring, present, listed>>, ahead'.begin = ahead.begin,
           records' = [records EXCEPT ![c] = NoRecord], discarded \subseteq discarded', looks' \subseteq looks,
           run'[c] = Idle \/ (run'[c] = run[c] /\ ~Creating(c)), \A d \in Creations \ {c} : run'[d] = run[d],
           Started(c) => c \in discarded' \/ (saved[c] # {} /\ KeysKept(c))
    PROVE  HeldInv'
  <1>1. Typed /\ Typed' /\ Owned(c)
    BY DEF BaseInv, HeldInv
  <1>2. records'[c] = NoRecord /\ \A d \in Creations \ {c} : records'[d] = records[d]
    BY <1>1 DEF Typed
  <1>3. ~records'[c].on /\ records'[c].gate = None
    BY <1>2 DEF NoRecord
  <1>4. \A d \in Creations : MadeBy(d)' = MadeBy(d) /\ Len(clones) <= Len(clones')
    BY <1>1 DEF MadeBy, Typed
  <1>5. \A d \in Creations \ {c} : Calm(d)
    BY <1>1, <1>2, <1>4, OtherCalm
  <1>6. ~Creating(c)' /\ (Busy(c)' => Busy(c))
    BY IdleTyped DEF Creating, Busy
  <1>7. Started(c)' = Started(c) /\ Grows(c)
    BY <1>4 DEF Started, Grows, Exists
  <1>8. Owned(c)'
    <2>1. ASSUME NEW g \in listed'[c] \cup saved'[c] PROVE GateOf(c, g)'
      BY <1>1, <1>4 DEF Owned, GateOf
    <2> QED BY <1>3, <1>6, <2>1 DEF Owned
  <1>9. PaidHeld(c)' /\ (Untouched(c) => Untouched(c)')
    BY <1>3, <1>6, <1>7 DEF PaidHeld, KeysKept, Untouched
  <1> QED BY <1>1, <1>5, <1>7, <1>8, <1>9, OneHeld

LEMMA CompletesHeld ==
    ASSUME BaseInv, HeldInv, NEW c \in Creations, Completes(c)
    PROVE  HeldInv'
  <1>1. Typed /\ Base(c) /\ Held(c) /\ run[c].mode = "complete" /\ run' = [run EXCEPT ![c] = Idle]
    BY DEF BaseInv, Base, Completes
  <1>2. UNCHANGED <<clones, onChain, saved, keyring, present, listed, discarded, looks, ahead>>
    BY DEF Completes, ledger
  <1>3. BaseInv'
    BY CompletesBase
  <1>4. RunGoes(c) /\ run'[c] = Idle /\ \A d \in Creations \ {c} : run'[d] = run[d]
    BY <1>1, EndGoes, IdleTyped, RunGiven
  <1>5. CASE records' = records
    BY <1>2, <1>3, <1>4, <1>5, RunHeld
  <1>6. CASE present /\ records' = [records EXCEPT ![c] = NoRecord]
    <2>1. saved[c] # {} /\ KeysKept(c)
      BY <1>1, <1>6 DEF Held, Ending, KeysKept
    <2> QED BY <1>2, <1>3, <1>4, <1>6, <2>1, OffHeld
  <1> QED BY <1>5, <1>6 DEF Completes

LEMMA DiscardHeld ==
    ASSUME BaseInv, HeldInv, NEW c \in Creations, Discard(c)
    PROVE  HeldInv'
  <1>1. Typed /\ ~Creating(c) /\ Spends
    BY DEF BaseInv, Discard, Spends, CreationEvents
  <1>2. /\ UNCHANGED <<clones, onChain, saved, keyring, present, listed, run, looks>> /\ ahead'.begin = ahead.begin
        /\ discarded' = discarded \cup {c} /\ records' = [records EXCEPT ![c] = NoRecord]
    BY <1>1, SpendsTyped DEF Discard, ledger
  <1>3. BaseInv'
    BY DiscardBase
  <1> QED BY <1>1, <1>2, <1>3, OffHeld

LEMMA DiagnoseHeld ==
    ASSUME BaseInv, HeldInv, NEW c \in Creations, Diagnose(c)
    PROVE  HeldInv'
  <1>1. Typed /\ Typed' /\ Spends
    BY DiagnoseBase DEF BaseInv, Diagnose, Spends, CreationEvents
  <1>2. UNCHANGED <<clones, onChain, records, saved, keyring, present, listed, run, discarded, looks>> /\ ahead'.begin = ahead.begin
    BY <1>1, SpendsTyped DEF Diagnose, ledger, disk
  <1>3. ASSUME NEW d \in Creations PROVE Calm(d)
    <2>1. Unmoved(d)
      BY <1>2 DEF Unmoved
    <2> QED BY <1>1, <1>2, <2>1, GoesCalm
  <1> QED BY <1>1, <1>2, <1>3, AllCalm

LEMMA RepairHeld ==
    ASSUME BaseInv, HeldInv, NEW c \in Creations, Repair(c)
    PROVE  HeldInv'
  <1>1. Typed /\ Typed' /\ listed[c] # {}
    BY RepairBase DEF BaseInv, Repair
  <1>2. UNCHANGED <<clones, onChain, records, saved, keyring, present, listed, discarded, looks, ahead>>
    BY DEF Repair, ledger, disk
  <1> DEFINE q == report[c].steps
             b == FALSE
             r == Start("repair", q, None, b)
  <1>3. q \in Seq(StepSet) /\ q # <<>> /\ b \in BOOLEAN
    BY <1>1 DEF Repair, Typed
  <1>4. run' = [run EXCEPT ![c] = r]
    BY DEF Repair
  <1> HIDE DEF q, b
  <1>5. r \in RunSet /\ r.kind = "repair"
    BY <1>3, RepairStarts
  <1> HIDE DEF r
  <1>6. run'[c] = r /\ \A d \in Creations \ {c} : run'[d] = run[d]
    BY <1>1, <1>4, <1>5, RunGiven
  <1>7. \A d \in Creations : MadeBy(d)' = MadeBy(d) /\ Len(clones) <= Len(clones')
    BY <1>1, <1>2 DEF MadeBy, Typed
  <1>8. \A d \in Creations \ {c} : Calm(d)
    BY <1>1, <1>2, <1>6, <1>7, OtherCalm
  <1>9. Calm(c)
    <2>1. ~Creating(c)'
      BY <1>5, <1>6 DEF Creating
    <2> QED BY <1>1, <1>2, <1>7, <2>1 DEF Calm, Grows, Exists
  <1> QED BY <1>1, <1>2, <1>8, <1>9, AllCalm

LEMMA RepairedHeld ==
    ASSUME BaseInv, HeldInv, NEW c \in Creations, Repaired(c)
    PROVE  HeldInv'
  <1>1. Typed /\ BaseInv'
    BY RepairedBase DEF BaseInv
  <1>2. UNCHANGED <<clones, onChain, records, saved, keyring, present, listed, discarded, looks, ahead>>
    BY DEF Repaired, ledger, disk
  <1>3. RunGoes(c) /\ \A d \in Creations \ {c} : run'[d] = run[d]
    BY <1>1, EndGoes DEF Repaired
  <1> QED BY <1>1, <1>2, <1>3, RunHeld

LEMMA ReloadHeld ==
    ASSUME BaseInv, HeldInv, Reload
    PROVE  HeldInv'
  <1>1. Typed /\ Typed' /\ Spends
    BY ReloadBase DEF BaseInv, Reload, Spends, CreationEvents
  <1>2. /\ UNCHANGED <<clones, onChain, records, saved, keyring, present, discarded>> /\ ahead'.begin = ahead.begin
        /\ listed' = saved /\ looks' = {} /\ run' = [c \in Creations |-> Idle]
    BY <1>1, SpendsTyped DEF Reload, Forgets, ledger, disk
  <1>3. ASSUME NEW d \in Creations PROVE Calm(d)
    <2>1. Unmoved(d) /\ RunGoes(d)
      BY <1>2 DEF Unmoved, RunGoes
    <2> QED BY <1>1, <2>1, GoesCalm
  <1> QED BY <1>1, <1>2, <1>3, AllCalm

LEMMA AwayHeld ==
    ASSUME BaseInv, HeldInv, Away \/ Back
    PROVE  HeldInv'
  <1>1. Typed /\ Typed' /\ Spends
    BY AwayBase DEF BaseInv, Away, Back, Spends, CreationEvents
  <1>2. /\ UNCHANGED <<clones, onChain, records, saved, keyring, run, discarded, looks>> /\ ahead'.begin = ahead.begin
        /\ listed' = [c \in Creations |-> {}] \/ listed' = saved
    BY <1>1, SpendsTyped DEF Away, Back, ledger, disk
  <1>3. ASSUME NEW d \in Creations PROVE Calm(d)
    <2>1. Unmoved(d)
      BY <1>2 DEF Unmoved
    <2> QED BY <1>1, <1>2, <2>1, GoesCalm
  <1> QED BY <1>1, <1>2, <1>3, AllCalm

LEMMA HourHeld ==
    ASSUME BaseInv, HeldInv, Hour
    PROVE  HeldInv'
  <1>1. Typed /\ Typed' /\ Spends
    BY HourBase DEF BaseInv, Hour, Spends, CreationEvents
  <1>2. UNCHANGED <<clones, onChain, saved, keyring, listed, run, discarded, looks>> /\ ahead'.begin = ahead.begin
    BY <1>1, SpendsTyped DEF Hour, ledger, memory
  <1> DEFINE old(c) == records[c].old \/ records[c].on
  <1>3. records' = [c \in Creations |-> [records[c] EXCEPT !.old = old(c)]]
    BY DEF Hour
  <1> HIDE DEF old
  <1>4. ASSUME NEW d \in Creations PROVE Calm(d)
    <2>1. records'[d].on = records[d].on /\ records'[d].gate = records[d].gate /\ records'[d].start = records[d].start
      BY <1>1, <1>3 DEF Typed
    <2>2. Unmoved(d)
      BY <1>2, <2>1 DEF Unmoved
    <2> QED BY <1>1, <1>2, <2>2, GoesCalm
  <1> QED BY <1>1, <1>2, <1>4, AllCalm

LEMMA RekeyHeld ==
    ASSUME BaseInv, HeldInv, NEW c \in Creations, Rekey(c)
    PROVE  HeldInv'
  <1>1. Typed /\ Typed' /\ Spends
    BY RekeyBase DEF BaseInv, Rekey, Spends, CreationEvents
  <1>2. UNCHANGED <<clones, records, saved, present, listed, run, discarded, looks>> /\ ahead'.begin = ahead.begin
    BY <1>1, SpendsTyped DEF Rekey, memory
  <1>3. keyring[c].publish \in Nat /\ keyring[c].publish + 1 \in Nat /\ keyring[c].publish + 1 # None
    BY <1>1 DEF Typed, None
  <1>4. \A d \in Creations : /\ keyring'[d].interactions = keyring[d].interactions
                             /\ keyring[d].publish # None => keyring'[d].publish # None
    BY <1>1, <1>3 DEF Rekey, Typed
  <1> DEFINE after == {Regrant(w) : w \in onChain[c]}
  <1>5. onChain' = [onChain EXCEPT ![c] = after]
    BY DEF Rekey, Regrant
  <1>6. onChain[c] \subseteq Writes /\ (after # {} => onChain[c] # {})
    BY <1>1 DEF Typed
  <1>7. Exists(c, "message") => \E w \in after : w.op = "stream" /\ w.on = "message"
    <2>1. ASSUME NEW w \in onChain[c], w.op = "stream", w.on = "message" PROVE w \in after
      BY <2>1, <1>6, Regrants
    <2> QED BY <2>1 DEF Exists
  <1> HIDE DEF after
  <1>8. onChain'[c] = after /\ \A d \in Creations \ {c} : onChain'[d] = onChain[d]
    BY <1>1, <1>5 DEF Typed
  <1>9. ASSUME NEW d \in Creations PROVE Calm(d)
    <2>1. MadeBy(d)' = MadeBy(d) /\ Len(clones) <= Len(clones')
      BY <1>1, <1>2 DEF MadeBy, Typed
    <2>2. Exists(d, "message") => Exists(d, "message")'
      BY <1>7, <1>8 DEF Exists
    <2>3. onChain'[d] # {} => onChain[d] # {}
      BY <1>6, <1>8
    <2>4. (Busy(d)' => Busy(d)) /\ Creating(d)' = Creating(d) /\ Deploying(d)' = Deploying(d)
      BY <1>2 DEF Busy, Creating, Deploying
    <2>5. Grows(d)
      BY <1>2, <2>1, <2>2 DEF Grows
    <2> QED BY <1>2, <1>4, <2>1, <2>3, <2>4, <2>5 DEF Calm
  <1> QED BY <1>1, <1>2, <1>9, AllCalm

-----------------------------------------------------------------------------
(* Each action keeps what was paid for: what the chain answers *)

LEMMA ClonesTyped ==
    ASSUME Typed
    PROVE  \A i \in DOMAIN clones : clones[i].by \in Gated /\ i \in Nat /\ i # 0
  <1>1. clones \in Seq([by : Gated, mine : BOOLEAN])
    BY DEF Typed
  <1> DEFINE C == [by : Gated, mine : BOOLEAN]
  <1> HIDE DEF C
  <1>2. Len(clones) \in Nat /\ DOMAIN clones = 1..Len(clones) /\ \A i \in 1..Len(clones) : clones[i] \in C
    <2>1. clones \in Seq(C)
      BY <1>1 DEF C
    <2> QED BY <2>1
  <1>3. \A i \in 1..Len(clones) : i \in Nat /\ i # 0
    BY <1>2
  <1> QED BY <1>2, <1>3 DEF C

LEMMA JudgedHeld ==
    ASSUME BaseInv, BaseInv', HeldInv, NEW l \in LookSet, Judged(l),
           AnswerTrue(l) \/ (l.found = None /\ l.seen = "there" /\ l.of \in Gated /\ records[l.of].gate # None),
           UNCHANGED <<clones, onChain, saved, keyring, present, listed, ahead, discarded>>, looks' \subseteq looks
    PROVE  HeldInv'
  <1> DEFINE c == l.of
             there == present /\ records[c].on
             late == l.found # None /\ (Creating(c) \/ ~there)
             g == records'[c].gate
  <1>1. Typed /\ Typed' /\ c \in Creations /\ l.found \in Nat /\ l.seen \in {"unread", "there", "missing"}
    BY DEF BaseInv, LookSet
  <1>2. Owned(c) /\ PaidHeld(c) /\ Base(c)
    BY <1>1 DEF HeldInv, BaseInv
  <1>3. CASE UNCHANGED <<records, run>>
    <2>1. ASSUME NEW d \in Creations PROVE Calm(d)
      <3>1. Unmoved(d)
        BY <1>3 DEF Unmoved
      <3> QED BY <1>1, <1>3, <3>1, GoesCalm
    <2> QED BY <1>1, <2>1, AllCalm
  <1>4. CASE /\ l.seen = "missing" /\ ~Creating(c) /\ run' = run /\ records' = [records EXCEPT ![c] = NoRecord]
    <2>1. ~Started(c)
      BY <1>4 DEF AnswerTrue, Untouched
    <2> HIDE DEF c
    <2> QED BY <1>1, <1>4, <2>1, OffHeld
  <1>5. CASE /\ l.seen = "there" /\ ~late
             /\ records' = IF l.found = None THEN records ELSE [records EXCEPT ![c].gate = l.found]
             /\ \/ run' = run
                \/ ~Busy(c) /\ there /\ run' = [run EXCEPT ![c] = Start("create", CreatePlan(c, g, TRUE), g, TRUE)]
    <2>1. /\ records'[c].on = records[c].on /\ records'[c].start = records[c].start
          /\ records'[c].gate = IF l.found = None THEN records[c].gate ELSE l.found
          /\ \A d \in Creations \ {c} : records'[d] = records[d]
      BY <1>1, <1>5 DEF Typed
    <2>2. \A d \in Creations : MadeBy(d)' = MadeBy(d) /\ Len(clones) <= Len(clones') /\ None \notin MadeBy(d)
      BY <1>1 DEF MadeBy, Typed, None
    <2>3. /\ l.found = None /\ c \in Gated => records[c].gate # None
          /\ l.found # None => c \in Gated /\ l.found \in MadeBy(c) /\ clones[l.found].mine
          /\ c \notin Gated => Exists(c, "message")
      BY <1>1, <1>5, <2>2 DEF AnswerTrue
    <2>4. ~Untouched(c) /\ Grows(c)
      <3>1. l.found # None => Started(c)
        BY <2>3, StartedBy, <1>1
      <3>2. c \notin Gated => Started(c)
        BY <2>3 DEF Exists, Started
      <3> QED BY <1>1, <2>2, <2>3, <3>1, <3>2 DEF Untouched, Grows, Exists
    <2>5. GateOf(c, g)
      <3>1. CASE l.found = None /\ c \in Gated
        BY <1>2, <2>1, <2>3, <3>1 DEF Owned
      <3>2. CASE l.found = None /\ c \notin Gated
        BY <1>2, <2>1, <3>2 DEF Owned, GateOf
      <3>3. CASE l.found # None
        BY <2>1, <2>3, <3>3 DEF GateOf
      <3> QED BY <3>1, <3>2, <3>3
    <2>6. \A d \in Creations \ {c} : run'[d] = run[d]
      <3> DEFINE r == Start("create", CreatePlan(c, g, TRUE), g, TRUE)
      <3> HIDE DEF r, g, c
      <3>1. run' = run \/ run' = [run EXCEPT ![c] = r]
        BY <1>5 DEF r
      <3> QED BY <1>1, <3>1 DEF Typed
    <2>7. Creating(c)' /\ ~Deploying(c)' => run'[c].gate = g \/ (run'[c] = run[c] /\ Creating(c) /\ ~Deploying(c))
      <3>1. CASE run' = run
        BY <3>1 DEF Creating, Deploying
      <3>2. CASE run' = [run EXCEPT ![c] = Start("create", CreatePlan(c, g, TRUE), g, TRUE)]
        <4> DEFINE t == TRUE
                   q == CreatePlan(c, g, t)
                   r == Start("create", q, g, t)
        <4>1. t \in BOOLEAN /\ g \in Nat
          BY <1>1 DEF Typed
        <4> HIDE DEF g, c, there, late
        <4>2. run' = [run EXCEPT ![c] = r]
          BY <3>2
        <4> HIDE DEF t
        <4>3. q \in Seq(StepSet) /\ q # <<>>
          BY <1>1, <4>1, PlanHolds
        <4> HIDE DEF q
        <4>4. r.gate = g
          <5>1. \A p \in Seq(StepSet), h \in Nat, b \in BOOLEAN : p # <<>> => Start("create", p, h, b).gate = h
            BY StartsCreate
          <5> QED BY <4>1, <4>3, <5>1
        <4> HIDE DEF r
        <4>5. run'[c] = r
          BY <1>1, <4>2 DEF Typed
        <4> QED BY <4>4, <4>5
      <3> QED BY <1>5, <3>1, <3>2
    <2>8. Owned(c)'
      <3>1. ASSUME NEW h \in listed'[c] \cup saved'[c] PROVE GateOf(c, h)'
        BY <1>1, <1>2, <2>2 DEF Owned, GateOf
      <3>2. \A h : GateOf(c, h)' <=> GateOf(c, h)
        BY <1>1, <2>2 DEF GateOf
      <3> DEFINE rg == run'[c].gate
      <3>3. Creating(c)' /\ ~Deploying(c)' => GateOf(c, rg)
        BY <1>2, <2>5, <2>7 DEF Owned
      <3>4. (Creating(c) /\ ~Deploying(c) => GateOf(c, run[c].gate))'
        BY <1>1, <3>3, <2>2 DEF GateOf
      <3>5. (records[c].gate # None => GateOf(c, records[c].gate))'
        BY <1>1, <2>5, <2>2 DEF GateOf
      <3> QED BY <1>1, <1>2, <2>1, <2>2, <3>1, <3>4, <3>5 DEF Owned
    <2>9. PaidHeld(c)'
      BY <1>2, <2>1, <2>2 DEF PaidHeld, KeysKept, Started
    <2>10. \A d \in Creations \ {c} : Calm(d)
      BY <1>1, <2>1, <2>2, <2>6, OtherCalm
    <2> HIDE DEF c
    <2> QED BY <1>1, <2>4, <2>8, <2>9, <2>10, OneHeld
  <1>6. \/ UNCHANGED <<records, run>>
        \/ /\ l.seen = "missing" /\ ~Creating(c) /\ run' = run /\ records' = [records EXCEPT ![c] = NoRecord]
        \/ /\ l.seen = "there" /\ ~late
           /\ records' = IF l.found = None THEN records ELSE [records EXCEPT ![c].gate = l.found]
           /\ \/ run' = run
              \/ ~Busy(c) /\ there /\ run' = [run EXCEPT ![c] = Start("create", CreatePlan(c, g, TRUE), g, TRUE)]
    BY DEF Judged
  <1> QED BY <1>3, <1>4, <1>5, <1>6

\* under one mode each, the clone that is found is the creation's own, and none is missed
LEMMA FindsOwn ==
    ASSUME OneEach, BaseInv, HeldInv, NEW c \in Gated, records[c].on, records[c].gate = None, ~Creating(c)
    PROVE  /\ FoundGate(c) # None => FoundGate(c) \in MadeBy(c) /\ clones[FoundGate(c)].mine
           /\ FoundGate(c) = None => Untouched(c)
  <1>1. Typed /\ c \in Creations /\ Gated \subseteq Creations
    BY CreationAssumption DEF BaseInv
  <1>2. Base(c) /\ Owned(c) /\ Bare(c) /\ Fresh(c)
    BY <1>1 DEF BaseInv, HeldInv, Base
  <1>3. onChain[c] = {} /\ listed[c] = {} /\ saved[c] = {} /\ ~Busy(c) /\ c \notin ahead.begin
    BY <1>2 DEF Bare, Fresh, Deploying
  <1>4. \A i \in DOMAIN clones : clones[i].by \in Gated /\ i # None
    BY <1>1, ClonesTyped DEF None
  <1>5. FoundGate(c) # None => FoundGate(c) \in MadeBy(c) /\ clones[FoundGate(c)].mine
    <2>1. SUFFICES ASSUME FoundGate(c) # None PROVE FoundGate(c) \in MadeBy(c) /\ clones[FoundGate(c)].mine
      OBVIOUS
    <2>2. FoundGate(c) \in FoundGates(c)
      BY <1>1, <2>1, Found DEF FoundGate
    <2> QED BY <1>4, <2>2 DEF FoundGates, MadeBy, OneEach
  <1>6. FoundGate(c) = None => Untouched(c)
    <2>1. SUFFICES ASSUME FoundGate(c) = None, NEW i \in MadeBy(c), clones[i].mine PROVE FALSE
      <3>1. ~Started(c) => Untouched(c)
        BY <1>3 DEF Untouched
      <3> QED BY <1>3, <3>1, StartedBy, <1>1
    <2>2. i \in DOMAIN clones /\ i > records[c].start /\ Mode[clones[i].by] = Mode[c] /\ clones[i].by = c
      BY <1>2 DEF MadeBy, Owned
    <2>3. i \notin FoundGates(c)
      BY <1>1, <2>1, Found
    <2>4. PICK d \in Creations : i \in listed[d] \/ records[d].gate = i
      BY <2>1, <2>2, <2>3 DEF FoundGates
    <2>5. GateOf(d, i)
      BY <1>4, <2>2, <2>4 DEF HeldInv, Owned
    <2>6. d = c
      BY <1>4, <2>2, <2>5 DEF GateOf, MadeBy
    <2> QED BY <1>3, <1>4, <2>2, <2>4, <2>6
  <1> QED BY <1>5, <1>6

LEMMA QuestionHeld ==
    ASSUME OneEach, BaseInv, BaseInv', HeldInv, NEW c \in Creations, NEW finish \in BOOLEAN, Question(c, finish),
           records[c].on, ~Creating(c),
           UNCHANGED <<clones, onChain, saved, keyring, present, listed, discarded>>
    PROVE  HeldInv'
  <1> DEFINE base == [of |-> c, finish |-> finish, found |-> None, seen |-> "there"]
             g == FoundGate(c)
  <1>1. Typed /\ Typed'
    BY DEF BaseInv
  <1>2. base \in LookSet /\ base.found = None /\ base.of = c /\ base.seen = "there"
    BY DEF LookSet, None
  <1>3. CASE c \in Gated /\ records[c].gate # None
    <2>1. Judged(base) /\ looks' = looks /\ ahead' = ahead
      BY <1>3 DEF Question
    <2> HIDE DEF base
    <2> QED BY <1>2, <1>3, <2>1, JudgedHeld
  <1>4. CASE ~(c \in Gated /\ records[c].gate # None)
    <2>1. UNCHANGED <<states, records, run>> /\ Spends
      BY <1>4 DEF Question, Spends, CreationEvents
    <2>2. ahead'.begin = ahead.begin
      BY <1>1, <2>1, SpendsTyped
    <2>3. PICK v : /\ looks' = looks \cup {v}
                   /\ \/ v = [base EXCEPT !.seen = "unread"]
                      \/ c \in Gated /\ v = [base EXCEPT !.found = g, !.seen = IF g = None THEN "missing" ELSE "there"]
                      \/ c \notin Gated /\ v = [base EXCEPT !.seen = IF Exists(c, "message") THEN "there" ELSE "missing"]
      BY <1>4 DEF Question
    <2>4. ASSUME NEW d \in Creations PROVE Calm(d)
      <3>1. Unmoved(d)
        BY <2>1, <2>2 DEF Unmoved
      <3> QED BY <1>1, <2>1, <3>1, GoesCalm
    <2>5. ASSUME NEW d \in Creations
          PROVE  Owned(d)' /\ PaidHeld(d)' /\ (Untouched(d) => Untouched(d)') /\ Grows(d)
      BY <1>1, <2>4, CalmHeld DEF HeldInv, Calm
    <2>6. ASSUME NEW l \in LookSet, AnswerTrue(l) PROVE AnswerTrue(l)'
      <3>1. l.of \in Creations
        BY DEF LookSet
      <3>2. Grows(l.of) /\ (Untouched(l.of) => Untouched(l.of)')
        BY <2>5, <3>1
      <3>3. MadeBy(l.of)' = MadeBy(l.of)
        BY DEF MadeBy
      <3> QED BY <2>6, <3>2, <3>3 DEF AnswerTrue, Grows
    <2>7. v \in LookSet /\ AnswerTrue(v)
      <3>1. CASE v = [base EXCEPT !.seen = "unread"]
        BY <3>1 DEF LookSet, None, AnswerTrue
      <3>2. CASE c \in Gated /\ v = [base EXCEPT !.found = g, !.seen = IF g = None THEN "missing" ELSE "there"]
        <4>1. g \in Nat
          BY <1>1, Found
        <4>2. /\ g # None => g \in MadeBy(c) /\ clones[g].mine
              /\ g = None => Untouched(c)
          BY <1>4, <3>2, FindsOwn
        <4> HIDE DEF g
        <4>3. v.of = c /\ v.found = g /\ v.seen = (IF g = None THEN "missing" ELSE "there") /\ v \in LookSet
          BY <3>2, <4>1 DEF LookSet
        <4> QED BY <3>2, <4>2, <4>3 DEF AnswerTrue
      <3>3. CASE c \notin Gated /\ v = [base EXCEPT !.seen = IF Exists(c, "message") THEN "there" ELSE "missing"]
        <4>1. v.of = c /\ v.found = None /\ v.seen = (IF Exists(c, "message") THEN "there" ELSE "missing") /\ v \in LookSet
          BY <3>3 DEF LookSet, None
        <4>2. ~Exists(c, "message") => Untouched(c)
          <5>1. SUFFICES ASSUME ~Exists(c, "message") PROVE Untouched(c)
            OBVIOUS
          <5>2. Base(c) /\ Owned(c) /\ Founded(c) /\ Fresh(c)
            BY DEF BaseInv, HeldInv, Base
          <5>3. onChain[c] = {} /\ listed[c] = {} /\ saved[c] = {} /\ run[c].kind = "idle"
            BY <5>1, <5>2, <1>1 DEF Founded, Creating, Typed, RunSet
          <5>4. MadeBy(c) = {}
            BY <1>1, <3>3, ClonesTyped DEF MadeBy
          <5>5. records[c].gate = None
            BY <3>3, <5>2 DEF Owned, GateOf
          <5> QED BY <5>2, <5>3, <5>4, <5>5, StartedBy DEF Untouched, Busy, Fresh
        <4> QED BY <3>3, <4>1, <4>2 DEF AnswerTrue
      <3> QED BY <2>3, <3>1, <3>2, <3>3
    <2>8. \A l \in looks' : AnswerTrue(l)'
      <3>1. \A l \in looks : l \in LookSet /\ AnswerTrue(l)
        BY <1>1 DEF HeldInv, Typed
      <3> QED BY <2>3, <2>6, <2>7, <3>1
    <2> QED BY <2>5, <2>8 DEF HeldInv
  <1> QED BY <1>3, <1>4

LEMMA AskedHeld ==
    ASSUME OneEach, BaseInv, HeldInv, NEW c \in Creations, Reconcile(c) \/ Finish(c)
    PROVE  HeldInv'
  <1>1. UNCHANGED <<clones, onChain, saved, keyring, present, listed, discarded>>
    BY DEF Reconcile, Finish, ledger
  <1>2. BaseInv' /\ Typed /\ Typed'
    BY AskedBase DEF BaseInv
  <1> DEFINE f == FALSE
             t == TRUE
  <1>3. f \in BOOLEAN /\ t \in BOOLEAN
    OBVIOUS
  <1>4. \/ UNCHANGED <<states, records, run, looks, ahead>>
        \/ records[c].on /\ ~Creating(c) /\ (Question(c, f) \/ Question(c, t))
    BY DEF Reconcile, Finish, Busy, Creating
  <1> HIDE DEF f, t
  <1>5. CASE UNCHANGED <<states, records, run, looks, ahead>>
    <2>1. ASSUME NEW d \in Creations PROVE Calm(d)
      <3>1. Unmoved(d)
        BY <1>1, <1>5 DEF Unmoved
      <3> QED BY <1>2, <1>5, <3>1, GoesCalm
    <2> QED BY <1>2, <1>5, <2>1, AllCalm
  <1>6. CASE records[c].on /\ ~Creating(c) /\ (Question(c, f) \/ Question(c, t))
    BY <1>1, <1>2, <1>3, <1>6, QuestionHeld
  <1> QED BY <1>4, <1>5, <1>6

LEMMA AnswersHeld ==
    ASSUME BaseInv, HeldInv, ChainAnswers
    PROVE  HeldInv'
  <1>1. PICK l \in looks : looks' = looks \ {l} /\ Judged(l)
            /\ UNCHANGED <<clones, onChain, saved, keyring, present, listed, ahead, discarded>>
    BY DEF ChainAnswers, ledger
  <1>2. l \in LookSet /\ AnswerTrue(l) /\ looks' \subseteq looks
    BY <1>1 DEF BaseInv, Typed, HeldInv
  <1>3. BaseInv'
    BY AnswersBase
  <1> QED BY <1>1, <1>2, <1>3, JudgedHeld

LEMMA InitHeld == CreationInit => HeldInv
  <1> SUFFICES ASSUME CreationInit PROVE HeldInv
    OBVIOUS
  <1>1. /\ clones = <<>> /\ onChain = [c \in Creations |-> {}] /\ records = [c \in Creations |-> NoRecord]
        /\ saved = [c \in Creations |-> {}] /\ listed = saved /\ run = [c \in Creations |-> Idle] /\ looks = {}
    BY DEF CreationInit
  <1>2. ASSUME NEW c \in Creations PROVE Owned(c) /\ PaidHeld(c)
    <2>1. MadeBy(c) = {} /\ ~Started(c)
      BY <1>1 DEF MadeBy, Started
    <2>2. ~Creating(c) /\ records[c].gate = None /\ ~records[c].on
      BY <1>1, IdleTyped DEF Creating, NoRecord
    <2> QED BY <1>1, <2>1, <2>2 DEF Owned, PaidHeld
  <1> QED BY <1>1, <1>2 DEF HeldInv

LEMMA StutterHeld == ASSUME BaseInv, HeldInv, UNCHANGED creationVars PROVE HeldInv'
  <1>1. UNCHANGED <<clones, onChain, records, saved, keyring, present, listed, run, looks, ahead, discarded>> /\ Typed /\ Typed'
    BY StutterBase DEF creationVars, ledger, disk, memory, BaseInv
  <1>2. ASSUME NEW d \in Creations PROVE Calm(d)
    <2>1. Unmoved(d)
      BY <1>1 DEF Unmoved
    <2> QED BY <1>1, <2>1, GoesCalm
  <1> QED BY <1>1, <1>2, AllCalm

LEMMA NextHeld == ASSUME OneEach, BaseInv, HeldInv, [CreationNext]_creationVars PROVE HeldInv'
  <1>1. CASE UNCHANGED creationVars
    BY <1>1, StutterHeld
  <1>2. CASE Work
    BY <1>2, AnswersHeld, AskHeld, SendHeld, ReceiptHeld, RecoverHeld, ListsHeld, StoresHeld, AdoptHeld,
       CompletesHeld, AskedHeld, RepairedHeld DEF Work
  <1>3. CASE User
    BY <1>3, BeginHeld, AskedHeld, DiscardHeld, DiagnoseHeld, RepairHeld, RekeyHeld DEF User
  <1>4. CASE World
    BY <1>4, ReloadHeld, AwayHeld, HourHeld DEF World
  <1> QED BY <1>1, <1>2, <1>3, <1>4 DEF CreationNext

\* As long as no two gated creations have one mode, what a creation has paid for is pending in the
\* account's records, or saved as a channel with the shared keys that its grants name, until the user
\* discards it: whatever is refused, lost, unread or reloaded, whoever is signed in (_runCreate,
\* PendingCreates).
THEOREM KeepsPaid == ASSUME OneEach PROVE CreationSpec => []PaidIsHeld
  <1>1. BaseInv /\ HeldInv => PaidIsHeld
    BY DEF HeldInv, PaidHeld, PaidIsHeld
  <1>2. CreationInit => BaseInv /\ HeldInv
    BY InitBase, InitHeld
  <1>3. BaseInv /\ HeldInv /\ [CreationNext]_creationVars => (BaseInv /\ HeldInv)'
    BY NextBase, NextHeld
  <1> QED BY <1>1, <1>2, <1>3, PTL DEF CreationSpec

-----------------------------------------------------------------------------
(* A repair leaves nothing: the invariant *)

\* what the check asks for
Needed(c, g) == {Write("stream", s, g) : s \in RolesOf(c)} \cup {OwnGrant(c, s, g).w : s \in RolesOf(c)}
                \cup {Write("node", s, g) : s \in RolesOf(c) \ {"ephemeral"}}

\* what is not in place is still to be sent
Left(c, g, q) == \A w \in Needed(c, g) : InPlace(c, w) \/ w \in Writing(q)

\* a report of every stream names all that is not in place
Tells(c) ==
    /\ Mends(report[c].steps)
    /\ report[c].steps # <<>> /\ c \in Gated => MadeBy(c) # {}
    /\ \A g \in Nat : GateOf(c, g) /\ report[c].full /\ report[c].steps # <<>> => Left(c, g, report[c].steps)

\* a repair with no failure has put in place what it sent of it
Works(c) == run[c].kind = "repair" =>
    /\ Mends(run[c].todo) /\ run[c].mode # "recover"
    /\ run[c].mode = "mined" => InPlace(c, Current(c).w)
    /\ \A g \in Nat : GateOf(c, g) /\ report[c].full /\ ~run[c].failed => Left(c, g, run[c].todo)

Mended(c) == Tells(c) /\ Works(c)
MendedInv == \A c \in Creations : Mended(c)

\* the report of c, and what it asked for and is in place, stay
Stands(c) == /\ report'[c] = report[c] /\ MadeBy(c)' = MadeBy(c)
             /\ \A g \in Nat : \A w \in Needed(c, g) : InPlace(c, w) => InPlace(c, w)'

LEMMA StaysInPlace ==
    ASSUME NEW c \in Creations, onChain[c] \subseteq onChain'[c]
    PROVE  \A w : InPlace(c, w) => InPlace(c, w)'
  <1>1. \A s : Exists(c, s) => Exists(c, s)'
    BY DEF Exists
  <1>2. ASSUME NEW w, InPlace(c, w) PROVE InPlace(c, w)'
    <2>1. CASE w.op = "stream"
      BY <1>1, <1>2, <2>1 DEF InPlace
    <2>2. CASE w.op = "clone"
      BY <1>2, <2>2 DEF InPlace
    <2>3. CASE w.op # "stream" /\ w.op # "clone"
      BY <1>2, <2>3 DEF InPlace
    <2> QED BY <2>1, <2>2, <2>3
  <1> QED BY <1>2

LEMMA NeededOps ==
    ASSUME NEW c \in Creations, NEW g \in Nat, NEW w \in Needed(c, g)
    PROVE  /\ w.op \in {"stream", "clone", "grant", "node"}
           /\ w.op = "grant" => c \notin Gated \/ w.on \notin {"message", "ephemeral"}
  <1>1. RolesOf(c) \subseteq Streams
    BY RolesTyped
  <1>2. CASE \E s \in RolesOf(c) : w = OwnGrant(c, s, g).w
    <2>1. PICK s \in RolesOf(c) : w = OwnGrant(c, s, g).w
      BY <1>2
    <2>2. /\ OwnGrant(c, s, g).w.on = s
          /\ OwnGrant(c, s, g).w.op = IF c \in Gated /\ s \in {"message", "ephemeral", "interactions"} THEN "clone" ELSE "grant"
      BY <1>1, GrantHolds
    <2> QED BY <2>1, <2>2
  <1>3. CASE \E s \in RolesOf(c) : w = Write("stream", s, g) \/ w = Write("node", s, g)
    BY <1>3 DEF Write
  <1> QED BY <1>2, <1>3 DEF Needed

LEMMA StandsOn ==
    ASSUME NEW c \in Creations, onChain[c] \subseteq onChain'[c], report'[c] = report[c], MadeBy(c)' = MadeBy(c)
    PROVE  Stands(c)
  BY StaysInPlace DEF Stands

LEMMA LeftStands ==
    ASSUME NEW c \in Creations, NEW g \in Nat, NEW q, Left(c, g, q), Stands(c)
    PROVE  \A w \in Needed(c, g) : InPlace(c, w)' \/ w \in Writing(q)
  BY DEF Left, Stands

LEMMA TellsStill ==
    ASSUME NEW c \in Creations, Tells(c), Stands(c)
    PROVE  Tells(c)'
  <1>1. report'[c] = report[c] /\ MadeBy(c)' = MadeBy(c)
    BY DEF Stands
  <1> DEFINE q == report[c].steps
  <1>2. ASSUME NEW g \in Nat, GateOf(c, g)', report'[c].full, report'[c].steps # <<>>
        PROVE  (Left(c, g, report[c].steps))'
    <2>1. Left(c, g, q)
      BY <1>1, <1>2 DEF Tells, GateOf
    <2>2. \A w \in Needed(c, g) : InPlace(c, w)' \/ w \in Writing(q)
      BY <2>1, LeftStands
    <2> QED BY <1>1, <2>2 DEF Left, Needed
  <1> QED BY <1>1, <1>2 DEF Tells

\* the run keeps what it has left
LEMMA WorksStill ==
    ASSUME NEW c \in Creations, Works(c), Stands(c), run'[c].kind = "repair" => run[c].kind = "repair",
           run'[c].kind = "repair" => /\ run'[c].todo = run[c].todo /\ (~run'[c].failed => ~run[c].failed)
                                      /\ run'[c].mode # "recover"
                                      /\ run'[c].mode = "mined" => InPlace(c, Current(c).w)'
    PROVE  Works(c)'
  <1>1. report'[c] = report[c] /\ MadeBy(c)' = MadeBy(c)
    BY DEF Stands
  <1> DEFINE q == run[c].todo
  <1>2. SUFFICES ASSUME run'[c].kind = "repair" PROVE Works(c)'
    BY DEF Works
  <1>3. Mends(q) /\ run'[c].todo = q
    BY <1>2 DEF Works
  <1>4. ASSUME NEW g \in Nat, GateOf(c, g)', report'[c].full, ~run'[c].failed
        PROVE  (Left(c, g, run[c].todo))'
    <2>1. Left(c, g, q)
      BY <1>1, <1>2, <1>4 DEF Works, GateOf
    <2>2. \A w \in Needed(c, g) : InPlace(c, w)' \/ w \in Writing(q)
      BY <2>1, LeftStands
    <2> QED BY <1>3, <2>2 DEF Left, Needed
  <1> QED BY <1>2, <1>3, <1>4 DEF Works

LEMMA DropsOne ==
    ASSUME NEW q \in Seq(StepSet), NEW n \in {1, 2}
    PROVE  /\ ToSet(Drop(q, n)) \subseteq ToSet(q)
           /\ ToSet(q) \subseteq ToSet(Drop(q, 1)) \cup {q[1]}
  <1> DEFINE S == StepSet
  <1> HIDE DEF S
  <1>1. q \in Seq(S)
    BY DEF S
  <1>2. /\ \A i \in DOMAIN Drop(q, n) : i + n \in DOMAIN q /\ Drop(q, n)[i] = q[i + n]
    BY DropHolds
  <1>3. \A i \in DOMAIN q : i # 1 => i - 1 \in DOMAIN Drop(q, 1) /\ Drop(q, 1)[i - 1] = q[i]
    <2>1. Len(q) \in Nat /\ DOMAIN q = 1..Len(q)
      BY <1>1
    <2>2. DOMAIN Drop(q, 1) = 1..(Len(q) - 1) /\ \A i \in 1..(Len(q) - 1) : Drop(q, 1)[i] = q[i + 1]
      BY <1>1, <2>1 DEF Drop
    <2>3. \A i \in 1..Len(q) : i # 1 => i - 1 \in 1..(Len(q) - 1) /\ (i - 1) + 1 = i
      BY <2>1
    <2> QED BY <2>1, <2>2, <2>3
  <1> QED BY <1>2, <1>3 DEF ToSet

\* a write that is in place, or was not needed, leaves the run
LEMMA WorksDrops ==
    ASSUME Typed, NEW c \in Creations, Base(c), Works(c), Stands(c), run[c].mode \in {"ask", "send", "mined"},
           run[c].kind = "repair", NEW r \in RunSet, r.kind = run[c].kind, NEW n \in {1, 2},
           run'[c] = Going(r, Drop(run[c].todo, n)),
           ~r.failed => ~run[c].failed /\ n = 1 /\ (InPlace(c, Current(c).w) \/ Current(c).w.op = "days")
    PROVE  Works(c)'
  <1>1. run[c].todo \in Seq(StepSet) /\ run[c].todo # <<>> /\ Current(c) = run[c].todo[1]
    BY HasCurrent DEF Base
  <1> DEFINE q == Drop(run[c].todo, n)
  <1>2. q \in Seq(StepSet)
    BY <1>1, DropHolds
  <1>3. ToSet(q) \subseteq ToSet(run[c].todo) /\ ToSet(run[c].todo) \subseteq ToSet(Drop(run[c].todo, 1)) \cup {Current(c)}
    BY <1>1, DropsOne
  <1>4. /\ run'[c].todo = q /\ run'[c].failed = r.failed /\ run'[c].mode \in {"over", "ask", "send"}
    <2> HIDE DEF q
    <2>1. run'[c] = Going(r, q)
      BY DEF q
    <2> QED BY <1>2, <2>1, Goes
  <1>5. Mends(run'[c].todo)
    BY <1>3, <1>4 DEF Works, Mends
  <1>6. report'[c] = report[c] /\ MadeBy(c)' = MadeBy(c)
    BY DEF Stands
  <1>7. ASSUME NEW g \in Nat, GateOf(c, g)', report'[c].full, ~run'[c].failed
        PROVE  (Left(c, g, run[c].todo))'
    <2>1. Left(c, g, run[c].todo)
      BY <1>4, <1>6, <1>7 DEF Works, GateOf
    <2>2. Writing(run[c].todo) \subseteq Writing(q) \cup {Current(c).w}
      BY <1>3, <1>4, <1>7 DEF Writing
    <2>3. ASSUME NEW w \in Needed(c, g) PROVE InPlace(c, w)' \/ w \in Writing(q)
      <3>1. InPlace(c, w) \/ w \in Writing(q) \/ w = Current(c).w
        BY <2>1, <2>2 DEF Left
      <3>2. w.op # "days"
        BY NeededOps
      <3>3. InPlace(c, w) \/ w \in Writing(q)
        BY <1>4, <1>7, <3>1, <3>2
      <3> QED BY <3>3 DEF Stands
    <2> QED BY <1>4, <2>3 DEF Left, Needed
  <1> QED BY <1>4, <1>5, <1>7 DEF Works

LEMMA RoundWorks ==
    ASSUME Typed, NEW c \in Creations, Base(c), Works(c), Stands(c), run[c].mode \in {"ask", "send", "mined"}, NextRound(c)
    PROVE  Works(c)'
  <1>0. Shaped(c)
    BY DEF Base
  <1>1. Retries(c) \/ Stops(c) \/ Recovers(c) \/ Skips(c)
    BY <1>0, RoundFails
  <1>2. /\ run[c] \in RunSet /\ run[c].todo \in Seq(StepSet) /\ run[c].todo # <<>> /\ run \in [Creations -> RunSet]
        /\ Current(c) = run[c].todo[1] /\ 1 \in DOMAIN run[c].todo
    BY <1>0, HasCurrent DEF Typed
  <1>3. CASE run[c].kind # "repair"
    <2>1. run'[c].kind # "repair"
      BY <1>3, RoundGoes, IdleTyped DEF RunGoes
    <2> QED BY <2>1 DEF Works
  <1>4. CASE run[c].kind = "repair"
    <2>1. Current(c).fail \in {"skip", "skipTwo", "pass"} /\ (Current(c).fail = "pass" => Current(c).w.op = "days")
      BY <1>2, <1>4 DEF Works, Mends, ToSet
    <2>2. CASE Retries(c)
      <3> DEFINE r == [run[c] EXCEPT !.round = run[c].round + 1, !.mode = "ask"]
      <3>1. r.kind = run[c].kind /\ r.todo = run[c].todo /\ r.failed = run[c].failed /\ r.mode = "ask"
        BY <1>2 DEF RunSet
      <3>2. run'[c] = r
        BY <1>2, <2>2 DEF Retries
      <3> HIDE DEF r
      <3> QED BY <1>4, <3>1, <3>2, WorksStill
    <2>3. CASE Skips(c)
      <3> DEFINE f == run[c].failed \/ Current(c).fail # "pass"
                 r == [run[c] EXCEPT !.failed = f]
                 n == IF Current(c).fail = "skipTwo" THEN 2 ELSE 1
                 q == Drop(run[c].todo, n)
      <3>1. f \in BOOLEAN /\ n \in {1, 2} /\ (~f => ~run[c].failed /\ n = 1 /\ Current(c).w.op = "days")
        BY <2>1
      <3>2. run' = [run EXCEPT ![c] = Going(r, q)]
        BY <2>3 DEF Skips
      <3> HIDE DEF f, n
      <3>3. r \in RunSet /\ r.kind = run[c].kind /\ r.failed = f
        BY <1>2, <3>1 DEF RunSet
      <3> HIDE DEF r
      <3>4. q \in Seq(StepSet)
        BY <1>2, <3>1, DropHolds
      <3>5. run'[c] = Going(r, q)
        BY <1>2, <3>2
      <3> QED BY <1>4, <3>1, <3>3, <3>5, WorksDrops
    <2> QED BY <1>1, <2>1, <2>2, <2>3 DEF Stops, Recovers
  <1> QED BY <1>3, <1>4

-----------------------------------------------------------------------------
(* A repair leaves nothing: each action *)

LEMMA StillMended ==
    ASSUME NEW d \in Creations, Mended(d), Stands(d), run'[d] = run[d],
           onChain[d] \subseteq onChain'[d] \/ run[d].kind # "repair"
    PROVE  Mended(d)'
  <1>1. run'[d].kind = "repair" => run[d].mode # "recover" /\ (run[d].mode = "mined" => InPlace(d, Current(d).w))
    BY DEF Mended, Works
  <1>2. run[d].kind = "repair" /\ run[d].mode = "mined" => InPlace(d, Current(d).w)'
    <2>1. Current(d)' = Current(d)
      BY DEF Current
    <2> DEFINE w == Current(d).w
    <2>2. SUFFICES ASSUME run[d].kind = "repair", run[d].mode = "mined" PROVE (InPlace(d, Current(d).w))'
      OBVIOUS
    <2>3. InPlace(d, w)
      BY <1>1, <2>2
    <2>4. \A v : InPlace(d, v) => InPlace(d, v)'
      BY <2>2, StaysInPlace
    <2>5. \A v : v = w => InPlace(d, v)'
      BY <2>3, <2>4
    <2> QED BY <2>1, <2>5
  <1>3. Tells(d)'
    BY TellsStill DEF Mended
  <1>4. Works(d)'
    BY <1>1, <1>2, WorksStill DEF Mended
  <1> QED BY <1>3, <1>4 DEF Mended

LEMMA QuietMended ==
    ASSUME NEW d \in Creations, Mended(d), Stands(d), run'[d].kind # "repair"
    PROVE  Mended(d)'
  <1>1. Tells(d)'
    BY TellsStill DEF Mended
  <1> QED BY <1>1 DEF Mended, Works

\* no run of a repair moves
LEMMA RunsMended ==
    ASSUME MendedInv, UNCHANGED <<clones, onChain, report>>,
           \A d \in Creations : run'[d] = run[d] \/ run'[d].kind # "repair"
    PROVE  MendedInv'
  <1>1. ASSUME NEW d \in Creations PROVE Mended(d)'
    <2>1. Mended(d) /\ Stands(d)
      BY StandsOn DEF MendedInv, MadeBy
    <2> QED BY <2>1, StillMended, QuietMended
  <1> QED BY <1>1 DEF MendedInv

\* only the run of c moves
LEMMA OneMended ==
    ASSUME MendedInv, NEW c \in Creations, Mended(c)', report' = report,
           \A d \in Creations \ {c} : run'[d] = run[d] /\ onChain'[d] = onChain[d] /\ MadeBy(d)' = MadeBy(d)
    PROVE  MendedInv'
  <1>1. ASSUME NEW d \in Creations, d # c PROVE Mended(d)'
    <2>1. Mended(d) /\ Stands(d)
      BY <1>1, StandsOn DEF MendedInv
    <2> QED BY <1>1, <2>1, StillMended
  <1> QED BY <1>1 DEF MendedInv

LEMMA AskMended ==
    ASSUME BaseInv, MendedInv, NEW c \in Creations, Ask(c)
    PROVE  MendedInv'
  <1>1. Typed /\ Base(c) /\ Shaped(c) /\ Mended(c) /\ run[c].mode = "ask" /\ UNCHANGED <<clones, onChain, report>>
    BY DEF BaseInv, MendedInv, Base, Ask, ledger
  <1>2. Stands(c) /\ \A d \in Creations : onChain'[d] = onChain[d] /\ MadeBy(d)' = MadeBy(d)
    BY <1>1, StandsOn DEF MadeBy
  <1>3. /\ run[c] \in RunSet /\ run[c].todo \in Seq(StepSet) /\ run[c].todo # <<>> /\ run[c].kind \in {"create", "repair"}
    BY <1>1, HasCurrent
  <1>4. Tells(c)'
    BY <1>1, <1>2, TellsStill DEF Mended
  <1>5. CASE InPlace(c, Current(c).w) /\ run' = [run EXCEPT ![c] = Going(run[c], Tail(run[c].todo))]
    <2>1. Tail(run[c].todo) = Drop(run[c].todo, 1) /\ Drop(run[c].todo, 1) \in Seq(StepSet)
      BY <1>3, DropHolds
    <2>2. Going(run[c], Drop(run[c].todo, 1)) \in RunSet /\ Going(run[c], Drop(run[c].todo, 1)).kind = run[c].kind
      BY <1>3, <2>1, Goes
    <2>3. run'[c] = Going(run[c], Drop(run[c].todo, 1)) /\ \A d \in Creations \ {c} : run'[d] = run[d]
      BY <1>1, <1>5, <2>1, <2>2, RunGiven
    <2>4. Works(c)'
      <3>1. CASE run[c].kind = "repair"
        BY <1>1, <1>2, <1>3, <1>5, <2>3, <3>1, WorksDrops DEF Mended
      <3>2. CASE run[c].kind # "repair"
        BY <2>2, <2>3, <3>2 DEF Works
      <3> QED BY <3>1, <3>2
    <2> QED BY <1>1, <1>2, <1>4, <2>3, <2>4, OneMended DEF Mended
  <1>6. CASE run' = [run EXCEPT ![c] = [run[c] EXCEPT !.mode = "send"]]
    <2> DEFINE r == [run[c] EXCEPT !.mode = "send"]
    <2>1. r \in RunSet /\ r.mode = "send" /\ r.kind = run[c].kind /\ r.todo = run[c].todo /\ r.failed = run[c].failed
      BY <1>3, ModeGiven DEF Modes
    <2> HIDE DEF r
    <2>2. run'[c] = r /\ \A d \in Creations \ {c} : run'[d] = run[d]
      BY <1>1, <1>6, <2>1, RunGiven DEF r
    <2>3. Works(c)'
      BY <1>1, <1>2, <2>1, <2>2, WorksStill DEF Mended
    <2> QED BY <1>1, <1>2, <1>4, <2>2, <2>3, OneMended DEF Mended
  <1>7. CASE NextRound(c)
    <2>1. Works(c)'
      BY <1>1, <1>2, <1>7, RoundWorks DEF Mended
    <2>2. \A d \in Creations \ {c} : run'[d] = run[d]
      BY <1>1, <1>7, RoundGoes
    <2> QED BY <1>1, <1>2, <1>4, <2>1, <2>2, OneMended DEF Mended
  <1>8. \/ InPlace(c, Current(c).w) /\ run' = [run EXCEPT ![c] = Going(run[c], Tail(run[c].todo))]
        \/ run' = [run EXCEPT ![c] = [run[c] EXCEPT !.mode = "send"]]
        \/ NextRound(c)
    BY <1>1 DEF Ask, Typed
  <1> QED BY <1>5, <1>6, <1>7, <1>8

LEMMA SendMended ==
    ASSUME BaseInv, MendedInv, NEW c \in Creations, Send(c)
    PROVE  MendedInv'
  <1>1. Typed /\ Base(c) /\ Shaped(c) /\ Deploys(c) /\ Mended(c) /\ run[c].mode = "send" /\ report' = report
    BY DEF BaseInv, MendedInv, Base, Send
  <1>2. /\ run[c] \in RunSet /\ run[c].kind \in {"create", "repair"} /\ (Current(c).w.op = "gate" <=> Deploying(c))
    BY <1>1, HasCurrent
  <1>3. \/ Deploying(c) /\ clones' = Append(clones, [by |-> c, mine |-> present]) /\ UNCHANGED onChain
           /\ run' = [run EXCEPT ![c].mode = "mined"]
        \/ onChain' = [onChain EXCEPT ![c] = @ \cup {Current(c).w}] /\ UNCHANGED clones
           /\ run' = [run EXCEPT ![c].mode = "mined"]
        \/ NextRound(c) /\ UNCHANGED ledger
    BY <1>2 DEF Send
  <1> DEFINE r == [run[c] EXCEPT !.mode = "mined"]
  <1>4. r \in RunSet /\ r.mode = "mined" /\ r.kind = run[c].kind /\ r.todo = run[c].todo /\ r.failed = run[c].failed
    BY <1>2, ModeGiven DEF Modes
  <1>5. run' = [run EXCEPT ![c].mode = "mined"] => run' = [run EXCEPT ![c] = r]
    BY <1>1 DEF Typed
  <1> HIDE DEF r
  <1>6. run' = [run EXCEPT ![c].mode = "mined"] => run'[c] = r /\ \A d \in Creations \ {c} : run'[d] = run[d]
    BY <1>1, <1>4, <1>5, RunGiven
  <1>7. CASE Deploying(c) /\ clones' = Append(clones, [by |-> c, mine |-> present]) /\ UNCHANGED onChain
             /\ run' = [run EXCEPT ![c].mode = "mined"]
    <2>1. c \in Gated /\ MadeBy(c) = {} /\ present \in BOOLEAN /\ run[c].kind # "repair"
      BY <1>1, <1>7 DEF Deploys, Typed, Deploying, Creating
    <2>2. \A d \in Creations \ {c} : MadeBy(d)' = MadeBy(d)
      BY <1>1, <1>7, <2>1, CloneMore
    <2>3. report[c].steps = <<>> /\ Mends(report[c].steps)
      BY <1>1, <2>1 DEF Mended, Tells
    <2>4. Mended(c)'
      BY <1>1, <1>4, <1>6, <1>7, <2>1, <2>3 DEF Mended, Tells, Works
    <2> QED BY <1>1, <1>6, <1>7, <2>2, <2>4, OneMended
  <1>8. CASE onChain' = [onChain EXCEPT ![c] = @ \cup {Current(c).w}] /\ UNCHANGED clones
             /\ run' = [run EXCEPT ![c].mode = "mined"]
    <2>1. onChain'[c] = onChain[c] \cup {Current(c).w} /\ \A d \in Creations \ {c} : onChain'[d] = onChain[d]
      BY <1>1, <1>8 DEF Typed
    <2>2. \A d \in Creations : MadeBy(d)' = MadeBy(d)
      BY <1>8 DEF MadeBy
    <2>3. Stands(c)
      BY <1>1, <2>1, <2>2, StandsOn
    <2>4. Tells(c)'
      BY <1>1, <2>3, TellsStill DEF Mended
    <2>5. InPlace(c, Current(c).w)'
      <3>1. Current(c)' = Current(c)
        BY <1>4, <1>6, <1>8 DEF Current
      <3>2. ASSUME NEW w, w = Current(c).w PROVE InPlace(c, w)'
        <4>1. w \in onChain'[c]
          BY <2>1, <3>2
        <4> QED BY <4>1 DEF InPlace, Exists
      <3> QED BY <3>1, <3>2
    <2>6. Works(c)'
      BY <1>1, <1>4, <1>6, <1>8, <2>3, <2>5, WorksStill DEF Mended
    <2> QED BY <1>1, <1>6, <1>8, <2>1, <2>2, <2>4, <2>6, OneMended DEF Mended
  <1>9. CASE NextRound(c) /\ UNCHANGED ledger
    <2>1. Stands(c) /\ \A d \in Creations : onChain'[d] = onChain[d] /\ MadeBy(d)' = MadeBy(d)
      BY <1>1, <1>9, StandsOn DEF MadeBy, ledger
    <2>2. Tells(c)'
      BY <1>1, <2>1, TellsStill DEF Mended
    <2>3. Works(c)'
      BY <1>1, <1>9, <2>1, RoundWorks DEF Mended
    <2>4. \A d \in Creations \ {c} : run'[d] = run[d]
      BY <1>1, <1>9, RoundGoes
    <2> QED BY <1>1, <2>1, <2>2, <2>3, <2>4, OneMended DEF Mended
  <1> QED BY <1>3, <1>7, <1>8, <1>9

LEMMA ReceiptMended ==
    ASSUME BaseInv, MendedInv, NEW c \in Creations, Receipt(c)
    PROVE  MendedInv'
  <1>1. Typed /\ Base(c) /\ Shaped(c) /\ Mended(c) /\ run[c].mode = "mined" /\ UNCHANGED <<clones, onChain, report>>
    BY DEF BaseInv, MendedInv, Base, Receipt, ledger
  <1>2. Stands(c) /\ \A d \in Creations : onChain'[d] = onChain[d] /\ MadeBy(d)' = MadeBy(d)
    BY <1>1, StandsOn DEF MadeBy
  <1>3. /\ run[c] \in RunSet /\ run[c].todo \in Seq(StepSet) /\ run[c].todo # <<>> /\ run[c].kind \in {"create", "repair"}
        /\ (Current(c).w.op = "gate" <=> Deploying(c))
    BY <1>1, HasCurrent
  <1>4. Tells(c)'
    BY <1>1, <1>2, TellsStill DEF Mended
  <1>5. CASE ~Deploying(c) /\ run' = [run EXCEPT ![c] = Going(run[c], Tail(run[c].todo))]
    <2>1. Tail(run[c].todo) = Drop(run[c].todo, 1) /\ Drop(run[c].todo, 1) \in Seq(StepSet)
      BY <1>3, DropHolds
    <2>2. Going(run[c], Drop(run[c].todo, 1)) \in RunSet /\ Going(run[c], Drop(run[c].todo, 1)).kind = run[c].kind
      BY <1>3, <2>1, Goes
    <2>3. run'[c] = Going(run[c], Drop(run[c].todo, 1)) /\ \A d \in Creations \ {c} : run'[d] = run[d]
      BY <1>1, <1>5, <2>1, <2>2, RunGiven
    <2>4. Works(c)'
      <3>1. CASE run[c].kind = "repair"
        <4>1. InPlace(c, Current(c).w)
          BY <1>1, <3>1 DEF Mended, Works
        <4> QED BY <1>1, <1>2, <1>3, <2>3, <3>1, <4>1, WorksDrops DEF Mended
      <3>2. CASE run[c].kind # "repair"
        BY <2>2, <2>3, <3>2 DEF Works
      <3> QED BY <3>1, <3>2
    <2> QED BY <1>1, <1>2, <1>4, <2>3, <2>4, OneMended DEF Mended
  <1> DEFINE g == Max({i \in DOMAIN clones : clones[i].by = c})
  <1>6. CASE Deploying(c) /\ run' = [run EXCEPT ![c] = Start("create", CreatePlan(c, g, FALSE), g, FALSE)]
    <2> DEFINE r == Start("create", CreatePlan(c, g, FALSE), g, FALSE)
    <2>1. r.kind = "create"
      <3> HIDE DEF g
      <3> DEFINE f == FALSE
                 q == CreatePlan(c, g, f)
      <3> HIDE DEF f, q
      <3>1. Start("create", q, g, f).kind = "create"
        BY DEF Start, Going, Idle
      <3> QED BY <3>1 DEF f, q
    <2> HIDE DEF r
    <2>2. run' = [run EXCEPT ![c] = r]
      BY <1>6 DEF r
    <2>3. run'[c] = r /\ \A d \in Creations \ {c} : run'[d] = run[d]
      BY <1>1, <2>2 DEF Typed
    <2>4. Works(c)'
      BY <2>1, <2>3 DEF Works
    <2> QED BY <1>1, <1>2, <1>4, <2>3, <2>4, OneMended DEF Mended
  <1>7. CASE run' = [run EXCEPT ![c] = Idle]
    <2>1. run'[c] = Idle /\ \A d \in Creations \ {c} : run'[d] = run[d]
      BY <1>1, <1>7, IdleTyped, RunGiven
    <2>2. Works(c)'
      BY <2>1, IdleTyped DEF Works
    <2> QED BY <1>1, <1>2, <1>4, <2>1, <2>2, OneMended DEF Mended
  <1>8. CASE NextRound(c)
    <2>1. Works(c)'
      BY <1>1, <1>2, <1>8, RoundWorks DEF Mended
    <2>2. \A d \in Creations \ {c} : run'[d] = run[d]
      BY <1>1, <1>8, RoundGoes
    <2> QED BY <1>1, <1>2, <1>4, <2>1, <2>2, OneMended DEF Mended
  <1>9. \/ ~Deploying(c) /\ run' = [run EXCEPT ![c] = Going(run[c], Tail(run[c].todo))]
        \/ Deploying(c) /\ run' = [run EXCEPT ![c] = Start("create", CreatePlan(c, g, FALSE), g, FALSE)]
        \/ run' = [run EXCEPT ![c] = Idle]
        \/ NextRound(c)
    BY <1>1, <1>3 DEF Receipt, Typed, Ends
  <1> QED BY <1>5, <1>6, <1>7, <1>8, <1>9

LEMMA RecoverMended ==
    ASSUME BaseInv, MendedInv, NEW c \in Creations, Recover(c)
    PROVE  MendedInv'
  <1>1. Typed /\ Shaped(c) /\ Works(c) /\ run[c].mode = "recover" /\ UNCHANGED <<clones, onChain, report>>
    BY DEF BaseInv, Base, MendedInv, Mended, Recover, ledger
  <1>2. run[c] \in RunSet /\ run[c].kind = "create"
    BY <1>1, HasCurrent DEF Works
  <1>3. PICK r : run' = [run EXCEPT ![c] = r] /\ r.kind # "repair"
    <2>1. CASE run' = [run EXCEPT ![c] = Idle]
      BY <2>1, IdleTyped
    <2>2. ASSUME NEW q, run' = [run EXCEPT ![c] = Going([run[c] EXCEPT !.recovered = TRUE], q)]
          PROVE  \E r : run' = [run EXCEPT ![c] = r] /\ r.kind # "repair"
      <3> DEFINE t == TRUE
      <3>1. t = TRUE
        OBVIOUS
      <3> HIDE DEF t
      <3> DEFINE s == [run[c] EXCEPT !.recovered = t]
      <3>2. s.kind = "create" /\ s = [kind |-> s.kind, todo |-> s.todo, mode |-> s.mode, round |-> s.round, gate |-> s.gate,
                                      ask |-> s.ask, recovered |-> s.recovered, failed |-> s.failed]
        BY <1>2 DEF RunSet
      <3>3. run' = [run EXCEPT ![c] = Going(s, q)]
        BY <2>2, <3>1
      <3> HIDE DEF s
      <3>4. Going(s, q).kind = "create"
        BY <3>2 DEF Going
      <3> QED BY <3>3, <3>4
    <2>3. \/ run' = [run EXCEPT ![c] = Idle]
          \/ \E q : run' = [run EXCEPT ![c] = Going([run[c] EXCEPT !.recovered = TRUE], q)]
      BY <1>1 DEF Recover, Ends, Typed
    <2> QED BY <2>1, <2>2, <2>3
  <1>4. run'[c].kind # "repair" /\ \A d \in Creations \ {c} : run'[d] = run[d]
    BY <1>1, <1>3 DEF Typed
  <1> QED BY <1>1, <1>4, RunsMended

\* a creation begins, goes on, ends, or is asked for; the account changes, an hour passes
LEMMA ElseMended ==
    ASSUME BaseInv, MendedInv, NEW c \in Creations,
           \/ Begin(c) \/ Lists(c) \/ Stores(c) \/ AdoptsPublish(c) \/ AdoptsInteractions(c) \/ Completes(c)
           \/ Discard(c) \/ Away \/ Back \/ Hour
    PROVE  MendedInv'
  <1>1. Typed /\ Shaped(c) /\ UNCHANGED <<clones, onChain, report>>
    BY DEF BaseInv, Base, Begin, Lists, Stores, AdoptsPublish, AdoptsInteractions, Completes, Discard, Away, Back,
           Hour, ledger, memory
  <1>2. CASE Discard(c) \/ Away \/ Back \/ Hour
    <2>1. run' = run
      BY <1>2 DEF Discard, Away, Back, Hour, memory
    <2> QED BY <1>1, <2>1, RunsMended
  <1>3. CASE Begin(c)
    <2> DEFINE q == IF c \in Gated THEN DeployOf(None) ELSE CreatePlan(c, None, FALSE)
               f == FALSE
               r == Start("create", q, None, f)
    <2>1. run' = [run EXCEPT ![c] = r]
      BY <1>3 DEF Begin
    <2> HIDE DEF q, f
    <2>2. r.kind = "create"
      BY DEF Start, Going, Idle
    <2> HIDE DEF r
    <2>3. run'[c].kind # "repair" /\ \A d \in Creations \ {c} : run'[d] = run[d]
      BY <1>1, <2>1, <2>2 DEF Typed
    <2> QED BY <1>1, <2>3, RunsMended
  <1>4. CASE Lists(c) \/ Stores(c) \/ AdoptsPublish(c) \/ AdoptsInteractions(c) \/ Completes(c)
    <2>1. run[c].kind = "create" /\ run[c] \in RunSet
      BY <1>1, <1>4 DEF Lists, Stores, AdoptsPublish, AdoptsInteractions, Completes, Shaped, Ending, Creating, Typed
    <2>2. \/ run' = [run EXCEPT ![c] = Idle]
          \/ \E m \in Ending : run' = [run EXCEPT ![c].mode = m]
      BY <1>4 DEF Lists, Stores, AdoptsPublish, AdoptsInteractions, Completes, Ends, Ending
    <2>3. run'[c].kind # "repair" /\ \A d \in Creations \ {c} : run'[d] = run[d]
      <3>1. CASE run' = [run EXCEPT ![c] = Idle]
        BY <1>1, <3>1, IdleTyped DEF Typed
      <3>2. CASE \E m \in Ending : run' = [run EXCEPT ![c].mode = m]
        BY <1>1, <2>1, <3>2, EndingRun
      <3> QED BY <2>2, <3>1, <3>2
    <2> QED BY <1>1, <2>3, RunsMended
  <1> QED BY <1>2, <1>3, <1>4

\* the chain answers
LEMMA JudgedRuns ==
    ASSUME Typed, NEW l \in LookSet, Judged(l)
    PROVE  \A d \in Creations : run'[d] = run[d] \/ run'[d].kind # "repair"
  <1> DEFINE c == l.of
             g == records'[c].gate
             r == Start("create", CreatePlan(c, g, TRUE), g, TRUE)
  <1>1. run' = run \/ run' = [run EXCEPT ![c] = r]
    BY DEF Judged
  <1>2. r.kind = "create"
    <2> HIDE DEF g, c
    <2> DEFINE t == TRUE
               q == CreatePlan(c, g, t)
    <2> HIDE DEF t, q
    <2>1. Start("create", q, g, t).kind = "create"
      BY DEF Start, Going, Idle
    <2> QED BY <2>1 DEF t, q
  <1> HIDE DEF r, c
  <1> QED BY <1>1, <1>2 DEF Typed

LEMMA AskedMended ==
    ASSUME BaseInv, MendedInv, ChainAnswers \/ \E c \in Creations : Reconcile(c) \/ Finish(c)
    PROVE  MendedInv'
  <1>1. Typed /\ UNCHANGED <<clones, onChain, report>>
    BY DEF BaseInv, ChainAnswers, Reconcile, Finish, ledger
  <1>2. run' = run \/ \E l \in LookSet : Judged(l)
    <2>1. ASSUME NEW c \in Creations, NEW f \in BOOLEAN, Question(c, f)
          PROVE  run' = run \/ \E l \in LookSet : Judged(l)
      <3> DEFINE base == [of |-> c, finish |-> f, found |-> None, seen |-> "there"]
      <3>1. base \in LookSet
        BY DEF LookSet, None
      <3>2. run' = run \/ Judged(base)
        BY <2>1 DEF Question
      <3> HIDE DEF base
      <3> QED BY <3>1, <3>2
    <2> DEFINE f == FALSE
               t == TRUE
    <2>2. f \in BOOLEAN /\ t \in BOOLEAN
      OBVIOUS
    <2>3. ChainAnswers \/ run' = run \/ \E c \in Creations : Question(c, f) \/ Question(c, t)
      BY DEF Reconcile, Finish
    <2> HIDE DEF f, t
    <2>4. ChainAnswers => \E l \in LookSet : Judged(l)
      BY <1>1 DEF ChainAnswers, Typed
    <2> QED BY <2>1, <2>2, <2>3, <2>4
  <1>3. \A d \in Creations : run'[d] = run[d] \/ run'[d].kind # "repair"
    BY <1>1, <1>2, JudgedRuns
  <1> QED BY <1>1, <1>3, RunsMended

\* a diagnosis of all streams names all that is missing
LEMMA DiagnoseMended ==
    ASSUME BaseInv, HeldInv, MendedInv, NEW c \in Creations, Diagnose(c)
    PROVE  MendedInv'
  <1>1. Typed /\ Base(c) /\ Owned(c) /\ listed[c] # {} /\ ~Busy(c) /\ UNCHANGED <<clones, onChain, run>>
    BY DEF BaseInv, HeldInv, Diagnose, ledger
  <1> DEFINE g == CHOOSE h \in listed[c] : TRUE
  <1>2. g \in listed[c] /\ g \in Nat /\ GateOf(c, g)
    BY <1>1 DEF Typed, Owned
  <1>3. PICK unread \in {{}} \cup {{s} : s \in RolesOf(c)} :
            report' = [report EXCEPT ![c] =
                [full |-> unread = {},
                 steps |-> IF "message" \notin unread /\ ~Exists(c, "message") THEN <<>>
                           ELSE InOrder(RolesOf(c) \ unread, [s \in Roles |-> StepsOf(c, s, g)])]]
    BY DEF Diagnose
  <1> HIDE DEF g
  <1> DEFINE full == unread = {}
             S == RolesOf(c) \ unread
             q == InOrder(S, [s \in Roles |-> StepsOf(c, s, g)])
             steps == IF "message" \notin unread /\ ~Exists(c, "message") THEN <<>> ELSE q
             rep == [full |-> full, steps |-> steps]
  <1>4. /\ q \in Seq(StepSet) /\ Mends(q) /\ \A s \in S : Writing(StepsOf(c, s, g)) \subseteq Writing(q)
        /\ (full => S = RolesOf(c))
    BY <1>2, ReportHolds
  <1>5. <<>> \in Seq(StepSet) /\ Mends(<<>>)
    BY Short DEF Mends
  <1>6. full \in BOOLEAN /\ report' = [report EXCEPT ![c] = rep]
    BY <1>3
  <1> HIDE DEF S, q, full
  <1>7. Mends(steps) /\ (steps # <<>> => steps = q)
    BY <1>4, <1>5
  <1> HIDE DEF steps
  <1>8. report'[c].full = full /\ report'[c].steps = steps /\ \A d \in Creations \ {c} : report'[d] = report[d]
    BY <1>1, <1>6 DEF Typed
  <1>9. \A d \in Creations : MadeBy(d)' = MadeBy(d) /\ onChain'[d] = onChain[d]
    BY <1>1 DEF MadeBy
  <1>10. \A h \in Nat : GateOf(c, h) => h = g
    BY <1>1, <1>2 DEF Base, OneClone, GateOf
  <1>11. full => Left(c, g, q)
    <2>1. SUFFICES ASSUME full, NEW w \in Needed(c, g) PROVE InPlace(c, w) \/ w \in Writing(q)
      BY DEF Left
    <2>2. RolesOf(c) \subseteq Streams /\ S = RolesOf(c)
      BY <1>4, <2>1, RolesTyped
    <2>3. PICK s \in RolesOf(c) : \/ w = Write("stream", s, g) \/ w = OwnGrant(c, s, g).w
                                  \/ s # "ephemeral" /\ w = Write("node", s, g)
      BY DEF Needed
    <2>4. InPlace(c, w) \/ w \in Writing(StepsOf(c, s, g))
      <3>1. CASE w = Write("stream", s, g)
        <4>1. InPlace(c, w) <=> Exists(c, s)
          BY <3>1 DEF Write, InPlace
        <4> QED BY <1>2, <2>2, <3>1, <4>1, StepsHold
      <3>2. CASE w = OwnGrant(c, s, g).w \/ (s # "ephemeral" /\ w = Write("node", s, g))
        BY <1>2, <2>2, <3>2, StepsHold
      <3> QED BY <2>3, <3>1, <3>2
    <2> QED BY <1>4, <2>2, <2>4
  <1>12. Mended(c)'
    <2>1. (Tells(c))'
      <3>1. Mends(report'[c].steps)
        BY <1>7, <1>8
      <3>2. c \in Gated => MadeBy(c)' # {}
        BY <1>2, <1>9 DEF GateOf
      <3>3. ASSUME NEW h \in Nat, GateOf(c, h)', report'[c].full, report'[c].steps # <<>>
            PROVE  (Left(c, h, report[c].steps))'
        <4>1. GateOf(c, h)
          BY <1>9, <3>3 DEF GateOf
        <4>2. \A w \in Needed(c, h) : InPlace(c, w) \/ w \in Writing(q)
          BY <1>8, <1>10, <1>11, <3>3, <4>1 DEF Left
        <4>3. \A w : InPlace(c, w) => InPlace(c, w)'
          BY <1>9, StaysInPlace
        <4> QED BY <1>7, <1>8, <3>3, <4>2, <4>3 DEF Left, Needed
      <3> QED BY <3>1, <3>2, <3>3 DEF Tells
    <2>2. (Works(c))'
      BY <1>1 DEF Works, Busy
    <2> QED BY <2>1, <2>2 DEF Mended
  <1>13. ASSUME NEW d \in Creations, d # c PROVE Mended(d)'
    <2>1. Mended(d) /\ Stands(d) /\ run'[d] = run[d] /\ onChain[d] \subseteq onChain'[d]
      BY <1>1, <1>8, <1>9, <1>13, StandsOn DEF MendedInv
    <2> QED BY <2>1, StillMended
  <1> QED BY <1>12, <1>13 DEF MendedInv

\* a repair starts with what the report says
LEMMA RepairMended ==
    ASSUME BaseInv, MendedInv, NEW c \in Creations, Repair(c)
    PROVE  MendedInv'
  <1>1. Typed /\ Tells(c) /\ report[c].steps # <<>> /\ UNCHANGED <<clones, onChain, report>>
    BY DEF BaseInv, MendedInv, Mended, Repair, ledger
  <1> DEFINE q == report[c].steps
             b == FALSE
             r == Start("repair", q, None, b)
  <1>2. q \in Seq(StepSet) /\ b \in BOOLEAN
    BY <1>1 DEF Typed
  <1>3. run' = [run EXCEPT ![c] = r]
    BY DEF Repair
  <1> HIDE DEF b
  <1>4. Mends(q) /\ q # <<>>
    BY <1>1 DEF Tells
  <1> HIDE DEF q
  <1>5. r \in RunSet /\ r.kind = "repair" /\ r.todo = q /\ r.mode \in {"ask", "send"}
    BY <1>2, <1>4, RepairStarts
  <1> HIDE DEF r
  <1>6. run'[c] = r /\ \A d \in Creations \ {c} : run'[d] = run[d]
    BY <1>1, <1>3, <1>5, RunGiven
  <1>7. \A d \in Creations : MadeBy(d)' = MadeBy(d) /\ onChain'[d] = onChain[d]
    BY <1>1 DEF MadeBy
  <1>8. Stands(c)
    BY <1>1, <1>7, StandsOn
  <1>9. Tells(c)'
    BY <1>1, <1>8, TellsStill
  <1>10. ASSUME NEW g \in Nat, GateOf(c, g)', report'[c].full
         PROVE  (Left(c, g, run[c].todo))'
    <2>1. (Left(c, g, report[c].steps))'
      BY <1>1, <1>9, <1>10 DEF Tells
    <2> QED BY <1>1, <1>5, <1>6, <2>1 DEF Left, q
  <1>11. Works(c)'
    BY <1>4, <1>5, <1>6, <1>10 DEF Works
  <1> QED BY <1>1, <1>6, <1>7, <1>9, <1>11, OneMended DEF Mended

\* a report is forgotten with the run
LEMMA ForgetMended ==
    ASSUME NEW c \in Creations, run'[c] = Idle, report'[c] = NoReport
    PROVE  Mended(c)'
  <1>1. Mends(<<>>)
    BY Short DEF Mends
  <1>2. NoReport.steps = <<>> /\ Idle.kind # "repair"
    BY IdleTyped DEF NoReport
  <1> QED BY <1>1, <1>2 DEF Mended, Tells, Works

LEMMA RepairedMended ==
    ASSUME BaseInv, MendedInv, NEW c \in Creations, Repaired(c)
    PROVE  MendedInv'
  <1>1. Typed /\ UNCHANGED <<clones, onChain>>
    BY DEF BaseInv, Repaired, ledger
  <1>2. /\ run'[c] = Idle /\ report'[c] = NoReport
        /\ \A d \in Creations \ {c} : run'[d] = run[d] /\ report'[d] = report[d]
    BY <1>1 DEF Repaired, Typed
  <1>3. ASSUME NEW d \in Creations, d # c PROVE Mended(d)'
    <2>1. Mended(d) /\ Stands(d) /\ run'[d] = run[d] /\ onChain[d] \subseteq onChain'[d]
      BY <1>1, <1>2, <1>3, StandsOn DEF MendedInv, MadeBy
    <2> QED BY <2>1, StillMended
  <1> QED BY <1>2, <1>3, ForgetMended DEF MendedInv

LEMMA ReloadMended ==
    ASSUME Reload PROVE MendedInv'
  BY ForgetMended DEF Reload, Forgets, MendedInv

\* a new publish key takes no grant that the check asks for
LEMMA RekeyMended ==
    ASSUME BaseInv, MendedInv, NEW c \in Creations, Rekey(c)
    PROVE  MendedInv'
  <1>1. Typed /\ c \in Gated /\ ~Busy(c) /\ UNCHANGED <<clones, run, report>>
    BY DEF BaseInv, Rekey, memory
  <1> DEFINE after == {Regrant(w) : w \in onChain[c]}
  <1>2. onChain' = [onChain EXCEPT ![c] = after]
    BY DEF Rekey, Regrant
  <1>3. onChain'[c] = after /\ \A d \in Creations \ {c} : onChain'[d] = onChain[d]
    <2> HIDE DEF after
    <2> QED BY <1>1, <1>2 DEF Typed
  <1>4. \A w \in onChain[c] : w \in Writes /\ Regrant(w) \in onChain'[c]
    BY <1>1, <1>3 DEF Typed
  <1>5. \A s : Exists(c, s) => Exists(c, s)'
    <2>1. ASSUME NEW w \in onChain[c], w.op = "stream" PROVE w \in onChain'[c]
      BY <1>4, <2>1, Regrants
    <2> QED BY <2>1 DEF Exists
  <1>6. ASSUME NEW g \in Nat, NEW w \in Needed(c, g), InPlace(c, w) PROVE InPlace(c, w)'
    <2>1. w.op \in {"stream", "clone", "grant", "node"} /\ (w.op = "grant" => w.on \notin {"message", "ephemeral"})
      BY <1>1, NeededOps
    <2>2. CASE w.op = "stream"
      BY <1>5, <1>6, <2>2 DEF InPlace
    <2>3. CASE w.op = "clone"
      <3>1. PICK v \in onChain[c] : v = w \/ v = [w EXCEPT !.op = "grant"]
        BY <1>6, <2>3 DEF InPlace
      <3>2. v \in Writes /\ Regrant(v) \in onChain'[c] /\ (Regrant(v) = v \/ Regrant(v) = [v EXCEPT !.op = "clone"])
            /\ (v.op # "grant" => Regrant(v) = v)
        BY <1>4, Regrants
      <3>3. CASE v = w
        BY <2>3, <3>2, <3>3 DEF InPlace
      <3>4. CASE v = [w EXCEPT !.op = "grant"]
        <4>1. w \in [op : {"clone"}, on : Streams \cup {"gate"}, gate : Nat]
          <5>1. PICK s \in RolesOf(c) : w = OwnGrant(c, s, g).w
            BY <2>3 DEF Needed, Write
          <5>2. OwnGrant(c, s, g).w \in Writes
            BY <5>1, RolesTyped, GrantHolds DEF StepSet
          <5> QED BY <2>3, <5>1, <5>2 DEF Writes
        <4>2. [v EXCEPT !.op = "clone"] = w
          BY <3>4, <4>1
        <4> QED BY <2>3, <3>2, <3>4, <4>2 DEF InPlace
      <3> QED BY <3>1, <3>3, <3>4
    <2>4. CASE w.op \in {"grant", "node"}
      <3>1. w \in onChain[c]
        BY <1>6, <2>4 DEF InPlace
      <3>2. Regrant(w) = w
        BY <2>1, <2>4 DEF Regrant
      <3>3. w \in onChain'[c]
        BY <1>4, <3>1, <3>2
      <3> QED BY <2>4, <3>3 DEF InPlace
    <2> QED BY <2>1, <2>2, <2>3, <2>4
  <1>7. ASSUME NEW d \in Creations PROVE Mended(d)'
    <2>1. MadeBy(d)' = MadeBy(d)
      BY <1>1 DEF MadeBy
    <2>2. Mended(d) /\ run'[d] = run[d]
      BY <1>1 DEF MendedInv
    <2>3. CASE d = c
      <3>1. Stands(c) /\ run[c].kind # "repair"
        BY <1>1, <1>6, <2>1, <2>3 DEF Stands, Busy
      <3> QED BY <2>2, <2>3, <3>1, StillMended
    <2>4. CASE d # c
      <3>1. Stands(d) /\ onChain[d] \subseteq onChain'[d]
        BY <1>1, <1>3, <2>1, <2>4, StandsOn
      <3> QED BY <2>2, <3>1, StillMended
    <2> QED BY <2>3, <2>4
  <1> QED BY <1>7 DEF MendedInv

LEMMA NextMended ==
    ASSUME BaseInv, HeldInv, MendedInv, [CreationNext]_creationVars PROVE MendedInv'
  <1>1. CASE UNCHANGED creationVars
    <2>1. UNCHANGED <<clones, onChain, run, report>>
      BY <1>1 DEF creationVars, ledger, memory
    <2> QED BY <2>1, RunsMended
  <1>2. CASE Work
    BY <1>2, AskedMended, AskMended, SendMended, ReceiptMended, RecoverMended, ElseMended, RepairedMended DEF Work
  <1>3. CASE User
    BY <1>3, ElseMended, AskedMended, DiagnoseMended, RepairMended, RekeyMended DEF User
  <1>4. CASE World
    <2>1. CASE Reload
      BY <2>1, ReloadMended
    <2>2. CASE Creations # {} /\ ~Reload
      <3>1. PICK c \in Creations : TRUE
        BY <2>2
      <3> QED BY <1>4, <2>2, <3>1, ElseMended DEF World
    <2>3. CASE Creations = {}
      BY <2>3 DEF MendedInv
    <2> QED BY <2>1, <2>2, <2>3
  <1> QED BY <1>1, <1>2, <1>3, <1>4 DEF CreationNext

LEMMA InitMended == CreationInit => MendedInv
  <1>1. Mends(<<>>)
    BY Short DEF Mends
  <1> QED BY <1>1, IdleTyped DEF CreationInit, MendedInv, Mended, Tells, Works, NoReport

\* As long as no two gated creations have one mode, a repair that goes by a report of every stream and
\* has no failure leaves every stream of its channel there, stored where it must be, and granted to
\* whom the check expects, whatever half of the creation had landed, and whatever publish key was
\* minted between the report and the repair (diagnoseChannel, repairChannel).
THEOREM RepairsAll == ASSUME OneEach PROVE CreationSpec => []RepairHeals
  <1>1. BaseInv /\ HeldInv /\ MendedInv => RepairHeals
    <2> SUFFICES ASSUME BaseInv, HeldInv, MendedInv, NEW c \in Creations,
                        run[c].mode = "over", ~run[c].failed, report[c].full, listed[c] # {}
                 PROVE  Healthy(c)
      BY DEF RepairHeals
    <2> DEFINE g == CHOOSE h \in listed[c] : TRUE
    <2>1. g \in Nat /\ GateOf(c, g)
      BY DEF BaseInv, Typed, HeldInv, Owned
    <2>2. run[c].kind = "repair" /\ run[c].todo = <<>>
      BY DEF BaseInv, Base, Shaped
    <2> HIDE DEF g
    <2>3. Left(c, g, <<>>) /\ Writing(<<>>) = {}
      BY <2>1, <2>2, Short DEF MendedInv, Mended, Works, Writing
    <2>4. \A w \in Needed(c, g) : InPlace(c, w)
      BY <2>3 DEF Left
    <2>5. ASSUME NEW s \in RolesOf(c)
          PROVE  /\ Exists(c, s) /\ InPlace(c, OwnGrant(c, s, g).w)
                 /\ s # "ephemeral" => InPlace(c, Write("node", s, g))
      <3>1. InPlace(c, Write("stream", s, g)) /\ InPlace(c, OwnGrant(c, s, g).w)
            /\ (s # "ephemeral" => InPlace(c, Write("node", s, g)))
        BY <2>4 DEF Needed
      <3>2. Exists(c, s)
        BY <3>1 DEF InPlace, Write
      <3> QED BY <3>1, <3>2
    <2> QED BY <2>5 DEF Healthy, g
  <1>2. CreationInit => BaseInv /\ HeldInv /\ MendedInv
    BY InitBase, InitHeld, InitMended
  <1>3. BaseInv /\ HeldInv /\ MendedInv /\ [CreationNext]_creationVars => (BaseInv /\ HeldInv /\ MendedInv)'
    BY NextBase, NextHeld, NextMended
  <1> QED BY <1>1, <1>2, <1>3, PTL DEF CreationSpec

\* As long as no two gated creations have one mode, no two channels are saved with one gate: the clone
\* that a resumed creation finds on chain by mode and start is its own (findCreatedGate, finishPendingCreate).
\* OneGateEach, without that hypothesis, is what the code does not uphold.
THEOREM GatesApart == ASSUME OneEach PROVE CreationSpec => []OneGateEach
  <1>1. ASSUME BaseInv, HeldInv PROVE OneGateEach
    <2>1. SUFFICES ASSUME NEW c \in Gated, NEW d \in Gated, NEW g \in saved[c] \cap saved[d] PROVE c = d
      BY DEF OneGateEach
    <2>2. GateOf(c, g) /\ GateOf(d, g)
      BY <1>1, <2>1, CreationAssumption DEF HeldInv, Owned
    <2>3. clones[g].by = c /\ clones[g].by = d
      BY <2>1, <2>2 DEF GateOf, MadeBy
    <2> QED BY <2>3
  <1>2. CreationInit => BaseInv /\ HeldInv
    BY InitBase, InitHeld
  <1>3. BaseInv /\ HeldInv /\ [CreationNext]_creationVars => (BaseInv /\ HeldInv)'
    BY NextBase, NextHeld
  <1> QED BY <1>1, <1>2, <1>3, PTL DEF CreationSpec
=============================================================================
