------------------------- MODULE Moderation_proofs -------------------------
(***************************************************************************)
(* Proofs about Moderation, for any devices, moderators, lists, items and   *)
(* courses.                                                                 *)
(*                                                                         *)
(* No property is inductive.  Typing needs that stamps are bounded by the   *)
(* clock (Bounded), so that a read has a best row.  LaterWins needs what a  *)
(* device knows of its own rows (Records, OwnRows, Ahead): the record of an *)
(* open channel is the floor, no own row is more than one revision past it, *)
(* and the row under way is past every own row.  AbsorbRatifies needs that  *)
(* settled answers keep every moderator (GateKnown), and that what an       *)
(* absorb asks for holds what it owes while it waits (Holds).               *)
(* SeenToStorage needs that the entry pending is the last publish, and that *)
(* a confirmation which reads waits for that one (Seen); it fails where a   *)
(* publish completes under such a read, which ReadsApart excludes, and which *)
(* an owner who asks for one publish never does (Alone).                    *)
(***************************************************************************)
EXTENDS Moderation, SequenceTheorems, WellFoundedInduction, TLAPS

\* the data of every revision and delta is from the past
Bounded ==
    /\ \A r \in sent : r.rev <= clock /\ r.ts <= clock
    /\ \A d \in Devices : chan[d].rev <= clock /\ floor[d].rev <= clock
    /\ \A d \in Devices : pub[d].row.rev <= clock /\ pub[d].row.ts <= clock
    /\ \A x \in deltas : x.ts <= clock
    /\ \A d \in Devices : \A x \in held[d] : x.ts <= clock

\* the record of an open channel is the floor, and a floor that is not blank was a record
Records ==
    /\ \A d \in Devices : chan[d] = Blank \/ (chan[d].loaded /\ chan[d] = floor[d])
    /\ \A d \in Devices : floor[d] = Blank \/ floor[d].loaded

\* publishes and confirmations are of an open channel
Sessions == \A d \in Devices : pub[d].at # "idle" \/ loop[d].at # "off" => chan[d].loaded

TypeInv == Typed /\ Bounded /\ Records /\ Sessions

-----------------------------------------------------------------------------
(***************************************************************************)
(* The operators                                                            *)
(***************************************************************************)
\* numbers that are bounded have a greatest one
LEMMA GreatestExists ==
    ASSUME NEW S \in SUBSET Nat, S # {}, NEW b \in Nat, \A n \in S : n <= b
    PROVE  \E m \in S : \A n \in S : n <= m
  <1> DEFINE T == {n \in 0..b : b - n \in S}
  <1>1. PICK s \in S : TRUE
    OBVIOUS
  <1>2. s \in Nat /\ s <= b /\ b - s \in 0..b /\ b - (b - s) = s
    OBVIOUS
  <1>3. T \subseteq Nat /\ T # {}
    <2>1. b - s \in T
      BY <1>2
    <2>2. T \subseteq Nat
      OBVIOUS
    <2> HIDE DEF T
    <2> QED BY <2>1, <2>2
  <1>4. \E x \in T : \A y \in T : <<y, x>> \notin OpToRel(<, Nat)
    <2> HIDE DEF T
    <2> QED BY <1>3, NatLessThanWellFounded, WFMin
  <1>5. PICK x \in T : \A y \in T : ~(y < x)
    BY <1>3, <1>4 DEF OpToRel
  <1>6. ASSUME NEW n \in S PROVE n <= b - x
    <2>1. n \in Nat /\ n <= b
      OBVIOUS
    <2>2. b - n \in T
      BY <2>1
    <2> QED BY <2>1, <2>2, <1>5
  <1> QED BY <1>5, <1>6

LEMMA MostIn ==
    ASSUME NEW S \in SUBSET Nat, NEW b \in Nat, \A n \in S : n <= b
    PROVE  Most(S) \in Nat
  BY GreatestExists DEF Most

\* a set of rows has a best one
LEMMA BestIn ==
    ASSUME NEW rows \in SUBSET Row, rows # {}, NEW b \in Nat,
           \A r \in rows : r.rev <= b /\ r.ts <= b
    PROVE  Best(rows) \in rows
  <1> DEFINE revs == {r.rev : r \in rows}
  <1>1. ASSUME NEW r \in rows PROVE r.rev \in Nat /\ r.ts \in Nat /\ r.rev <= b /\ r.ts <= b
    BY DEF Row
  <1>2. revs \in SUBSET Nat /\ revs # {} /\ \A n \in revs : n <= b
    BY <1>1
  <1>3. PICK v \in revs : \A n \in revs : n <= v
    <2> HIDE DEF revs
    <2> QED BY <1>2, GreatestExists
  <1> DEFINE tops == {r \in rows : r.rev = v}
             times == {r.ts : r \in tops}
  <1>4. times \in SUBSET Nat /\ times # {} /\ \A n \in times : n <= b
    BY <1>1, <1>3
  <1>5. PICK t \in times : \A n \in times : n <= t
    <2> HIDE DEF times
    <2> QED BY <1>4, GreatestExists
  <1>6. PICK r \in tops : r.ts = t
    BY <1>5
  <1>7. \A q \in rows : ~Later(q, r)
    BY <1>1, <1>3, <1>5, <1>6 DEF Later
  <1> QED BY <1>6, <1>7 DEF Best

\* a course whose events are spent is a course
LEMMA Spent ==
    ASSUME course \in CourseStates, NEW E \in SUBSET Events, Spend(E)
    PROVE  course' \in CourseStates
  <1> DEFINE next == [e \in Events |-> IF e \in E THEN course.left[e] - 1 ELSE course.left[e]]
  <1>1. ASSUME NEW e \in E PROVE course.left[e] > 0
    BY DEF Spend
  <1>2. next \in [Events -> Nat]
    BY <1>1 DEF CourseStates
  <1>3. course' = [course EXCEPT !.left = next]
    BY DEF Spend, CourseStates
  <1> QED BY <1>2, <1>3 DEF CourseStates

\* what a read returns is stored, and its best row is one that was sent
LEMMA ReadOf ==
    ASSUME store \subseteq sent, sent \subseteq Row, NEW read \in Reads
    PROVE  read[1] \subseteq store /\ read[2] \in SUBSET Events
  BY DEF Reads, Events

LEMMA BestRead ==
    ASSUME Typed, Bounded, NEW read \in Reads, read[1] # {}
    PROVE  /\ Best(read[1]) \in store /\ Best(read[1]) \in sent
           /\ Best(read[1]) \in Row /\ Best(read[1]).rev <= clock
  <1>1. read[1] \subseteq store /\ read[1] \subseteq sent /\ read[1] \subseteq Row
    BY ReadOf DEF Typed
  <1>2. \A r \in read[1] : r.rev <= clock /\ r.ts <= clock
    BY <1>1 DEF Bounded
  <1>3. Best(read[1]) \in read[1]
    BY <1>1, <1>2, BestIn DEF Typed
  <1> QED BY <1>1, <1>2, <1>3

LEMMA EmptyTyped == Empty \in State /\ Blank \in Channel
  BY DEF Empty, State, Blank, Channel

LEMMA ComposedTyped ==
    ASSUME NEW state \in State, NEW ds, NEW mods
    PROVE  Composed(state, ds, mods) \in State
  BY DEF Composed, State

\* the record of d becomes c, no earlier than the floor: the floor becomes c too
LEMMA Adopted ==
    ASSUME Typed, Records, NEW d \in Devices, NEW c \in Channel, c.loaded, Adopt(d, c)
    PROVE  chan' = [chan EXCEPT ![d] = c] /\ floor' = [floor EXCEPT ![d] = c]
  <1>1. CASE c = chan[d]
    <2>1. chan[d] = floor[d]
      BY <1>1 DEF Records, Blank
    <2>2. floor = [floor EXCEPT ![d] = c]
      BY <1>1, <2>1 DEF Typed
    <2> QED BY <1>1, <2>2 DEF Adopt
  <1> QED BY <1>1 DEF Adopt

\* applying a row gives the record of an open channel, no earlier than it was
LEMMA AppliedTyped ==
    ASSUME NEW c \in Channel, NEW r \in Row, NEW b \in Nat, c.rev <= b, r.rev <= b
    PROVE  /\ Applied(c, r) \in Channel
           /\ Applied(c, r).loaded
           /\ Applied(c, r).rev <= b
           /\ c.loaded => c.rev <= Applied(c, r).rev
           /\ r.rev <= Applied(c, r).rev
  BY DEF Applied, Later, Record, Channel, Row

\* adopting a record of an open channel keeps what holds of the records
LEMMA AdoptKeeps ==
    ASSUME TypeInv, NEW d \in Devices, NEW c \in Channel, c.loaded, c.rev <= clock, Adopt(d, c)
    PROVE  /\ chan' \in [Devices -> Channel] /\ floor' \in [Devices -> Channel]
           /\ \A e \in Devices : chan'[e].rev <= clock /\ floor'[e].rev <= clock
           /\ \A e \in Devices : chan[e].loaded \/ e = d => chan'[e].loaded
           /\ Records'
  <1>1. chan' = [chan EXCEPT ![d] = c] /\ floor' = [floor EXCEPT ![d] = c]
    BY Adopted DEF TypeInv
  <1>2. chan' \in [Devices -> Channel] /\ floor' \in [Devices -> Channel]
    BY <1>1 DEF TypeInv, Typed
  <1>3. \A e \in Devices : chan'[e].rev <= clock /\ floor'[e].rev <= clock
    BY <1>1 DEF TypeInv, Typed, Bounded
  <1>4. \A e \in Devices : chan[e].loaded \/ e = d => chan'[e].loaded
    BY <1>1 DEF TypeInv, Typed
  <1>5. Records'
    BY <1>1 DEF TypeInv, Typed, Records
  <1> QED BY <1>2, <1>3, <1>4, <1>5

LEMMA LoopFromTyped ==
    ASSUME NEW p \in Confirm
    PROVE  LoopFrom(p) \in Loop
  BY ModerationAssumption DEF LoopFrom, NoLoop, NoPend, Confirm, Loop

LEMMA LoopTyped ==
    ASSUME NEW l \in Loop, NEW at \in {"off", "wait", "read", "publish"}
    PROVE  /\ l.tries \in Nat /\ l.for \in Confirm
           /\ [l EXCEPT !.at = at] \in Loop
  BY DEF Loop

LEMMA NoneTyped == NoLoop \in Loop /\ NoPend \in Confirm
  BY DEF NoLoop, NoPend, Confirm, Loop

\* an update asked for is an update in the queue
LEMMA AskTyped ==
    ASSUME Typed, NEW d \in Devices, NEW u \in Update, Ask(d, u)
    PROVE  queue' \in [Devices -> Seq(Update)]
  BY DEF Typed, Ask

LEMMA RatifyTyped ==
    ASSUME TypeInv, NEW d \in Devices, NEW ds \in SUBSET held[d], NEW by \in Asker
    PROVE  Ratify(d, ds, by) \in Update
  <1>1. Most({x.ts : x \in ds}) \in Nat
    <2>1. \A x \in ds : x.ts \in Nat /\ x.ts <= clock
      BY DEF TypeInv, Typed, Bounded, Delta
    <2>2. {x.ts : x \in ds} \in SUBSET Nat /\ \A n \in {x.ts : x \in ds} : n <= clock
      BY <2>1
    <2> QED BY <2>2, MostIn DEF TypeInv, Typed
  <1>2. Effective(d) \in State
    BY ComposedTyped DEF Effective, TypeInv, Typed, Channel
  <1>3. [Effective(d) EXCEPT !.absorbed = Most({x.ts : x \in ds})] \in State
    BY <1>1, <1>2 DEF State
  <1>4. Asserted(d) \in SUBSET (Lists \X Items)
    BY ModerationAssumption DEF Asserted
  <1> QED BY <1>3, <1>4, ModerationAssumption DEF Ratify, Update, Fields

-----------------------------------------------------------------------------
(***************************************************************************)
(* Typing: one lemma for each action                                        *)
(***************************************************************************)
LEMMA OpenTyped == ASSUME TypeInv, NEW d \in Devices, Open(d) PROVE TypeInv'
  <1>1. PICK read \in Reads :
          /\ Spend(read[2])
          /\ LET c == IF read[1] = {} THEN Seeded(d) ELSE Applied(Seeded(d), Best(read[1]))
             IN  Adopt(d, [c EXCEPT !.loaded = TRUE])
    BY DEF Open
  <1> DEFINE b == IF read[1] = {} THEN Seeded(d) ELSE Applied(Seeded(d), Best(read[1]))
             c == [b EXCEPT !.loaded = TRUE]
  <1>2. Seeded(d) \in Channel /\ Seeded(d).rev <= clock
    BY DEF Seeded, TypeInv, Typed, Bounded
  <1>3. b \in Channel /\ b.rev <= clock
    BY <1>2, BestRead, AppliedTyped DEF TypeInv, Typed
  <1>4. c \in Channel /\ c.loaded /\ c.rev <= clock
    BY <1>3 DEF Channel
  <1>5. Adopt(d, c)
    BY <1>1
  <1>6. course' \in CourseStates
    BY <1>1, ReadOf, Spent DEF TypeInv, Typed
  <1> HIDE DEF c
  <1>7. /\ chan' \in [Devices -> Channel] /\ floor' \in [Devices -> Channel]
        /\ \A e \in Devices : chan'[e].rev <= clock /\ floor'[e].rev <= clock
        /\ \A e \in Devices : chan[e].loaded \/ e = d => chan'[e].loaded
        /\ Records'
    BY <1>4, <1>5, AdoptKeeps
  <1>8. Resumed(d) \in Confirm /\ pend' \in [Devices -> Confirm]
    BY DEF Open, Resumed, TypeInv, Typed, Confirm
  <1>9. loop' \in [Devices -> Loop]
    BY <1>8, LoopFromTyped DEF Open, TypeInv, Typed
  <1>10. known' \in [Devices -> [settled : SUBSET Mods, mods : SUBSET Mods]]
    BY DEF Open, TypeInv, Typed, Unknown
  <1>11. Typed'
    BY <1>6, <1>7, <1>8, <1>9, <1>10 DEF Open, TypeInv, Typed, netVars
  <1>12. Bounded'
    BY <1>7 DEF Open, TypeInv, Bounded, netVars
  <1>13. Sessions'
    BY <1>7 DEF Open, TypeInv, Typed, Sessions
  <1> QED BY <1>7, <1>11, <1>12, <1>13 DEF TypeInv

LEMMA SignalTyped == ASSUME TypeInv, NEW d \in Devices, NEW r \in sent, Signal(d, r) PROVE TypeInv'
  <1> DEFINE c == Applied(chan[d], r)
  <1>1. c \in Channel /\ c.loaded /\ c.rev <= clock
    BY AppliedTyped DEF TypeInv, Typed, Bounded
  <1>2. Adopt(d, c)
    BY DEF Signal
  <1> HIDE DEF c
  <1>3. /\ chan' \in [Devices -> Channel] /\ floor' \in [Devices -> Channel]
        /\ \A e \in Devices : chan'[e].rev <= clock /\ floor'[e].rev <= clock
        /\ \A e \in Devices : chan[e].loaded \/ e = d => chan'[e].loaded
        /\ Records'
    BY <1>1, <1>2, AdoptKeeps
  <1> QED BY <1>3 DEF Signal, TypeInv, Typed, Bounded, Sessions, netVars

LEMMA PollTyped == ASSUME TypeInv, NEW d \in Devices, Poll(d) PROVE TypeInv'
  <1>1. PICK read \in Reads :
          /\ Spend(read[2]) /\ read[1] # {}
          /\ Adopt(d, Applied(chan[d], Best(read[1])))
    BY DEF Poll
  <1> DEFINE c == Applied(chan[d], Best(read[1]))
  <1>2. c \in Channel /\ c.loaded /\ c.rev <= clock
    BY <1>1, BestRead, AppliedTyped DEF TypeInv, Typed, Bounded
  <1>3. Adopt(d, c)
    BY <1>1
  <1>4. course' \in CourseStates
    BY <1>1, ReadOf, Spent DEF TypeInv, Typed
  <1> HIDE DEF c
  <1>5. /\ chan' \in [Devices -> Channel] /\ floor' \in [Devices -> Channel]
        /\ \A e \in Devices : chan'[e].rev <= clock /\ floor'[e].rev <= clock
        /\ \A e \in Devices : chan[e].loaded \/ e = d => chan'[e].loaded
        /\ Records'
    BY <1>2, <1>3, AdoptKeeps
  <1> QED BY <1>4, <1>5 DEF Poll, TypeInv, Typed, Bounded, Sessions, netVars

\* the calls that only ask for a publish
LEMMA AskKeeps ==
    ASSUME TypeInv, NEW d \in Devices, NEW u \in Update, Ask(d, u),
           NEW E \in SUBSET Events, Spend(E),
           UNCHANGED <<chan, held, known, pub, loop, floor, pend, netVars, done>>
    PROVE  TypeInv'
  <1>1. queue' \in [Devices -> Seq(Update)]
    BY AskTyped DEF TypeInv
  <1>2. course' \in CourseStates
    BY Spent DEF TypeInv, Typed
  <1> QED BY <1>1, <1>2 DEF TypeInv, Typed, Bounded, Records, Sessions, netVars

LEMMA PatchTyped ==
    ASSUME NEW l \in Lists, NEW S \in SUBSET Items
    PROVE  Patch(l, S) \in Update
  BY EmptyTyped DEF Patch, Update, Fields, Asker, State

LEMMA AddTyped ==
    ASSUME TypeInv, NEW d \in Devices, NEW l \in Lists, NEW i \in Items, Add(d, l, i)
    PROVE  TypeInv'
  <1>1. chan[d].state.list[l] \cup {i} \in SUBSET Items
    BY DEF TypeInv, Typed, Channel, State
  <1> QED BY <1>1, PatchTyped, AskKeeps, {"act"} \in SUBSET Events DEF Add, Events

LEMMA LiftTyped ==
    ASSUME TypeInv, NEW d \in Devices, NEW l \in Lists, NEW i \in Items, Lift(d, l, i)
    PROVE  TypeInv'
  <1> DEFINE u == Ratify(d, held[d], "lift")
             v == [u EXCEPT !.state.list[l] = @ \ {i}, !.owes = @ \ {<<l, i>>}]
  <1>1. u \in Update
    BY RatifyTyped DEF Asker
  <1>2. v \in Update
    <2> HIDE DEF u
    <2> QED BY <1>1 DEF Update, State
  <1>3. chan[d].state.list[l] \ {i} \in SUBSET Items
    BY DEF TypeInv, Typed, Channel, State
  <1>4. Patch(l, chan[d].state.list[l] \ {i}) \in Update
    BY <1>3, PatchTyped
  <1>5. \E w \in Update : Ask(d, w)
    BY <1>2, <1>4 DEF Lift
  <1> QED BY <1>5, AskKeeps, {"act"} \in SUBSET Events DEF Lift, Events

LEMMA AbsorbTyped == ASSUME TypeInv, NEW d \in Devices, Absorb(d) PROVE TypeInv'
  <1>1. Ratify(d, Pending(d), "absorb") \in Update
    BY RatifyTyped DEF Pending, Asker
  <1> QED BY <1>1, AskKeeps, {"act"} \in SUBSET Events DEF Absorb, Events

LEMMA WholeTyped ==
    ASSUME NEW state \in State, NEW by \in Asker
    PROVE  Whole(state, by) \in Update
  BY DEF Whole, Update

LEMMA TtlRepublishTyped == ASSUME TypeInv, NEW d \in Devices, TtlRepublish(d) PROVE TypeInv'
  <1>1. Effective(d) \in State
    BY ComposedTyped DEF Effective, TypeInv, Typed, Channel
  <1>2. Whole(Effective(d), "ttl") \in Update
    BY <1>1, WholeTyped DEF Asker
  <1> QED BY <1>2, AskKeeps, {"ttl"} \in SUBSET Events DEF TtlRepublish, Events

LEMMA PatchedTyped ==
    ASSUME NEW state \in State, NEW u \in Update
    PROVE  Patched(state, u) \in State
  BY DEF Patched, Update, State

LEMMA PublishBeginTyped == ASSUME TypeInv, NEW d \in Devices, PublishBegin(d) PROVE TypeInv'
  <1> DEFINE u == Head(queue[d])
             row == [rev |-> NextRev(d), ts |-> clock + 1, by |-> d, owes |-> u.owes,
                     state |-> Patched(chan[d].state, u)]
  <1>1. u \in Update /\ Tail(queue[d]) \in Seq(Update)
    BY DEF PublishBegin, TypeInv, Typed
  <1>2. Patched(chan[d].state, u) \in State
    BY <1>1, PatchedTyped DEF TypeInv, Typed, Channel
  <1>3. row \in Row /\ u.asker \in Asker
    <2> HIDE DEF u
    <2> QED BY <1>1, <1>2 DEF Row, NextRev, TypeInv, Typed, Channel, Update
  <1>4. pub' = [pub EXCEPT ![d] = [at |-> "begun", asker |-> u.asker, row |-> row]]
    BY DEF PublishBegin
  <1>5. row.rev <= clock + 1 /\ row.ts <= clock + 1
    BY DEF NextRev, TypeInv, Typed, Bounded, Channel
  <1> HIDE DEF u, row
  <1>6. pub' \in [Devices -> Publish]
    BY <1>3, <1>4 DEF TypeInv, Typed, Publish
  <1>7. queue' \in [Devices -> Seq(Update)]
    BY <1>1 DEF PublishBegin, TypeInv, Typed
  <1>8. Typed'
    BY <1>6, <1>7 DEF PublishBegin, TypeInv, Typed
  <1>9. Bounded'
    <2> clock' = clock + 1 /\ clock \in Nat
      BY DEF PublishBegin, TypeInv, Typed
    <2>1. \A e \in Devices : pub'[e].row.rev <= clock' /\ pub'[e].row.ts <= clock'
      <3> SUFFICES ASSUME NEW e \in Devices
                   PROVE  pub'[e].row.rev <= clock' /\ pub'[e].row.ts <= clock'
        OBVIOUS
      <3>1. pub[e].row.rev \in Nat /\ pub[e].row.ts \in Nat
        BY DEF TypeInv, Typed, Publish, Row
      <3>2. pub[e].row.rev <= clock /\ pub[e].row.ts <= clock
        BY DEF TypeInv, Bounded
      <3> QED BY <1>4, <1>5, <3>1, <3>2 DEF TypeInv, Typed
    <2>2. \A r \in sent : r.rev <= clock' /\ r.ts <= clock'
      <3> SUFFICES ASSUME NEW r \in sent PROVE r.rev <= clock' /\ r.ts <= clock'
        BY DEF PublishBegin
      <3>1. r.rev \in Nat /\ r.ts \in Nat
        BY DEF TypeInv, Typed, Publish, Row
      <3> QED BY <3>1 DEF TypeInv, Bounded
    <2>3. \A e \in Devices : chan[e].rev <= clock' /\ floor[e].rev <= clock'
      BY DEF PublishBegin, TypeInv, Typed, Bounded, Channel
    <2>4. \A x \in deltas : x.ts <= clock'
      BY DEF PublishBegin, TypeInv, Typed, Bounded, Delta
    <2>5. \A e \in Devices : \A x \in held[e] : x.ts <= clock'
      BY DEF PublishBegin, TypeInv, Typed, Bounded, Delta
    <2> QED BY <2>1, <2>2, <2>3, <2>4, <2>5 DEF PublishBegin, Bounded
  <1>10. Records' /\ Sessions'
    BY <1>4 DEF PublishBegin, TypeInv, Typed, Records, Sessions
  <1> QED BY <1>8, <1>9, <1>10 DEF TypeInv

LEMMA PublishOutTyped == ASSUME TypeInv, NEW d \in Devices, PublishOut(d) PROVE TypeInv'
  <1>1. course' \in CourseStates
    BY Spent, {"lost"} \in SUBSET Events DEF PublishOut, TypeInv, Typed, Events
  <1>2. pub' \in [Devices -> Publish]
    BY DEF PublishOut, TypeInv, Typed, Publish
  <1>3. Typed'
    BY <1>1, <1>2 DEF PublishOut, TypeInv, Typed, Publish
  <1>4. Bounded'
    BY DEF PublishOut, TypeInv, Typed, Bounded
  <1> QED BY <1>3, <1>4 DEF PublishOut, TypeInv, Typed, Records, Sessions

LEMMA NoPubTyped ==
    ASSUME TypeInv, NEW d \in Devices, pub' = [pub EXCEPT ![d] = NoPub(d)], clock' = clock
    PROVE  /\ pub' \in [Devices -> Publish]
           /\ \A e \in Devices : pub'[e].row.rev <= clock' /\ pub'[e].row.ts <= clock'
  <1>1. NoPub(d) \in Publish
    BY EmptyTyped DEF NoPub, NoRow, Row, Asker, Publish
  <1>2. NoPub(d).row.rev <= clock /\ NoPub(d).row.ts <= clock
    BY DEF NoPub, NoRow, TypeInv, Typed
  <1> HIDE DEF NoPub
  <1> QED BY <1>1, <1>2 DEF TypeInv, Typed, Bounded

LEMMA PublishFailTyped == ASSUME TypeInv, NEW d \in Devices, PublishFail(d) PROVE TypeInv'
  <1>1. course' \in CourseStates
    BY Spent, {"fail"} \in SUBSET Events DEF PublishFail, TypeInv, Typed, Events
  <1>2. /\ pub' \in [Devices -> Publish]
        /\ \A e \in Devices : pub'[e].row.rev <= clock' /\ pub'[e].row.ts <= clock'
    BY NoPubTyped DEF PublishFail, netVars
  <1>3. loop' \in [Devices -> Loop]
    BY DEF PublishFail, TypeInv, Typed, NoLoop, NoPend, Confirm, Loop
  <1>4. Typed' /\ Bounded'
    BY <1>1, <1>2, <1>3 DEF PublishFail, TypeInv, Typed, Bounded, netVars
  <1>5. Records' /\ Sessions'
    BY DEF PublishFail, TypeInv, Typed, Records, Sessions, NoLoop, NoPub
  <1> QED BY <1>4, <1>5 DEF TypeInv

LEMMA PublishDoneTyped == ASSUME TypeInv, NEW d \in Devices, PublishDone(d) PROVE TypeInv'
  <1> DEFINE r == pub[d].row
             p == [rev |-> r.rev, ts |-> r.ts, stalled |-> FALSE, republished |-> pend[d].republished]
             c == Applied(chan[d], r)
  <1>1. r \in Row /\ r.rev <= clock
    BY DEF TypeInv, Typed, Bounded, Publish
  <1>2. c \in Channel /\ c.loaded /\ c.rev <= clock
    <2> HIDE DEF r
    <2> QED BY <1>1, AppliedTyped DEF TypeInv, Typed, Bounded
  <1>3. p \in Confirm
    <2> HIDE DEF r
    <2> QED BY <1>1 DEF TypeInv, Typed, Confirm, Row
  <1>4. /\ Adopt(d, c)
        /\ pend' = [pend EXCEPT ![d] = p]
        /\ loop' = [loop EXCEPT ![d] = IF @.at = "off" \/ pub[d].asker = "loop"
                                       THEN LoopFrom(p) ELSE @]
        /\ done' = [done EXCEPT ![d] = StampOf(r)]
    BY DEF PublishDone
  <1>5. StampOf(r) \in Stamp
    <2> HIDE DEF r
    <2> QED BY <1>1 DEF StampOf, Stamp, Row
  <1> HIDE DEF r, p, c
  <1>6. /\ chan' \in [Devices -> Channel] /\ floor' \in [Devices -> Channel]
        /\ \A e \in Devices : chan'[e].rev <= clock /\ floor'[e].rev <= clock
        /\ \A e \in Devices : chan[e].loaded \/ e = d => chan'[e].loaded
        /\ Records'
    BY <1>2, <1>4, AdoptKeeps
  <1>7. /\ pub' \in [Devices -> Publish]
        /\ \A e \in Devices : pub'[e].row.rev <= clock' /\ pub'[e].row.ts <= clock'
    BY NoPubTyped DEF PublishDone, netVars
  <1>8. loop' \in [Devices -> Loop]
    BY <1>3, <1>4, LoopFromTyped DEF TypeInv, Typed
  <1>9. pend' \in [Devices -> Confirm] /\ done' \in [Devices -> Stamp]
    BY <1>3, <1>4, <1>5 DEF TypeInv, Typed
  <1>10. Typed'
    BY <1>6, <1>7, <1>8, <1>9 DEF PublishDone, TypeInv, Typed, netVars
  <1>11. Bounded'
    BY <1>6, <1>7 DEF PublishDone, TypeInv, Bounded, netVars
  <1>12. Sessions'
    BY <1>4, <1>6 DEF PublishDone, TypeInv, Typed, Sessions, NoPub
  <1> QED BY <1>6, <1>10, <1>11, <1>12 DEF TypeInv

LEMMA ConfirmWaitTyped == ASSUME TypeInv, NEW d \in Devices, ConfirmWait(d) PROVE TypeInv'
  <1>1. [loop[d] EXCEPT !.at = "read"] \in Loop /\ LoopFrom(pend[d]) \in Loop
    BY LoopFromTyped, LoopTyped DEF TypeInv, Typed
  <1>2. loop' \in [Devices -> Loop]
    BY <1>1 DEF ConfirmWait, TypeInv, Typed
  <1>3. Sessions'
    BY DEF ConfirmWait, TypeInv, Typed, Sessions
  <1> QED BY <1>2, <1>3 DEF ConfirmWait, TypeInv, Typed, Bounded, Records, netVars

LEMMA LandedTyped ==
    ASSUME TypeInv, NEW d \in Devices, NEW r \in sent, Landed(d, r), course' \in CourseStates,
           UNCHANGED <<held, known, pub, netVars, done>>
    PROVE  TypeInv'
  <1> DEFINE c == Applied(chan[d], r)
  <1>1. c \in Channel /\ c.loaded /\ c.rev <= clock
    BY AppliedTyped DEF TypeInv, Typed, Bounded
  <1>2. Adopt(d, c)
    BY DEF Landed
  <1> HIDE DEF c
  <1>3. /\ chan' \in [Devices -> Channel] /\ floor' \in [Devices -> Channel]
        /\ \A e \in Devices : chan'[e].rev <= clock /\ floor'[e].rev <= clock
        /\ \A e \in Devices : chan[e].loaded \/ e = d => chan'[e].loaded
        /\ Records'
    BY <1>1, <1>2, AdoptKeeps
  <1>4. pend' \in [Devices -> Confirm]
    BY DEF Landed, TypeInv, Typed, NoPend, Confirm
  <1>5. loop' \in [Devices -> Loop]
    BY DEF Landed, TypeInv, Typed, NoLoop, NoPend, Confirm, Loop
  <1>6. Typed' /\ Bounded'
    BY <1>3, <1>4, <1>5 DEF Landed, TypeInv, Typed, Bounded, netVars
  <1>7. Sessions'
    BY <1>3 DEF Landed, TypeInv, Typed, Sessions
  <1> QED BY <1>3, <1>6, <1>7 DEF TypeInv

LEMMA MissingTyped ==
    ASSUME TypeInv, NEW d \in Devices, loop[d].at = "read", Missing(d), course' \in CourseStates,
           UNCHANGED <<held, known, pub, netVars, done>>
    PROVE  TypeInv'
  <1> DEFINE p == loop[d].for
  <1>1. /\ [p EXCEPT !.stalled = TRUE] \in Confirm /\ [p EXCEPT !.republished = @ + 1] \in Confirm
        /\ [loop[d] EXCEPT !.at = "publish"] \in Loop
    <2>1. loop[d] \in Loop /\ p \in Confirm
      BY LoopTyped DEF TypeInv, Typed
    <2>2. [loop[d] EXCEPT !.at = "publish"] \in Loop
      BY <2>1, LoopTyped
    <2> HIDE DEF p
    <2>3. [p EXCEPT !.stalled = TRUE] \in Confirm /\ [p EXCEPT !.republished = @ + 1] \in Confirm
      <3>1. p.republished + 1 \in Nat
        BY <2>1 DEF Confirm
      <3> DEFINE n == p.republished + 1
      <3>2. [p EXCEPT !.stalled = TRUE] \in Confirm
        BY <2>1 DEF Confirm
      <3>3. [p EXCEPT !.republished = n] \in Confirm
        BY <2>1, <3>1 DEF Confirm
      <3> QED BY <3>2, <3>3
    <2> QED BY <2>2, <2>3
  <1>2. pend' \in [Devices -> Confirm]
    BY <1>1 DEF Missing, TypeInv, Typed
  <1>3. loop' \in [Devices -> Loop]
    BY <1>1, NoneTyped DEF Missing, TypeInv, Typed
  <1>4. Whole(chan[d].state, "loop") \in Update
    BY WholeTyped DEF Asker, TypeInv, Typed, Channel
  <1>5. queue' \in [Devices -> Seq(Update)]
    <2>1. CASE UNCHANGED queue
      BY <2>1 DEF TypeInv, Typed
    <2>2. CASE Ask(d, Whole(chan[d].state, "loop"))
      BY <2>2, <1>4, AskTyped DEF TypeInv
    <2> QED BY <2>1, <2>2 DEF Missing
  <1>6. Typed' /\ Bounded'
    BY <1>2, <1>3, <1>5 DEF Missing, TypeInv, Typed, Bounded, netVars
  <1>7. Records' /\ Sessions'
    BY DEF Missing, TypeInv, Typed, Records, Sessions
  <1> QED BY <1>6, <1>7 DEF TypeInv

LEMMA ConfirmReadTyped == ASSUME TypeInv, NEW d \in Devices, ConfirmRead(d) PROVE TypeInv'
  <1>1. PICK read \in Reads :
          /\ Spend(read[2])
          /\ IF read[1] # {} /\ ~Later(loop[d].for, Best(read[1])) THEN Landed(d, Best(read[1]))
             ELSE IF loop[d].tries > 1
             THEN /\ loop' = [loop EXCEPT ![d] = [at |-> "wait", tries |-> @.tries - 1, for |-> @.for]]
                  /\ UNCHANGED <<chan, queue, floor, pend>>
             ELSE Missing(d)
    BY DEF ConfirmRead
  <1>2. course' \in CourseStates
    BY <1>1, ReadOf, Spent DEF TypeInv, Typed
  <1>3. UNCHANGED <<held, known, pub, netVars, done>> /\ loop[d].at = "read"
    BY DEF ConfirmRead
  <1>4. CASE read[1] # {} /\ ~Later(loop[d].for, Best(read[1]))
    <2>1. Best(read[1]) \in sent
      BY <1>4, BestRead DEF TypeInv
    <2> QED BY <1>1, <1>2, <1>3, <1>4, <2>1, LandedTyped
  <1>5. CASE ~(read[1] # {} /\ ~Later(loop[d].for, Best(read[1]))) /\ loop[d].tries > 1
    <2>1. /\ loop' = [loop EXCEPT ![d] = [at |-> "wait", tries |-> @.tries - 1, for |-> @.for]]
          /\ UNCHANGED <<chan, queue, floor, pend>>
      BY <1>1, <1>5
    <2>2. loop' \in [Devices -> Loop]
      <3>1. loop[d].tries \in Nat /\ loop[d].for \in Confirm
        BY LoopTyped DEF TypeInv, Typed
      <3>2. [at |-> "wait", tries |-> loop[d].tries - 1, for |-> loop[d].for] \in Loop
        BY <1>5, <3>1 DEF Loop
      <3> QED BY <2>1, <3>2 DEF TypeInv, Typed
    <2>3. Sessions'
      BY <1>3, <2>1 DEF TypeInv, Typed, Sessions
    <2> QED BY <1>2, <1>3, <2>1, <2>2, <2>3 DEF TypeInv, Typed, Bounded, Records, netVars
  <1>6. CASE ~(read[1] # {} /\ ~Later(loop[d].for, Best(read[1]))) /\ ~(loop[d].tries > 1)
    BY <1>1, <1>2, <1>3, <1>6, MissingTyped
  <1> QED BY <1>4, <1>5, <1>6

LEMMA ModerateTyped ==
    ASSUME TypeInv, NEW m \in Mods, NEW l \in Delegated, NEW i \in Items, NEW add \in BOOLEAN,
           Moderate(m, l, i, add)
    PROVE  TypeInv'
  <1> DEFINE x == [ts |-> clock + 1, mod |-> m, list |-> l, item |-> i, add |-> add]
  <1>1. clock \in Nat /\ clock' = clock + 1 /\ m \in Devices
    BY DEF Moderate, TypeInv, Typed, Devices
  <1>2. x \in Delta /\ x.ts <= clock'
    BY <1>1 DEF Delta
  <1>3. held' = [held EXCEPT ![m] = @ \cup {x}] /\ deltas' \in {deltas, deltas \cup {x}}
    BY DEF Moderate
  <1>4. course' \in CourseStates
    BY Spent, {"delta"} \in SUBSET Events, {"delta", "fail"} \in SUBSET Events
       DEF Moderate, TypeInv, Typed, Events
  <1> HIDE DEF x
  <1>5. held' \in [Devices -> SUBSET Delta] /\ deltas' \subseteq Delta
    BY <1>1, <1>2, <1>3 DEF TypeInv, Typed
  <1>6. Typed'
    BY <1>1, <1>4, <1>5 DEF Moderate, TypeInv, Typed
  <1>7. Bounded'
    <2>1. \A y \in deltas : y.ts <= clock'
      BY <1>1 DEF TypeInv, Typed, Bounded, Delta
    <2>2. \A d \in Devices : \A y \in held[d] : y.ts <= clock'
      BY <1>1 DEF TypeInv, Typed, Bounded, Delta
    <2>3. ASSUME NEW d \in Devices, NEW y \in held'[d] PROVE y.ts <= clock'
      BY <1>1, <1>2, <1>3, <2>2 DEF TypeInv, Typed
    <2>4. \A r \in sent : r.rev <= clock' /\ r.ts <= clock'
      <3> SUFFICES ASSUME NEW r \in sent PROVE r.rev <= clock' /\ r.ts <= clock'
        OBVIOUS
      <3>1. r.rev \in Nat /\ r.ts \in Nat
        BY DEF TypeInv, Typed, Publish, Row
      <3> QED BY <1>1, <3>1 DEF TypeInv, Bounded
    <2>5. \A d \in Devices : chan[d].rev <= clock' /\ floor[d].rev <= clock'
      BY <1>1 DEF TypeInv, Typed, Bounded, Channel
    <2>6. \A d \in Devices : pub[d].row.rev <= clock' /\ pub[d].row.ts <= clock'
      <3> SUFFICES ASSUME NEW d \in Devices
                   PROVE  pub[d].row.rev <= clock' /\ pub[d].row.ts <= clock'
        OBVIOUS
      <3>1. pub[d].row.rev \in Nat /\ pub[d].row.ts \in Nat
        BY DEF TypeInv, Typed, Publish, Row
      <3> QED BY <1>1, <3>1 DEF TypeInv, Bounded
    <2> QED BY <1>2, <1>3, <2>1, <2>3, <2>4, <2>5, <2>6 DEF Moderate, Bounded
  <1> QED BY <1>6, <1>7 DEF Moderate, TypeInv, Records, Sessions

LEMMA IngestTyped ==
    ASSUME TypeInv, NEW d \in Devices, NEW x \in deltas, Ingest(d, x)
    PROVE  TypeInv'
  <1>1. held' = [held EXCEPT ![d] = @ \cup {x}] /\ x \in Delta /\ x.ts <= clock
    BY DEF Ingest, TypeInv, Typed, Bounded
  <1>2. held' \in [Devices -> SUBSET Delta]
    BY <1>1 DEF TypeInv, Typed
  <1>3. \A e \in Devices : \A y \in held'[e] : y.ts <= clock
    BY <1>1 DEF TypeInv, Typed, Bounded
  <1> QED BY <1>2, <1>3 DEF Ingest, TypeInv, Typed, Bounded, Records, Sessions, netVars

LEMMA VerdictTyped == ASSUME TypeInv, NEW d \in Devices, NEW m \in Mods, Verdict(d, m) PROVE TypeInv'
  <1>1. known' \in [Devices -> [settled : SUBSET Mods, mods : SUBSET Mods]]
    BY DEF Verdict, TypeInv, Typed
  <1> QED BY <1>1 DEF Verdict, TypeInv, Typed, Bounded, Records, Sessions, netVars

LEMMA DismissTyped == ASSUME TypeInv, NEW m \in Mods, Dismiss(m) PROVE TypeInv'
  <1>1. course' \in CourseStates
    BY Spent, {"dismiss"} \in SUBSET Events DEF Dismiss, TypeInv, Typed, Events
  <1> QED BY <1>1 DEF Dismiss, TypeInv, Typed, Bounded, Records, Sessions

LEMMA RestartTyped == ASSUME TypeInv, NEW d \in Devices, Restart(d) PROVE TypeInv'
  <1>1. course' \in CourseStates
    BY Spent, {"crash"} \in SUBSET Events DEF Restart, TypeInv, Typed, Events
  <1>2. chan' \in [Devices -> Channel] /\ \A e \in Devices : chan'[e].rev <= clock
    BY EmptyTyped DEF Restart, TypeInv, Typed, Bounded, Blank
  <1>3. /\ pub' \in [Devices -> Publish]
        /\ \A e \in Devices : pub'[e].row.rev <= clock' /\ pub'[e].row.ts <= clock'
    BY NoPubTyped DEF Restart, netVars
  <1>4. loop' \in [Devices -> Loop]
    BY DEF Restart, TypeInv, Typed, NoLoop, NoPend, Confirm, Loop
  <1>5. /\ held' \in [Devices -> SUBSET Delta] /\ queue' \in [Devices -> Seq(Update)]
        /\ known' \in [Devices -> [settled : SUBSET Mods, mods : SUBSET Mods]]
    BY DEF Restart, TypeInv, Typed, Unknown
  <1>6. Typed'
    BY <1>1, <1>2, <1>3, <1>4, <1>5 DEF Restart, TypeInv, Typed, netVars
  <1>7. Bounded'
    BY <1>2, <1>3 DEF Restart, TypeInv, Typed, Bounded, netVars
  <1>8. Records' /\ Sessions'
    BY DEF Restart, TypeInv, Typed, Records, Sessions, NoPub, NoLoop
  <1> QED BY <1>6, <1>7, <1>8 DEF TypeInv

LEMMA InitTyped == Init => TypeInv
  <1> SUFFICES ASSUME Init PROVE TypeInv
    OBVIOUS
  <1>1. \A d \in Devices : NoPub(d) \in Publish
    BY EmptyTyped DEF NoPub, NoRow, Row, Asker, Publish
  <1>2. NoLoop \in Loop
    BY NoneTyped
  <1>3. pub \in [Devices -> Publish]
    <2> HIDE DEF NoPub
    <2> QED BY <1>1 DEF Init
  <1>4. /\ chan \in [Devices -> Channel] /\ floor \in [Devices -> Channel]
        /\ held \in [Devices -> SUBSET Delta] /\ queue \in [Devices -> Seq(Update)]
        /\ pend \in [Devices -> Confirm] /\ done \in [Devices -> Stamp]
        /\ known \in [Devices -> [settled : SUBSET Mods, mods : SUBSET Mods]]
    BY EmptyTyped DEF Init, Unknown, NoPend, Confirm, Never, Stamp
  <1>5. loop \in [Devices -> Loop]
    BY <1>2 DEF Init
  <1>6. Typed
    BY <1>3, <1>4, <1>5, ModerationAssumption DEF Init, Typed
  <1>7. Bounded
    BY DEF Init, Bounded, Blank, NoPub, NoRow
  <1>8. Records /\ Sessions
    BY DEF Init, Records, Sessions, NoPub, NoLoop
  <1> QED BY <1>6, <1>7, <1>8 DEF TypeInv

LEMMA NextTyped == TypeInv /\ [Next]_vars => TypeInv'
  <1> SUFFICES ASSUME TypeInv, [Next]_vars PROVE TypeInv'
    OBVIOUS
  <1>1. CASE UNCHANGED vars
    BY <1>1 DEF vars, netVars, TypeInv, Typed, Bounded, Records, Sessions
  <1>2. ASSUME NEW d \in Running,
               \/ Open(d) \/ Poll(d) \/ Restart(d)
               \/ \E r \in sent : Signal(d, r)
               \/ \E x \in deltas : Ingest(d, x)
               \/ \E m \in Mods : Verdict(d, m)
        PROVE  TypeInv'
    <2>1. d \in Devices
      BY DEF Running, TypeInv, Typed, CourseStates, Devices
    <2> QED BY <1>2, <2>1, OpenTyped, PollTyped, RestartTyped, SignalTyped, IngestTyped, VerdictTyped
  <1>3. ASSUME NEW d \in Running \cap Owners, Step(d) \/ OwnerActs(d)
        PROVE  TypeInv'
    <2>1. d \in Devices /\ course.lists \subseteq Lists
      BY DEF TypeInv, Typed, CourseStates, Devices
    <2> QED BY <1>3, <2>1, PublishBeginTyped, PublishOutTyped, PublishDoneTyped, ConfirmWaitTyped,
               ConfirmReadTyped, AddTyped, LiftTyped, AbsorbTyped, TtlRepublishTyped, PublishFailTyped
            DEF Step, OwnerActs
  <1>4. ASSUME NEW m \in Running \cap Mods,
               \/ \E l \in Delegated \cap course.lists, i \in Items, add \in BOOLEAN :
                     Moderate(m, l, i, add)
               \/ Dismiss(m)
        PROVE  TypeInv'
    BY <1>4, ModerateTyped, DismissTyped
  <1> QED BY <1>1, <1>2, <1>3, <1>4 DEF Next

-----------------------------------------------------------------------------
(***************************************************************************)
(* A confirmation asks for one publish at a time                            *)
(***************************************************************************)
Asked(q)      == {k \in DOMAIN q : q[k].asker = "loop"}
Publishing(d) == pub[d].at # "idle" /\ pub[d].asker = "loop"

\* a confirmation that waits for its own publish has one, in the queue or under way
OneAsked(d) ==
    /\ loop[d].at = "publish" <=> Publishing(d) \/ Asked(queue[d]) # {}
    /\ Publishing(d) => Asked(queue[d]) = {}
    /\ \A j, k \in Asked(queue[d]) : j = k

LoopInv == \A d \in Devices : OneAsked(d)

LEMMA AskedAppend ==
    ASSUME NEW q \in Seq(Update), NEW u \in Update
    PROVE  Asked(Append(q, u)) = IF u.asker = "loop" THEN Asked(q) \cup {Len(q) + 1} ELSE Asked(q)
  BY DEF Asked

LEMMA AskedTail ==
    ASSUME NEW q \in Seq(Update), q # <<>>
    PROVE  /\ \A k \in Asked(Tail(q)) : k \in Nat \ {0} /\ k + 1 \in Asked(q)
           /\ \A k \in Asked(q) : k = 1 \/ k - 1 \in Asked(Tail(q))
           /\ Head(q).asker = "loop" <=> 1 \in Asked(q)
  BY DEF Asked

\* nothing of a device changes here
LEMMA OneAskedKept ==
    ASSUME NEW e \in Devices, OneAsked(e), queue'[e] = queue[e], pub'[e] = pub[e],
           loop'[e].at = loop[e].at \/ (loop[e].at # "publish" /\ loop'[e].at # "publish")
    PROVE  OneAsked(e)'
  BY DEF OneAsked, Publishing

LEMMA AskPlain ==
    ASSUME TypeInv, LoopInv, NEW d \in Devices, NEW u \in Update, u.asker # "loop", Ask(d, u),
           UNCHANGED <<pub, loop>>
    PROVE  LoopInv'
  <1> SUFFICES ASSUME NEW e \in Devices PROVE OneAsked(e)'
    BY DEF LoopInv
  <1>1. CASE e # d
    BY <1>1, OneAskedKept DEF Ask, LoopInv, TypeInv, Typed
  <1>2. CASE e = d
    <2>1. queue[d] \in Seq(Update) /\ queue'[d] = Append(queue[d], u)
      BY DEF Ask, TypeInv, Typed
    <2>2. Asked(queue'[d]) = Asked(queue[d])
      BY <2>1, AskedAppend
    <2> QED BY <1>2, <2>2 DEF LoopInv, OneAsked, Publishing
  <1> QED BY <1>1, <1>2

LEMMA PublishBeginOne == ASSUME TypeInv, LoopInv, NEW d \in Devices, PublishBegin(d) PROVE LoopInv'
  <1> SUFFICES ASSUME NEW e \in Devices PROVE OneAsked(e)'
    BY DEF LoopInv
  <1>1. CASE e # d
    BY <1>1, OneAskedKept DEF PublishBegin, LoopInv, TypeInv, Typed
  <1>2. CASE e = d
    <2> DEFINE q == queue[d]
    <2>1. q \in Seq(Update) /\ q # <<>> /\ queue'[d] = Tail(q)
      BY DEF PublishBegin, TypeInv, Typed
    <2>2. pub[d].at = "idle" /\ pub'[d].at = "begun" /\ pub'[d].asker = Head(q).asker
      BY DEF PublishBegin, TypeInv, Typed
    <2>3. loop' = loop
      BY DEF PublishBegin
    <2>4. OneAsked(d)
      BY DEF LoopInv
    <2> HIDE DEF q
    <2>5. Asked(q) # {} <=> Head(q).asker = "loop" \/ Asked(Tail(q)) # {}
      BY <2>1, AskedTail
    <2>6. \A j, k \in Asked(q) : j = k
      BY <2>4 DEF OneAsked, q
    <2>7. Head(q).asker = "loop" => Asked(Tail(q)) = {}
      <3> SUFFICES ASSUME Head(q).asker = "loop", NEW k \in Asked(Tail(q)) PROVE FALSE
        OBVIOUS
      <3>1. k \in Nat \ {0} /\ k + 1 \in Asked(q) /\ 1 \in Asked(q)
        BY <2>1, AskedTail
      <3>2. k + 1 = 1
        BY <3>1, <2>6
      <3> QED BY <3>1, <3>2
    <2>8. \A j, k \in Asked(Tail(q)) : j = k
      <3> SUFFICES ASSUME NEW j \in Asked(Tail(q)), NEW k \in Asked(Tail(q)) PROVE j = k
        OBVIOUS
      <3>1. j \in Nat /\ k \in Nat /\ j + 1 \in Asked(q) /\ k + 1 \in Asked(q)
        BY <2>1, AskedTail
      <3>2. j + 1 = k + 1
        BY <3>1, <2>6
      <3> QED BY <3>1, <3>2
    <2> QED BY <1>2, <2>1, <2>2, <2>3, <2>4, <2>5, <2>7, <2>8 DEF OneAsked, Publishing, q
  <1> QED BY <1>1, <1>2

LEMMA PublishEndsOne ==
    ASSUME TypeInv, LoopInv, NEW d \in Devices, PublishFail(d) \/ PublishDone(d)
    PROVE  LoopInv'
  <1> SUFFICES ASSUME NEW e \in Devices PROVE OneAsked(e)'
    BY DEF LoopInv
  <1>1. CASE e # d
    BY <1>1, OneAskedKept DEF PublishFail, PublishDone, LoopInv, TypeInv, Typed
  <1>2. CASE e = d
    <2>1. OneAsked(d) /\ queue' = queue /\ pub[d].at # "idle" /\ pub'[d].at = "idle"
      BY DEF PublishFail, PublishDone, LoopInv, TypeInv, Typed, NoPub
    <2>2. \A p : LoopFrom(p).at # "publish"
      BY DEF LoopFrom, NoLoop
    <2>3. IF pub[d].asker = "loop" THEN loop'[d].at # "publish"
          ELSE loop'[d].at = loop[d].at \/ (loop[d].at # "publish" /\ loop'[d].at # "publish")
      BY <2>2 DEF PublishFail, PublishDone, TypeInv, Typed, NoLoop
    <2> QED BY <1>2, <2>1, <2>3 DEF OneAsked, Publishing
  <1> QED BY <1>1, <1>2

LEMMA MissingOne ==
    ASSUME TypeInv, LoopInv, NEW d \in Devices, loop[d].at = "read", Missing(d), UNCHANGED pub
    PROVE  LoopInv'
  <1> SUFFICES ASSUME NEW e \in Devices PROVE OneAsked(e)'
    BY DEF LoopInv
  <1>1. CASE e # d
    BY <1>1, OneAskedKept DEF Missing, Ask, LoopInv, TypeInv, Typed
  <1>2. CASE e = d /\ queue' = queue /\ loop' = [loop EXCEPT ![d] = NoLoop]
    BY <1>2, OneAskedKept DEF LoopInv, TypeInv, Typed, NoLoop
  <1>3. CASE e = d /\ Ask(d, Whole(chan[d].state, "loop")) /\ loop' = [loop EXCEPT ![d].at = "publish"]
    <2> DEFINE u == Whole(chan[d].state, "loop")
    <2>1. u \in Update /\ u.asker = "loop"
      BY WholeTyped DEF Asker, TypeInv, Typed, Channel, Whole
    <2>2. queue[d] \in Seq(Update) /\ queue'[d] = Append(queue[d], u)
      BY <1>3 DEF Ask, TypeInv, Typed
    <2> HIDE DEF u
    <2>3. Asked(queue'[d]) = Asked(queue[d]) \cup {Len(queue[d]) + 1}
      BY <2>1, <2>2, AskedAppend
    <2>4. ~Publishing(d) /\ Asked(queue[d]) = {}
      BY DEF LoopInv, OneAsked
    <2>5. loop'[d].at = "publish"
      BY <1>3 DEF TypeInv, Typed, Loop
    <2> QED BY <1>3, <2>3, <2>4, <2>5 DEF OneAsked, Publishing
  <1> QED BY <1>1, <1>2, <1>3 DEF Missing

LEMMA RestartOne == ASSUME TypeInv, LoopInv, NEW d \in Devices, Restart(d) PROVE LoopInv'
  <1> SUFFICES ASSUME NEW e \in Devices PROVE OneAsked(e)'
    BY DEF LoopInv
  <1>1. CASE e # d
    BY <1>1, OneAskedKept DEF Restart, LoopInv, TypeInv, Typed
  <1>2. CASE e = d
    BY <1>2 DEF Restart, TypeInv, Typed, OneAsked, Publishing, Asked, NoPub, NoLoop
  <1> QED BY <1>1, <1>2

\* what changes nothing but a confirmation that is not publishing
LEMMA LoopKept ==
    ASSUME LoopInv, UNCHANGED <<queue, pub>>,
           \A e \in Devices : \/ loop'[e].at = loop[e].at
                              \/ loop[e].at # "publish" /\ loop'[e].at # "publish"
    PROVE  LoopInv'
  BY OneAskedKept DEF LoopInv

LEMMA StepOne == ASSUME TypeInv, LoopInv, NEW d \in Devices, Step(d) PROVE LoopInv'
  <1>1. CASE PublishBegin(d)
    BY <1>1, PublishBeginOne
  <1>2. CASE PublishOut(d)
    BY <1>2 DEF PublishOut, TypeInv, Typed, LoopInv, OneAsked, Publishing
  <1>3. CASE PublishDone(d)
    BY <1>3, PublishEndsOne
  <1>4. CASE ConfirmWait(d)
    <2>1. \A p : LoopFrom(p).at # "publish"
      BY DEF LoopFrom, NoLoop
    <2> QED BY <1>4, <2>1, LoopKept DEF ConfirmWait, TypeInv, Typed
  <1>5. CASE ConfirmRead(d)
    <2>1. CASE \E r : Landed(d, r)
      BY <1>5, <2>1, LoopKept DEF ConfirmRead, Landed, TypeInv, Typed, NoLoop
    <2>2. CASE Missing(d)
      BY <1>5, <2>2, MissingOne DEF ConfirmRead
    <2> DEFINE again == [at |-> "wait", tries |-> loop[d].tries - 1, for |-> loop[d].for]
    <2>3. CASE UNCHANGED queue /\ loop' = [loop EXCEPT ![d] = again]
      BY <1>5, <2>3, LoopKept DEF ConfirmRead, TypeInv, Typed
    <2>4. PICK read \in Reads :
            \/ Landed(d, Best(read[1]))
            \/ UNCHANGED queue /\ loop' = [loop EXCEPT ![d] = again]
            \/ Missing(d)
      BY <1>5 DEF ConfirmRead
    <2> QED BY <2>1, <2>2, <2>3, <2>4
  <1> QED BY <1>1, <1>2, <1>3, <1>4, <1>5 DEF Step

LEMMA OwnerActsOne ==
    ASSUME TypeInv, LoopInv, NEW d \in Devices, OwnerActs(d), course.lists \subseteq Lists
    PROVE  LoopInv'
  <1>1. ASSUME NEW l \in course.lists, NEW i \in Items, Add(d, l, i) PROVE LoopInv'
    <2>1. chan[d].state.list[l] \cup {i} \in SUBSET Items
      BY DEF TypeInv, Typed, Channel, State
    <2> QED BY <1>1, <2>1, PatchTyped, AskPlain DEF Add, Patch
  <1>2. ASSUME NEW l \in course.lists, NEW i \in Items, Lift(d, l, i) PROVE LoopInv'
    <2> DEFINE u == Ratify(d, held[d], "lift")
               v == [u EXCEPT !.state.list[l] = @ \ {i}, !.owes = @ \ {<<l, i>>}]
    <2>1. u \in Update /\ u.asker = "lift"
      BY RatifyTyped DEF Asker, Ratify
    <2>2. v \in Update /\ v.asker = "lift"
      <3> HIDE DEF u
      <3> QED BY <2>1 DEF Update, State
    <2>3. chan[d].state.list[l] \ {i} \in SUBSET Items
      BY DEF TypeInv, Typed, Channel, State
    <2>4. /\ Patch(l, chan[d].state.list[l] \ {i}) \in Update
          /\ Patch(l, chan[d].state.list[l] \ {i}).asker = "user"
      BY <2>3, PatchTyped DEF Patch
    <2>5. \E w \in Update : w.asker # "loop" /\ Ask(d, w)
      BY <1>2, <2>2, <2>4 DEF Lift
    <2> QED BY <1>2, <2>5, AskPlain DEF Lift
  <1>3. CASE Absorb(d)
    <2>1. Ratify(d, Pending(d), "absorb") \in Update
      BY RatifyTyped DEF Pending, Asker
    <2> QED BY <1>3, <2>1, AskPlain DEF Absorb, Ratify
  <1>4. CASE TtlRepublish(d)
    <2>1. Effective(d) \in State
      BY ComposedTyped DEF Effective, TypeInv, Typed, Channel
    <2>2. Whole(Effective(d), "ttl") \in Update
      BY <2>1, WholeTyped DEF Asker
    <2> QED BY <1>4, <2>2, AskPlain DEF TtlRepublish, Whole
  <1>5. CASE PublishFail(d)
    BY <1>5, PublishEndsOne
  <1> QED BY <1>1, <1>2, <1>3, <1>4, <1>5 DEF OwnerActs

LEMMA NextOne == TypeInv /\ LoopInv /\ [Next]_vars => LoopInv'
  <1> SUFFICES ASSUME TypeInv, LoopInv, [Next]_vars PROVE LoopInv'
    OBVIOUS
  <1>1. CASE UNCHANGED <<queue, pub, loop>>
    BY <1>1, LoopKept
  <1>2. ASSUME NEW d \in Running, Open(d) PROVE LoopInv'
    <2>1. d \in Devices
      BY DEF TypeInv, Typed, CourseStates, Devices, Running
    <2>2. \A p : LoopFrom(p).at # "publish"
      BY DEF LoopFrom, NoLoop
    <2> QED BY <1>2, <2>1, <2>2, LoopKept DEF Open, TypeInv, Typed
  <1>3. ASSUME NEW d \in Running, Restart(d) PROVE LoopInv'
    BY <1>3, RestartOne DEF TypeInv, Typed, CourseStates, Devices, Running
  <1>4. ASSUME NEW d \in Running \cap Owners, Step(d) \/ OwnerActs(d) PROVE LoopInv'
    <2>1. d \in Devices /\ course.lists \subseteq Lists
      BY DEF TypeInv, Typed, CourseStates, Devices
    <2> QED BY <1>4, <2>1, StepOne, OwnerActsOne
  <1> QED BY <1>1, <1>2, <1>3, <1>4
          DEF Next, vars, Poll, Signal, Ingest, Verdict, Moderate, Dismiss

-----------------------------------------------------------------------------
(***************************************************************************)
(* The revisions of one device                                              *)
(***************************************************************************)
\* no own row is more than a revision past the floor
OwnRows(d) == \A r \in sent : r.by = d => r.rev <= floor[d].rev + 1

\* nor is the row under way, which is past every own row until it is out
Ahead(d) ==
    /\ pub[d].at # "idle" => pub[d].row.by = d /\ pub[d].row.rev <= floor[d].rev + 1
    /\ pub[d].at = "begun" => \A r \in sent :
          r.by = d => r.rev <= pub[d].row.rev /\ r.ts < pub[d].row.ts

OwnInv == LaterWins /\ \A d \in Devices : OwnRows(d) /\ Ahead(d)

\* the floor of a device never goes back: a read that brings nothing, or old rows, leaves it,
\* and a cold session starts from it
LEMMA AdoptGrows ==
    ASSUME TypeInv, NEW d \in Devices, NEW c \in Channel, c.loaded, c.rev >= floor[d].rev, Adopt(d, c)
    PROVE  \A e \in Devices : floor'[e].rev >= floor[e].rev
  <1>1. floor' = [floor EXCEPT ![d] = c]
    BY Adopted DEF TypeInv
  <1>2. \A e \in Devices : floor[e].rev \in Nat
    BY DEF TypeInv, Typed, Channel
  <1> QED BY <1>1, <1>2 DEF TypeInv, Typed

\* a record of an open channel that is applied to is not before the floor
LEMMA AppliedGrows ==
    ASSUME TypeInv, NEW d \in Devices, chan[d].loaded, NEW r \in Row, r.rev <= clock,
           Adopt(d, Applied(chan[d], r))
    PROVE  \A e \in Devices : floor'[e].rev >= floor[e].rev
  <1> DEFINE c == Applied(chan[d], r)
  <1>1. chan[d] \in Channel /\ chan[d].rev <= clock /\ clock \in Nat /\ chan[d] = floor[d]
    BY DEF TypeInv, Typed, Bounded, Records, Blank
  <1>2. c \in Channel /\ c.loaded /\ c.rev >= chan[d].rev
    BY <1>1, AppliedTyped DEF Channel
  <1> HIDE DEF c
  <1> QED BY <1>1, <1>2, AdoptGrows DEF c

LEMMA OpenGrows ==
    ASSUME TypeInv, NEW d \in Devices, Open(d)
    PROVE  \A e \in Devices : floor'[e].rev >= floor[e].rev
  <1>1. PICK read \in Reads :
          LET c == IF read[1] = {} THEN Seeded(d) ELSE Applied(Seeded(d), Best(read[1]))
          IN  Adopt(d, [c EXCEPT !.loaded = TRUE])
    BY DEF Open
  <1> DEFINE b == IF read[1] = {} THEN Seeded(d) ELSE Applied(Seeded(d), Best(read[1]))
             c == [b EXCEPT !.loaded = TRUE]
  <1>2. chan[d] \in Channel /\ floor[d] \in Channel
    BY DEF TypeInv, Typed
  <1>3. /\ Seeded(d) \in Channel /\ Seeded(d).rev <= clock /\ Seeded(d).rev >= floor[d].rev
        /\ Seeded(d).loaded \/ floor[d].rev = 0
    BY <1>2 DEF Seeded, Later, Channel, TypeInv, Bounded, Records, Blank
  <1>4. b \in Channel /\ b.rev >= floor[d].rev
    <2>1. CASE read[1] = {}
      BY <1>3, <2>1
    <2>2. CASE read[1] # {}
      <3>1. Best(read[1]) \in Row /\ Best(read[1]).rev <= clock
        BY <2>2, BestRead DEF TypeInv
      <3>2. /\ Applied(Seeded(d), Best(read[1])) \in Channel
            /\ Seeded(d).loaded => Seeded(d).rev <= Applied(Seeded(d), Best(read[1])).rev
        BY <1>3, <3>1, AppliedTyped DEF TypeInv, Typed
      <3> QED BY <1>2, <1>3, <2>2, <3>2 DEF Channel
    <2> QED BY <2>1, <2>2
  <1>5. c \in Channel /\ c.loaded /\ c.rev >= floor[d].rev
    <2> HIDE DEF b
    <2> QED BY <1>4 DEF Channel
  <1>6. Adopt(d, c)
    BY <1>1
  <1> HIDE DEF c
  <1> QED BY <1>5, <1>6, AdoptGrows

LEMMA FloorGrows ==
    ASSUME TypeInv, [Next]_vars
    PROVE  \A e \in Devices : floor'[e].rev >= floor[e].rev
  <1> DEFINE Grows == \A e \in Devices : floor'[e].rev >= floor[e].rev
  <1>1. CASE UNCHANGED floor
    BY <1>1 DEF TypeInv, Typed, Channel
  <1>2. ASSUME NEW d \in Devices, Open(d) PROVE Grows
    BY <1>2, OpenGrows
  <1>3. ASSUME NEW d \in Devices, NEW r \in sent, Signal(d, r) PROVE Grows
    BY <1>3, AppliedGrows DEF Signal, TypeInv, Typed, Bounded
  <1>4. ASSUME NEW d \in Devices, Poll(d) PROVE Grows
    <2>1. PICK read \in Reads : read[1] # {} /\ Adopt(d, Applied(chan[d], Best(read[1])))
      BY <1>4 DEF Poll
    <2>2. Best(read[1]) \in Row /\ Best(read[1]).rev <= clock
      BY <2>1, BestRead DEF TypeInv
    <2> QED BY <1>4, <2>1, <2>2, AppliedGrows DEF Poll
  <1>5. ASSUME NEW d \in Devices, PublishDone(d) PROVE Grows
    <2>1. pub[d].row \in Row /\ pub[d].row.rev <= clock /\ chan[d].loaded
      BY <1>5 DEF PublishDone, TypeInv, Typed, Bounded, Sessions, Publish
    <2> QED BY <1>5, <2>1, AppliedGrows DEF PublishDone
  <1>6. ASSUME NEW d \in Devices, ConfirmRead(d) PROVE Grows
    <2>1. CASE UNCHANGED floor
      BY <1>1, <2>1
    <2>2. ASSUME NEW read \in Reads, read[1] # {}, Landed(d, Best(read[1])) PROVE Grows
      <3>1. Best(read[1]) \in Row /\ Best(read[1]).rev <= clock
        BY <2>2, BestRead DEF TypeInv
      <3>2. chan[d].loaded
        BY <1>6 DEF ConfirmRead, TypeInv, Sessions
      <3> QED BY <2>2, <3>1, <3>2, AppliedGrows DEF Landed
    <2> QED BY <1>6, <2>1, <2>2 DEF ConfirmRead, Missing
  <1>7. \A d \in Running : d \in Devices
    BY DEF TypeInv, Typed, CourseStates, Devices, Running
  <1>8. CASE UNCHANGED vars
    BY <1>1, <1>8 DEF vars
  <1>9. ASSUME NEW d \in Running \cap Owners, Step(d) \/ OwnerActs(d) PROVE Grows
    BY <1>9, <1>1, <1>5, <1>6, <1>7
       DEF Step, OwnerActs, PublishBegin, PublishOut, ConfirmWait, Add, Lift, Absorb,
           TtlRepublish, PublishFail
  <1> QED BY <1>1, <1>2, <1>3, <1>4, <1>7, <1>8, <1>9
          DEF Next, Restart, Ingest, Verdict, Moderate, Dismiss

\* nothing is published here
LEMMA OwnKept ==
    ASSUME TypeInv, OwnInv, \A e \in Devices : floor'[e] \in Channel /\ floor'[e].rev >= floor[e].rev,
           sent' = sent, \A e \in Devices : pub'[e] = pub[e] \/ pub'[e].at = "idle"
    PROVE  OwnInv'
  <1>1. \A e \in Devices : /\ floor[e].rev \in Nat /\ floor'[e].rev \in Nat
                           /\ pub[e].row.rev \in Nat
    BY DEF TypeInv, Typed, Channel, Publish, Row
  <1>2. \A r \in sent : r.rev \in Nat
    BY DEF TypeInv, Typed, Row
  <1>3. \A e \in Devices : OwnRows(e)'
    BY <1>1, <1>2 DEF OwnInv, OwnRows
  <1>4. \A e \in Devices : Ahead(e)'
    BY <1>1 DEF OwnInv, Ahead
  <1> QED BY <1>3, <1>4 DEF OwnInv, LaterWins

LEMMA PublishBeginOwn == ASSUME TypeInv, OwnInv, NEW d \in Devices, PublishBegin(d) PROVE OwnInv'
  <1>1. chan[d] = floor[d] /\ floor[d].rev \in Nat /\ clock \in Nat
    BY DEF PublishBegin, TypeInv, Typed, Records, Blank, Channel
  <1>2. /\ pub'[d].at = "begun" /\ pub'[d].row.by = d
        /\ pub'[d].row.rev = floor[d].rev + 1 /\ pub'[d].row.ts = clock + 1
    BY <1>1 DEF PublishBegin, TypeInv, Typed, NextRev
  <1>3. \A r \in sent : r.ts \in Nat /\ r.ts <= clock
    BY DEF TypeInv, Typed, Bounded, Row
  <1>4. UNCHANGED <<sent, floor>>
    BY DEF PublishBegin
  <1>5. Ahead(d)'
    BY <1>1, <1>2, <1>3, <1>4 DEF OwnInv, OwnRows, Ahead
  <1>6. \A e \in Devices \ {d} : Ahead(e)'
    BY <1>4 DEF OwnInv, Ahead, PublishBegin, TypeInv, Typed
  <1> QED BY <1>4, <1>5, <1>6 DEF OwnInv, OwnRows, LaterWins

LEMMA PublishOutOwn == ASSUME TypeInv, OwnInv, NEW d \in Devices, PublishOut(d) PROVE OwnInv'
  <1> DEFINE row == pub[d].row
  <1>1. /\ row.by = d /\ row.rev <= floor[d].rev + 1
        /\ \A r \in sent : r.by = d => r.rev <= row.rev /\ r.ts < row.ts
    BY DEF PublishOut, OwnInv, Ahead
  <1>2. sent' = sent \cup {row} /\ UNCHANGED floor
    BY DEF PublishOut
  <1>3. \A r \in sent \cup {row} : r.rev \in Nat /\ r.ts \in Nat
    BY DEF TypeInv, Typed, Publish, Row
  <1>4. LaterWins'
    <2> SUFFICES ASSUME NEW r \in sent', NEW q \in sent', r.by = q.by, r.ts < q.ts
                 PROVE  Later(q, r)
      BY DEF LaterWins
    <2> HIDE DEF row
    <2>1. CASE r \in sent /\ q \in sent
      BY <2>1 DEF OwnInv, LaterWins
    <2>2. CASE r \in sent /\ q = row
      BY <1>1, <1>3, <2>2 DEF Later
    <2>3. CASE r = row /\ q \in sent
      BY <1>1, <1>3, <2>3
    <2> QED BY <1>2, <1>3, <2>1, <2>2, <2>3
  <1>5. \A e \in Devices : OwnRows(e)'
    <2> HIDE DEF row
    <2> QED BY <1>1, <1>2 DEF OwnInv, OwnRows
  <1>6. \A e \in Devices \ {d} : pub'[e] = pub[e] /\ \A r \in sent' : r.by = e => r \in sent
    <2>1. \A e \in Devices \ {d} : pub'[e] = pub[e]
      BY DEF PublishOut, TypeInv, Typed
    <2> HIDE DEF row
    <2> QED BY <1>1, <1>2, <2>1
  <1>7. pub'[d].at = "out" /\ pub'[d].row = row
    BY DEF PublishOut, TypeInv, Typed, Publish
  <1>8. \A e \in Devices : Ahead(e)'
    <2> HIDE DEF row
    <2> QED BY <1>1, <1>2, <1>6, <1>7 DEF OwnInv, Ahead
  <1> QED BY <1>4, <1>5, <1>8 DEF OwnInv

LEMMA NextOwn == TypeInv /\ OwnInv /\ [Next]_vars => OwnInv'
  <1> SUFFICES ASSUME TypeInv, OwnInv, [Next]_vars PROVE OwnInv'
    OBVIOUS
  <1>1. \A e \in Devices : floor'[e] \in Channel /\ floor'[e].rev >= floor[e].rev
    BY NextTyped, FloorGrows DEF TypeInv, Typed
  <1>2. CASE sent' = sent /\ \A e \in Devices : pub'[e] = pub[e] \/ pub'[e].at = "idle"
    BY <1>1, <1>2, OwnKept
  <1>3. ASSUME NEW d \in Devices, PublishBegin(d) \/ PublishOut(d) PROVE OwnInv'
    BY <1>3, PublishBeginOwn, PublishOutOwn
  <1>4. ASSUME NEW d \in Devices, Restart(d) \/ PublishDone(d) \/ PublishFail(d) PROVE OwnInv'
    BY <1>2, <1>4 DEF Restart, PublishDone, PublishFail, netVars, NoPub, TypeInv, Typed
  <1>5. CASE UNCHANGED vars
    BY <1>2, <1>5 DEF vars, netVars
  <1>6. \A d \in Running : d \in Devices
    BY DEF TypeInv, Typed, CourseStates, Devices, Running
  <1>7. ASSUME NEW d \in Running \cap Owners, Step(d) \/ OwnerActs(d) PROVE OwnInv'
    BY <1>2, <1>3, <1>4, <1>6, <1>7
       DEF Step, OwnerActs, ConfirmWait, ConfirmRead, Add, Lift, Absorb, TtlRepublish, netVars
  <1> QED BY <1>2, <1>4, <1>5, <1>6, <1>7
          DEF Next, Open, Poll, Signal, Ingest, Verdict, Moderate, Dismiss, netVars

-----------------------------------------------------------------------------
(***************************************************************************)
(* What an absorb ratifies                                                  *)
(***************************************************************************)
\* an answer that settled on a moderator is that it is one
GateKnown == \A d \in Devices : known[d].settled \cap gate \subseteq known[d].mods

\* an absorb asks for the lists that hold what it owes, whatever is published before its turn
Holds(u) ==
    /\ Delegated \subseteq u.fields /\ u.owes \subseteq Delegated \X Items
    /\ \A o \in u.owes : o[2] \in u.state.list[o[1]]

QueueHolds(d) == \A k \in DOMAIN queue[d] : queue[d][k].asker = "absorb" => Holds(queue[d][k])

PubHolds(d) ==
    pub[d].at # "idle" /\ pub[d].asker = "absorb" =>
        \A o \in pub[d].row.owes : o[2] \in pub[d].row.state.list[o[1]]

RatifyInv == GateKnown /\ \A d \in Devices : QueueHolds(d) /\ PubHolds(d)

\* the composition is by the signers of what is not absorbed yet
LEMMA ComposedSame ==
    ASSUME NEW state, NEW ds, NEW M, NEW N,
           \A x \in ds : x.ts > state.absorbed => (x.mod \in M <=> x.mod \in N)
    PROVE  Composed(state, ds, M) = Composed(state, ds, N)
  <1>1. {x \in ds : x.ts > state.absorbed /\ x.mod \in M} = {x \in ds : x.ts > state.absorbed /\ x.mod \in N}
    OBVIOUS
  <1> QED BY <1>1 DEF Composed

\* once every signer is settled, what a device composes is what is asserted
LEMMA SettledComposes ==
    ASSUME TypeInv, GateKnown, NEW d \in Devices, Settled(d, Pending(d))
    PROVE  Holds(Ratify(d, Pending(d), "absorb"))
  <1> DEFINE s == Composed(chan[d].state, held[d], gate \cup known[d].mods)
             n == Most({x.ts : x \in Pending(d)})
  <1>1. \A x \in held[d] : x.ts > chan[d].state.absorbed =>
            (x.mod \in gate \cup known[d].mods <=> x.mod \in known[d].mods)
    BY DEF Settled, Pending, GateKnown
  <1>2. s = Effective(d)
    BY <1>1, ComposedSame DEF Effective
  <1>3. s \in State
    BY ComposedTyped DEF TypeInv, Typed, Channel
  <1>4. Asserted(d) = {o \in Delegated \X Items : o[2] \in s.list[o[1]]}
    BY DEF Asserted
  <1> HIDE DEF s, n
  <1>5. [s EXCEPT !.absorbed = n].list = s.list
    BY <1>3 DEF State
  <1>6. /\ Ratify(d, Pending(d), "absorb").state = [s EXCEPT !.absorbed = n]
        /\ Ratify(d, Pending(d), "absorb").owes = Asserted(d)
        /\ Delegated \subseteq Ratify(d, Pending(d), "absorb").fields
    BY <1>2 DEF Ratify, n
  <1> QED BY <1>4, <1>5, <1>6 DEF Holds

LEMMA AppendAt ==
    ASSUME NEW q \in Seq(Update), NEW u \in Update, NEW k \in DOMAIN Append(q, u)
    PROVE  \/ k = Len(q) + 1 /\ Append(q, u)[k] = u
           \/ k \in DOMAIN q /\ Append(q, u)[k] = q[k]
  OBVIOUS

LEMMA AskHolds ==
    ASSUME TypeInv, RatifyInv, NEW d \in Devices, NEW u \in Update, Ask(d, u),
           u.asker = "absorb" => Holds(u), UNCHANGED <<known, gate, pub>>
    PROVE  RatifyInv'
  <1>1. queue[d] \in Seq(Update) /\ queue'[d] = Append(queue[d], u)
    BY DEF Ask, TypeInv, Typed
  <1>2. \A e \in Devices \ {d} : queue'[e] = queue[e]
    BY DEF Ask, TypeInv, Typed
  <1>3. QueueHolds(d)'
    <2> SUFFICES ASSUME NEW k \in DOMAIN queue'[d], queue'[d][k].asker = "absorb"
                 PROVE  Holds(queue'[d][k])
      BY DEF QueueHolds, Holds
    <2>1. queue'[d][k] = u \/ (k \in DOMAIN queue[d] /\ queue'[d][k] = queue[d][k])
      <3>1. k \in DOMAIN Append(queue[d], u)
        BY <1>1
      <3>2. \/ k = Len(queue[d]) + 1 /\ Append(queue[d], u)[k] = u
            \/ k \in DOMAIN queue[d] /\ Append(queue[d], u)[k] = queue[d][k]
        BY <1>1, <3>1, AppendAt
      <3> QED BY <1>1, <3>2
    <2> QED BY <2>1 DEF RatifyInv, QueueHolds
  <1>4. \A e \in Devices : QueueHolds(e)'
    BY <1>2, <1>3 DEF RatifyInv, QueueHolds
  <1> QED BY <1>4 DEF RatifyInv, GateKnown, PubHolds

LEMMA PublishBeginHolds == ASSUME TypeInv, RatifyInv, NEW d \in Devices, PublishBegin(d) PROVE RatifyInv'
  <1> DEFINE u == Head(queue[d])
  <1>1. queue[d] \in Seq(Update) /\ queue[d] # <<>> /\ u \in Update /\ queue'[d] = Tail(queue[d])
    BY DEF PublishBegin, TypeInv, Typed
  <1>2. u.asker = "absorb" => Holds(u)
    BY <1>1 DEF RatifyInv, QueueHolds
  <1>3. \A k \in DOMAIN Tail(queue[d]) : k + 1 \in DOMAIN queue[d] /\ Tail(queue[d])[k] = queue[d][k + 1]
    BY <1>1
  <1>4. \A e \in Devices \ {d} : queue'[e] = queue[e] /\ pub'[e] = pub[e]
    BY DEF PublishBegin, TypeInv, Typed
  <1>5. \A e \in Devices : QueueHolds(e)'
    <2> SUFFICES ASSUME NEW e \in Devices, NEW k \in DOMAIN queue'[e], queue'[e][k].asker = "absorb"
                 PROVE  Holds(queue'[e][k])
      BY DEF QueueHolds, Holds
    <2>1. CASE e = d
      BY <1>1, <1>3, <2>1 DEF RatifyInv, QueueHolds
    <2>2. CASE e # d
      BY <1>4, <2>2 DEF RatifyInv, QueueHolds
    <2> QED BY <2>1, <2>2
  <1>6. PubHolds(d)'
    <2>1. /\ pub'[d].asker = u.asker /\ pub'[d].row.owes = u.owes
          /\ pub'[d].row.state = Patched(chan[d].state, u)
      BY DEF PublishBegin, TypeInv, Typed
    <2> SUFFICES ASSUME u.asker = "absorb", NEW o \in u.owes
                 PROVE  o[2] \in Patched(chan[d].state, u).list[o[1]]
      BY <2>1 DEF PubHolds
    <2> HIDE DEF u
    <2>2. o[1] \in Delegated /\ o[1] \in u.fields /\ o[1] \in Lists /\ o[2] \in u.state.list[o[1]]
      BY <1>2, ModerationAssumption DEF Holds
    <2> QED BY <2>2 DEF Patched
  <1>7. \A e \in Devices : PubHolds(e)'
    BY <1>4, <1>6 DEF RatifyInv, PubHolds
  <1>8. GateKnown'
    BY DEF PublishBegin, RatifyInv, GateKnown
  <1> QED BY <1>5, <1>7, <1>8 DEF RatifyInv

\* nothing is asked for here, and no publish begins
LEMMA HoldsKept ==
    ASSUME TypeInv, RatifyInv, GateKnown',
           \A e \in Devices : queue'[e] = queue[e] \/ queue'[e] = <<>>,
           \A e \in Devices : \/ pub'[e].at = "idle"
                              \/ pub[e].at # "idle" /\ pub'[e].asker = pub[e].asker /\ pub'[e].row = pub[e].row
    PROVE  RatifyInv'
  <1>1. \A e \in Devices : QueueHolds(e)'
    BY DEF RatifyInv, QueueHolds, Holds
  <1>2. \A e \in Devices : PubHolds(e)'
    BY DEF RatifyInv, PubHolds
  <1> QED BY <1>1, <1>2 DEF RatifyInv

LEMMA StepHolds == ASSUME TypeInv, RatifyInv, NEW d \in Devices, Step(d) PROVE RatifyInv'
  <1>1. GateKnown'
    BY DEF Step, PublishBegin, PublishOut, PublishDone, ConfirmWait, ConfirmRead, netVars,
           RatifyInv, GateKnown
  <1>2. CASE PublishBegin(d)
    BY <1>2, PublishBeginHolds
  <1>3. CASE PublishOut(d)
    <2>1. \A e \in Devices : pub'[e].asker = pub[e].asker /\ pub'[e].row = pub[e].row
                             /\ (pub'[e].at = "idle" \/ pub[e].at # "idle")
      BY <1>3 DEF PublishOut, TypeInv, Typed, Publish
    <2> QED BY <1>1, <1>3, <2>1, HoldsKept DEF PublishOut
  <1>4. CASE PublishDone(d)
    BY <1>1, <1>4, HoldsKept DEF PublishDone, TypeInv, Typed, NoPub
  <1>5. CASE ConfirmWait(d)
    BY <1>1, <1>5, HoldsKept DEF ConfirmWait
  <1>6. CASE ConfirmRead(d)
    <2>1. CASE queue' = queue
      BY <1>1, <1>6, <2>1, HoldsKept DEF ConfirmRead
    <2>2. CASE Ask(d, Whole(chan[d].state, "loop"))
      <3>1. Whole(chan[d].state, "loop") \in Update
        BY WholeTyped DEF Asker, TypeInv, Typed, Channel
      <3> QED BY <1>6, <2>2, <3>1, AskHolds DEF ConfirmRead, Whole, netVars
    <2> QED BY <1>6, <2>1, <2>2 DEF ConfirmRead, Missing, Landed
  <1> QED BY <1>2, <1>3, <1>4, <1>5, <1>6 DEF Step

LEMMA OwnerActsHolds ==
    ASSUME TypeInv, RatifyInv, NEW d \in Devices, OwnerActs(d), course.lists \subseteq Lists
    PROVE  RatifyInv'
  <1>1. ASSUME NEW l \in course.lists, NEW i \in Items, Add(d, l, i) PROVE RatifyInv'
    <2>1. chan[d].state.list[l] \cup {i} \in SUBSET Items
      BY DEF TypeInv, Typed, Channel, State
    <2> QED BY <1>1, <2>1, PatchTyped, AskHolds DEF Add, Patch, netVars
  <1>2. ASSUME NEW l \in course.lists, NEW i \in Items, Lift(d, l, i) PROVE RatifyInv'
    <2> DEFINE u == Ratify(d, held[d], "lift")
               v == [u EXCEPT !.state.list[l] = @ \ {i}, !.owes = @ \ {<<l, i>>}]
    <2>1. u \in Update /\ u.asker = "lift"
      BY RatifyTyped DEF Asker, Ratify
    <2>2. v \in Update /\ v.asker = "lift"
      <3> HIDE DEF u
      <3> QED BY <2>1 DEF Update, State
    <2>3. chan[d].state.list[l] \ {i} \in SUBSET Items
      BY DEF TypeInv, Typed, Channel, State
    <2>4. /\ Patch(l, chan[d].state.list[l] \ {i}) \in Update
          /\ Patch(l, chan[d].state.list[l] \ {i}).asker = "user"
      BY <2>3, PatchTyped DEF Patch
    <2>5. \E w \in Update : w.asker # "absorb" /\ Ask(d, w)
      BY <1>2, <2>2, <2>4 DEF Lift
    <2> QED BY <1>2, <2>5, AskHolds DEF Lift, netVars
  <1>3. CASE Absorb(d)
    <2>1. Ratify(d, Pending(d), "absorb") \in Update
      BY RatifyTyped DEF Pending, Asker
    <2>2. Holds(Ratify(d, Pending(d), "absorb"))
      BY <1>3, SettledComposes DEF Absorb, RatifyInv
    <2> QED BY <1>3, <2>1, <2>2, AskHolds DEF Absorb, netVars
  <1>4. CASE TtlRepublish(d)
    <2>1. Effective(d) \in State
      BY ComposedTyped DEF Effective, TypeInv, Typed, Channel
    <2>2. Whole(Effective(d), "ttl") \in Update
      BY <2>1, WholeTyped DEF Asker
    <2> QED BY <1>4, <2>2, AskHolds DEF TtlRepublish, Whole, netVars
  <1>5. CASE PublishFail(d)
    <2>1. GateKnown'
      BY <1>5 DEF PublishFail, RatifyInv, GateKnown, netVars
    <2> QED BY <1>5, <2>1, HoldsKept DEF PublishFail, TypeInv, Typed, NoPub
  <1> QED BY <1>1, <1>2, <1>3, <1>4, <1>5 DEF OwnerActs

LEMMA NextHolds == TypeInv /\ RatifyInv /\ [Next]_vars => RatifyInv'
  <1> SUFFICES ASSUME TypeInv, RatifyInv, [Next]_vars PROVE RatifyInv'
    OBVIOUS
  <1>1. CASE UNCHANGED <<queue, pub>> /\ GateKnown'
    BY <1>1, HoldsKept
  <1>2. CASE UNCHANGED vars
    BY <1>1, <1>2 DEF vars, netVars, RatifyInv, GateKnown
  <1>3. ASSUME NEW d \in Devices, Open(d) \/ Poll(d) \/ \E r \in sent : Signal(d, r) PROVE RatifyInv'
    <2>1. GateKnown'
      BY <1>3 DEF Open, Poll, Signal, netVars, RatifyInv, GateKnown, TypeInv, Typed, Unknown
    <2> QED BY <1>1, <1>3, <2>1 DEF Open, Poll, Signal
  <1>4. ASSUME NEW d \in Devices, Restart(d) PROVE RatifyInv'
    <2>1. GateKnown'
      BY <1>4 DEF Restart, netVars, RatifyInv, GateKnown, TypeInv, Typed, Unknown
    <2> QED BY <1>4, <2>1, HoldsKept DEF Restart, TypeInv, Typed, NoPub
  <1>5. ASSUME NEW d \in Devices, NEW m \in Mods, Verdict(d, m) PROVE RatifyInv'
    <2>1. GateKnown'
      BY <1>5 DEF Verdict, netVars, RatifyInv, GateKnown, TypeInv, Typed
    <2> QED BY <1>1, <1>5, <2>1 DEF Verdict
  <1>6. ASSUME NEW d \in Devices, NEW x \in deltas, Ingest(d, x) PROVE RatifyInv'
    BY <1>1, <1>6 DEF Ingest, netVars, RatifyInv, GateKnown
  <1>7. ASSUME NEW m \in Running \cap Mods,
               \/ \E l \in Delegated \cap course.lists, i \in Items, add \in BOOLEAN :
                     Moderate(m, l, i, add)
               \/ Dismiss(m)
        PROVE  RatifyInv'
    BY <1>1, <1>7 DEF Moderate, Dismiss, RatifyInv, GateKnown
  <1>8. ASSUME NEW d \in Running \cap Owners, Step(d) \/ OwnerActs(d) PROVE RatifyInv'
    <2>1. d \in Devices /\ course.lists \subseteq Lists
      BY DEF TypeInv, Typed, CourseStates, Devices
    <2> QED BY <1>8, <2>1, StepHolds, OwnerActsHolds
  <1>9. \A d \in Running : d \in Devices
    BY DEF TypeInv, Typed, CourseStates, Devices, Running
  <1> QED BY <1>2, <1>3, <1>4, <1>5, <1>6, <1>7, <1>8, <1>9 DEF Next

-----------------------------------------------------------------------------
(***************************************************************************)
(* What is seen to storage                                                  *)
(***************************************************************************)
\* no publish of a device completes while it waits for the answer of a read
Apart == \A d \in Devices : done'[d] # done[d] => loop[d].at # "read"

ReadsApart == [][Apart]_vars

\* the entry that is pending is the last publish, and until it is cleared for a row that is as
\* late nothing else is; the entry that a confirmation waits for is that one or an earlier one
Seen(d) ==
    /\ done[d].rev > 0 => pend[d].rev > 0 \/ \E r \in store : ~Later(done[d], r)
    /\ pend[d].rev > 0 => StampOf(pend[d]) = done[d]
    /\ loop[d].at # "off" =>
          loop[d].for.rev > 0 /\ (StampOf(loop[d].for) = done[d] \/ loop[d].for.rev < done[d].rev)
    /\ loop[d].at = "read" => pend[d].rev > 0 /\ StampOf(loop[d].for) = done[d]
    /\ done[d].rev <= floor[d].rev
    /\ pub[d].at # "idle" => pub[d].row.rev > done[d].rev

SeenInv == \A d \in Devices : Seen(d)

LEMMA LoopFromAt ==
    ASSUME NEW p
    PROVE  \/ LoopFrom(p) = NoLoop
           \/ LoopFrom(p).at = "wait" /\ LoopFrom(p).for = p /\ p.rev # 0
  BY DEF LoopFrom

\* a confirmation goes on for the entry it waited for, starts for the pending one, or ends
Continues(d) ==
    \/ loop'[d] = loop[d] \/ loop'[d].at = "off"
    \/ /\ loop[d].at # "off" /\ loop'[d].at # "read" /\ loop'[d].for = loop[d].for
    \/ /\ pend[d].rev > 0 /\ loop'[d].at = "wait" /\ StampOf(loop'[d].for) = StampOf(pend[d])

\* nothing of a device completes here
LEMMA SeenKept ==
    ASSUME TypeInv, TypeInv', NEW d \in Devices, Seen(d), store \subseteq store',
           floor'[d].rev >= floor[d].rev, done'[d] = done[d],
           StampOf(pend'[d]) = StampOf(pend[d]),
           pub'[d].at = "idle" \/ (pub[d].at # "idle" /\ pub'[d].row = pub[d].row),
           Continues(d)
    PROVE  Seen(d)'
  <1>1. /\ floor[d].rev \in Nat /\ floor'[d].rev \in Nat /\ done[d].rev \in Nat
        /\ pend[d].rev \in Nat
    BY DEF TypeInv, Typed, Channel, Stamp, Confirm
  <1>2. pend'[d].rev = pend[d].rev
    BY DEF StampOf
  <1>3. (done[d].rev > 0 => pend[d].rev > 0 \/ \E r \in store : ~Later(done[d], r))'
    BY <1>2 DEF Seen, Later
  <1>4. (pend[d].rev > 0 => StampOf(pend[d]) = done[d])'
    BY <1>2 DEF Seen
  <1>5. (done[d].rev <= floor[d].rev)' /\ (pub[d].at # "idle" => pub[d].row.rev > done[d].rev)'
    BY <1>1 DEF Seen
  <1>6. /\ (loop[d].at # "off" =>
              loop[d].for.rev > 0 /\ (StampOf(loop[d].for) = done[d] \/ loop[d].for.rev < done[d].rev))'
        /\ (loop[d].at = "read" => pend[d].rev > 0 /\ StampOf(loop[d].for) = done[d])'
    <2>1. CASE loop'[d] = loop[d] \/ loop'[d].at = "off"
      BY <1>2, <2>1 DEF Seen
    <2>2. CASE loop[d].at # "off" /\ loop'[d].at # "read" /\ loop'[d].for = loop[d].for
      BY <2>2 DEF Seen
    <2>3. CASE pend[d].rev > 0 /\ loop'[d].at = "wait" /\ StampOf(loop'[d].for) = StampOf(pend[d])
      <3>1. loop'[d].for.rev = pend[d].rev
        BY <2>3 DEF StampOf
      <3> QED BY <2>3, <3>1 DEF Seen
    <2> QED BY <2>1, <2>2, <2>3 DEF Continues
  <1> QED BY <1>3, <1>4, <1>5, <1>6 DEF Seen

\* the other devices keep all they have
Others(d) ==
    \A e \in Devices \ {d} : /\ done'[e] = done[e] /\ pend'[e] = pend[e]
                             /\ pub'[e] = pub[e] /\ loop'[e] = loop[e]

LEMMA OthersSeen ==
    ASSUME TypeInv, TypeInv', [Next]_vars, SeenInv, NEW d \in Devices, Others(d), store \subseteq store'
    PROVE  \A e \in Devices \ {d} : Seen(e)'
  <1> SUFFICES ASSUME NEW e \in Devices \ {d} PROVE Seen(e)'
    OBVIOUS
  <1>1. floor'[e].rev >= floor[e].rev
    BY FloorGrows
  <1>2. /\ done'[e] = done[e] /\ pend'[e] = pend[e] /\ pub'[e] = pub[e] /\ loop'[e] = loop[e]
    BY DEF Others
  <1> QED BY <1>1, <1>2, SeenKept DEF SeenInv, Continues

\* what completes nothing keeps all
LEMMA CalmSeen ==
    ASSUME TypeInv, TypeInv', [Next]_vars, SeenInv, UNCHANGED <<pend, loop, done>>,
           store \subseteq store',
           \A d \in Devices : \/ pub'[d].at = "idle"
                              \/ pub[d].at # "idle" /\ pub'[d].row = pub[d].row
    PROVE  SeenInv'
  <1> SUFFICES ASSUME NEW d \in Devices PROVE Seen(d)'
    BY DEF SeenInv
  <1>1. floor'[d].rev >= floor[d].rev
    BY FloorGrows
  <1> QED BY <1>1, SeenKept DEF SeenInv, Continues

LEMMA OpenSeen ==
    ASSUME TypeInv, TypeInv', [Next]_vars, SeenInv, NEW d \in Devices, Open(d)
    PROVE  SeenInv'
  <1>1. Others(d) /\ store' = store
    BY DEF Open, Others, netVars, TypeInv, Typed
  <1>2. floor'[d].rev >= floor[d].rev
    BY FloorGrows
  <1>3. /\ pend'[d] = Resumed(d)
        /\ loop'[d] = IF loop[d].at = "off" THEN LoopFrom(Resumed(d)) ELSE loop[d]
    BY DEF Open, TypeInv, Typed
  <1>4. pend[d] \in Confirm
    BY DEF TypeInv, Typed
  <1>5. StampOf(Resumed(d)) = StampOf(pend[d]) /\ Resumed(d).rev = pend[d].rev
    BY <1>4 DEF Resumed, StampOf, Confirm
  <1>6. Continues(d)
    <2>1. CASE loop[d].at # "off"
      BY <1>3, <2>1 DEF Continues
    <2>2. CASE loop[d].at = "off"
      <3>1. loop'[d] = NoLoop \/ (/\ loop'[d].at = "wait" /\ loop'[d].for = Resumed(d)
                                  /\ Resumed(d).rev # 0)
        BY <1>3, <2>2, LoopFromAt
      <3>2. pend[d].rev \in Nat
        BY <1>4 DEF Confirm
      <3> QED BY <1>5, <3>1, <3>2 DEF Continues, NoLoop
    <2> QED BY <2>1, <2>2
  <1>7. Seen(d)'
    BY <1>1, <1>2, <1>3, <1>5, <1>6, SeenKept DEF Open, SeenInv, TypeInv, Typed
  <1> QED BY <1>1, <1>7, OthersSeen DEF SeenInv

LEMMA RestartSeen ==
    ASSUME TypeInv, TypeInv', [Next]_vars, SeenInv, NEW d \in Devices, Restart(d) \/ PublishFail(d)
    PROVE  SeenInv'
  <1>1. Others(d) /\ store' = store /\ UNCHANGED <<pend, done>>
    BY DEF Restart, PublishFail, Others, netVars, TypeInv, Typed
  <1>2. floor'[d].rev >= floor[d].rev
    BY FloorGrows
  <1>3. pub'[d].at = "idle" /\ (loop'[d].at = "off" \/ loop'[d] = loop[d])
    BY DEF Restart, PublishFail, NoPub, NoLoop, TypeInv, Typed
  <1>4. Seen(d)'
    BY <1>1, <1>2, <1>3, SeenKept DEF SeenInv, Continues
  <1> QED BY <1>1, <1>4, OthersSeen DEF SeenInv

LEMMA PublishBeginSeen ==
    ASSUME TypeInv, TypeInv', [Next]_vars, SeenInv, NEW d \in Devices, PublishBegin(d)
    PROVE  SeenInv'
  <1>1. Others(d) /\ store' = store /\ UNCHANGED <<pend, done, loop, floor>>
    BY DEF PublishBegin, Others, TypeInv, Typed
  <1>2. pub'[d].row.rev = floor[d].rev + 1
    BY DEF PublishBegin, TypeInv, Typed, NextRev, Records, Blank
  <1>3. floor[d].rev \in Nat /\ done[d].rev \in Nat
    BY DEF TypeInv, Typed, Channel, Stamp
  <1>4. Seen(d)'
    BY <1>1, <1>2, <1>3 DEF SeenInv, Seen
  <1> QED BY <1>1, <1>4, OthersSeen DEF SeenInv

\* the last publish is another one now: the confirmation under way waits for an earlier one
LEMMA PublishDoneSeen ==
    ASSUME TypeInv, TypeInv', [Next]_vars, Apart, SeenInv, NEW d \in Devices, PublishDone(d)
    PROVE  SeenInv'
  <1> DEFINE r == pub[d].row
             p == [rev |-> r.rev, ts |-> r.ts, stalled |-> FALSE, republished |-> pend[d].republished]
  <1>1. Others(d) /\ store' = store
    BY DEF PublishDone, Others, netVars, TypeInv, Typed
  <1>2. /\ pend'[d] = p /\ done'[d] = StampOf(r)
        /\ loop'[d] = IF loop[d].at = "off" \/ pub[d].asker = "loop" THEN LoopFrom(p) ELSE loop[d]
        /\ pub'[d].at = "idle"
    BY DEF PublishDone, TypeInv, Typed, NoPub
  <1>3. StampOf(p) = StampOf(r) /\ p.rev = r.rev /\ StampOf(r).rev = r.rev
    BY DEF StampOf
  <1>4. r \in Row /\ r.rev \in Nat /\ r.rev <= clock /\ done[d].rev \in Nat /\ r.rev > done[d].rev
    BY DEF PublishDone, TypeInv, Typed, Bounded, Publish, Row, Stamp, SeenInv, Seen
  <1>5. floor'[d].rev >= r.rev
    <2> DEFINE c == Applied(chan[d], r)
    <2>1. Adopt(d, c)
      BY DEF PublishDone
    <2>2. c \in Channel /\ c.loaded /\ r.rev <= c.rev
      <3> HIDE DEF r
      <3> QED BY <1>4, AppliedTyped DEF TypeInv, Typed, Bounded
    <2> HIDE DEF c, r
    <2>3. floor' = [floor EXCEPT ![d] = c]
      BY <2>1, <2>2, Adopted DEF TypeInv
    <2> QED BY <2>2, <2>3 DEF TypeInv, Typed
  <1>6. loop[d].at # "read"
    BY <1>2, <1>3, <1>4 DEF Apart
  <1> HIDE DEF r, p
  <1>7. /\ loop'[d].at # "read"
        /\ loop'[d].at # "off" =>
              /\ loop'[d].for.rev > 0
              /\ StampOf(loop'[d].for) = done'[d] \/ loop'[d].for.rev < done'[d].rev
    <2>1. CASE loop'[d] = loop[d] /\ loop[d].at # "off"
      <3>1. /\ loop[d].for.rev > 0
            /\ StampOf(loop[d].for) = done[d] \/ loop[d].for.rev < done[d].rev
        BY <2>1 DEF SeenInv, Seen
      <3>2. loop[d].for.rev \in Nat
        BY LoopTyped DEF TypeInv, Typed, Confirm
      <3>3. StampOf(loop[d].for).rev = loop[d].for.rev
        BY DEF StampOf
      <3>4. loop[d].for.rev < r.rev
        BY <1>4, <3>1, <3>2, <3>3
      <3> QED BY <1>2, <1>3, <1>6, <2>1, <3>1, <3>4
    <2>2. CASE loop'[d] = LoopFrom(p)
      <3>1. \/ loop'[d] = NoLoop
            \/ loop'[d].at = "wait" /\ loop'[d].for = p
        BY <2>2, LoopFromAt
      <3>2. r.rev > 0
        BY <1>4
      <3> QED BY <1>2, <1>3, <3>1, <3>2 DEF NoLoop
    <2> QED BY <1>2, <2>1, <2>2
  <1>8. Seen(d)'
    BY <1>2, <1>3, <1>4, <1>5, <1>7 DEF Seen
  <1> QED BY <1>1, <1>8, OthersSeen DEF SeenInv

LEMMA ConfirmWaitSeen ==
    ASSUME TypeInv, TypeInv', [Next]_vars, SeenInv, NEW d \in Devices, ConfirmWait(d)
    PROVE  SeenInv'
  <1>1. Others(d) /\ store' = store /\ UNCHANGED <<pend, done, floor, pub>>
    BY DEF ConfirmWait, Others, netVars, TypeInv, Typed
  <1>2. Seen(d)
    BY DEF SeenInv
  <1>3. CASE pend[d].rev = loop[d].for.rev
    <2>1. loop'[d].at = "read" /\ loop'[d].for = loop[d].for
      BY <1>3 DEF ConfirmWait, TypeInv, Typed, Loop
    <2>2. loop[d].for.rev > 0 /\ (StampOf(loop[d].for) = done[d] \/ loop[d].for.rev < done[d].rev)
      BY <1>2 DEF ConfirmWait, Seen
    <2>3. StampOf(pend[d]) = done[d] /\ StampOf(pend[d]).rev = pend[d].rev
      BY <1>2, <1>3, <2>2 DEF Seen, StampOf
    <2>4. pend[d].rev \in Nat
      BY DEF TypeInv, Typed, Confirm
    <2>5. StampOf(loop[d].for) = done[d]
      BY <1>3, <2>2, <2>3, <2>4
    <2>6. Seen(d)'
      BY <1>1, <1>2, <1>3, <2>1, <2>2, <2>5 DEF Seen
    <2> QED BY <1>1, <2>6, OthersSeen DEF SeenInv
  <1>4. CASE pend[d].rev # loop[d].for.rev
    <2>1. loop'[d] = LoopFrom(pend[d])
      BY <1>4 DEF ConfirmWait, TypeInv, Typed
    <2>2. \/ loop'[d] = NoLoop
          \/ loop'[d].at = "wait" /\ loop'[d].for = pend[d] /\ pend[d].rev # 0
      BY <2>1, LoopFromAt
    <2>3. pend[d].rev \in Nat /\ floor[d].rev \in Nat
      BY DEF TypeInv, Typed, Confirm, Channel
    <2>4. Continues(d)
      BY <2>2, <2>3 DEF Continues, NoLoop
    <2>5. pub'[d].at = "idle" \/ (pub[d].at # "idle" /\ pub'[d].row = pub[d].row)
      BY <1>1
    <2>6. Seen(d)'
      BY <1>1, <1>2, <2>3, <2>4, <2>5, SeenKept
    <2> QED BY <1>1, <2>6, OthersSeen DEF SeenInv
  <1> QED BY <1>3, <1>4

\* the entry is cleared for a stored row that is as late as the last publish
LEMMA ConfirmReadSeen ==
    ASSUME TypeInv, TypeInv', [Next]_vars, SeenInv, NEW d \in Devices, ConfirmRead(d)
    PROVE  SeenInv'
  <1>1. PICK read \in Reads :
          IF read[1] # {} /\ ~Later(loop[d].for, Best(read[1])) THEN Landed(d, Best(read[1]))
          ELSE IF loop[d].tries > 1
          THEN /\ loop' = [loop EXCEPT ![d] = [at |-> "wait", tries |-> @.tries - 1, for |-> @.for]]
               /\ UNCHANGED <<chan, queue, floor, pend>>
          ELSE Missing(d)
    BY DEF ConfirmRead
  <1>2. UNCHANGED <<pub, store, done>> /\ loop[d].at = "read"
    BY DEF ConfirmRead, netVars
  <1>3. Seen(d) /\ pend[d].rev > 0 /\ StampOf(loop[d].for) = done[d] /\ StampOf(pend[d]) = done[d]
    BY <1>2 DEF SeenInv, Seen
  <1>4. floor'[d].rev >= floor[d].rev
    BY FloorGrows
  <1>5. pub'[d].at = "idle" \/ (pub[d].at # "idle" /\ pub'[d].row = pub[d].row)
    BY <1>2
  <1>6. loop[d].for \in Confirm
    BY LoopTyped DEF TypeInv, Typed
  <1>7. CASE read[1] # {} /\ ~Later(loop[d].for, Best(read[1]))
    <2>1. Others(d) /\ pend'[d] = NoPend /\ loop'[d].at = "off"
      BY <1>1, <1>2, <1>7 DEF Landed, Others, TypeInv, Typed, NoLoop
    <2>2. Best(read[1]) \in store
      BY <1>7, BestRead DEF TypeInv
    <2>3. ~Later(done[d], Best(read[1]))
      BY <1>3, <1>7 DEF Later, StampOf
    <2>4. floor[d].rev \in Nat /\ floor'[d].rev \in Nat /\ done[d].rev \in Nat
      BY DEF TypeInv, Typed, Channel, Stamp
    <2>5. Seen(d)'
      BY <1>2, <1>3, <1>4, <2>1, <2>2, <2>3, <2>4 DEF Seen, NoPend
    <2> QED BY <1>2, <2>1, <2>5, OthersSeen DEF SeenInv
  <1>8. CASE /\ ~(read[1] # {} /\ ~Later(loop[d].for, Best(read[1])))
             /\ loop[d].tries > 1
    <2>1. Others(d) /\ pend' = pend /\ loop'[d].at = "wait" /\ loop'[d].for = loop[d].for
      BY <1>1, <1>2, <1>8 DEF Others, TypeInv, Typed
    <2>2. Seen(d)'
      BY <1>2, <1>3, <1>4, <1>5, <2>1, SeenKept DEF Continues
    <2> QED BY <1>2, <2>1, <2>2, OthersSeen DEF SeenInv
  <1>9. CASE Missing(d)
    <2>1. Others(d)
      BY <1>2, <1>9 DEF Missing, Others, TypeInv, Typed
    <2>2. StampOf(pend'[d]) = StampOf(loop[d].for)
      <3> DEFINE p == loop[d].for
                 n == p.republished + 1
      <3>1. pend'[d] \in {[p EXCEPT !.stalled = TRUE], [p EXCEPT !.republished = n]}
        BY <1>9 DEF Missing, TypeInv, Typed
      <3> HIDE DEF n
      <3> QED BY <1>6, <3>1 DEF StampOf, Confirm
    <2>3. Continues(d)
      BY <1>2, <1>9 DEF Missing, Continues, TypeInv, Typed, NoLoop, Loop
    <2>4. Seen(d)'
      BY <1>2, <1>3, <1>4, <1>5, <2>2, <2>3, SeenKept
    <2> QED BY <1>2, <2>1, <2>4, OthersSeen DEF SeenInv
  <1> QED BY <1>1, <1>7, <1>8, <1>9

LEMMA NextSeen == TypeInv /\ TypeInv' /\ SeenInv /\ [Next /\ Apart]_vars => SeenInv'
  <1> SUFFICES ASSUME TypeInv, TypeInv', SeenInv, [Next /\ Apart]_vars PROVE SeenInv'
    OBVIOUS
  <1>1. [Next]_vars
    OBVIOUS
  <1>2. CASE UNCHANGED <<pub, pend, loop, done>> /\ store \subseteq store'
    <2>1. \A d \in Devices : \/ pub'[d].at = "idle"
                             \/ pub[d].at # "idle" /\ pub'[d].row = pub[d].row
      BY <1>2
    <2> QED BY <1>1, <1>2, <2>1, CalmSeen
  <1>3. CASE UNCHANGED vars
    BY <1>2, <1>3 DEF vars, netVars
  <1>4. \A d \in Running : d \in Devices
    BY DEF TypeInv, Typed, CourseStates, Devices, Running
  <1>5. ASSUME NEW d \in Devices, PublishOut(d) PROVE SeenInv'
    <2>1. \A e \in Devices : \/ pub'[e].at = "idle"
                             \/ pub[e].at # "idle" /\ pub'[e].row = pub[e].row
      BY <1>5 DEF PublishOut, TypeInv, Typed, Publish
    <2> QED BY <1>1, <1>5, <2>1, CalmSeen DEF PublishOut
  <1>6. ASSUME NEW d \in Running \cap Owners, Step(d) PROVE SeenInv'
    <2>1. CASE PublishDone(d)
      <3>1. CASE Apart
        BY <1>1, <1>4, <2>1, <3>1, PublishDoneSeen
      <3> QED BY <1>3, <3>1
    <2> QED BY <1>1, <1>4, <1>5, <1>6, <2>1, PublishBeginSeen, ConfirmWaitSeen, ConfirmReadSeen DEF Step
  <1>7. ASSUME NEW d \in Running \cap Owners, OwnerActs(d) PROVE SeenInv'
    BY <1>1, <1>2, <1>4, <1>7, RestartSeen DEF OwnerActs, Add, Lift, Absorb, TtlRepublish, netVars
  <1> QED BY <1>1, <1>2, <1>3, <1>4, <1>6, <1>7, OpenSeen, RestartSeen
          DEF Next, Poll, Signal, Ingest, Verdict, Moderate, Dismiss, netVars

\* how often the owner can still ask for a publish
Left == course.left["act"] + course.left["ttl"]

OneAct      == Left <= 1
NothingLost == course.left["lost"] = 0

\* the device has published nothing that it still waits for
Unsent(d) == pend[d].rev = 0 /\ loop[d].at = "off"

\* a publish that no confirmation asked for is in the chain
UserAsked(d) ==
    \/ pub[d].at # "idle" /\ pub[d].asker # "loop"
    \/ \E k \in DOMAIN queue[d] : queue[d][k].asker # "loop"

\* until the one act nothing is published; then its publish is alone in the chain, and its
\* confirmation starts when it is through
Alone(d) ==
    /\ Left > 0 => Unsent(d) /\ pub[d].at = "idle" /\ queue[d] = <<>>
    /\ UserAsked(d) => /\ Unsent(d)
                       /\ IF pub[d].at = "idle" THEN Len(queue[d]) = 1 ELSE queue[d] = <<>>

AloneInv == OneAct /\ \A d \in Devices : Alone(d)

\* events that happen are not given back
LEMMA SpentLeft ==
    ASSUME course \in CourseStates, NEW E \in SUBSET Events, Spend(E)
    PROVE  /\ \A e \in Events : course.left[e] \in Nat /\ course'.left[e] \in Nat
           /\ \A e \in Events : course'.left[e] <= course.left[e]
           /\ \A e \in E : course.left[e] > 0 /\ course'.left[e] = course.left[e] - 1
           /\ Left' <= Left
  <1> DEFINE next == [e \in Events |-> IF e \in E THEN course.left[e] - 1 ELSE course.left[e]]
  <1>1. \A e \in E : course.left[e] > 0
    BY DEF Spend
  <1>2. course' = [course EXCEPT !.left = next]
    BY DEF Spend, CourseStates
  <1>3. course'.left = next /\ course.left \in [Events -> Nat]
    BY <1>2 DEF CourseStates
  <1>4. \A e \in Events : course.left[e] \in Nat /\ next[e] \in Nat /\ next[e] <= course.left[e]
    BY <1>1, <1>3
  <1>5. \A e \in E : next[e] = course.left[e] - 1
    OBVIOUS
  <1>6. "act" \in Events /\ "ttl" \in Events
    BY DEF Events
  <1>7. course'.left["act"] <= course.left["act"] /\ course'.left["ttl"] <= course.left["ttl"]
    BY <1>3, <1>4, <1>6
  <1>8. Left' <= Left
    BY <1>3, <1>4, <1>6, <1>7 DEF Left
  <1> HIDE DEF next
  <1> QED BY <1>1, <1>3, <1>4, <1>5, <1>8

\* what no step gives back
LEMMA LeftFalls ==
    ASSUME TypeInv, [Next]_vars
    PROVE  /\ Left \in Nat /\ Left' \in Nat /\ Left' <= Left
           /\ course.left["lost"] \in Nat /\ course'.left["lost"] <= course.left["lost"]
  <1> DEFINE Falls == /\ Left \in Nat /\ Left' \in Nat /\ Left' <= Left
                      /\ course.left["lost"] \in Nat /\ course'.left["lost"] <= course.left["lost"]
  <1>1. course \in CourseStates /\ {"act", "ttl", "lost"} \subseteq Events
    BY DEF TypeInv, Typed, Events
  <1>2. ASSUME NEW E \in SUBSET Events, Spend(E) PROVE Falls
    BY <1>1, <1>2, SpentLeft DEF Left
  <1>3. CASE UNCHANGED course
    BY <1>1, <1>3 DEF Left, CourseStates
  <1>4. ASSUME NEW read \in Reads, Spend(read[2]) PROVE Falls
    BY <1>2, <1>4, ReadOf DEF TypeInv, Typed
  <1>5. {"act"} \in SUBSET Events /\ {"ttl"} \in SUBSET Events /\ {"lost"} \in SUBSET Events
        /\ {"fail"} \in SUBSET Events /\ {"crash"} \in SUBSET Events /\ {"dismiss"} \in SUBSET Events
        /\ {"delta"} \in SUBSET Events /\ {"delta", "fail"} \in SUBSET Events
    BY DEF Events
  <1>6. ASSUME NEW d, Step(d) PROVE Falls
    <2>1. CASE ConfirmRead(d)
      BY <1>4, <2>1 DEF ConfirmRead
    <2>2. CASE PublishOut(d)
      BY <1>2, <1>3, <1>5, <2>2 DEF PublishOut
    <2> QED BY <1>3, <1>6, <2>1, <2>2 DEF Step, PublishBegin, PublishDone, ConfirmWait
  <1>7. ASSUME NEW d, OwnerActs(d) PROVE Falls
    BY <1>2, <1>5, <1>7 DEF OwnerActs, Add, Lift, Absorb, TtlRepublish, PublishFail
  <1>8. ASSUME NEW d, Open(d) \/ Poll(d) \/ Restart(d) PROVE Falls
    BY <1>2, <1>4, <1>5, <1>8 DEF Open, Poll, Restart
  <1>9. ASSUME NEW m, \/ \E l \in Delegated \cap course.lists, i \in Items, add \in BOOLEAN :
                           Moderate(m, l, i, add)
                      \/ Dismiss(m)
        PROVE  Falls
    BY <1>2, <1>5, <1>9 DEF Moderate, Dismiss
  <1>10. CASE UNCHANGED vars
    BY <1>3, <1>10 DEF vars
  <1> QED BY <1>3, <1>6, <1>7, <1>8, <1>9, <1>10 DEF Next, Signal, Ingest, Verdict

\* the chain of a device is as it was
LEMMA AloneKept ==
    ASSUME TypeInv, NEW d \in Devices, Alone(d), Left \in Nat, Left' \in Nat, Left' <= Left,
           queue'[d] = queue[d], pub'[d].at = "idle" <=> pub[d].at = "idle",
           pub'[d].asker = pub[d].asker, Unsent(d) => Unsent(d)'
    PROVE  Alone(d)'
  <1>1. UserAsked(d)' => UserAsked(d)
    BY DEF UserAsked
  <1>2. Left' > 0 => Left > 0
    OBVIOUS
  <1> QED BY <1>1, <1>2 DEF Alone

\* nothing of the chain, or of what is waited for, changes here
LEMMA AloneCalm ==
    ASSUME TypeInv, AloneInv, [Next]_vars, UNCHANGED queue,
           \A e \in Devices : /\ pub'[e].at = "idle" <=> pub[e].at = "idle"
                              /\ pub'[e].asker = pub[e].asker
                              /\ Unsent(e) => Unsent(e)'
    PROVE  AloneInv'
  <1>1. Left \in Nat /\ Left' \in Nat /\ Left' <= Left
    BY LeftFalls
  <1>2. \A e \in Devices : Alone(e)'
    BY <1>1, AloneKept DEF AloneInv
  <1> QED BY <1>1, <1>2 DEF AloneInv, OneAct

\* nor do they for the devices other than d
Elsewhere(d) ==
    \A e \in Devices \ {d} : queue'[e] = queue[e] /\ pub'[e] = pub[e] /\ (Unsent(e) => Unsent(e)')

LEMMA AloneOf ==
    ASSUME TypeInv, AloneInv, [Next]_vars, NEW d \in Devices, Elsewhere(d), Alone(d)'
    PROVE  AloneInv'
  <1>1. Left \in Nat /\ Left' \in Nat /\ Left' <= Left
    BY LeftFalls
  <1>2. \A e \in Devices \ {d} : Alone(e)'
    BY <1>1, AloneKept DEF AloneInv, Elsewhere
  <1> QED BY <1>1, <1>2 DEF AloneInv, OneAct

\* the one act
LEMMA ActAlone ==
    ASSUME TypeInv, AloneInv, [Next]_vars, NEW d \in Devices, NEW u \in Update, Ask(d, u),
           Left > 0, Left' = 0, UNCHANGED <<pub, loop, pend>>
    PROVE  AloneInv'
  <1>1. Elsewhere(d)
    BY DEF Ask, Elsewhere, Unsent, TypeInv, Typed
  <1>2. Unsent(d) /\ pub[d].at = "idle" /\ queue[d] = <<>>
    BY DEF AloneInv, Alone
  <1>3. queue'[d] = <<u>>
    BY <1>2 DEF Ask, TypeInv, Typed
  <1>4. Alone(d)'
    BY <1>2, <1>3 DEF Alone, Unsent
  <1> QED BY <1>1, <1>4, AloneOf

LEMMA OwnerActsAlone ==
    ASSUME TypeInv, AloneInv, [Next]_vars, NEW d \in Devices,
           OwnerActs(d), ~PublishFail(d), course.lists \subseteq Lists
    PROVE  AloneInv'
  <1> DEFINE Asks == \E u \in Update : Ask(d, u) /\ UNCHANGED <<pub, loop, pend>>
  <1>1. course \in CourseStates /\ {"act"} \in SUBSET Events /\ {"ttl"} \in SUBSET Events
    BY DEF TypeInv, Typed, Events
  <1>2. ASSUME Spend({"act"}) \/ Spend({"ttl"}) PROVE Left > 0 /\ Left' = 0
    <2>1. Left \in Nat /\ Left <= 1
      BY LeftFalls DEF AloneInv, OneAct
    <2>2. /\ \A e \in Events : course.left[e] \in Nat /\ course'.left[e] \in Nat
          /\ \A e \in Events : course'.left[e] <= course.left[e]
      BY <1>1, <1>2, SpentLeft
    <2>3. \/ course.left["act"] > 0 /\ course'.left["act"] = course.left["act"] - 1
          \/ course.left["ttl"] > 0 /\ course'.left["ttl"] = course.left["ttl"] - 1
      BY <1>1, <1>2, SpentLeft
    <2>4. "act" \in Events /\ "ttl" \in Events
      BY DEF Events
    <2>5. \A a, b, t, u \in Nat :
             /\ a + t <= 1 /\ b <= a /\ u <= t
             /\ (a > 0 /\ b = a - 1) \/ (t > 0 /\ u = t - 1)
             => a + t > 0 /\ b + u = 0
      OBVIOUS
    <2>6. /\ course.left["act"] \in Nat /\ course'.left["act"] \in Nat
          /\ course.left["ttl"] \in Nat /\ course'.left["ttl"] \in Nat
          /\ course'.left["act"] <= course.left["act"]
          /\ course'.left["ttl"] <= course.left["ttl"]
      BY <2>2, <2>4
    <2>7. /\ Left = course.left["act"] + course.left["ttl"]
          /\ Left' = course'.left["act"] + course'.left["ttl"]
      BY DEF Left
    <2>8. course.left["act"] + course.left["ttl"] <= 1
      BY <2>1, <2>7
    <2>9. /\ course.left["act"] + course.left["ttl"] > 0
          /\ course'.left["act"] + course'.left["ttl"] = 0
      BY <2>3, <2>5, <2>6, <2>8
    <2> QED BY <2>7, <2>9
  <1>3. ASSUME NEW l \in course.lists, NEW i \in Items, Add(d, l, i) PROVE Asks /\ Spend({"act"})
    <2>1. chan[d].state.list[l] \cup {i} \in SUBSET Items
      BY DEF TypeInv, Typed, Channel, State
    <2> QED BY <1>3, <2>1, PatchTyped DEF Add
  <1>4. ASSUME NEW l \in course.lists, NEW i \in Items, Lift(d, l, i) PROVE Asks /\ Spend({"act"})
    <2> DEFINE u == Ratify(d, held[d], "lift")
               v == [u EXCEPT !.state.list[l] = @ \ {i}, !.owes = @ \ {<<l, i>>}]
    <2>1. u \in Update
      BY RatifyTyped DEF Asker
    <2>2. v \in Update
      <3> HIDE DEF u
      <3> QED BY <2>1 DEF Update, State
    <2>3. chan[d].state.list[l] \ {i} \in SUBSET Items
      BY DEF TypeInv, Typed, Channel, State
    <2>4. Patch(l, chan[d].state.list[l] \ {i}) \in Update
      BY <2>3, PatchTyped
    <2> QED BY <1>4, <2>2, <2>4 DEF Lift
  <1>5. ASSUME Absorb(d) PROVE Asks /\ Spend({"act"})
    <2>1. Ratify(d, Pending(d), "absorb") \in Update
      BY RatifyTyped DEF Pending, Asker
    <2> QED BY <1>5, <2>1 DEF Absorb
  <1>6. ASSUME TtlRepublish(d) PROVE Asks /\ Spend({"ttl"})
    <2>1. Effective(d) \in State
      BY ComposedTyped DEF Effective, TypeInv, Typed, Channel
    <2>2. Whole(Effective(d), "ttl") \in Update
      BY <2>1, WholeTyped DEF Asker
    <2> QED BY <1>6, <2>2 DEF TtlRepublish, netVars
  <1>7. Asks /\ (Spend({"act"}) \/ Spend({"ttl"}))
    <2> HIDE DEF Asks
    <2> QED BY <1>3, <1>4, <1>5, <1>6 DEF OwnerActs
  <1> QED BY <1>2, <1>7, ActAlone

LEMMA PublishBeginAlone ==
    ASSUME TypeInv, AloneInv, [Next]_vars, NEW d \in Devices, PublishBegin(d)
    PROVE  AloneInv'
  <1>1. Elsewhere(d)
    BY DEF PublishBegin, Elsewhere, Unsent, TypeInv, Typed
  <1>2. /\ pub[d].at = "idle" /\ queue[d] # <<>> /\ queue[d] \in Seq(Update)
        /\ queue'[d] = Tail(queue[d]) /\ UNCHANGED <<loop, pend, course>>
        /\ pub'[d].at = "begun" /\ pub'[d].asker = Head(queue[d]).asker
    BY DEF PublishBegin, TypeInv, Typed
  <1>3. Left \in Nat /\ Left' = Left /\ ~(Left > 0)
    BY <1>2, LeftFalls DEF AloneInv, Alone, Left
  <1>4. ASSUME UserAsked(d)' PROVE UserAsked(d)
    BY <1>2, <1>4 DEF UserAsked
  <1>5. UserAsked(d)' => Unsent(d)' /\ queue'[d] = <<>>
    <2>1. UserAsked(d) => Unsent(d) /\ Len(queue[d]) = 1
      BY <1>2 DEF AloneInv, Alone
    <2>2. Len(queue[d]) = 1 => Tail(queue[d]) = <<>>
      <3> DEFINE q == queue[d]
      <3>1. q \in Seq(Update) /\ q # <<>>
        BY <1>2
      <3> HIDE DEF q
      <3>2. Tail(q) \in Seq(Update) /\ Len(Tail(q)) = Len(q) - 1
        BY <3>1
      <3>3. Tail(q) = <<>> \/ Len(Tail(q)) \in Nat \ {0}
        BY <3>2, EmptySeq
      <3>4. Len(q) = 1 => Tail(q) = <<>>
        BY <3>2, <3>3
      <3> QED BY <3>4 DEF q
    <2>3. Unsent(d) => Unsent(d)'
      BY <1>2 DEF Unsent
    <2> QED BY <1>2, <1>4, <2>1, <2>2, <2>3
  <1>6. Alone(d)'
    BY <1>2, <1>3, <1>5 DEF Alone
  <1> QED BY <1>1, <1>6, AloneOf

\* a chain that was busy has nothing else that was asked for
LEMMA PublishEndsAlone ==
    ASSUME TypeInv, AloneInv, [Next]_vars, NEW d \in Devices, PublishFail(d) \/ PublishDone(d)
    PROVE  AloneInv'
  <1>1. Elsewhere(d)
    BY DEF PublishFail, PublishDone, Elsewhere, Unsent, TypeInv, Typed
  <1>2. pub[d].at # "idle" /\ pub'[d].at = "idle" /\ UNCHANGED queue
    BY DEF PublishFail, PublishDone, NoPub, TypeInv, Typed
  <1>3. Left \in Nat /\ Left' \in Nat /\ Left' <= Left /\ ~(Left > 0)
    BY <1>2, LeftFalls DEF AloneInv, Alone
  <1>4. ~UserAsked(d)'
    BY <1>2 DEF UserAsked, AloneInv, Alone
  <1>5. Alone(d)'
    BY <1>3, <1>4 DEF Alone
  <1> QED BY <1>1, <1>5, AloneOf

LEMMA ConfirmReadAlone ==
    ASSUME TypeInv, AloneInv, [Next]_vars, NEW d \in Devices, ConfirmRead(d)
    PROVE  AloneInv'
  <1>1. loop[d].at = "read" /\ UNCHANGED pub /\ ~Unsent(d)
    BY DEF ConfirmRead, Unsent
  <1>2. CASE UNCHANGED queue /\ \A e \in Devices \ {d} : pend'[e] = pend[e] /\ loop'[e] = loop[e]
    BY <1>1, <1>2, AloneCalm DEF Unsent
  <1>3. CASE Missing(d) /\ Ask(d, Whole(chan[d].state, "loop"))
    <2> DEFINE u == Whole(chan[d].state, "loop")
    <2>1. u \in Update /\ u.asker = "loop"
      BY WholeTyped DEF Asker, TypeInv, Typed, Channel, Whole
    <2>2. queue[d] \in Seq(Update) /\ queue'[d] = Append(queue[d], u)
      BY <1>3 DEF Ask, TypeInv, Typed
    <2> HIDE DEF u
    <2>3. Elsewhere(d)
      BY <1>1, <1>3 DEF Missing, Ask, Elsewhere, Unsent, TypeInv, Typed
    <2>4. ~UserAsked(d) /\ ~(Left > 0)
      BY <1>1 DEF AloneInv, Alone
    <2>5. \A k \in DOMAIN queue'[d] :
             (k \in DOMAIN queue[d] /\ queue'[d][k] = queue[d][k]) \/ queue'[d][k] = u
      BY <2>1, <2>2
    <2>6. ~UserAsked(d)'
      BY <1>1, <2>1, <2>4, <2>5 DEF UserAsked
    <2>7. Left \in Nat /\ Left' \in Nat /\ Left' <= Left
      BY LeftFalls
    <2>8. Alone(d)'
      BY <2>4, <2>6, <2>7 DEF Alone
    <2> QED BY <2>3, <2>8, AloneOf
  <1>4. \/ UNCHANGED queue /\ \A e \in Devices \ {d} : pend'[e] = pend[e] /\ loop'[e] = loop[e]
        \/ Missing(d) /\ Ask(d, Whole(chan[d].state, "loop"))
    BY DEF ConfirmRead, Landed, Missing, TypeInv, Typed
  <1> QED BY <1>2, <1>3, <1>4

LEMMA OpenAlone ==
    ASSUME TypeInv, AloneInv, [Next]_vars, NEW d \in Devices, Open(d)
    PROVE  AloneInv'
  <1>1. UNCHANGED <<queue, pub>>
    BY DEF Open
  <1>2. Unsent(d) => Unsent(d)'
    BY DEF Open, Unsent, Resumed, LoopFrom, NoLoop, TypeInv, Typed
  <1>3. \A e \in Devices \ {d} : pend'[e] = pend[e] /\ loop'[e] = loop[e]
    BY DEF Open, TypeInv, Typed
  <1> QED BY <1>1, <1>2, <1>3, AloneCalm DEF Unsent

LEMMA RestartAlone ==
    ASSUME TypeInv, AloneInv, [Next]_vars, NEW d \in Devices, Restart(d)
    PROVE  AloneInv'
  <1>1. Elsewhere(d)
    BY DEF Restart, Elsewhere, Unsent, TypeInv, Typed
  <1>2. queue'[d] = <<>> /\ pub'[d].at = "idle" /\ (Unsent(d) => Unsent(d)')
    BY DEF Restart, Unsent, NoPub, NoLoop, TypeInv, Typed
  <1>3. Left \in Nat /\ Left' \in Nat /\ Left' <= Left
    BY LeftFalls
  <1>4. Alone(d)'
    BY <1>2, <1>3 DEF AloneInv, Alone, UserAsked
  <1> QED BY <1>1, <1>4, AloneOf

LEMMA NextAlone == TypeInv /\ AloneInv /\ [Next]_vars => AloneInv'
  <1> SUFFICES ASSUME TypeInv, AloneInv, [Next]_vars PROVE AloneInv'
    OBVIOUS
  <1>1. CASE UNCHANGED <<queue, pub, loop, pend>>
    BY <1>1, AloneCalm DEF Unsent
  <1>2. CASE UNCHANGED vars
    BY <1>1, <1>2 DEF vars
  <1>3. \A d \in Running : d \in Devices
    BY DEF TypeInv, Typed, CourseStates, Devices, Running
  <1>4. ASSUME NEW d \in Devices, PublishOut(d) PROVE AloneInv'
    BY <1>4, AloneCalm DEF PublishOut, Unsent, TypeInv, Typed, Publish
  <1>5. ASSUME NEW d \in Devices, ConfirmWait(d) PROVE AloneInv'
    BY <1>5, AloneCalm DEF ConfirmWait, Unsent, TypeInv, Typed
  <1>6. ASSUME NEW d \in Running \cap Owners, Step(d) PROVE AloneInv'
    BY <1>3, <1>4, <1>5, <1>6, PublishBeginAlone, PublishEndsAlone, ConfirmReadAlone DEF Step
  <1>7. ASSUME NEW d \in Running \cap Owners, OwnerActs(d) PROVE AloneInv'
    <2>1. d \in Devices /\ course.lists \subseteq Lists
      BY DEF TypeInv, Typed, CourseStates, Devices
    <2> QED BY <1>7, <2>1, OwnerActsAlone, PublishEndsAlone
  <1> QED BY <1>1, <1>2, <1>3, <1>6, <1>7, OpenAlone, RestartAlone
          DEF Next, Poll, Signal, Ingest, Verdict, Moderate, Dismiss

\* the publish that completes is one that the confirmation asked for, or it has none yet
LEMMA AloneApart == TypeInv /\ LoopInv /\ AloneInv /\ [Next]_vars => [Apart]_vars
  <1> SUFFICES ASSUME TypeInv, LoopInv, AloneInv, Next, NEW e \in Devices, done'[e] # done[e]
               PROVE  loop[e].at # "read"
    BY DEF Apart
  <1>1. \E d \in Running \cap Owners : PublishDone(d)
    BY DEF Next, Open, Poll, Restart, Signal, Ingest, Verdict, Moderate, Dismiss, Step, OwnerActs,
           PublishBegin, PublishOut, ConfirmWait, ConfirmRead, Add, Lift, Absorb, TtlRepublish,
           PublishFail
  <1>2. PublishDone(e)
    BY <1>1 DEF PublishDone, TypeInv, Typed
  <1>3. pub[e].at # "idle"
    BY <1>2 DEF PublishDone
  <1>4. CASE pub[e].asker = "loop"
    BY <1>3, <1>4 DEF LoopInv, OneAsked, Publishing
  <1>5. CASE pub[e].asker # "loop"
    BY <1>3, <1>5 DEF AloneInv, Alone, UserAsked, Unsent
  <1> QED BY <1>4, <1>5

-----------------------------------------------------------------------------
\* where no row is lost on its way, what went through is stored
Stored(d) ==
    /\ pub[d].at = "out" => pub[d].row \in store
    /\ done[d].rev > 0 => \E r \in store : ~Later(done[d], r)

StoredInv == NothingLost /\ \A d \in Devices : Stored(d)

LEMMA NextStored == TypeInv /\ StoredInv /\ [Next]_vars => StoredInv'
  <1> SUFFICES ASSUME TypeInv, StoredInv, [Next]_vars PROVE StoredInv'
    OBVIOUS
  <1>1. NothingLost'
    <2>1. course'.left["lost"] \in Nat
      BY NextTyped DEF TypeInv, Typed, CourseStates, Events
    <2> QED BY <2>1, LeftFalls DEF StoredInv, NothingLost
  <1>2. CASE store' = store /\ done' = done
              /\ \A d \in Devices : pub'[d] = pub[d] \/ pub'[d].at # "out"
    BY <1>1, <1>2 DEF StoredInv, Stored
  <1>3. CASE UNCHANGED vars
    BY <1>2, <1>3 DEF vars, netVars
  <1>4. \A d \in Running : d \in Devices
    BY DEF TypeInv, Typed, CourseStates, Devices, Running
  <1>5. ASSUME NEW d \in Devices, PublishOut(d) PROVE StoredInv'
    <2>1. ~Spend({"lost"})
      BY DEF StoredInv, NothingLost, Spend
    <2>2. store' = store \cup {pub[d].row} /\ done' = done
      BY <1>5, <2>1 DEF PublishOut
    <2>3. \A e \in Devices : pub'[e].row = pub[e].row /\ (e # d => pub'[e] = pub[e])
      BY <1>5 DEF PublishOut, TypeInv, Typed, Publish
    <2>4. ASSUME NEW e \in Devices PROVE Stored(e)'
      BY <2>2, <2>3 DEF StoredInv, Stored
    <2> QED BY <1>1, <2>4 DEF StoredInv
  <1>6. ASSUME NEW d \in Devices, PublishDone(d) PROVE StoredInv'
    <2>1. store' = store /\ \A e \in Devices \ {d} : pub'[e] = pub[e] /\ done'[e] = done[e]
      BY <1>6 DEF PublishDone, TypeInv, Typed, netVars
    <2>2. pub'[d].at = "idle" /\ done'[d] = StampOf(pub[d].row) /\ pub[d].row \in store
      BY <1>6 DEF PublishDone, TypeInv, Typed, NoPub, StoredInv, Stored
    <2>3. pub[d].row.rev \in Nat /\ pub[d].row.ts \in Nat
      BY DEF TypeInv, Typed, Publish, Row
    <2>4. ~Later(StampOf(pub[d].row), pub[d].row)
      BY <2>3 DEF Later, StampOf
    <2>5. ASSUME NEW e \in Devices PROVE Stored(e)'
      BY <2>1, <2>2, <2>4 DEF StoredInv, Stored
    <2> QED BY <1>1, <2>5 DEF StoredInv
  <1>7. ASSUME NEW d \in Devices, PublishBegin(d) \/ PublishFail(d) \/ Restart(d) PROVE StoredInv'
    BY <1>2, <1>7 DEF PublishBegin, PublishFail, Restart, NoPub, TypeInv, Typed, netVars
  <1>8. ASSUME NEW d \in Running \cap Owners, Step(d) \/ OwnerActs(d) PROVE StoredInv'
    BY <1>2, <1>4, <1>5, <1>6, <1>7, <1>8
       DEF Step, OwnerActs, ConfirmWait, ConfirmRead, Add, Lift, Absorb, TtlRepublish, netVars
  <1> QED BY <1>2, <1>3, <1>4, <1>7, <1>8
          DEF Next, Open, Poll, Signal, Ingest, Verdict, Moderate, Dismiss, netVars

-----------------------------------------------------------------------------
(***************************************************************************)
(* Theorems                                                                 *)
(***************************************************************************)
THEOREM TypeInvariant == Spec => []TypeInv
  <1> QED BY InitTyped, NextTyped, PTL DEF Spec

\* Every variable keeps its type, whatever is read, lost or restarted, and a confirmation that
\* waits for its own publish has exactly one, in the chain or under way (AdminStateConfirm and
\* the _adminPublishChain of AdminState.js).
THEOREM ModerationTyped == Spec => []TypeOK
  <1>1. Init => LoopInv
    BY DEF Init, LoopInv, OneAsked, Publishing, Asked, NoPub, NoLoop
  <1>2. TypeInv /\ LoopInv => TypeOK
    <2> SUFFICES ASSUME TypeInv, LoopInv, NEW d \in Devices
                 PROVE  loop[d].at = "publish" <=> LoopPublishes(d)
      BY DEF TypeInv, TypeOK
    <2> QED BY DEF LoopInv, OneAsked, Publishing, Asked, LoopPublishes
  <1> QED BY <1>1, <1>2, NextOne, TypeInvariant, PTL DEF Spec

\* The last snapshot applied never goes back on a device: a read that brings nothing or old rows,
\* a signal out of order and a restart keep its revision (applyAdminState, _seedFromFloor).
THEOREM FloorsGrow == Spec => [][\A d \in Devices : floor'[d].rev >= floor[d].rev]_vars
  <1>1. TypeInv /\ [Next]_vars => [\A d \in Devices : floor'[d].rev >= floor[d].rev]_vars
    BY FloorGrows
  <1> QED BY <1>1, TypeInvariant, PTL DEF Spec

\* Of two snapshots of one device the one published later wins everywhere, for any number of
\* devices, sessions, failed reads and lost rows (bootstrapAdminState and its floor).
THEOREM LaterPublishWins == Spec => []LaterWins
  <1>1. Init => OwnInv
    BY DEF Init, OwnInv, LaterWins, OwnRows, Ahead, NoPub
  <1>2. OwnInv => LaterWins
    BY DEF OwnInv
  <1> QED BY <1>1, <1>2, NextOwn, TypeInvariant, PTL DEF Spec

\* What the owner absorbs holds all that its moderators asserted, for any number of moderators,
\* dismissed meanwhile or not, and whatever is published ahead of it (ModDeltas.absorb).
THEOREM AbsorbsHold == Spec => []AbsorbRatifies
  <1>1. Init => RatifyInv
    BY DEF Init, RatifyInv, GateKnown, QueueHolds, PubHolds, NoPub, Unknown
  <1>2. RatifyInv => AbsorbRatifies
    BY DEF RatifyInv, PubHolds, AbsorbRatifies
  <1> QED BY <1>1, <1>2, NextHolds, TypeInvariant, PTL DEF Spec

\* A publish that went through is on storage, or beaten there by a later one, or still waited
\* for, as long as no publish of a device completes between a read of its confirmation and the
\* answer (AdminStateConfirm.js:181-186): whatever is lost, read stale or restarted, for any
\* number of devices, retries and republishes.
THEOREM SeenWhereReadsApart == Spec /\ ReadsApart => []SeenToStorage
  <1>1. Init => SeenInv
    BY DEF Init, SeenInv, Seen, Never, NoPend, NoLoop, NoPub, Blank
  <1>2. TypeInv /\ SeenInv => SeenToStorage
    <2> SUFFICES ASSUME TypeInv, SeenInv, NEW d \in Devices, done[d].rev > 0,
                        ~ \E r \in store : ~Later(done[d], r)
                 PROVE  ~Later(done[d], pend[d])
      BY DEF SeenToStorage
    <2>1. done[d] = StampOf(pend[d])
      BY DEF SeenInv, Seen
    <2>2. pend[d].rev \in Nat /\ pend[d].ts \in Nat
      BY DEF TypeInv, Typed, Confirm
    <2> QED BY <2>1, <2>2 DEF Later, StampOf
  <1>3. [Next]_vars /\ [Apart]_vars => [Next /\ Apart]_vars
    OBVIOUS
  <1> QED BY <1>1, <1>2, <1>3, NextSeen, TypeInvariant, PTL DEF Spec, ReadsApart

\* An owner who asks for one publish only, on one of their devices, keeps the reads apart.
THEOREM OneActReadsApart == Spec /\ OneAct => ReadsApart
  <1>1. Init /\ OneAct => AloneInv
    BY DEF Init, AloneInv, Alone, Unsent, UserAsked, NoPend, NoLoop, NoPub
  <1>2. Init => LoopInv
    BY DEF Init, LoopInv, OneAsked, Publishing, Asked, NoPub, NoLoop
  <1> QED BY <1>1, <1>2, NextOne, NextAlone, AloneApart, TypeInvariant, PTL DEF Spec, ReadsApart

\* So does what is published reach storage or wait for it, where the owner asks for one publish
\* or no row is lost.
THEOREM PublishesSeen == Spec /\ (OneAct \/ NothingLost) => []SeenToStorage
  <1>1. Init /\ NothingLost => StoredInv
    BY DEF Init, StoredInv, Stored, NoPub, Never
  <1>2. StoredInv => SeenToStorage
    BY DEF StoredInv, Stored, SeenToStorage
  <1>3. Spec /\ NothingLost => []SeenToStorage
    BY <1>1, <1>2, NextStored, TypeInvariant, PTL DEF Spec
  <1> QED BY <1>3, SeenWhereReadsApart, OneActReadsApart, PTL
=============================================================================
