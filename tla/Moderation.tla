----------------------------- MODULE Moderation -----------------------------
(***************************************************************************)
(* The moderation state of one channel (channels/AdminState.js,             *)
(* AdminStateConfirm.js, ModDeltas.js, modComposition.js, TtlRepublish.js   *)
(* and the admin_invalidate signal of MessageFlow.js).                      *)
(*                                                                         *)
(* The owner publishes whole snapshots, latest by (rev, ts) wins; each of   *)
(* the owner's devices reads its publish back from storage and republishes. *)
(* Moderators publish signed deltas; every device composes the snapshot     *)
(* with the deltas of current moderators, until the owner absorbs them.     *)
(*                                                                         *)
(* A list (bans, hidden messages, pins) is a set of items; the epoch stamp  *)
(* of a ban and the snapshot of a pin are left out.  A snapshot is one row,  *)
(* in however many chunks it travels.  Stamps are unique.  Only the owner   *)
(* can publish rows and only signed deltas are ingested.                    *)
(***************************************************************************)
EXTENDS Naturals, Sequences

CONSTANTS Owners,       \* the devices of the channel's owner
          Mods,         \* accounts that are moderators at first, on one device each
          Lists,        \* the lists of a state
          Delegated,    \* those that moderators' deltas act on
          Items,        \* what a list can hold
          Tries,        \* reads of a confirmation (adminConfirmDelaysMs)
          Republishes,  \* adminConfirmRepublishLimit
          Courses       \* bounds of the behaviours: each starts on one of these

Events == {"act", "delta", "dismiss", "lost", "stale", "fail", "crash", "ttl"}

\* a course: the devices that run, the lists acted on, and how often each act, fault or outside
\* event may still happen
CourseStates == [devices : SUBSET (Owners \cup Mods), lists : SUBSET Lists, left : [Events -> Nat]]

ASSUME ModerationAssumption ==
    /\ Courses \subseteq CourseStates
    /\ Owners \cap Mods = {}
    /\ Delegated \subseteq Lists
    /\ Tries \in Nat \ {0} /\ Republishes \in Nat

Devices == Owners \cup Mods

VARIABLES
    chan,       \* the channel record of each device: its snapshot and revision (memory)
    held,       \* the deltas each device has ingested (memory)
    known,      \* the gate's answers about their signers (memory)
    queue,      \* publishes waiting in _adminPublishChain, each with its argument (memory)
    pub,        \* the publish at the head of the chain (memory)
    loop,       \* the confirmation loop (memory)
    floor,      \* the last snapshot applied (localStorage)
    pend,       \* the publish that storage has not confirmed (localStorage)
    gate,       \* the accounts the gate calls moderators
    deltas,     \* deltas on the moderation partition
    sent,       \* rows published, which the signals of the owner also carry
    store,      \* rows the storage node holds
    clock,      \* stamps given
    course,     \* what is left of the course of this behaviour
    done        \* history: the last publish each device has completed

netVars == <<gate, deltas, sent, store, clock>>
vars == <<chan, held, known, queue, pub, loop, floor, pend, netVars, course, done>>

State   == [list : [Lists -> SUBSET Items], absorbed : Nat]
Empty   == [list |-> [l \in Lists |-> {}], absorbed |-> 0]
Stamp   == [rev : Nat, ts : Nat]
Never   == [rev |-> 0, ts |-> 0]
Row     == [rev : Nat, ts : Nat, state : State, by : Devices, owes : SUBSET (Lists \X Items)]
Delta   == [ts : Nat, mod : Mods, list : Delegated, item : Items, add : BOOLEAN]
Fields  == Lists \cup {"absorbed"}
Asker   == {"user", "absorb", "lift", "loop", "ttl"}
Update  == [fields : SUBSET Fields, state : State, asker : Asker, owes : SUBSET (Lists \X Items)]

Blank    == [loaded |-> FALSE, rev |-> 0, ts |-> 0, state |-> Empty]
Unknown  == [settled |-> {}, mods |-> {}]
NoPend   == [rev |-> 0, ts |-> 0, republished |-> 0, stalled |-> FALSE]
NoRow(d) == [rev |-> 0, ts |-> 0, state |-> Empty, by |-> d, owes |-> {}]
NoPub(d) == [at |-> "idle", asker |-> "user", row |-> NoRow(d)]
NoLoop   == [at |-> "off", tries |-> 0, for |-> NoPend]

\* each event of E happens once more
Spend(E) ==
    /\ \A e \in E : course.left[e] > 0
    /\ course' = [course EXCEPT !.left = [e \in Events |-> IF e \in E THEN @[e] - 1 ELSE @[e]]]

\* latest wins by (rev, ts)
Later(a, b)     == a.rev > b.rev \/ (a.rev = b.rev /\ a.ts > b.ts)
StampOf(r)      == [rev |-> r.rev, ts |-> r.ts]
Best(rows)      == CHOOSE r \in rows : \A q \in rows : ~Later(q, r)
Newest(rows)    == CHOOSE r \in rows : \A q \in rows : q.ts <= r.ts
Most(S)         == IF S = {} THEN 0 ELSE CHOOSE n \in S : \A k \in S : k <= n

(***************************************************************************)
(* Composition: the deltas of the moderators `mods' past absorbedThrough,   *)
(* in the order of their stamps, never undoing what the snapshot asserts.   *)
(***************************************************************************)
Composed(state, ds, mods) ==
    LET live == {x \in ds : x.ts > state.absorbed /\ x.mod \in mods}
        Last(l, i) == LET on == {x \in live : x.list = l /\ x.item = i}
                      IN  {x \in on : \A y \in on : y.ts <= x.ts}
    IN  [state EXCEPT !.list = [l \in Lists |->
            state.list[l] \cup {i \in Items : \E x \in Last(l, i) : x.add}]]

Effective(d) == Composed(chan[d].state, held[d], known[d].mods)

-----------------------------------------------------------------------------
(***************************************************************************)
(* Reading and applying                                                     *)
(***************************************************************************)
\* what a read of the rows can return, and the event it is: all of them, or, from a lagging
\* replica, one; a failed read is an empty one
Reads == {<<store, {}>>} \cup {<<R, {"stale"}>> : R \in {{}} \cup {{r} : r \in store}}

Record(r) == [loaded |-> TRUE, rev |-> r.rev, ts |-> r.ts, state |-> r.state]

\* applyAdminState on the record c
Applied(c, r) == IF c.loaded /\ ~Later(r, c) THEN c ELSE Record(r)

\* the record of d becomes c: what was applied is saved as the floor
Adopt(d, c) ==
    /\ chan' = [chan EXCEPT ![d] = c]
    /\ IF c = chan[d] THEN UNCHANGED floor ELSE floor' = [floor EXCEPT ![d] = c]

SeededNot(d) == chan[d]                                             \* mutant of Seeded

\* _seedFromFloor
Seeded(d) == IF Later(floor[d], chan[d]) THEN floor[d] ELSE chan[d]

LoopFrom(p) == IF p.rev = 0 \/ p.stalled THEN NoLoop ELSE [at |-> "wait", tries |-> Tries, for |-> p]

\* adminConfirm.resume, when the channel is opened
Resumed(d) == IF pend[d].rev = 0 THEN pend[d]
              ELSE [pend[d] EXCEPT !.republished = 0, !.stalled = FALSE]

\* bootstrapAdminState and the rest of opening the channel, for the first time in the session
\* or again; a read that brings nothing still marks the state loaded
Open(d) ==
    /\ \E read \in Reads :
        /\ Spend(read[2])
        /\ LET c == IF read[1] = {} THEN Seeded(d) ELSE Applied(Seeded(d), Best(read[1]))
           IN  Adopt(d, [c EXCEPT !.loaded = TRUE])
    /\ known' = [known EXCEPT ![d] = Unknown]                       \* refreshModerators
    /\ pend' = [pend EXCEPT ![d] = Resumed(d)]
    /\ loop' = [loop EXCEPT ![d] = IF @.at = "off" THEN LoopFrom(Resumed(d)) ELSE @]
    /\ UNCHANGED <<held, queue, pub, netVars, done>>

\* admin_invalidate with the snapshot inside, in any order and more than once or never
Signal(d, r) ==
    /\ chan[d].loaded
    /\ r.rev > chan[d].rev
    /\ Adopt(d, Applied(chan[d], r))
    /\ UNCHANGED <<held, known, queue, pub, loop, pend, netVars, course, done>>

\* refreshAdminState: the newest row decides whether the window is read at all
Poll(d) ==
    /\ chan[d].loaded
    /\ \E read \in Reads :
        /\ Spend(read[2])
        /\ read[1] # {} /\ Newest(read[1]).rev > chan[d].rev
        /\ Best(read[1]).rev > chan[d].rev
        /\ Adopt(d, Applied(chan[d], Best(read[1])))
    /\ UNCHANGED <<held, known, queue, pub, loop, pend, netVars, done>>

-----------------------------------------------------------------------------
(***************************************************************************)
(* Moderating: the argument of a publish is computed by the call, before    *)
(* the publishes ahead of it in the chain.                                  *)
(***************************************************************************)
Ask(d, u) == queue' = [queue EXCEPT ![d] = Append(@, u)]

Patch(l, S) == [fields |-> {l}, state |-> [Empty EXCEPT !.list[l] = S], asker |-> "user", owes |-> {}]
Whole(state, by) == [fields |-> Fields, state |-> state, asker |-> by, owes |-> {}]

\* what the moderators of now assert on the channel of d, whatever d knows about them, and
\* those whom d still takes for moderators: what they undo is undone
Asserted(d) == LET s == Composed(chan[d].state, held[d], gate \cup known[d].mods)
               IN  {o \in Delegated \X Items : o[2] \in s.list[o[1]]}

\* the composed lists become the owner's word, and the deltas of ds stop counting
Ratify(d, ds, by) ==
    [fields |-> Delegated \cup {"absorbed"},
     state  |-> [Effective(d) EXCEPT !.absorbed = Most({x.ts : x \in ds})],
     asker  |-> by, owes |-> Asserted(d)]

\* banMember, hideMessage, pinMessage
Add(d, l, i) ==
    /\ chan[d].loaded
    /\ Spend({"act"})
    /\ Ask(d, Patch(l, chan[d].state.list[l] \cup {i}))
    /\ UNCHANGED <<chan, held, known, pub, loop, floor, pend, netVars, done>>

\* unbanMember, unhideMessage, unpinMessage: with deltas held, what they assert is ratified
\* without this item
Lift(d, l, i) ==
    /\ chan[d].loaded /\ i \in Effective(d).list[l]
    /\ Spend({"act"})
    /\ IF l \in Delegated /\ held[d] # {}
       THEN LET u == Ratify(d, held[d], "lift")
            IN  Ask(d, [u EXCEPT !.state.list[l] = @ \ {i}, !.owes = @ \ {<<l, i>>}])
       ELSE Ask(d, Patch(l, chan[d].state.list[l] \ {i}))
    /\ UNCHANGED <<chan, held, known, pub, loop, floor, pend, netVars, done>>

Pending(d) == {x \in held[d] : x.ts > chan[d].state.absorbed}

AnySettled(d, ds) == TRUE                                           \* mutant of Settled

\* the gate has answered for every signer
Settled(d, ds) == \A x \in ds : x.mod \in known[d].settled

Absorb(d) ==
    /\ chan[d].loaded
    /\ Pending(d) # {} /\ Settled(d, Pending(d))
    /\ Spend({"act"})
    /\ Ask(d, Ratify(d, Pending(d), "absorb"))
    /\ UNCHANGED <<chan, held, known, pub, loop, floor, pend, netVars, done>>

\* republishOnOpen, when the snapshot nears the end of its time in storage: the composed state
TtlRepublish(d) ==
    /\ chan[d].loaded /\ chan[d].rev > 0
    /\ Spend({"ttl"})
    /\ Ask(d, Whole(Effective(d), "ttl"))
    /\ UNCHANGED <<chan, held, known, pub, loop, floor, pend, netVars, done>>

-----------------------------------------------------------------------------
(***************************************************************************)
(* _publishAdminStateInner, one call of the chain at a time                 *)
(***************************************************************************)
Patched(state, u) ==
    [list |-> [l \in Lists |-> IF l \in u.fields THEN u.state.list[l] ELSE state.list[l]],
     absorbed |-> IF "absorbed" \in u.fields THEN u.state.absorbed ELSE state.absorbed]

NextRev(d) == chan[d].rev + 1

\* the new snapshot is composed; framing it takes awaits
PublishBegin(d) ==
    /\ pub[d].at = "idle" /\ queue[d] # <<>> /\ chan[d].loaded
    /\ LET u == Head(queue[d])
       IN  pub' = [pub EXCEPT ![d] =
               [at |-> "begun", asker |-> u.asker,
                row |-> [rev |-> NextRev(d), ts |-> clock + 1, by |-> d, owes |-> u.owes,
                         state |-> Patched(chan[d].state, u)]]]
    /\ queue' = [queue EXCEPT ![d] = Tail(@)]
    /\ clock' = clock + 1
    /\ UNCHANGED <<chan, held, known, loop, floor, pend, gate, deltas, sent, store, course, done>>

\* it goes out; the storage node may not hear it
PublishOut(d) ==
    /\ pub[d].at = "begun"
    /\ pub' = [pub EXCEPT ![d].at = "out"]
    /\ sent' = sent \cup {pub[d].row}
    /\ \/ store' = store \cup {pub[d].row} /\ UNCHANGED course
       \/ UNCHANGED store /\ Spend({"lost"})
    /\ UNCHANGED <<chan, held, known, queue, loop, floor, pend, gate, deltas, clock, done>>

\* the publish fails: a confirmation that asked for it gives up, and keeps the entry pending
PublishFail(d) ==
    /\ pub[d].at = "begun"
    /\ Spend({"fail"})
    /\ pub' = [pub EXCEPT ![d] = NoPub(d)]
    /\ loop' = [loop EXCEPT ![d] = IF pub[d].asker = "loop" THEN NoLoop ELSE @]
    /\ UNCHANGED <<chan, held, known, queue, floor, pend, netVars, done>>

\* it is applied here, and its way to storage tracked (adminConfirm.track)
PublishDone(d) ==
    /\ pub[d].at = "out"
    /\ LET r == pub[d].row
           p == [rev |-> r.rev, ts |-> r.ts, stalled |-> FALSE, republished |-> pend[d].republished]
       IN  /\ Adopt(d, Applied(chan[d], r))
           /\ pend' = [pend EXCEPT ![d] = p]
           /\ loop' = [loop EXCEPT ![d] = IF @.at = "off" \/ pub[d].asker = "loop"
                                          THEN LoopFrom(p) ELSE @]
           /\ done' = [done EXCEPT ![d] = StampOf(r)]
    /\ pub' = [pub EXCEPT ![d] = NoPub(d)]
    /\ UNCHANGED <<held, known, queue, netVars, course>>

-----------------------------------------------------------------------------
(***************************************************************************)
(* AdminStateConfirm: the -3 is read back until the publish is there        *)
(***************************************************************************)
ConfirmWaitSame(d) ==                                               \* mutant of ConfirmWait
    /\ loop[d].at = "wait" /\ pend[d].rev = loop[d].for.rev
    /\ loop' = [loop EXCEPT ![d].at = "read"]
    /\ UNCHANGED <<chan, held, known, queue, pub, floor, pend, netVars, course, done>>

\* a delay is over: the entry waited for may be another one by now
ConfirmWait(d) ==
    /\ loop[d].at = "wait"
    /\ loop' = [loop EXCEPT ![d] =
           IF pend[d].rev = @.for.rev THEN [@ EXCEPT !.at = "read"] ELSE LoopFrom(pend[d])]
    /\ UNCHANGED <<chan, held, known, queue, pub, floor, pend, netVars, course, done>>

\* storage has it, or something later that is adopted
Landed(d, r) ==
    /\ ~Later(loop[d].for, r)
    /\ pend' = [pend EXCEPT ![d] = NoPend]
    /\ loop' = [loop EXCEPT ![d] = NoLoop]
    /\ Adopt(d, Applied(chan[d], r))
    /\ UNCHANGED queue

MissingQuiet(d) ==                                                  \* mutant of Missing
    /\ pend' = [pend EXCEPT ![d] = NoPend]
    /\ loop' = [loop EXCEPT ![d] = NoLoop]
    /\ UNCHANGED <<queue, chan, floor>>

\* the last read is over: the present snapshot is published again, so many times at most
Missing(d) ==
    LET p == loop[d].for
    IN  /\ IF p.republished >= Republishes
           THEN /\ pend' = [pend EXCEPT ![d] = [p EXCEPT !.stalled = TRUE]]
                /\ loop' = [loop EXCEPT ![d] = NoLoop]
                /\ UNCHANGED queue
           ELSE /\ pend' = [pend EXCEPT ![d] = [p EXCEPT !.republished = @ + 1]]
                /\ loop' = [loop EXCEPT ![d].at = "publish"]
                /\ Ask(d, Whole(chan[d].state, "loop"))
        /\ UNCHANGED <<chan, floor>>

ConfirmRead(d) ==
    /\ loop[d].at = "read"
    /\ \E read \in Reads :
        /\ Spend(read[2])
        /\ IF read[1] # {} /\ ~Later(loop[d].for, Best(read[1])) THEN Landed(d, Best(read[1]))
           ELSE IF loop[d].tries > 1
           THEN /\ loop' = [loop EXCEPT ![d] = [at |-> "wait", tries |-> @.tries - 1, for |-> @.for]]
                /\ UNCHANGED <<chan, queue, floor, pend>>
           ELSE Missing(d)
    /\ UNCHANGED <<held, known, pub, netVars, done>>

-----------------------------------------------------------------------------
(***************************************************************************)
(* Moderators, and the session                                              *)
(***************************************************************************)
\* publishModAction: ingested here at once; the publish itself may fail
Moderate(m, l, i, add) ==
    /\ m \in gate /\ chan[m].loaded
    /\ LET x == [ts |-> clock + 1, mod |-> m, list |-> l, item |-> i, add |-> add]
       IN  /\ held' = [held EXCEPT ![m] = @ \cup {x}]
           /\ \/ deltas' = deltas \cup {x} /\ Spend({"delta"})
              \/ UNCHANGED deltas /\ Spend({"delta", "fail"})
    /\ clock' = clock + 1
    /\ UNCHANGED <<chan, known, queue, pub, loop, floor, pend, gate, sent, store, done>>

\* a delta arrives, live or from history
Ingest(d, x) ==
    /\ chan[d].loaded
    /\ x \notin held[d]
    /\ held' = [held EXCEPT ![d] = @ \cup {x}]
    /\ UNCHANGED <<chan, known, queue, pub, loop, floor, pend, netVars, course, done>>

\* the gate answers about a signer
Verdict(d, m) ==
    /\ \E x \in held[d] : x.mod = m
    /\ m \notin known[d].settled
    /\ known' = [known EXCEPT ![d].settled = @ \cup {m},
                              ![d].mods = IF m \in gate THEN @ \cup {m} ELSE @]
    /\ UNCHANGED <<chan, held, queue, pub, loop, floor, pend, netVars, course, done>>

Dismiss(m) ==
    /\ m \in gate
    /\ Spend({"dismiss"})
    /\ gate' = gate \ {m}
    /\ UNCHANGED <<chan, held, known, queue, pub, loop, floor, pend, deltas, sent, store, clock, done>>

\* the page is gone with everything in memory
Restart(d) ==
    /\ Spend({"crash"})
    /\ chan' = [chan EXCEPT ![d] = Blank]
    /\ held' = [held EXCEPT ![d] = {}]
    /\ known' = [known EXCEPT ![d] = Unknown]
    /\ queue' = [queue EXCEPT ![d] = <<>>]
    /\ pub' = [pub EXCEPT ![d] = NoPub(d)]
    /\ loop' = [loop EXCEPT ![d] = NoLoop]
    /\ UNCHANGED <<floor, pend, netVars, done>>

-----------------------------------------------------------------------------
Init ==
    /\ course \in Courses
    /\ chan = [d \in Devices |-> Blank] /\ floor = [d \in Devices |-> Blank]
    /\ held = [d \in Devices |-> {}] /\ known = [d \in Devices |-> Unknown]
    /\ queue = [d \in Devices |-> <<>>] /\ pub = [d \in Devices |-> NoPub(d)]
    /\ loop = [d \in Devices |-> NoLoop] /\ pend = [d \in Devices |-> NoPend]
    /\ gate = Mods /\ deltas = {} /\ sent = {} /\ store = {} /\ clock = 0
    /\ done = [d \in Devices |-> Never]

Running == course.devices

\* what the owner's program does by itself
Step(d) ==
    \/ PublishBegin(d) \/ PublishOut(d) \/ PublishDone(d)
    \/ ConfirmWait(d) \/ ConfirmRead(d)

OwnerActs(d) ==
    \/ \E l \in course.lists, i \in Items : Add(d, l, i) \/ Lift(d, l, i)
    \/ Absorb(d) \/ TtlRepublish(d) \/ PublishFail(d)

Next ==
    \/ \E d \in Running :
        \/ Open(d) \/ Poll(d) \/ Restart(d)
        \/ \E r \in sent : Signal(d, r)
        \/ \E x \in deltas : Ingest(d, x)
        \/ \E m \in Mods : Verdict(d, m)
    \/ \E d \in Running \cap Owners : Step(d) \/ OwnerActs(d)
    \/ \E m \in Running \cap Mods :
        \/ \E l \in Delegated \cap course.lists, i \in Items, add \in BOOLEAN : Moderate(m, l, i, add)
        \/ Dismiss(m)

Spec == Init /\ [][Next]_vars

\* publishes and timers of a running client go on, and the owner opens the channel again
FairSpec == Spec /\ \A d \in Owners : WF_vars(d \in Running /\ Step(d)) /\ WF_vars(d \in Running /\ Open(d))

-----------------------------------------------------------------------------
(***************************************************************************)
(* Properties                                                               *)
(***************************************************************************)
Confirm == [rev : Nat, ts : Nat, republished : Nat, stalled : BOOLEAN]
Channel == [loaded : BOOLEAN, rev : Nat, ts : Nat, state : State]
Publish == [at : {"idle", "begun", "out"}, asker : Asker, row : Row]
Loop    == [at : {"off", "wait", "read", "publish"}, tries : Nat, for : Confirm]

\* a publish that the confirmation of d asked for is in the chain
LoopPublishes(d) ==
    \/ pub[d].at # "idle" /\ pub[d].asker = "loop"
    \/ \E k \in DOMAIN queue[d] : queue[d][k].asker = "loop"

Typed ==
    /\ course \in CourseStates
    /\ chan \in [Devices -> Channel] /\ floor \in [Devices -> Channel]
    /\ held \in [Devices -> SUBSET Delta]
    /\ known \in [Devices -> [settled : SUBSET Mods, mods : SUBSET Mods]]
    /\ queue \in [Devices -> Seq(Update)]
    /\ pub \in [Devices -> Publish]
    /\ loop \in [Devices -> Loop]
    /\ pend \in [Devices -> Confirm]
    /\ gate \subseteq Mods /\ deltas \subseteq Delta /\ store \subseteq sent /\ sent \subseteq Row
    /\ clock \in Nat /\ done \in [Devices -> Stamp]

\* every variable keeps its type, and a confirmation that waits for its own publish has one
TypeOK == Typed /\ \A d \in Devices : loop[d].at = "publish" <=> LoopPublishes(d)

\* Of two snapshots one device publishes, in one session or in several, the one published later
\* wins everywhere: no read that failed and no restart brings back an earlier revision
\* (bootstrapAdminState, the floor and _publishAdminStateInner).
LaterWins == \A r, q \in sent : r.by = q.by /\ r.ts < q.ts => Later(q, r)

\* What the owner absorbs becomes their word: a row that an absorb published holds everything
\* that the moderators of that moment, and those the device still took for moderators, asserted
\* in what was absorbed (ModDeltas.absorb).
AbsorbRatifies ==
    \A d \in Devices : pub[d].at = "out" /\ pub[d].asker = "absorb" =>
        \A o \in pub[d].row.owes : o[2] \in pub[d].row.state.list[o[1]]

\* A publish that went through is on storage, or beaten there by a later one, or still waited
\* for, by this session or the next (AdminStateConfirm).
SeenToStorage ==
    \A d \in Devices : done[d].rev > 0 =>
        ~Later(done[d], pend[d]) \/ \E r \in store : ~Later(done[d], r)

\* A publish waited for is found on storage in the end, or the owner is told that it is not.
PublishLands == \A d \in Owners : pend[d].rev > 0 ~> pend[d].rev = 0 \/ pend[d].stalled

\* Not upheld: the chain of publishes is there so that latest-wins does not `silently drop one of
\* the operations'; but a republish takes the snapshot when it is asked for, not when its turn
\* comes, and drops what was published between.
RepublishKeeps ==
    [][\A d \in Owners :
        pub[d].at = "out" /\ pub'[d].at = "idle" /\ pub[d].asker = "loop" =>
            \A l \in Lists : chan[d].state.list[l] \subseteq chan'[d].state.list[l]]_vars

\* Not upheld: `publishing the composition would silently ratify moderator deltas the owner never
\* looked at', and the republish of an ageing snapshot does.
TtlRatifiesNothing ==
    \A d \in Owners : pub[d].at = "begun" /\ pub[d].asker = "ttl" =>
        \A l \in Lists : pub[d].row.state.list[l] \subseteq chan[d].state.list[l]

\* Not upheld: lifting one item ratifies the rest of what the moderators assert.
LiftRatifies ==
    \A d \in Devices : pub[d].at = "out" /\ pub[d].asker = "lift" =>
        \A o \in pub[d].row.owes : o[2] \in pub[d].row.state.list[o[1]]
=============================================================================
