------------------------ MODULE DirectMessages_proofs ------------------------
(***************************************************************************)
(* Proofs about DirectMessages, for any peer, own messages and courses.      *)
(*                                                                         *)
(* OwnKept speaks of the sends in flight, the timeline, the two stored lists  *)
(* and what was given up.  A step moves an own message from one to another:   *)
(* an opening loads the timeline from the lists and leaves the sends of the   *)
(* old one without it, an end of a send goes to a list by which of the two    *)
(* it is, a leave empties one list before the other.  Of the rest of the      *)
(* record of the conversation only its shape matters.                        *)
(***************************************************************************)
EXTENDS DirectMessages, TLAPS

Publishes == [shown : Nat, stale : Nat]
OwnState  == {"off", "pending", "sent", "failed"}

\* records with the fields that are spoken of
IsRecord(c) == "own" \in DOMAIN c /\ c.own \in [Owns -> OwnState]
IsDisk(d)   == {"sent", "outbox"} \subseteq DOMAIN d

Shapes  == IsRecord(chan) /\ IsDisk(disk) /\ sending \in [Owns -> Publishes] /\ reached \subseteq Owns
KeptInv == Shapes /\ OwnKept

\* a message is on its way, in a stored list, or given up
Safe(o) == InFlight(o) \/ o \in disk.sent \cup disk.outbox \cup forgone

\* what the account was told of, or the peer has
Known(o) == o \in reached \/ chan.own[o] \in {"sent", "failed"}

LEMMA KeptIs == Shapes => (OwnKept <=> \A o \in Owns : Known(o) => Safe(o))
BY DEF OwnKept, Shapes, Safe, Known

\* The sends in flight of a message, when its object leaves the timeline.
LEMMA DetachedKeeps ==
    ASSUME Shapes
    PROVE  /\ Detached \in [Owns -> Publishes]
           /\ \A o \in Owns : Detached[o].shown + Detached[o].stale > 0 <=> InFlight(o)
<1>1. \A o \in Owns : sending[o].shown \in Nat /\ sending[o].stale \in Nat
  BY DEF Shapes, Publishes
<1>2. \A o \in Owns : sending[o].shown + sending[o].stale \in Nat /\ 0 + (sending[o].shown + sending[o].stale) = sending[o].shown + sending[o].stale
  BY <1>1
<1>3. \A o \in Owns : Detached[o] = [shown |-> 0, stale |-> sending[o].shown + sending[o].stale]
  BY DEF Detached
<1>4. Detached \in [Owns -> Publishes]
  BY <1>2 DEF Detached, Publishes
<1> QED BY <1>2, <1>3, <1>4 DEF InFlight

-----------------------------------------------------------------------------
(* Steps of the inbox and of a search                                       *)

\* what is own of a state
ownPart == <<chan.own, sending, disk.sent, disk.outbox, reached, forgone>>

LEMMA SameOwn ==
    ASSUME KeptInv, UNCHANGED ownPart, IsRecord(chan'), IsDisk(disk')
    PROVE  KeptInv'
BY DEF KeptInv, Shapes, OwnKept, ownPart, InFlight, IsRecord, IsDisk

LEMMA FileKeeps ==
    ASSUME Shapes, NEW l, File(l)
    PROVE  IsRecord(chan') /\ chan'.own = chan.own
<1>1. IsRecord(chan)
  BY DEF Shapes
<1>2. \A r : IsRecord(Overridden(chan, r)) /\ Overridden(chan, r).own = chan.own
  <2> SUFFICES ASSUME NEW r PROVE IsRecord(Overridden(chan, r)) /\ Overridden(chan, r).own = chan.own
    OBVIOUS
  <2>1. Overridden(chan, r) = chan \/ \E n : Overridden(chan, r) = [chan EXCEPT !.copies = n]
    BY DEF Overridden
  <2>2. ASSUME NEW n, Overridden(chan, r) = [chan EXCEPT !.copies = n]
        PROVE  IsRecord(Overridden(chan, r)) /\ Overridden(chan, r).own = chan.own
    BY <1>1, <2>2 DEF IsRecord
  <2> QED BY <1>1, <2>1, <2>2
<1> QED BY <1>1, <1>2 DEF File, AwaitRecord

LEMMA RouteKeeps ==
    ASSUME KeptInv, NEW l, Route(l)
    PROVE  KeptInv'
<1>1. IsRecord(chan) /\ IsDisk(disk) /\ Shapes
  BY DEF KeptInv, Shapes
<1>2. CASE RouteEnter(l)
  BY <1>1, <1>2, SameOwn DEF RouteEnter, ownVars, ownPart
<1>3. CASE RouteJudge(l)
  <2>1. UNCHANGED ownVars /\ IsRecord(chan') /\ chan'.own = chan.own
    BY <1>1, <1>3, FileKeeps DEF RouteJudge
  <2>2. disk' = disk \/ disk' = [disk EXCEPT !.leftAt = 0]
    BY <1>3 DEF RouteJudge
  <2>3. IsDisk(disk') /\ disk'.sent = disk.sent /\ disk'.outbox = disk.outbox
    BY <1>1, <2>2 DEF IsDisk
  <2> QED BY <2>1, <2>3, SameOwn DEF ownVars, ownPart
<1>4. CASE RouteLifted(l)
  BY <1>1, <1>4, FileKeeps, SameOwn DEF RouteLifted, ownVars, ownPart
<1>5. CASE RouteMade(l)
  BY <1>1, <1>5, FileKeeps, SameOwn DEF RouteMade, ownVars, ownPart
<1>6. CASE RoutePush(l)
  <2>1. chan' = chan \/ \E n : chan' = [chan EXCEPT !.copies = n]
    BY <1>6 DEF RoutePush
  <2>2. IsRecord(chan') /\ chan'.own = chan.own
    <3>1. ASSUME NEW n, chan' = [chan EXCEPT !.copies = n] PROVE IsRecord(chan') /\ chan'.own = chan.own
      BY <1>1, <3>1 DEF IsRecord
    <3> QED BY <1>1, <2>1, <3>1
  <2> QED BY <1>1, <1>6, <2>2, SameOwn DEF RoutePush, ownVars, ownPart
<1> QED BY <1>2, <1>3, <1>4, <1>5, <1>6 DEF Route

LEMMA SearchKeeps ==
    ASSUME KeptInv, Searches \/ OlderFails \/ \E w \in Widths : OlderAsk(w)
    PROVE  KeptInv'
<1>1. IsRecord(chan)
  BY DEF KeptInv, Shapes
<1>2. UNCHANGED ownVars /\ disk' = disk
  BY DEF Searches, OlderRead, OlderTake, OlderPush, OlderEnd, OlderFails, OlderAsk, OlderSets
<1>3. chan' = chan \/ OlderPush \/ OlderEnd
  BY DEF Searches, OlderRead, OlderTake, OlderFails, OlderAsk
<1>4. \/ chan' = chan
      \/ \E n, m : chan' = [chan EXCEPT !.copies = n, !.cursor = m]
      \/ \E n, m : chan' = [chan EXCEPT !.cursor = n, !.more = m]
  BY <1>3 DEF OlderPush, OlderEnd
<1>5. IsRecord(chan') /\ chan'.own = chan.own
  <2>1. ASSUME NEW n, NEW m, chan' = [chan EXCEPT !.copies = n, !.cursor = m]
        PROVE  IsRecord(chan') /\ chan'.own = chan.own
    BY <1>1, <2>1 DEF IsRecord
  <2>2. ASSUME NEW n, NEW m, chan' = [chan EXCEPT !.cursor = n, !.more = m]
        PROVE  IsRecord(chan') /\ chan'.own = chan.own
    BY <1>1, <2>2 DEF IsRecord
  <2> QED BY <1>1, <1>4, <2>1, <2>2
<1> QED BY <1>2, <1>5, SameOwn DEF KeptInv, Shapes, ownVars, ownPart

\* The peer, the arrival of rows, and the steps of a session that leave the conversation alone.
LEMMA OthersKeep ==
    ASSUME KeptInv,
           \/ Peer \/ StartDM \/ Inbox \/ ReplayFails \/ CatchFails
           \/ \E p \in Positions : Deliver(p)
    PROVE  KeptInv'
<1>1. UNCHANGED ownVars /\ disk' = disk /\ chan' = chan
  BY DEF Peer, PeerSends, PeerChanges, PeerWrites, StartDM, Inbox, ReplayRead, ReplayFails, ReplayTodo,
         CatchUp, CatchRead, CatchDone, CatchFails, CatchSets, Deliver
<1> QED BY <1>1, SameOwn DEF KeptInv, Shapes, ownVars, ownPart

-----------------------------------------------------------------------------
(* Steps of the record of the conversation                                  *)

LEMMA FreshIs ==
    \A era : /\ IsRecord(Fresh(era)) /\ IsRecord([Fresh(era) EXCEPT !.here = FALSE])
             /\ IsRecord([Fresh(era) EXCEPT !.here = disk.chan])
             /\ \A o \in Owns : /\ Fresh(era).own[o] = "off"
                                /\ [Fresh(era) EXCEPT !.here = FALSE].own[o] = "off"
                                /\ [Fresh(era) EXCEPT !.here = disk.chan].own[o] = "off"
BY DEF Fresh, IsRecord, OwnState

\* what is not known of the messages on the new timeline is kept when only the timeline goes
LEMMA TimelineGoes ==
    ASSUME KeptInv, IsRecord(chan'), \A o \in Owns : chan'.own[o] = "off",
           IsDisk(disk'), sending' \in [Owns -> Publishes], reached' = reached,
           \A o \in Owns : Safe(o) => Safe(o)'
    PROVE  KeptInv'
<1>1. Shapes'
  BY DEF Shapes, KeptInv
<1>2. \A o \in Owns : Known(o)' => Known(o)
  BY DEF Known
<1>3. \A o \in Owns : Known(o) => Safe(o)
  BY KeptIs DEF KeptInv
<1>4. \A o \in Owns : Known(o)' => Safe(o)'
  BY <1>2, <1>3
<1>5. OwnKept'
  BY <1>1, <1>4, KeptIs DEF OwnKept, Shapes, Safe, Known
<1> QED BY <1>1, <1>5 DEF KeptInv

LEMMA StartKeeps == ASSUME KeptInv, Start PROVE KeptInv'
<1>1. UNCHANGED <<ownVars, disk>> /\ chan' = [Fresh(1) EXCEPT !.here = disk.chan]
  BY DEF Start
<1>2. \A o \in Owns : Safe(o) => Safe(o)'
  BY <1>1 DEF Safe, InFlight, ownVars
<1> QED BY <1>1, <1>2, FreshIs, TimelineGoes DEF ownVars, KeptInv, Shapes

LEMMA EndKeeps == ASSUME KeptInv, End PROVE KeptInv'
<1>1. /\ chan' = [Fresh(chan.era) EXCEPT !.here = FALSE] /\ disk' = disk /\ reached' = reached
      /\ sending' = [o \in Owns |-> [shown |-> 0, stale |-> 0]]
      /\ forgone' = forgone \cup {o \in Owns : InFlight(o)}
  BY DEF End, Gone
<1>2. sending' \in [Owns -> Publishes]
  BY <1>1 DEF Publishes
<1>3. \A o \in Owns : Safe(o) => Safe(o)'
  BY <1>1 DEF Safe
<1> QED BY <1>1, <1>2, <1>3, FreshIs, TimelineGoes DEF KeptInv, Shapes

LEMMA RegisterKeeps == ASSUME KeptInv, CreateRegister PROVE KeptInv'
<1>1. UNCHANGED <<ownVars, disk>> /\ chan' = Fresh(chan.era + 1)
  BY DEF CreateRegister
<1>2. \A o \in Owns : Safe(o) => Safe(o)'
  BY <1>1 DEF Safe, InFlight, ownVars
<1> QED BY <1>1, <1>2, FreshIs, TimelineGoes DEF ownVars, KeptInv, Shapes

LEMMA CreateEndKeeps == ASSUME KeptInv, CreateSaved \/ CreateFails PROVE KeptInv'
<1>1. UNCHANGED ownVars /\ chan' = chan /\ (disk' = disk \/ disk' = [disk EXCEPT !.chan = chan.here])
  BY DEF CreateSaved, CreateFails, CreateEnds
<1>2. IsDisk(disk') /\ disk'.sent = disk.sent /\ disk'.outbox = disk.outbox
  BY <1>1 DEF IsDisk, KeptInv, Shapes
<1> QED BY <1>1, <1>2, SameOwn DEF ownVars, ownPart, KeptInv, Shapes

LEMMA LeaveMarkKeeps == ASSUME KeptInv, LeaveMark PROVE KeptInv'
<1>1. UNCHANGED ownVars /\ chan' = chan /\ disk' = [disk EXCEPT !.leftAt = now]
  BY DEF LeaveMark
<1>2. IsDisk(disk') /\ disk'.sent = disk.sent /\ disk'.outbox = disk.outbox
  BY <1>1 DEF IsDisk, KeptInv, Shapes
<1> QED BY <1>1, <1>2, SameOwn DEF ownVars, ownPart, KeptInv, Shapes

\* The stored copies go first, while the timeline that shows them is still there.
LEMMA LeaveClearKeeps == ASSUME KeptInv, LeaveClear PROVE KeptInv'
<1>1. /\ chan' = chan /\ sending' = sending /\ reached' = reached
      /\ disk' = [disk EXCEPT !.sent = {}] /\ forgone' = forgone \cup disk.sent
  BY DEF LeaveClear
<1>2. IsDisk(disk') /\ disk'.sent = {} /\ disk'.outbox = disk.outbox
  BY <1>1 DEF IsDisk, KeptInv, Shapes
<1>3. Shapes'
  BY <1>1, <1>2 DEF KeptInv, Shapes
<1>4. \A o \in Owns : (Known(o) => Known(o)') /\ (Known(o)' => Known(o)) /\ (Safe(o) => Safe(o)')
  BY <1>1, <1>2 DEF Known, Safe, InFlight
<1>5. \A o \in Owns : Known(o) => Safe(o)
  BY KeptIs DEF KeptInv
<1> QED BY <1>3, <1>4, <1>5, KeptIs DEF KeptInv, OwnKept, Shapes, Safe, Known

LEMMA LeaveEndKeeps == ASSUME KeptInv, LeaveEnd PROVE KeptInv'
<1>1. /\ chan' = [Fresh(chan.era) EXCEPT !.here = FALSE] /\ reached' = reached
      /\ disk' = [disk EXCEPT !.outbox = {}, !.chan = FALSE] /\ forgone' = forgone \cup disk.outbox
      /\ sending' = Detached
  BY DEF LeaveEnd, Gone
<1>2. IsDisk(disk') /\ disk'.sent = disk.sent /\ disk'.outbox = {}
  BY <1>1 DEF IsDisk, KeptInv, Shapes
<1>3. sending' \in [Owns -> Publishes] /\ \A o \in Owns : InFlight(o) => InFlight(o)'
  BY <1>1, DetachedKeeps DEF KeptInv, InFlight
<1>4. \A o \in Owns : Safe(o) => Safe(o)'
  BY <1>1, <1>2, <1>3 DEF Safe
<1> QED BY <1>1, <1>2, <1>3, <1>4, FreshIs, TimelineGoes

\* What an opening loads is in the stored lists.
LEMMA OpenKeeps == ASSUME KeptInv, Open PROVE KeptInv'
<1>1. sending' = Detached /\ UNCHANGED <<reached, forgone, disk>>
  BY DEF Open
<1>2. IsRecord(chan)
  BY DEF KeptInv, Shapes
<1>3. IsRecord(Loaded) /\ Loaded.own = [o \in Owns |-> OwnLoaded(o)]
  BY <1>2 DEF Loaded, IsRecord, OwnLoaded, OwnState
<1>4. PICK n : chan' = [Loaded EXCEPT !.more = TRUE, !.cursor = n]
  BY DEF Open
<1>5. IsRecord(chan') /\ chan'.own = [o \in Owns |-> OwnLoaded(o)]
  BY <1>3, <1>4 DEF IsRecord
<1>6. sending' \in [Owns -> Publishes] /\ \A o \in Owns : InFlight(o) => InFlight(o)'
  BY <1>1, DetachedKeeps DEF KeptInv, InFlight
<1>7. \A o \in Owns : Safe(o) => Safe(o)'
  BY <1>1, <1>6 DEF Safe
<1>8. \A o \in Owns : chan'.own[o] \in {"sent", "failed"} => o \in disk'.sent \cup disk'.outbox
  BY <1>1, <1>5 DEF OwnLoaded
<1>9. Shapes'
  BY <1>1, <1>5, <1>6 DEF KeptInv, Shapes
<1>10. \A o \in Owns : Known(o) => Safe(o)
  BY KeptIs DEF KeptInv
<1>11. \A o \in Owns : Known(o)' => Safe(o)'
  BY <1>1, <1>7, <1>8, <1>10 DEF Known, Safe
<1> QED BY <1>9, <1>11, KeptIs DEF KeptInv, OwnKept, Shapes, Safe, Known
-----------------------------------------------------------------------------
(* Own messages                                                             *)

\* A step about one own message leaves the others known and safe as they are.
LEMMA OneOwn ==
    ASSUME KeptInv, Shapes', NEW o \in Owns, Known(o)' => Safe(o)',
           \A q \in Owns : q # o => (Known(q)' => Known(q)) /\ (Safe(q) => Safe(q)')
    PROVE  KeptInv'
<1>1. \A q \in Owns : Known(q) => Safe(q)
  BY KeptIs DEF KeptInv
<1>2. \A q \in Owns : Known(q)' => Safe(q)'
  BY <1>1
<1> QED BY <1>2, KeptIs DEF KeptInv, OwnKept, Shapes, Safe, Known

LEMMA SendingSet ==
    ASSUME Shapes, NEW o \in Owns
    PROVE  /\ sending[o].shown \in Nat /\ sending[o].stale \in Nat
           /\ \A w \in {"shown", "stale"} :
                  /\ [sending EXCEPT ![o].shown = 1] \in [Owns -> Publishes]
                  /\ sending[o][w] > 0 => [sending EXCEPT ![o][w] = @ - 1] \in [Owns -> Publishes]
<1>1. sending[o] \in Publishes
  BY DEF Shapes
<1>2. [sending[o] EXCEPT !.shown = 1] \in Publishes
  BY <1>1 DEF Publishes
<1>3. [sending EXCEPT ![o].shown = 1] \in [Owns -> Publishes]
  BY <1>2 DEF Shapes
<1>4. ASSUME NEW w \in {"shown", "stale"}, sending[o][w] > 0
      PROVE  [sending EXCEPT ![o][w] = @ - 1] \in [Owns -> Publishes]
  <2>1. sending[o][w] - 1 \in Nat
    BY <1>1, <1>4 DEF Publishes
  <2>2. [sending[o] EXCEPT ![w] = sending[o][w] - 1] \in Publishes
    BY <1>1, <1>4, <2>1 DEF Publishes
  <2> QED BY <2>2 DEF Shapes
<1> QED BY <1>1, <1>3, <1>4 DEF Publishes

\* A new send, or one that is tried again, is in flight.
LEMMA ComposeKeeps ==
    ASSUME KeptInv, NEW o \in Owns, Compose(o) \/ Resend(o)
    PROVE  KeptInv'
<1>1. /\ chan' = [chan EXCEPT !.own[o] = "pending"] /\ sending' = [sending EXCEPT ![o].shown = 1]
      /\ disk' = disk /\ reached' = reached /\ forgone' = forgone
  BY DEF Compose, Resend, OwnSets
<1>2. Shapes /\ IsRecord(chan)
  BY DEF KeptInv, Shapes
<1>3. chan'.own = [chan.own EXCEPT ![o] = "pending"] /\ IsRecord(chan')
  BY <1>1, <1>2 DEF IsRecord, OwnState
<1>4. sending' \in [Owns -> Publishes]
  BY <1>1, <1>2, SendingSet
<1>5. sending'[o].shown = 1 /\ sending'[o].stale = sending[o].stale
  BY <1>1, <1>2 DEF Shapes, Publishes
<1>6. InFlight(o)'
  <2>1. sending[o].stale \in Nat
    BY <1>2, SendingSet
  <2>2. 1 + sending[o].stale > 0
    BY <2>1
  <2> QED BY <1>5, <2>2 DEF InFlight
<1>7. \A q \in Owns : q # o => (Known(q)' => Known(q)) /\ (Safe(q) => Safe(q)')
  BY <1>1, <1>2, <1>3 DEF Known, Safe, InFlight, IsRecord, Shapes
<1>8. Shapes'
  BY <1>1, <1>2, <1>3, <1>4 DEF Shapes
<1> QED BY <1>6, <1>7, <1>8, OneOwn DEF Safe

LEMMA ReachesKeeps ==
    ASSUME KeptInv, NEW o \in Owns, SendReaches(o)
    PROVE  KeptInv'
<1>1. UNCHANGED <<chan, sending, disk, forgone>> /\ reached' = reached \cup {o} /\ InFlight(o)
  BY DEF SendReaches
<1>2. Shapes'
  BY <1>1 DEF KeptInv, Shapes
<1>3. \A q \in Owns : (Safe(q) => Safe(q)') /\ (q # o => (Known(q)' => Known(q)))
  BY <1>1 DEF Known, Safe, InFlight
<1> QED BY <1>1, <1>2, <1>3, OneOwn DEF Safe

LEMMA SettledIs ==
    ASSUME IsRecord(chan), NEW o \in Owns, NEW where, NEW state \in OwnState
    PROVE  /\ IsRecord(Settled(o, where, state))
           /\ \A q \in Owns : q # o => Settled(o, where, state).own[q] = chan.own[q]
BY DEF Settled, IsRecord

\* The end of a send puts its message in a list, whoever waits for another of it.
LEMMA SendEndKeeps ==
    ASSUME KeptInv, NEW o \in Owns, NEW where \in {"shown", "stale"},
           SendEnds(o, where) \/ SendFails(o, where)
    PROVE  KeptInv'
<1>1. /\ \E state \in {"sent", "failed"} : chan' = Settled(o, where, state)
      /\ sending' = [sending EXCEPT ![o][where] = @ - 1]
      /\ reached' = reached /\ forgone' = forgone
      /\ \/ disk' = [disk EXCEPT !.sent = @ \cup {o}, !.outbox = @ \ {o}]
         \/ disk' = [disk EXCEPT !.outbox = @ \cup {o}]
      /\ sending[o][where] > 0
  BY DEF SendEnds, SendFails, OwnSets, OneLess
<1>2. Shapes /\ IsRecord(chan) /\ IsDisk(disk)
  BY DEF KeptInv, Shapes
<1>3. IsRecord(chan') /\ \A q \in Owns : q # o => chan'.own[q] = chan.own[q]
  BY <1>1, <1>2, SettledIs DEF OwnState
<1>4. /\ IsDisk(disk') /\ o \in disk'.sent \cup disk'.outbox
      /\ \A q : q # o => (q \in disk.sent \cup disk.outbox => q \in disk'.sent \cup disk'.outbox)
  BY <1>1, <1>2 DEF IsDisk
<1>5. sending' \in [Owns -> Publishes] /\ \A q \in Owns : q # o => sending'[q] = sending[q]
  BY <1>1, <1>2, SendingSet DEF Shapes
<1>6. Shapes'
  BY <1>1, <1>2, <1>3, <1>4, <1>5 DEF Shapes
<1>7. \A q \in Owns : q # o => (Known(q)' => Known(q)) /\ (Safe(q) => Safe(q)')
  BY <1>1, <1>3, <1>4, <1>5 DEF Known, Safe, InFlight
<1> QED BY <1>4, <1>6, <1>7, OneOwn DEF Safe

LEMMA EraseKeeps ==
    ASSUME KeptInv, NEW o \in Owns, Erase(o) \/ EraseFails(o)
    PROVE  KeptInv'
<1>1. UNCHANGED <<chan, sending, disk, reached, forgone>>
  BY DEF Erase, EraseFails, OwnSets
<1> QED BY <1>1, SameOwn DEF ownPart, KeptInv, Shapes

LEMMA ErasedKeeps ==
    ASSUME KeptInv, NEW o \in Owns, Erased(o)
    PROVE  KeptInv'
<1>1. /\ chan' = Settled(o, erasing[o], "off") /\ reached' = reached /\ forgone' = forgone \cup {o}
      /\ sending' = sending \/ sending' = [sending EXCEPT ![o] = Detached[o]]
      /\ disk' = [disk EXCEPT !.sent = @ \ {o}, !.outbox = @ \ {o}]
  BY DEF Erased, OwnSets
<1>2. Shapes /\ IsRecord(chan) /\ IsDisk(disk)
  BY DEF KeptInv, Shapes
<1>3. IsRecord(chan') /\ \A q \in Owns : q # o => chan'.own[q] = chan.own[q]
  BY <1>1, <1>2, SettledIs DEF OwnState
<1>4. /\ IsDisk(disk')
      /\ \A q : q # o => (q \in disk.sent \cup disk.outbox => q \in disk'.sent \cup disk'.outbox)
  BY <1>1, <1>2 DEF IsDisk
<1>5. sending' \in [Owns -> Publishes] /\ \A q \in Owns : q # o => sending'[q] = sending[q]
  BY <1>1, <1>2, DetachedKeeps DEF Shapes
<1>6. Shapes'
  BY <1>1, <1>2, <1>3, <1>4, <1>5 DEF Shapes
<1>7. \A q \in Owns : q # o => (Known(q)' => Known(q)) /\ (Safe(q) => Safe(q)')
  BY <1>1, <1>3, <1>4, <1>5 DEF Known, Safe, InFlight
<1> QED BY <1>1, <1>6, <1>7, OneOwn DEF Safe

-----------------------------------------------------------------------------

LEMMA InitKept == Init => KeptInv
<1> SUFFICES ASSUME Init PROVE KeptInv
  OBVIOUS
<1>1. chan = [Fresh(1) EXCEPT !.here = FALSE] /\ reached = {} /\ IsDisk(disk)
  BY DEF Init, Gone, Fresh, IsDisk
<1>2. IsRecord(chan) /\ \A o \in Owns : chan.own[o] = "off"
  BY <1>1, FreshIs
<1>3. sending \in [Owns -> Publishes]
  BY DEF Init, Publishes
<1> QED BY <1>1, <1>2, <1>3 DEF KeptInv, Shapes, OwnKept

LEMMA StepKept == KeptInv /\ [Next]_vars => KeptInv'
<1> SUFFICES ASSUME KeptInv, [Next]_vars PROVE KeptInv'
  OBVIOUS
<1>1. CASE Peer \/ Inbox \/ \E p \in Positions : Deliver(p)
  BY <1>1, OthersKeep
<1>2. CASE User
  BY <1>2, StartKeeps, OthersKeep, LeaveMarkKeeps, OpenKeeps, SearchKeeps, ComposeKeeps, EraseKeeps DEF User
<1>3. CASE Faults
  BY <1>3, EndKeeps, OthersKeep, CreateEndKeeps, SearchKeeps, EraseKeeps, SendEndKeeps DEF Faults
<1>4. CASE Records
  BY <1>4, RegisterKeeps, CreateEndKeeps, LeaveClearKeeps, LeaveEndKeeps DEF Records
<1>5. CASE Searches
  BY <1>5, SearchKeeps
<1>6. CASE Sends
  BY <1>6, ReachesKeeps, ErasedKeeps, SendEndKeeps DEF Sends
<1>7. CASE \E l \in Lanes : Route(l)
  BY <1>7, RouteKeeps
<1>8. CASE UNCHANGED vars
  BY <1>8, SameOwn DEF vars, ownVars, ownPart, KeptInv, Shapes
<1> QED BY <1>1, <1>2, <1>3, <1>4, <1>5, <1>6, <1>7, <1>8 DEF Next

\* What the account sent, and what it was told had failed, is on its way, stored or given up, whatever
\* of timelines, leaves, deletions and restarts comes between (_publishDm, keepForRetry, loadDMTimeline).
THEOREM OwnIsKept == Spec => []OwnKept
<1>1. KeptInv => OwnKept
  BY DEF KeptInv
<1> QED BY <1>1, InitKept, StepKept, PTL DEF Spec
=============================================================================
