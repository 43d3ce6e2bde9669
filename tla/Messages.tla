------------------------------ MODULE Messages ------------------------------
(***************************************************************************)
(* The timeline of one channel on each of its devices                       *)
(* (channels/MessageFlow.js, MessageOverrides.js, DeliveryConfirm.js, the   *)
(* opening of a channel in channels.js, the failed outbox of                *)
(* secureStorage.js).                                                       *)
(*                                                                         *)
(* A row is a message or an override (an edit or a deletion); its stamp is  *)
(* its name, and the text of a message is the stamp of its last edit.       *)
(* Storage serves the newest rows of a partition; the network delivers any  *)
(* row to an open channel at any time, more than once or never.             *)
(* A batch is verified and lands in one step, and what a read left behind   *)
(* by a switch would still bring is left out; so are read-only channels,    *)
(* reactions, images, and overrides that are not the author's.              *)
(***************************************************************************)
EXTENDS Naturals, SequencesExt

CONSTANTS Devices,      \* the devices whose program is modelled
          Others,       \* authors known only by what they published
          MaxStamp,     \* bound: stamps given
          Window,       \* INITIAL_MESSAGES
          Reads,        \* reads of a confirmation (deliveryConfirmDelaysMs)
          Retries,      \* OPEN_READ_RETRY_DELAYS_MS
          TimelineCourses  \* bounds of the behaviours: each starts on one of these

TimelineEvents == {"send", "resend", "edit", "delete", "fail", "lost", "late", "readfail", "live",
           "reorder", "open", "quick", "slow", "crash", "page", "sweep", "refresh"}

Stamps   == 1..MaxStamp
Row      == [id : Stamps, by : Devices \cup Others]
Override == [ts : Stamps, target : Stamps, del : BOOLEAN]

\* a course: whether all authors are devices of one account, the messages and overrides that
\* storage holds at first, and how often each act, fault or outside event may still happen
TimelineStates == [one : BOOLEAN, past : SUBSET Row,
                   changes : SUBSET Override, left : [TimelineEvents -> Nat]]

ASSUME MessagesAssumption ==
    /\ TimelineCourses \subseteq TimelineStates
    /\ \A s \in TimelineCourses : IsFiniteSet(s.past) /\ IsFiniteSet(s.changes)
    /\ MaxStamp \in Nat
    /\ Window \in Nat \ {0} /\ Reads \in Nat \ {0} /\ Retries \in Nat \ {0}

VARIABLES
    chan,       \* the channel record of each device (memory)
    read,       \* the reads of its opening or refresh (memory)
    page,       \* a page of older history in flight (memory)
    sending,    \* messages whose publish is under way (memory)
    track,      \* messages that DeliveryConfirm waits for (memory)
    outbox,     \* failedOutbox (localStorage)
    sent,       \* messages that reached the network
    store,      \* those that storage holds
    ovs,        \* overrides published, all on storage
    old,        \* messages up to this stamp are more than 30 seconds old
    clock,      \* stamps given
    ahead,      \* what is left of the course of this behaviour
    seen,       \* history: overrides handed to each device in this session
    got,        \* history: since the last opening, rows that its reads brought and rows taken for an echo
    told        \* history: messages whose publish failed, on each device, and that it has not deleted

devVars == <<chan, read, page, sending, track, outbox>>
netVars == <<sent, store, ovs, old, clock>>
hisVars == <<seen, got, told>>
timelineVars == <<devVars, netVars, ahead, hisVars>>

None     == [ts |-> 0]
Failed   == {"failed", "undelivered"}
Bubble   == [edit : 0..MaxStamp, is : {"theirs", "pending", "sent", "delivered"} \cup Failed]
Shown(s) == [edit |-> 0, is |-> s]
Parts    == {"content", "control"}

Blank == [line   |-> [i \in Stamps |-> <<>>],     \* channel.messages: the copies of each
          parked |-> [i \in Stamps |-> None],     \* _pendingOverrides
          gone   |-> {},                          \* _deletedIds
          locks  |-> {},                          \* processingMessages
          batch  |-> {},                          \* pendingVerifications
          live   |-> {}]                          \* recent rows between verification and the timeline

Closed == [at |-> "closed", todo |-> {}, failed |-> {}, tries |-> 0,
           whole |-> FALSE, owed |-> FALSE, lost |-> FALSE]
NoPage == [on |-> FALSE, rows |-> {}, ovs |-> {}]
Idle   == [on |-> FALSE, reads |-> 0, verified |-> FALSE]

\* each event of E happens once more
Uses(E) ==
    /\ \A e \in E : ahead.left[e] > 0
    /\ ahead' = [ahead EXCEPT !.left = [e \in TimelineEvents |-> IF e \in E THEN @[e] - 1 ELSE @[e]]]

Ids(R)      == {r.id : r \in R}
Own(d, r)   == r.by = d \/ ahead.one
Young(r)    == r.id > old
On(c, i)    == c.line[i] # <<>>
Open(d)     == read[d].at # "closed"
Newest(S, Key(_)) == {r \in S : Cardinality({q \in S : Key(q) > Key(r)}) < Window}
LastRows(S) == LET Key(r) == r.id IN Newest(S, Key)
LastOvs(S)  == LET Key(o) == o.ts IN Newest(S, Key)

-----------------------------------------------------------------------------
(***************************************************************************)
(* What rows do to the channel record c of device d                         *)
(***************************************************************************)
\* handleTextMessage, up to the verification: rows being processed or deleted are dropped, the
\* echo of a failed send clears it, and an own row just sent is taken to be shown already
Fresh(c, R) == {r \in R : r.id \notin c.locks \cup c.gone}
Cleared(c, R) == {i \in Ids(Fresh(c, R)) : On(c, i) /\ Head(c.line[i]).is \in Failed}
Skipped(c, d, R) == {r \in Fresh(c, R) : ~On(c, r.id) /\ Own(d, r) /\ Young(r)}

TakenAlone(c, d, R) ==                                              \* mutant of Taken
    LET new == {r \in Fresh(c, R) : ~On(c, r.id)} \ Skipped(c, d, R)
    IN  [c EXCEPT !.locks = @ \cup Ids(R),
                  !.live  = @ \cup {r.id : r \in {q \in new : Young(q)}},
                  !.batch = IF new = {} THEN @ ELSE {r.id : r \in {q \in new : ~Young(q)}}]

Taken(c, d, R) ==
    LET new == {r \in Fresh(c, R) : ~On(c, r.id)} \ Skipped(c, d, R)
    IN  [c EXCEPT !.locks = @ \cup Ids(R),
                  !.line  = [i \in Stamps |-> IF i \in Cleared(c, R) THEN [@[i] EXCEPT ![1].is = "sent"] ELSE @[i]],
                  !.live  = @ \cup {r.id : r \in {q \in new : Young(q)}},
                  !.batch = @ \cup {r.id : r \in {q \in new : ~Young(q)}}]

\* an override whose target is not there is parked, and only the latest for a target
Parked(c, o) ==
    [c EXCEPT !.parked[o.target] = IF o.ts > @.ts THEN o ELSE @]

Changed(c, o) ==
    IF o.del THEN [c EXCEPT !.line[o.target] = Tail(@), !.gone = @ \cup {o.target}]
    ELSE [c EXCEPT !.line[o.target][1].edit = o.ts]

\* handleOverrideMessage
Overridden(c, o) == IF On(c, o.target) THEN Changed(c, o) ELSE Parked(c, o)

\* those of O, from the earliest stamp to the latest
AtStamp(c, O) == IF O = {} THEN c ELSE Overridden(c, CHOOSE o \in O : TRUE)
OverriddenAll(c, O) == FoldLeft(AtStamp, c, [t \in Stamps |-> {o \in O : o.ts = t}])

\* applyPendingOverrides
Settled(c) ==
    LET due == {i \in Stamps : c.parked[i].ts > 0 /\ On(c, i)}
    IN  [c EXCEPT !.parked = [i \in Stamps |-> IF i \in due THEN None ELSE @[i]],
                  !.gone   = @ \cup {i \in due : c.parked[i].del},
                  !.line   = [i \in Stamps |->
                      IF i \notin due THEN @[i]
                      ELSE IF c.parked[i].del THEN Tail(@[i]) ELSE [@[i] EXCEPT ![1].edit = c.parked[i].ts]]]

\* rows that were verified join the timeline, unless they are there or deleted by now
Joining(c, I) == {i \in I : ~On(c, i) /\ i \notin c.gone}
Landed(c, I) ==
    [c EXCEPT !.line = [i \in Stamps |-> IF i \in Joining(c, I) THEN <<Shown("theirs")>> ELSE @[i]]]

\* flushBatchVerification
Flushed(c) ==
    LET c2 == [Landed(c, c.batch) EXCEPT !.batch = {}]
    IN  IF Joining(c, c.batch) = {} THEN c2 ELSE Settled(c2)

\* a verified row is pushed without another look at the timeline
Pushed(c, i) == [c EXCEPT !.live = @ \ {i}, !.line[i] = Append(@, Shown("theirs"))]

\* the rows of R are handled on d, those of B on behalf of a read
Take(d, R, B) ==
    /\ chan' = [chan EXCEPT ![d] = Taken(@, d, R)]
    /\ outbox' = [outbox EXCEPT ![d] = @ \ Cleared(chan[d], R)]
    /\ got' = [got EXCEPT ![d].read = @ \cup Ids(B), ![d].skipped = @ \cup Ids(Skipped(chan[d], d, R))]

-----------------------------------------------------------------------------
(***************************************************************************)
(* The network and the timers                                               *)
(***************************************************************************)
Deliver(d, r) ==
    /\ Open(d)
    /\ IF Young(r) THEN Uses({"live"}) ELSE UNCHANGED ahead
    /\ Take(d, {r}, {})
    /\ UNCHANGED <<read, page, sending, track, netVars, seen, told>>

\* an override may come after a later one of the same message
DeliverOverride(d, o) ==
    /\ Open(d)
    /\ IF \E p \in seen[d] : p.target = o.target /\ p.ts > o.ts THEN Uses({"reorder"}) ELSE UNCHANGED ahead
    /\ chan' = [chan EXCEPT ![d] = Overridden(@, o)]
    /\ seen' = [seen EXCEPT ![d] = @ \cup {o}]
    /\ UNCHANGED <<read, page, sending, track, outbox, netVars, got, told>>

\* the verification of a recent row is over
LiveEnd(d, i) ==
    /\ i \in chan[d].live
    /\ chan' = [chan EXCEPT ![d] = Settled(Pushed(@, i))]
    /\ UNCHANGED <<read, page, sending, track, outbox, netVars, ahead, hisVars>>

Flush(d) ==
    /\ chan[d].batch # {}
    /\ chan' = [chan EXCEPT ![d] = Flushed(@)]
    /\ UNCHANGED <<read, page, sending, track, outbox, netVars, ahead, hisVars>>

\* the five seconds of a row are over, as a rule after it has landed
Unlock(d, i) ==
    /\ i \in chan[d].locks
    /\ IF i \in chan[d].live \cup chan[d].batch THEN Uses({"slow"}) ELSE UNCHANGED ahead
    /\ chan' = [chan EXCEPT ![d].locks = @ \ {i}]
    /\ UNCHANGED <<read, page, sending, track, outbox, netVars, hisVars>>

Age == old < clock /\ old' = clock /\ UNCHANGED <<devVars, sent, store, ovs, clock, ahead, hisVars>>

StoreLate(r) ==
    /\ r \in sent \ store
    /\ Uses({"late"})
    /\ store' = store \cup {r}
    /\ UNCHANGED <<devVars, sent, ovs, old, clock, hisVars>>

-----------------------------------------------------------------------------
(***************************************************************************)
(* Opening a channel, reading it again, leaving it                          *)
(***************************************************************************)
Restored(c, I) == [c EXCEPT !.gone = {},
    !.line = [i \in Stamps |-> IF i \in I /\ ~On(c, i) THEN <<Shown("failed")>> ELSE @[i]]]

\* subscribeToChannel, with restoreFailedOutbox; within five seconds of leaving when quick
OpenChannel(d) ==
    /\ ~Open(d)
    /\ Uses(IF chan[d].locks \subseteq chan[d].live THEN {"open"} ELSE {"open", "quick"})
    /\ chan' = [chan EXCEPT ![d] = Restored(@, outbox[d])]
    /\ read' = [read EXCEPT ![d] = [Closed EXCEPT !.at = "opening", !.todo = Parts]]
    /\ got' = [got EXCEPT ![d] = [read |-> {}, skipped |-> {}]]
    /\ UNCHANGED <<page, sending, track, outbox, netVars, seen, told>>

\* at an opening the partitions are read side by side; a refresh reads the content first
Reading(d, part) ==
    /\ part \in read[d].todo
    /\ read[d].at # "opening" => part = "content" \/ "content" \notin read[d].todo

ReadContent(d) ==
    /\ Reading(d, "content")
    /\ Take(d, LastRows(store), LastRows(store))
    /\ read' = [read EXCEPT ![d].todo = @ \ {"content"}]
    /\ UNCHANGED <<page, sending, track, netVars, ahead, seen, told>>

ReadControl(d) ==
    /\ Reading(d, "control")
    /\ chan' = [chan EXCEPT ![d] = OverriddenAll(@, LastOvs(ovs))]
    /\ seen' = [seen EXCEPT ![d] = @ \cup LastOvs(ovs)]
    /\ read' = [read EXCEPT ![d].todo = @ \ {"control"}]
    /\ UNCHANGED <<page, sending, track, outbox, netVars, ahead, got, told>>

ReadFails(d, part) ==
    /\ Reading(d, part)
    /\ Uses({"readfail"})
    /\ read' = [read EXCEPT ![d].todo = @ \ {part}, ![d].failed = @ \cup {part}]
    /\ UNCHANGED <<chan, page, sending, track, outbox, netVars, hisVars>>

CompleteForgets(d) ==                                               \* mutant of Complete
    /\ read[d].at = "opening" /\ read[d].todo = {}
    /\ chan' = [chan EXCEPT ![d] = Settled(Flushed(@))]
    /\ read' = [read EXCEPT ![d].at = "open", ![d].failed = {}, ![d].whole = read[d].failed = {},
                            ![d].tries = IF read[d].failed = {} THEN 0 ELSE Retries]
    /\ UNCHANGED <<page, sending, track, outbox, netVars, ahead, hisVars>>

\* onHistoryComplete
Complete(d) ==
    /\ read[d].at = "opening" /\ read[d].todo = {}
    /\ chan' = [chan EXCEPT ![d] = Settled(Flushed(@))]
    /\ read' = [read EXCEPT ![d].at = "open", ![d].failed = {}, ![d].whole = read[d].failed = {},
                            ![d].owed = "control" \in read[d].failed,
                            ![d].tries = IF read[d].failed = {} THEN 0 ELSE Retries]
    /\ UNCHANGED <<page, sending, track, outbox, netVars, ahead, hisVars>>

\* _retryOpenReads, and a refresh from outside (_runHistoryRefresh)
ReadAgain(d, how) ==
    /\ read[d].at = "open"
    /\ IF how = "retry" THEN read[d].tries > 0 /\ UNCHANGED ahead ELSE Uses({"refresh"})
    /\ read' = [read EXCEPT ![d].at = how, ![d].todo = Parts,
                            ![d].tries = IF how = "retry" THEN @ - 1 ELSE @]
    /\ UNCHANGED <<chan, page, sending, track, outbox, netVars, hisVars>>

RefreshedQuiet(d) ==                                                \* mutant of Refreshed
    /\ read[d].at \in {"retry", "refresh"} /\ read[d].todo = {}
    /\ chan' = [chan EXCEPT ![d] = Settled(Flushed(@))]
    /\ read' = [read EXCEPT ![d].at = "open", ![d].failed = {}, ![d].whole = @ \/ read[d].failed = {}]
    /\ UNCHANGED <<page, sending, track, outbox, netVars, ahead, hisVars>>

\* the end of a refresh: overrides still owed are read again unless that is under way or given up
Refreshed(d) ==
    /\ read[d].at \in {"retry", "refresh"} /\ read[d].todo = {}
    /\ chan' = [chan EXCEPT ![d] = Settled(Flushed(@))]
    /\ LET r     == read[d]
           all   == r.failed = {}
           owed  == "control" \in r.failed
           tries == CASE r.at = "retry" /\ all -> 0
                      [] r.at = "refresh" /\ owed /\ r.tries = 0 /\ ~r.lost -> Retries
                      [] OTHER -> r.tries
       IN  read' = [read EXCEPT ![d] = [r EXCEPT !.at = "open", !.failed = {}, !.owed = owed,
                        !.tries = tries, !.whole = @ \/ all,
                        !.lost = @ \/ (r.at = "retry" /\ ~all /\ tries = 0)]]
    /\ UNCHANGED <<page, sending, track, outbox, netVars, ahead, hisVars>>

\* memberCatchUp: content without its overrides
CatchUp(d) ==
    /\ Open(d)
    /\ Uses({"sweep"})
    /\ Take(d, LastRows(store), {})
    /\ UNCHANGED <<read, page, sending, track, netVars, seen, told>>

\* another channel is opened (setCurrentChannel): queued rows and a page in flight are discarded
Leave(d) ==
    /\ Open(d)
    /\ chan' = [chan EXCEPT ![d].batch = {}]
    /\ read' = [read EXCEPT ![d] = Closed]
    /\ page' = [page EXCEPT ![d] = NoPage]
    /\ UNCHANGED <<sending, track, outbox, netVars, ahead, hisVars>>

\* loadMoreHistory: rows and overrides up to the oldest message shown
PageBegin(d) ==
    /\ read[d].at = "open" /\ read[d].tries = 0 /\ ~read[d].lost /\ ~page[d].on
    /\ Uses({"page"})
    /\ LET before == {i \in Stamps : \A j \in Stamps : On(chan[d], j) => i <= j}
       IN  page' = [page EXCEPT ![d] = [on |-> TRUE,
                        rows |-> {i \in Ids(store) : i \in before /\ ~On(chan[d], i)},
                        ovs  |-> {o \in ovs : o.ts \in before}]]
    /\ UNCHANGED <<chan, read, sending, track, outbox, netVars, hisVars>>

PageEnd(d) ==
    /\ page[d].on
    /\ chan' = [chan EXCEPT ![d] = Settled(OverriddenAll(Landed(@, page[d].rows), page[d].ovs))]
    /\ seen' = [seen EXCEPT ![d] = @ \cup page[d].ovs]
    /\ page' = [page EXCEPT ![d] = NoPage]
    /\ UNCHANGED <<read, sending, track, outbox, netVars, ahead, got, told>>

\* the page is gone with everything in memory
Reload(d) ==
    /\ Uses({"crash"})
    /\ chan' = [chan EXCEPT ![d] = Blank]
    /\ read' = [read EXCEPT ![d] = Closed]
    /\ page' = [page EXCEPT ![d] = NoPage]
    /\ sending' = [sending EXCEPT ![d] = {}]
    /\ track' = [track EXCEPT ![d] = [i \in Stamps |-> Idle]]
    /\ seen' = [seen EXCEPT ![d] = {}]
    /\ got' = [got EXCEPT ![d] = [read |-> {}, skipped |-> {}]]
    /\ UNCHANGED <<outbox, netVars, told>>

-----------------------------------------------------------------------------
(***************************************************************************)
(* Sending                                                                  *)
(***************************************************************************)
\* the status of a bubble, when it is on the timeline
Mark(d, i, s) == [chan EXCEPT ![d].line[i] = IF @ = <<>> THEN @ ELSE [@ EXCEPT ![1].is = s]]

\* sendMessage: the bubble comes first
Send(d) ==
    /\ Open(d) /\ clock < MaxStamp
    /\ Uses({"send"})
    /\ clock' = clock + 1
    /\ chan' = [chan EXCEPT ![d].line[clock + 1] = <<Shown("pending")>>]
    /\ sending' = [sending EXCEPT ![d] = @ \cup {clock + 1}]
    /\ UNCHANGED <<read, page, track, outbox, sent, store, ovs, old, hisVars>>

ResendClears(d, i) ==                                               \* mutant of Resend
    /\ On(chan[d], i) /\ Head(chan[d].line[i]).is \in Failed
    /\ i \notin sending[d]
    /\ Uses({"resend"})
    /\ chan' = Mark(d, i, "pending")
    /\ sending' = [sending EXCEPT ![d] = @ \cup {i}]
    /\ outbox' = [outbox EXCEPT ![d] = @ \ {i}]
    /\ UNCHANGED <<read, page, track, netVars, hisVars>>

\* resendMessage
Resend(d, i) ==
    /\ On(chan[d], i) /\ Head(chan[d].line[i]).is \in Failed
    /\ i \notin sending[d]
    /\ Uses({"resend"})
    /\ chan' = Mark(d, i, "pending")
    /\ sending' = [sending EXCEPT ![d] = @ \cup {i}]
    /\ UNCHANGED <<read, page, track, outbox, netVars, hisVars>>

\* _publishTracked, the publish went out
Published(d, i) ==
    /\ i \in sending[d]
    /\ sent' = sent \cup {[id |-> i, by |-> d]}
    /\ \/ store' = store \cup {[id |-> i, by |-> d]} /\ UNCHANGED ahead
       \/ UNCHANGED store /\ Uses({"lost"})
    /\ chan' = Mark(d, i, "sent")
    /\ outbox' = [outbox EXCEPT ![d] = @ \ {i}]
    /\ track' = [track EXCEPT ![d][i] = [on |-> TRUE, reads |-> 0, verified |-> FALSE]]
    /\ sending' = [sending EXCEPT ![d] = @ \ {i}]
    /\ UNCHANGED <<read, page, ovs, old, clock, hisVars>>

\* every try of publishWithRetry threw, though the last one may have been heard
PublishFails(d, i) ==
    /\ i \in sending[d]
    /\ \/ Uses({"fail"}) /\ UNCHANGED <<sent, store>>
       \/ /\ Uses({"fail", "lost"})
          /\ sent' = sent \cup {[id |-> i, by |-> d]}
          /\ store' = store \cup {[id |-> i, by |-> d]}
    /\ chan' = Mark(d, i, "failed")
    /\ outbox' = [outbox EXCEPT ![d] = @ \cup {i}]                  \* keepForRetry
    /\ told' = [told EXCEPT ![d] = @ \cup {i}]
    /\ sending' = [sending EXCEPT ![d] = @ \ {i}]
    /\ UNCHANGED <<read, page, track, ovs, old, clock, seen, got>>

\* sendEdit and sendDelete: applied here first, and not undone when the publish fails
Change(d, i, del) ==
    /\ Open(d) /\ On(chan[d], i) /\ clock < MaxStamp
    /\ \E r \in sent \cup {[id |-> j, by |-> d] : j \in sending[d] \cup outbox[d]} : r.id = i /\ Own(d, r)
    /\ LET o == [ts |-> clock + 1, target |-> i, del |-> del]
           act == IF del THEN "delete" ELSE "edit"
       IN  /\ chan' = [chan EXCEPT ![d] = Changed(@, o)]
           /\ \/ Uses({act}) /\ ovs' = ovs \cup {o} /\ seen' = [seen EXCEPT ![d] = @ \cup {o}]
              \/ Uses({act, "fail"}) /\ UNCHANGED <<ovs, seen>>
    /\ outbox' = IF del THEN [outbox EXCEPT ![d] = @ \ {i}] ELSE outbox
    /\ clock' = clock + 1
    /\ told' = IF del THEN [told EXCEPT ![d] = @ \ {i}] ELSE told
    /\ UNCHANGED <<read, page, sending, track, sent, store, old, got>>

\* one read of the confirmation loop, for the messages D that are due; all learn from it
ConfirmRead(d) ==
    \E D \in SUBSET {i \in Stamps : track[d][i].on} \ {{}}, ok \in BOOLEAN :
        LET on    == {i \in Stamps : track[d][i].on}
            after == [i \in Stamps |-> IF i \notin on THEN Idle
                                       ELSE [on |-> TRUE, verified |-> ok \/ track[d][i].verified,
                                             reads |-> track[d][i].reads + (IF i \in D THEN 1 ELSE 0)]]
            there == IF ok THEN on \cap Ids(store) ELSE {}
            spent == {i \in D \ there : after[i].reads = Reads}
            never == {i \in spent : after[i].verified}
        IN  /\ IF ok THEN UNCHANGED ahead ELSE Uses({"readfail"})
            /\ track' = [track EXCEPT ![d] = [i \in Stamps |-> IF i \in there \cup spent THEN Idle ELSE after[i]]]
            /\ chan' = [chan EXCEPT ![d].line = [i \in Stamps |->
                            IF @[i] = <<>> THEN @[i]
                            ELSE IF i \in there THEN [@[i] EXCEPT ![1].is = "delivered"]
                            ELSE IF i \in never THEN [@[i] EXCEPT ![1].is = "undelivered"] ELSE @[i]]]
            /\ outbox' = [outbox EXCEPT ![d] = @ \cup never]
            /\ UNCHANGED <<read, page, sending, netVars, hisVars>>

-----------------------------------------------------------------------------
TimelineInit ==
    /\ ahead \in TimelineCourses
    /\ chan = [d \in Devices |-> Blank] /\ read = [d \in Devices |-> Closed]
    /\ page = [d \in Devices |-> NoPage] /\ sending = [d \in Devices |-> {}]
    /\ track = [d \in Devices |-> [i \in Stamps |-> Idle]] /\ outbox = [d \in Devices |-> {}]
    /\ sent = ahead.past /\ store = ahead.past /\ ovs = ahead.changes
    /\ clock = Cardinality(ahead.past) + Cardinality(ahead.changes) /\ old \in {0, clock}
    /\ seen = [d \in Devices |-> {}] /\ told = [d \in Devices |-> {}]
    /\ got = [d \in Devices |-> [read |-> {}, skipped |-> {}]]

\* what the program does by itself
Step(d) ==
    \/ \E i \in Stamps : LiveEnd(d, i) \/ Published(d, i)
    \/ Flush(d) \/ ReadContent(d) \/ ReadControl(d) \/ Complete(d)
    \/ ReadAgain(d, "retry") \/ Refreshed(d) \/ PageEnd(d) \/ ConfirmRead(d)

Outside(d) ==
    \/ \E r \in sent : Deliver(d, r)
    \/ \E o \in ovs : DeliverOverride(d, o)
    \/ \E i \in Stamps : Unlock(d, i) \/ PublishFails(d, i)
    \/ \E p \in Parts : ReadFails(d, p)
    \/ CatchUp(d) \/ ReadAgain(d, "refresh") \/ Reload(d)

Acts(d) ==
    \/ OpenChannel(d) \/ Leave(d) \/ PageBegin(d) \/ Send(d)
    \/ \E i \in Stamps : Resend(d, i) \/ \E del \in BOOLEAN : Change(d, i, del)

TimelineNext ==
    \/ Age \/ \E r \in sent : StoreLate(r)
    \/ \E d \in Devices : Step(d) \/ Outside(d) \/ Acts(d)

TimelineSpec == TimelineInit /\ [][TimelineNext]_timelineVars

TimelineFairSpec == TimelineSpec /\ \A d \in Devices : WF_timelineVars(Step(d))

-----------------------------------------------------------------------------
(***************************************************************************)
(* Properties                                                               *)
(***************************************************************************)
Record == [line : [Stamps -> Seq(Bubble)], parked : [Stamps -> Override \cup {None}],
           gone : SUBSET Stamps, locks : SUBSET Stamps, batch : SUBSET Stamps, live : SUBSET Stamps]

\* every variable keeps its type, what storage holds was heard by the network, what a device was
\* handed was published, and no confirmation outlives its last read
TimelineTypeOK ==
    /\ ahead \in TimelineStates
    /\ chan \in [Devices -> Record]
    /\ read \in [Devices -> [at : {"closed", "opening", "open", "retry", "refresh"}, todo : SUBSET Parts,
                             failed : SUBSET Parts, tries : 0..Retries,
                             whole : BOOLEAN, owed : BOOLEAN, lost : BOOLEAN]]
    /\ page \in [Devices -> [on : BOOLEAN, rows : SUBSET Stamps, ovs : SUBSET ovs]]
    /\ sending \in [Devices -> SUBSET Stamps] /\ outbox \in [Devices -> SUBSET Stamps]
    /\ track \in [Devices -> [Stamps -> [on : BOOLEAN, reads : 0..(Reads - 1), verified : BOOLEAN]]]
    /\ store \subseteq sent /\ sent \subseteq Row /\ ovs \subseteq Override
    /\ clock \in Nat /\ old \in 0..clock
    /\ seen \in [Devices -> SUBSET ovs] /\ told \in [Devices -> SUBSET Stamps]
    /\ got \in [Devices -> [read : SUBSET Stamps, skipped : SUBSET Stamps]]

\* Whatever order an override and its target arrive in, and whatever is read again, an override
\* that reached a device holds there: a message it deletes is not shown and one it edits is not
\* shown older, unless the channel says that overrides are owed (_pendingOverrides, _deletedIds,
\* overridesOwed).
OverridesKept ==
    \A d \in Devices : read[d].at = "open" /\ ~read[d].owed =>
        \A o \in seen[d] : On(chan[d], o.target) =>
            ~o.del /\ Head(chan[d].line[o.target]).edit >= o.ts

\* When the reads of an opening have come back, at once or on a retry, every row they brought is
\* shown, or deleted, or on its way to the timeline: no lock, batch or discard has eaten it.
HistoryWhole ==
    \A d \in Devices : read[d].at = "open" /\ read[d].whole =>
        \A i \in got[d].read \ got[d].skipped :
            \/ On(chan[d], i)
            \/ i \in chan[d].batch \cup chan[d].live \cup chan[d].gone
            \/ \E o \in seen[d] : o.del /\ o.target = i

\* A send whose failure its author saw is never forgotten before it goes out: over retries,
\* restarts and reopenings it stays in the outbox, until the author deletes it (keepForRetry,
\* restoreFailedOutbox, _publishTracked).
FailedKept ==
    \A d \in Devices : told[d] \subseteq outbox[d] \cup Ids(sent)

\* What was begun settles. An opening ends with all it asked for, or saying that its reads failed,
\* or left by the user; a send ends up failed, on storage, or given up by the confirmation
\* (_retryOpenReads, _publishTracked, _loop of DeliveryConfirm).
Unsettled(d) == sending[d] # {} \/ \E i \in Stamps : track[d][i].on
AllSettles ==
    \A d \in Devices :
        /\ Open(d) ~> ~Open(d) \/ read[d].whole \/ read[d].lost
        /\ Unsettled(d) ~> ~Unsettled(d)

\* Not upheld: a recent row is pushed without another look, and what a page has brought, and its
\* author deleted, meanwhile is on the timeline again.
DeletedStaysGone == \A d \in Devices : \A i \in chan[d].gone : ~On(chan[d], i)

\* Not upheld: `historical messages from ourselves should be processed normally', and are taken
\* for shown when they are less than 30 seconds old.
OwnHistoryWhole ==
    \A d \in Devices : read[d].at = "open" /\ read[d].whole =>
        \A i \in got[d].skipped : On(chan[d], i) \/ \E o \in seen[d] : o.target = i

\* Not upheld: a page is taken with its overrides or not at all, but it asks for the overrides
\* older than the page, and a later one outside the window of the opening is never read.
NothingUndone ==
    \A d \in Devices : read[d].at = "open" /\ read[d].whole /\ ~page[d].on =>
        \A o \in ahead.changes : o.del => ~On(chan[d], o.target)

\* Not upheld: `a message whose reads all failed stays sent', but one early answer is enough for a
\* verdict that the later reads, which failed, do not bear out.
VerdictHolds ==
    [][\A d \in Devices, i \in Stamps :
        On(chan[d], i) /\ On(chan'[d], i) /\ Head(chan'[d].line[i]).is = "undelivered"
            => Head(chan[d].line[i]).is = "undelivered" \/ i \notin Ids(store)]_timelineVars

\* Not upheld: deleting a message takes it out of the outbox, and a publish that fails afterwards
\* puts it back.
DeletedNotKept == \A d \in Devices : \A i \in outbox[d] : i \notin chan[d].gone
=============================================================================
