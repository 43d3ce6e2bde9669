--------------------------- MODULE DirectMessages ---------------------------
(***************************************************************************)
(* One conversation on one device (dm.js, with the opening and the leaving  *)
(* of a DM in channels.js, the reads of streamr/History.js and the sent     *)
(* copies and failed outbox of secureStorage.js).                           *)
(*                                                                         *)
(* `rows' is the own inbox: what the peer published there, each row with    *)
(* the time its author wrote (ts) and that of its envelope (at). Rows reach *)
(* the program over three lanes that run beside each other, each row by     *)
(* row: the live subscription, the replay of the newest rows when a session *)
(* starts, and the catch-up read. What the account writes goes to another   *)
(* stream, which it cannot read back: its own copies are local.             *)
(*                                                                         *)
(* Storage holds every row and serves it at once. Left out: other peers,    *)
(* blocked ones, rows that do not open, reactions and files, retention,     *)
(* invites, typing, and overrides parked for a message that is not shown    *)
(* (a DM never applies them).                                               *)
(***************************************************************************)
EXTENDS Naturals, SequencesExt

CONSTANTS Texts,        \* ids of the peer's messages
          Owns,         \* ids of the account's messages
          MaxTime,      \* bound: the clock
          ReplayRows,   \* CONFIG.dm.inboxHistoryCount
          Widths,       \* widths of a window of an older search
          Courses       \* bounds of the behaviours: each starts on one of these

Events == {"peer", "late", "same", "change", "start", "end", "begin", "open", "search", "leave",
           "compose", "resend", "erase", "abort", "fail", "noreplay", "nosave"}

Times == 0..MaxTime
Row   == [id : Texts, kind : {"text", "edit", "delete"}, ts : Times, at : Times]

\* a course: whether live delivery keeps the order and stops rather than skips, what the inbox
\* holds at first, and how often each act, fault or outside event may still happen
CourseStates == [inorder : BOOLEAN, past : Seq(Row), left : [Events -> Nat]]

ASSUME DirectMessagesAssumption ==
    /\ Courses \subseteq CourseStates
    /\ MaxTime \in Nat \ {0} /\ ReplayRows \in Nat \ {0} /\ Widths \subseteq Nat \ {0}

VARIABLES
    rows,       \* the inbox stream, oldest first
    now,        \* the clock
    on,         \* a session is running
    heard,      \* rows the live subscription of this session is past, or was given
    replay,     \* the row its replay is asked for before (0: the replay has been read)
    seen,       \* inboxSeenTs (0: none)
    lane,       \* per lane: rows to route, where the routing of the first one stands, for which record
    catch,      \* catchUpInbox: where it stands, and from when it reads
    chan,       \* the record of the conversation (memory)
    creating,   \* pendingConversations
    older,      \* fetchOlderDMMessages in flight
    leaving,    \* leaveChannel under way, and since when
    sending,    \* own publishes under way, by whether their object is on the timeline
    erasing,    \* own deletions under way
    composed,   \* when each own message was written (0: not yet)
    disk,       \* the record's presence, dmLeftAt, sentMessages, failedOutbox (localStorage)
    course,     \* what is left of the course of this behaviour
    reached,    \* history: own messages that reached the peer's inbox
    forgone,    \* history: own messages deleted, left behind, or in flight when a session ended
    crossed,    \* history: messages filed in a conversation that was being left
    left        \* history: the time of the latest leave

inVars  == <<rows, now>>
netVars == <<on, heard, replay, seen, catch>>
ownVars == <<sending, erasing, composed, reached, forgone>>
vars == <<inVars, netVars, lane, chan, creating, older, leaving, ownVars, disk, course, crossed, left>>

Lanes    == {"live", "replay", "catch"}
FreeLane == [todo |-> <<>>, at |-> "idle", era |-> 0]
NoCatch  == [at |-> "idle", since |-> 0]
NoOlder  == [at |-> "idle", before |-> 0, low |-> 0, todo |-> <<>>, added |-> FALSE, stop |-> FALSE]
NoLeave  == [at |-> "no", mark |-> 0]

\* _createConversation: an empty record; `era' tells it from an earlier one of the same peer
Fresh(era) == [here |-> TRUE, era |-> era,
               copies |-> [i \in Texts |-> <<>>],   \* the copies of each message, by its last edit
               own |-> [o \in Owns |-> "off"],
               cursor |-> 0, more |-> TRUE]         \* oldestTimestamp (0: none), hasMoreHistory
Gone(c)    == [Fresh(c.era) EXCEPT !.here = FALSE]

\* each event of E happens once more
Spend(E) ==
    /\ \A e \in E : course.left[e] > 0
    /\ course' = [course EXCEPT !.left = [e \in Events |-> IF e \in E THEN @[e] - 1 ELSE @[e]]]

Positions     == DOMAIN rows
InPlace(P)    == SetToSortSeq(P, <)
IsText(p)     == rows[p].kind = "text"
TextsOf(i)    == {p \in Positions : IsText(p) /\ rows[p].id = i}
WrittenAt(i)  == rows[CHOOSE p \in TextsOf(i) : TRUE].ts      \* a message sent again keeps its time
Shown(i)      == chan.here /\ chan.copies[i] # <<>>
InFlight(o)   == sending[o].shown + sending[o].stale > 0

-----------------------------------------------------------------------------
(***************************************************************************)
(* The peer                                                                 *)
(***************************************************************************)
\* sendMessage or resendMessage at the peer's: a message sent again keeps its id and its time
PeerWrites(r) ==
    /\ on /\ replay > 0 => Len(rows) + 2 - replay <= ReplayRows  \* bound: the replay has room for these
    /\ rows' = Append(rows, r)
    /\ now' = r.at
    /\ UNCHANGED <<netVars, lane, chan, creating, older, leaving, ownVars, disk, crossed, left>>

PublishTimes ==
    {t \in {now, now + 1} : t \in Times \ {0} /\ (t = now => on /\ replay = 0)}  \* bound: no tie that a replay cuts
Bill(t) == IF t = now THEN {"same"} ELSE {}

PeerSends(i) == \E at \in PublishTimes : \E ts \in 1..at :
    /\ \A j \in Texts : j < i => TextsOf(j) # {}        \* ids are only names: they come in order
    /\ IF TextsOf(i) = {} THEN TRUE ELSE ts = WrittenAt(i)
    /\ Spend({"peer"} \cup Bill(at) \cup IF ts < at THEN {"late"} ELSE {})
    /\ PeerWrites([id |-> i, kind |-> "text", ts |-> ts, at |-> at])

\* sendEdit, sendDelete at the peer's
PeerChanges(i, kind) == \E at \in PublishTimes :
    /\ TextsOf(i) # {} /\ \A p \in Positions : rows[p].id = i => rows[p].kind # "delete"
    /\ Spend({"change"} \cup Bill(at))
    /\ PeerWrites([id |-> i, kind |-> kind, ts |-> at, at |-> at])

-----------------------------------------------------------------------------
(***************************************************************************)
(* The session                                                              *)
(***************************************************************************)
\* init, subscribeToInbox: live rows are those published from now on
Start ==
    /\ ~on /\ Spend({"start"})
    /\ on' = TRUE /\ heard' = Positions /\ replay' = Len(rows) + 1 /\ seen' = 0
    /\ chan' = [Fresh(1) EXCEPT !.here = disk.chan]
    /\ UNCHANGED <<inVars, catch, lane, creating, older, leaving, ownVars, disk, crossed, left>>

\* the page is closed: all that is in memory goes
End ==
    /\ on /\ Spend({"end"})
    /\ on' = FALSE /\ seen' = 0 /\ catch' = NoCatch
    /\ lane' = [l \in Lanes |-> FreeLane]
    /\ chan' = Gone(chan) /\ creating' = "no" /\ older' = NoOlder /\ leaving' = NoLeave
    /\ sending' = [o \in Owns |-> [shown |-> 0, stale |-> 0]]
    /\ erasing' = [o \in Owns |-> "no"]
    /\ forgone' = forgone \cup {o \in Owns : InFlight(o)}
    /\ UNCHANGED <<inVars, heard, replay, composed, reached, disk, crossed, left>>

\* the subscription's handler is given a row, after those it was given before
Deliver(p) ==
    /\ on /\ p \in Positions \ heard
    /\ course.inorder => \A q \in 1..(p - 1) : q \in heard
    /\ heard' = heard \cup {p}
    /\ lane' = [lane EXCEPT !["live"].todo = Append(@, p)]
    /\ UNCHANGED <<inVars, on, replay, seen, catch, chan, creating, older, leaving, ownVars, disk,
                   course, crossed, left>>

\* subscribeWithHistory, fetchHistoryAsync: a resend of the newest rows, once; it may fail
ReplayTodo(P) ==
    /\ on /\ replay > 0
    /\ replay' = 0
    /\ lane' = [lane EXCEPT !["replay"].todo = InPlace(P)]
    /\ UNCHANGED <<inVars, on, heard, seen, catch, chan, creating, older, leaving, ownVars, disk,
                   crossed, left>>
ReplayRead  == ReplayTodo({p \in Positions : p + ReplayRows > Len(rows)}) /\ UNCHANGED course
ReplayFails == Spend({"noreplay"}) /\ ReplayTodo({})

-----------------------------------------------------------------------------
(***************************************************************************)
(* catchUpInbox: on a timer, on coming to the foreground, on an opening     *)
(***************************************************************************)
CatchSets(c, todo) ==
    /\ catch' = c
    /\ lane' = [lane EXCEPT !["catch"].todo = todo]
    /\ UNCHANGED <<inVars, on, heard, replay, seen, chan, creating, older, leaving, ownVars, disk,
                   crossed, left>>

CatchUp ==
    /\ on /\ seen > 0 /\ catch.at = "idle"
    /\ CatchSets([at |-> "reading", since |-> seen], <<>>) /\ UNCHANGED course

\* the rows from `since' on, that of `since' included
CatchReadAfter ==                                                   \* mutant of CatchRead
    /\ catch.at = "reading"
    /\ CatchSets([catch EXCEPT !.at = "routing"], InPlace({p \in Positions : rows[p].at > catch.since}))
    /\ UNCHANGED course
CatchRead ==
    /\ catch.at = "reading"
    /\ CatchSets([catch EXCEPT !.at = "routing"], InPlace({p \in Positions : rows[p].at >= catch.since}))
    /\ UNCHANGED course
CatchFails == catch.at = "reading" /\ Spend({"fail"}) /\ CatchSets(NoCatch, <<>>)
CatchDone ==
    /\ catch.at = "routing" /\ lane["catch"].todo = <<>>
    /\ CatchSets(NoCatch, <<>>) /\ UNCHANGED course

-----------------------------------------------------------------------------
(***************************************************************************)
(* routeInboxMessage, of the first row of a lane, between its awaits        *)
(***************************************************************************)
Current(l) == rows[Head(lane[l].todo)]
Finish(l)  == [lane EXCEPT ![l] = [FreeLane EXCEPT !.todo = Tail(lane[l].todo)]]
Await(l, what) == [lane EXCEPT ![l].at = what, ![l].era = chan.era]

\* the mark moves before the envelope is opened
RouteEnter(l) ==
    /\ lane[l].todo # <<>> /\ lane[l].at = "idle"
    /\ seen' = IF Current(l).at > seen THEN Current(l).at ELSE seen
    /\ lane' = Await(l, "opening")
    /\ UNCHANGED <<inVars, on, heard, replay, catch, chan, creating, older, leaving, ownVars, disk,
                   course, crossed, left>>

\* handleOverrideMessage, on a message that is shown: the first copy alone
Overridden(c, r) ==
    IF c.copies[r.id] = <<>> THEN c
    ELSE [c EXCEPT !.copies[r.id] = IF r.kind = "edit" THEN <<r.ts>> \o Tail(@) ELSE Tail(@)]

\* getOrCreateConversation: one record is made at a time, and whoever comes meanwhile waits for it
AwaitRecord(l) ==
    /\ ~chan.here
    /\ creating' = IF creating = "no" THEN "naming" ELSE creating
    /\ lane' = Await(l, "making") /\ UNCHANGED chan

\* into the record there is, or into the one that is made for it
File(l) ==
    \/ AwaitRecord(l)
    \/ /\ chan.here /\ Current(l).kind # "text"
       /\ chan' = Overridden(chan, Current(l))
       /\ lane' = Finish(l) /\ UNCHANGED creating
    \/ /\ chan.here /\ Current(l).kind = "text"
       /\ lane' = IF Shown(Current(l).id) THEN Finish(l) ELSE Await(l, "resolving")
       /\ UNCHANGED <<chan, creating>>

\* dmLeftAt: what was written before the leave is dropped, what is newer lifts the mark first
RouteJudge(l) ==
    /\ lane[l].at = "opening"
    /\ \/ /\ disk.leftAt = 0
          /\ File(l) /\ UNCHANGED disk
       \/ /\ disk.leftAt > 0 /\ Current(l).ts <= disk.leftAt
          /\ lane' = Finish(l) /\ UNCHANGED <<chan, creating, disk>>
       \/ /\ disk.leftAt > 0 /\ Current(l).ts > disk.leftAt
          /\ disk' = [disk EXCEPT !.leftAt = 0]
          /\ lane' = Await(l, "lifting") /\ UNCHANGED <<chan, creating>>
    /\ UNCHANGED <<inVars, netVars, older, leaving, ownVars, course, crossed, left>>

RouteLifted(l) ==
    /\ lane[l].at = "lifting" /\ File(l)
    /\ UNCHANGED <<inVars, netVars, older, leaving, ownVars, disk, course, crossed, left>>

\* the record that was made for it, or one that has been left since
RouteMade(l) ==
    /\ lane[l].at = "made"
    /\ IF chan.here /\ lane[l].era = chan.era
         THEN File(l) /\ UNCHANGED crossed
         ELSE /\ lane' = Finish(l) /\ crossed' = crossed \cup {Current(l).id}
              /\ UNCHANGED <<chan, creating>>
    /\ UNCHANGED <<inVars, netVars, older, leaving, ownVars, disk, course, left>>

\* trust and ENS name are known: it goes on the timeline, without another look
RoutePush(l) ==
    /\ lane[l].at = "resolving"
    /\ IF chan.here /\ lane[l].era = chan.era
         THEN chan' = [chan EXCEPT !.copies[Current(l).id] = Append(@, 0)] /\ UNCHANGED crossed
         ELSE crossed' = crossed \cup {Current(l).id} /\ UNCHANGED chan
    /\ lane' = Finish(l)
    /\ UNCHANGED <<inVars, netVars, creating, older, leaving, ownVars, disk, course, left>>

Route(l) == RouteEnter(l) \/ RouteJudge(l) \/ RouteLifted(l) \/ RouteMade(l) \/ RoutePush(l)

-----------------------------------------------------------------------------
(***************************************************************************)
(* getOrCreateConversation, startDM, leaveChannel                           *)
(***************************************************************************)
StartDM ==
    /\ on /\ ~chan.here /\ creating = "no" /\ Spend({"begin"})
    /\ creating' = "naming"
    /\ UNCHANGED <<inVars, netVars, lane, chan, older, leaving, ownVars, disk, crossed, left>>

CreateRegister ==
    /\ creating = "naming"
    /\ creating' = "saving" /\ chan' = Fresh(chan.era + 1)
    /\ UNCHANGED <<inVars, netVars, lane, older, leaving, ownVars, disk, course, crossed, left>>

\* the rows that waited go on with the record; when it could not be saved they are dropped
Waiting == {l \in Lanes : lane[l].at = "making"}
CreateEnds ==
    /\ creating = "saving" /\ creating' = "no"
    /\ UNCHANGED <<inVars, netVars, chan, older, leaving, ownVars, crossed, left>>
CreateSaved ==
    /\ CreateEnds /\ disk' = [disk EXCEPT !.chan = chan.here] /\ UNCHANGED course
    /\ lane' = [l \in Lanes |-> IF l \in Waiting THEN [lane[l] EXCEPT !.at = "made", !.era = chan.era]
                                 ELSE lane[l]]
CreateFails ==
    /\ CreateEnds /\ Spend({"nosave"}) /\ UNCHANGED disk
    /\ lane' = [l \in Lanes |-> IF l \in Waiting THEN Finish(l)[l] ELSE lane[l]]

\* the object of a publish in flight leaves the timeline
Detached == [o \in Owns |-> [shown |-> 0, stale |-> sending[o].shown + sending[o].stale]]
Unhooked == [o \in Owns |-> IF erasing[o] = "no" THEN "no" ELSE "stale"]

LeaveMark ==
    /\ chan.here /\ leaving.at = "no" /\ Spend({"leave"})
    /\ leaving' = [at |-> "marked", mark |-> now] /\ left' = now
    /\ disk' = [disk EXCEPT !.leftAt = now]
    /\ UNCHANGED <<inVars, netVars, lane, chan, creating, older, ownVars, crossed>>

LeaveClear ==
    /\ leaving.at = "marked" /\ leaving' = [leaving EXCEPT !.at = "cleared"]
    /\ disk' = [disk EXCEPT !.sent = {}] /\ forgone' = forgone \cup disk.sent
    /\ UNCHANGED <<inVars, netVars, lane, chan, creating, older, sending, erasing, composed, reached,
                   course, crossed, left>>

LeaveEnd ==
    /\ leaving.at = "cleared" /\ leaving' = NoLeave
    /\ disk' = [disk EXCEPT !.outbox = {}, !.chan = FALSE]
    /\ forgone' = forgone \cup disk.outbox
    /\ chan' = Gone(chan) /\ older' = NoOlder
    /\ sending' = Detached /\ erasing' = Unhooked
    /\ crossed' = crossed \cup {i \in Texts : Shown(i) /\ WrittenAt(i) > leaving.mark}
    /\ UNCHANGED <<inVars, netVars, lane, creating, composed, reached, course, left>>

-----------------------------------------------------------------------------
(***************************************************************************)
(* Opening the conversation and searching older messages                    *)
(***************************************************************************)
\* loadDMTimeline: one copy of each received message, the stored own ones, then the failed sends
OwnLoaded(o) == CASE o \in disk.sent -> "sent"
                  [] o \in disk.outbox \ disk.sent -> "failed"
                  [] OTHER -> "off"
Loaded == [chan EXCEPT !.copies = [i \in Texts |-> IF @[i] = <<>> THEN <<>> ELSE <<Head(@[i])>>],
                       !.own = [o \in Owns |-> OwnLoaded(o)]]
OnTimeline(c) == {WrittenAt(i) : i \in {j \in Texts : c.copies[j] # <<>>}}
                    \cup {composed[o] : o \in {q \in Owns : c.own[q] # "off"}}

\* the opening of a DM in channels.js; leaving what was open stops its search
Open ==
    /\ on /\ chan.here
    /\ Spend({"open"} \cup IF older.at = "idle" THEN {} ELSE {"abort"})
    /\ LET times == OnTimeline(Loaded)
       IN  chan' = [Loaded EXCEPT !.more = TRUE,
                                  !.cursor = IF times = {} THEN @ ELSE Min(times)]
    /\ older' = [older EXCEPT !.stop = older.at # "idle"]
    /\ sending' = Detached /\ erasing' = Unhooked
    /\ UNCHANGED <<inVars, netVars, lane, creating, leaving, composed, reached, forgone, disk,
                   crossed, left>>

\* fetchOlderDMMessages, asked by loadMoreHistory or by a search: one window before the cursor, or
\* before the present, which is later than any row
OlderSets(o) ==
    /\ older' = o
    /\ UNCHANGED <<inVars, netVars, lane, creating, leaving, ownVars, disk, crossed, left>>

OlderAsk(w) ==
    /\ chan.here /\ chan.more /\ older.at = "idle" /\ Spend({"search"})
    /\ LET before == IF chan.cursor = 0 THEN now + 1 ELSE chan.cursor
       IN  OlderSets([NoOlder EXCEPT !.at = "reading", !.before = before,
                                     !.low = IF w < before THEN before - w ELSE 0])
    /\ UNCHANGED chan

InWindow(p) == IsText(p) /\ older.low <= rows[p].at /\ rows[p].at < older.before
OlderRead ==
    /\ older.at = "reading"
    /\ OlderSets(IF older.stop THEN NoOlder
                 ELSE [older EXCEPT !.at = "filing", !.todo = InPlace({p \in Positions : InWindow(p)})])
    /\ UNCHANGED <<chan, course>>

OlderFails ==
    /\ older.at = "reading" /\ Spend({"fail"})
    /\ OlderSets(NoOlder) /\ UNCHANGED chan

\* a row is opened and, when it is not shown, its author is looked up
OlderTake ==
    /\ older.at = "filing" /\ older.todo # <<>> /\ ~older.stop
    /\ OlderSets(IF Shown(rows[Head(older.todo)].id) THEN [older EXCEPT !.todo = Tail(@)]
                 ELSE [older EXCEPT !.at = "resolving"])
    /\ UNCHANGED <<chan, course>>

OlderPush ==
    LET r == rows[Head(older.todo)] IN
    /\ older.at = "resolving"
    /\ chan' = [chan EXCEPT !.copies[r.id] = Append(@, 0),
                            !.cursor = IF @ = 0 \/ r.ts < @ THEN r.ts ELSE @]
    /\ OlderSets([older EXCEPT !.at = "filing", !.todo = Tail(@), !.added = TRUE])
    /\ UNCHANGED course

OlderEnd ==
    /\ older.at = "filing" /\ (older.todo = <<>> \/ older.stop)
    /\ chan' = [chan EXCEPT !.cursor = IF older.added THEN @ ELSE older.low,
                            !.more = older.low > 0]
    /\ OlderSets(NoOlder) /\ UNCHANGED course

-----------------------------------------------------------------------------
(***************************************************************************)
(* Own messages: sendMessage, resendMessage, _publishDm, sendDelete         *)
(***************************************************************************)
OwnSets(c, s, e, d) ==
    /\ chan' = c /\ sending' = s /\ erasing' = e /\ disk' = d
    /\ UNCHANGED <<rows, netVars, lane, creating, older, leaving, crossed, left>>

Compose(o) ==
    /\ chan.here /\ composed[o] = 0 /\ now < MaxTime /\ Spend({"compose"})
    /\ now' = now + 1 /\ composed' = [composed EXCEPT ![o] = now + 1]
    /\ OwnSets([chan EXCEPT !.own[o] = "pending"], [sending EXCEPT ![o].shown = 1], erasing, disk)
    /\ UNCHANGED <<reached, forgone>>

Resend(o) ==
    /\ chan.here /\ chan.own[o] = "failed" /\ Spend({"resend"})
    /\ OwnSets([chan EXCEPT !.own[o] = "pending"], [sending EXCEPT ![o].shown = 1], erasing, disk)
    /\ UNCHANGED <<now, composed, reached, forgone>>

\* the row is on the peer's inbox; whether the publish says so is another matter
SendReaches(o) ==
    /\ InFlight(o) /\ o \notin reached /\ reached' = reached \cup {o}
    /\ UNCHANGED <<inVars, netVars, lane, chan, creating, older, leaving, sending, erasing, composed,
                   forgone, disk, course, crossed, left>>

Settled(o, where, state) == IF where = "shown" THEN [chan EXCEPT !.own[o] = state] ELSE chan
OneLess(o, where) == [sending EXCEPT ![o][where] = @ - 1]

SendEnds(o, where) ==
    /\ sending[o][where] > 0 /\ o \in reached
    /\ OwnSets(Settled(o, where, "sent"), OneLess(o, where), erasing,
               [disk EXCEPT !.sent = @ \cup {o}, !.outbox = @ \ {o}])
    /\ UNCHANGED <<now, composed, reached, forgone, course>>

SendFailsUnkept(o, where) ==                                        \* mutant of SendFails
    /\ sending[o][where] > 0 /\ Spend({"fail"})
    /\ OwnSets(Settled(o, where, "failed"), OneLess(o, where), erasing, disk)
    /\ UNCHANGED <<now, composed, reached, forgone>>
SendFails(o, where) ==
    /\ sending[o][where] > 0 /\ Spend({"fail"})
    /\ OwnSets(Settled(o, where, "failed"), OneLess(o, where), erasing,
               [disk EXCEPT !.outbox = @ \cup {o}])
    /\ UNCHANGED <<now, composed, reached, forgone>>

\* sendDelete: the deletion is published first, the copies go when that has succeeded
Erase(o) ==
    /\ chan.here /\ chan.own[o] # "off" /\ erasing[o] = "no" /\ Spend({"erase"})
    /\ OwnSets(chan, sending, [erasing EXCEPT ![o] = "shown"], disk)
    /\ UNCHANGED <<now, composed, reached, forgone>>

Erased(o) ==
    /\ erasing[o] # "no" /\ forgone' = forgone \cup {o}
    /\ OwnSets(Settled(o, erasing[o], "off"),
               IF erasing[o] = "shown" THEN [sending EXCEPT ![o] = Detached[o]] ELSE sending,
               [erasing EXCEPT ![o] = "no"],
               [disk EXCEPT !.sent = @ \ {o}, !.outbox = @ \ {o}])
    /\ UNCHANGED <<now, composed, reached, course>>

EraseFails(o) ==
    /\ erasing[o] # "no" /\ Spend({"fail"})
    /\ OwnSets(chan, sending, [erasing EXCEPT ![o] = "no"], disk)
    /\ UNCHANGED <<now, composed, reached, forgone>>

-----------------------------------------------------------------------------
Init ==
    /\ course \in Courses
    /\ rows = course.past /\ now = IF rows = <<>> THEN 0 ELSE Last(rows).at
    /\ on = FALSE /\ heard = {} /\ replay = 0 /\ seen = 0 /\ catch = NoCatch
    /\ lane = [l \in Lanes |-> FreeLane]
    /\ chan = Gone(Fresh(1)) /\ creating = "no" /\ older = NoOlder /\ leaving = NoLeave
    /\ sending = [o \in Owns |-> [shown |-> 0, stale |-> 0]] /\ erasing = [o \in Owns |-> "no"]
    /\ composed = [o \in Owns |-> 0]
    /\ disk = [chan |-> FALSE, leftAt |-> 0, sent |-> {}, outbox |-> {}]
    /\ reached = {} /\ forgone = {} /\ crossed = {} /\ left = 0

Peer == \E i \in Texts : PeerSends(i) \/ \E kind \in {"edit", "delete"} : PeerChanges(i, kind)

\* what the program does by itself
Inbox    == ReplayRead \/ CatchUp \/ CatchRead \/ CatchDone
Records  == CreateRegister \/ CreateSaved \/ LeaveClear \/ LeaveEnd
Searches == OlderRead \/ OlderTake \/ OlderPush \/ OlderEnd
Sends    == \E o \in Owns : SendReaches(o) \/ Erased(o) \/ \E w \in {"shown", "stale"} : SendEnds(o, w)

Faults ==
    \/ End \/ ReplayFails \/ CatchFails \/ CreateFails \/ OlderFails
    \/ \E o \in Owns : EraseFails(o) \/ \E w \in {"shown", "stale"} : SendFails(o, w)

User ==
    \/ Start \/ StartDM \/ LeaveMark \/ Open \/ \E w \in Widths : OlderAsk(w)
    \/ \E o \in Owns : Compose(o) \/ Resend(o) \/ Erase(o)

Next ==
    \/ Peer \/ User \/ Faults \/ Inbox \/ Records \/ Searches \/ Sends
    \/ \E p \in Positions : Deliver(p)
    \/ \E l \in Lanes : Route(l)

Spec == Init /\ [][Next]_vars

FairSpec == Spec /\ WF_vars(Inbox) /\ WF_vars(Records) /\ \A l \in Lanes : WF_vars(Route(l))

-----------------------------------------------------------------------------
(***************************************************************************)
(* Properties                                                               *)
(***************************************************************************)
\* every variable keeps its type, and a row that waits for a record to be made has one in the making
TypeOK ==
    /\ (\E l \in Lanes : lane[l].at = "making") => creating # "no"
    /\ course \in CourseStates
    /\ rows \in Seq(Row) /\ now \in Times /\ on \in BOOLEAN /\ replay \in Nat
    /\ heard \subseteq Positions /\ seen \in Times
    /\ lane \in [Lanes -> [todo : Seq(Positions), era : Nat,
                           at : {"idle", "opening", "lifting", "making", "made", "resolving"}]]
    /\ catch \in [at : {"idle", "reading", "routing"}, since : Times]
    /\ chan \in [here : BOOLEAN, era : Nat, copies : [Texts -> Seq(Times)], cursor : Times,
                 own : [Owns -> {"off", "pending", "sent", "failed"}], more : BOOLEAN]
    /\ creating \in {"no", "naming", "saving"}
    /\ older \in [at : {"idle", "reading", "filing", "resolving"}, before : Nat, low : Times,
                  todo : Seq(Positions), added : BOOLEAN, stop : BOOLEAN]
    /\ leaving \in [at : {"no", "marked", "cleared"}, mark : Times]
    /\ sending \in [Owns -> [shown : 0..1, stale : Nat]]
    /\ erasing \in [Owns -> {"no", "shown", "stale"}] /\ composed \in [Owns -> Times]
    /\ disk \in [chan : BOOLEAN, leftAt : Times, sent : SUBSET Owns, outbox : SUBSET Owns]
    /\ reached \subseteq Owns /\ forgone \subseteq Owns /\ crossed \subseteq Texts /\ left \in Times

Withdrawn(i) == \E p \in Positions : rows[p].id = i /\ rows[p].kind = "delete"

\* A message on the inbox at the mark or after it comes to be shown, when live delivery stops at any
\* row and reads fail: the catch-up starts at the mark, and the mark only moves to a row that is on
\* its way. Messages written before a leave stay away, and one that is filed while the conversation
\* is being left goes with it (routeInboxMessage, catchUpInbox, getOrCreateConversation).
Ahead(p) == on /\ seen > 0 /\ rows[p].at >= seen
Excused(i) == Withdrawn(i) \/ i \in crossed \/ \E p \in TextsOf(i) : rows[p].ts <= left
StoredIsShown ==
    \A i \in Texts : (\E p \in TextsOf(i) : Ahead(p)) ~> ~on \/ Shown(i) \/ Excused(i)

\* Not upheld: `only flips to false once we've scanned back to t=0', so when no more history is
\* offered every message of the inbox from before the mark is shown, or on its way. But the cursor
\* the search starts from may be older than what was never read (the cursor set by an opening).
OnItsWay(p) == \E l \in Lanes : \E k \in DOMAIN lane[l].todo : rows[lane[l].todo[k]].id = rows[p].id
ExhaustedMeansRead ==
    on /\ chan.here /\ ~chan.more /\ older.at = "idle" =>
        \A p \in Positions : IsText(p) /\ rows[p].at < seen =>
            Shown(rows[p].id) \/ Withdrawn(rows[p].id) \/ OnItsWay(p)

\* What the account sent, which it cannot read back, is in its stored copies or among its failed
\* sends, whatever the timeline was loaded or left meanwhile; so is what it was told had failed
\* (_publishDm, keepForRetry, loadDMTimeline).
OwnKept ==
    \A o \in reached \cup {q \in Owns : chan.own[q] \in {"sent", "failed"}} :
        InFlight(o) \/ o \in disk.sent \cup disk.outbox \cup forgone
=============================================================================
