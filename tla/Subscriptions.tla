--------------------------- MODULE Subscriptions ----------------------------
(***************************************************************************)
(* What one session hears: the channel on screen, the active channel and     *)
(* the preview (subscriptionManager.js, ChannelViewUI.js, PreviewModeUI.js),  *)
(* the table of subscriptions (streamr.js) and what is live on the network,   *)
(* while clicks overlap and the client is replaced under them.               *)
(*                                                                         *)
(* A flow is one handler.  Between two awaits it runs alone: a flow whose    *)
(* "at" is in Running goes on before anything else happens.  Left out: the    *)
(* -3, -4 and -5 streams, media partitions, histories, DM and write-only      *)
(* channels, gated previews, the presence of a preview, activity polling.    *)
(***************************************************************************)
EXTENDS NodeRevival

CONSTANTS Chans, None,
          Slots,        \* places for flows, numbers
          Parts,        \* partitions of a message stream, in the order they are subscribed
          Courses       \* bounds of the behaviours: faults of the client, events, channels joined before

\* clicks, and what goes wrong: a click too soon, a subscribe that fails, or one of an
\* ephemeral stream that comes late, on a client that is going down
Events  == {"select", "close", "enter", "join", "again", "fail", "late"}
Streams == {"msg", "eph"}
Control == "control"    \* the partition of an ephemeral stream that is subscribed here

MsgParts == {Parts[i] : i \in DOMAIN Parts}
AllParts == MsgParts \cup {Control}

ASSUME SubscriptionsAssumption ==
    /\ Courses \subseteq [faults : Faults, start : {"starting", "hung"}, left : [Events -> Nat], joined : SUBSET Chans]
    /\ Slots \cap Chans = {} /\ None \notin Chans \cup AllParts /\ \A P \in SUBSET AllParts : P # None
    /\ Control \notin MsgParts

VARIABLES
    course,     \* bounds of this behaviour
    left,       \* the events that may still happen
    joined,     \* channelManager.channels
    shown,      \* channelManager.currentChannel
    active,     \* activeChannelId
    preview,    \* previewChannelId
    screen,     \* the channel of previewModeUI.previewChannel
    poller,     \* the channel adminStatePoller polls
    table,      \* streamrController.subscriptions: the partitions a stream has entries for, None for no key
    net,        \* live subscriptions
    flow        \* handlers under way

screenVars == <<shown, screen>>
switchVars == <<active, preview, poller>>
tableVars  == <<table, net>>
courseVars == <<course, left, joined>>
vars == <<clientVars, screenVars, switchVars, tableVars, courseVars, flow>>

\* the generations a flow may have claimed: previewGeneration, previewSwitchGeneration
Fences == {"ui", "switch"}

Waiting == {"leave", "prepare", "subscribe", "persist", "bootstrap", "resubscribe"}
Running == {"exit", "exited", "arrive", "activate", "closing", "closed", "place", "cleared", "settle",
            "downgraded", "claim", "open", "next", "subscribed", "failed", "undone", "represent"}
\* holds: the generations that are still its own; on, wait, then: the channel it leaves, its streams not
\* ended yet and where it goes on; own: the entries of the object it fills, when the table does not hold
\* that object any more, and None while it does; part, late: what it subscribes, on a client replaced since
Flow == [op : {"select", "close", "enter", "join", "resume", "orphan"}, at : Waiting \cup Running,
         chan : Chans \cup {None}, holds : SUBSET Fences,
         on : Chans \cup {None}, wait : SUBSET Streams, then : Running \cup {"end"},
         own : {None} \cup SUBSET MsgParts, part : AllParts \cup {None}, late : BOOLEAN]

ASSUME NoFlowAssumption == None \notin Flow

Flows == Slots \cup Chans       \* the slot named by a channel is for the end of its orphan

\* listed: the table reaches it
Subscription == [chan : Chans, part : AllParts, via : {"channel", "preview"}, listed : BOOLEAN]

TypeOK ==
    /\ ClientTypeOK
    /\ joined \subseteq Chans
    /\ {shown, active, preview, poller, screen} \subseteq Chans \cup {None}
    /\ table \in [Chans -> [Streams -> {None} \cup SUBSET AllParts]]
    /\ net \subseteq Subscription
    /\ flow \in [Flows -> Flow \cup {None}]

Unlisted == [c \in Chans |-> [s \in Streams |-> None]]

Init ==
    /\ ClientInit
    /\ course \in Courses /\ course.faults = faults /\ course.start = node /\ left = course.left
    /\ joined = course.joined
    /\ shown = None /\ active = None /\ preview = None /\ screen = None /\ poller = None
    /\ table = Unlisted /\ net = {}
    /\ flow = [f \in Flows |-> None]

-----------------------------------------------------------------------------
(* Flows                                                                    *)

Live  == {f \in Flows : flow[f] # None}
Pausing(f) == flow[f].at \in Waiting /\ (flow[f].at = "leave" => flow[f].wait # {})
Quiet == \A f \in Live : Pausing(f)
Free  == {f \in Slots : flow[f] = None}

New(op, at, c) == [op |-> op, at |-> at, chan |-> c, holds |-> {}, on |-> None, wait |-> {}, then |-> "end",
                   own |-> None, part |-> None, late |-> FALSE]

At(f, at)   == f \in Live /\ flow[f].at = at
Goes(f, at) == flow' = [flow EXCEPT ![f].at = at]
Ends(f)     == flow' = [flow EXCEPT ![f] = None]

\* a generation is bumped: nobody holds it any more
Bumped(fs, x) == [f \in Flows |-> IF fs[f] = None THEN None ELSE [fs[f] EXCEPT !.holds = @ \ {x}]]

Starts(fs, r) == \E f \in Free : (\A h \in Free : f <= h) /\ flow' = [fs EXCEPT ![f] = r]

Spend(e) == left[e] > 0 /\ left' = [left EXCEPT ![e] = @ - 1]

\* a click while a flow about its channel, or about leaving it, is under way, or beside a join
Concerned == {shown, active, preview} \cup {flow[f].chan : f \in Live} \cup {flow[f].on : f \in Live}
TooSoon(e, c) == /\ Live # {}
                 /\ e = "join" \/ c \in Concerned \ {None} \/ \E f \in Live : flow[f].op = "join"
Chooses(e, c) ==
    /\ left[e] > 0
    /\ TooSoon(e, c) => left.again > 0
    /\ left' = [left EXCEPT ![e] = @ - 1, !.again = IF TooSoon(e, c) THEN @ - 1 ELSE @]

-----------------------------------------------------------------------------
(* Unsubscribing                                                            *)

StreamOf(p) == IF p = Control THEN "eph" ELSE "msg"

Listed(c)  == {s \in Streams : table[c][s] # None}
Quieted(c) == {s \in net : s.chan # c \/ ~s.listed}

\* unsubscribeFromDualStream of c, to go on at "then": what the table holds of c ends at once, and
\* each key goes when its stream has ended
Leave(f, c, then) ==
    /\ net' = Quieted(c)
    /\ flow' = [flow EXCEPT ![f].at = "leave", ![f].on = c, ![f].wait = Listed(c), ![f].then = then]
    /\ UNCHANGED table

\* the key of a stream goes, with whatever was put into its object meanwhile; a flow that fills that
\* object goes on filling it (two flows that did, a copy each)
Unreached(C, st) == {IF s.chan \in C /\ StreamOf(s.part) = st THEN [s EXCEPT !.listed = FALSE] ELSE s : s \in net}
Filling(f)  == flow[f] # None /\ flow[f].at \in {"next", "subscribe"} /\ flow[f].own = None
Parted(fs, C) == [f \in Flows |-> IF Filling(f) /\ flow[f].chan \in C
                                  THEN [fs[f] EXCEPT !.own = table[flow[f].chan]["msg"]] ELSE fs[f]]

\* unsubscribe
StreamEnds(f, s) ==
    LET c  == flow[f].on
        fs == [flow EXCEPT ![f].wait = @ \ {s}]
    IN  /\ At(f, "leave") /\ s \in flow[f].wait
        /\ table' = [table EXCEPT ![c][s] = None]
        /\ net' = Unreached({c}, s)
        /\ flow' = IF s = "msg" THEN Parted(fs, {c}) ELSE fs
        /\ UNCHANGED <<clientVars, screenVars, switchVars, courseVars>>

Left(f) ==
    /\ At(f, "leave") /\ flow[f].wait = {}
    /\ IF flow[f].then = "end" THEN Ends(f) ELSE Goes(f, flow[f].then)
    /\ UNCHANGED <<clientVars, screenVars, switchVars, tableVars, courseVars>>

\* stop of the pollers when c is left
StopPolling(c) == poller' = IF poller = c THEN None ELSE poller

-----------------------------------------------------------------------------
(* Clicks                                                                   *)

\* exitPreviewMode bumps previewGeneration before anything else
Exiting == IF screen = None THEN flow ELSE Bumped(flow, "ui")

\* selectChannel; in preview mode exitPreviewMode comes first
Select(c) ==
    /\ c \in joined
    /\ Chooses("select", c)
    /\ Starts(Exiting, New("select", IF screen = None THEN "arrive" ELSE "exit", c))
    /\ UNCHANGED <<clientVars, screenVars, switchVars, tableVars, course, joined>>

\* deselectChannel
Close ==
    /\ shown # None \/ screen # None
    /\ Chooses("close", None)
    /\ Starts(Exiting, New("close", IF screen = None THEN "closing" ELSE "exit", None))
    /\ UNCHANGED <<clientVars, screenVars, switchVars, tableVars, course, joined>>

\* _enterPreviewCore
Previewing(c) == [New("enter", IF screen = None THEN "place" ELSE "exit", c) EXCEPT !.holds = {"ui"}]
Enter(c) ==
    /\ c \notin joined
    /\ Chooses("enter", c)
    /\ Starts(Bumped(flow, "ui"), Previewing(c))
    /\ UNCHANGED <<clientVars, screenVars, switchVars, tableVars, course, joined>>

\* addPreviewToList, up to the end of persistChannelFromPreview
Join ==
    /\ screen # None
    /\ Chooses("join", screen)
    /\ Starts(flow, New("join", "persist", screen))
    /\ UNCHANGED <<clientVars, screenVars, switchVars, tableVars, course, joined>>

-----------------------------------------------------------------------------
(* Leaving the preview: _teardownPreview and clearPreviewChannel            *)

Exit(f) ==
    /\ At(f, "exit")
    /\ IF preview = None THEN Goes(f, "exited") /\ UNCHANGED <<poller, tableVars>>
                         ELSE Leave(f, preview, "exited") /\ StopPolling(preview)
    /\ UNCHANGED <<clientVars, screenVars, active, preview, courseVars>>

Exited(f) ==
    /\ At(f, "exited")
    /\ preview' = None /\ screen' = None
    /\ \/ flow[f].op = "select" /\ Goes(f, "arrive")
       \/ flow[f].op = "close" /\ Ends(f)
       \/ flow[f].op = "enter" /\ "ui" \in flow[f].holds /\ Goes(f, "place")
       \/ flow[f].op = "enter" /\ "ui" \notin flow[f].holds /\ Ends(f)
    /\ UNCHANGED <<clientVars, shown, active, poller, tableVars, courseVars>>

-----------------------------------------------------------------------------
(* The active channel: setActiveChannel and clearActiveChannel              *)

Arrive(f) ==
    /\ At(f, "arrive")
    /\ shown' = flow[f].chan
    /\ \/ active = flow[f].chan /\ Ends(f) /\ UNCHANGED <<poller, tableVars>>
       \/ active = None /\ Goes(f, "activate") /\ UNCHANGED <<poller, tableVars>>
       \/ /\ active \notin {None, flow[f].chan}
          /\ Leave(f, active, "activate") /\ StopPolling(active)
    /\ UNCHANGED <<clientVars, screen, active, preview, courseVars>>

Activate(f) ==
    /\ At(f, "activate")
    /\ active' = flow[f].chan
    /\ Goes(f, "prepare")
    /\ UNCHANGED <<clientVars, screenVars, preview, poller, tableVars, courseVars>>

Closing(f) ==
    /\ At(f, "closing")
    /\ IF active = None THEN Goes(f, "closed") /\ UNCHANGED <<poller, tableVars>>
                        ELSE Leave(f, active, "closed") /\ StopPolling(active)
    /\ UNCHANGED <<clientVars, screenVars, active, preview, courseVars>>

Closed(f) ==
    /\ At(f, "closed")
    /\ active' = None /\ shown' = None
    /\ Ends(f)
    /\ UNCHANGED <<clientVars, screen, preview, poller, tableVars, courseVars>>

-----------------------------------------------------------------------------
(* The preview: the end of _enterPreviewCore, and setPreviewChannel         *)

Place(f) ==
    LET c == flow[f].chan
        claimed == [Bumped(flow, "switch") EXCEPT ![f].holds = @ \cup {"switch"}]
    IN  /\ At(f, "place")
        /\ shown' = None /\ screen' = c
        /\ \/ preview = c /\ Ends(f) /\ UNCHANGED <<poller, tableVars>>
           \/ /\ preview = None
              /\ flow' = [claimed EXCEPT ![f].at = "settle"]
              /\ UNCHANGED <<poller, tableVars>>
           \/ /\ preview \notin {None, c}
              /\ net' = Quieted(preview)
              /\ flow' = [claimed EXCEPT ![f].at = "leave", ![f].on = preview, ![f].wait = Listed(preview),
                                         ![f].then = "cleared"]
              /\ StopPolling(preview)
              /\ UNCHANGED table
        /\ UNCHANGED <<clientVars, active, preview, courseVars>>

Cleared(f) ==
    /\ At(f, "cleared")
    /\ preview' = None
    /\ Goes(f, "settle")
    /\ UNCHANGED <<clientVars, screenVars, active, poller, tableVars, courseVars>>

Settle(f) ==
    /\ At(f, "settle")
    /\ IF active = None THEN Goes(f, "claim") /\ UNCHANGED <<poller, tableVars>>
                        ELSE Leave(f, active, "downgraded") /\ StopPolling(active)
    /\ UNCHANGED <<clientVars, screenVars, active, preview, courseVars>>

Downgraded(f) ==
    /\ At(f, "downgraded")
    /\ active' = None
    /\ IF "switch" \in flow[f].holds THEN Goes(f, "claim") ELSE Ends(f)
    /\ UNCHANGED <<clientVars, screenVars, preview, poller, tableVars, courseVars>>

Claim(f) ==
    /\ At(f, "claim")
    /\ preview' = flow[f].chan
    /\ Goes(f, "prepare")
    /\ UNCHANGED <<clientVars, screenVars, active, poller, tableVars, courseVars>>

-----------------------------------------------------------------------------
(* Subscribing: what precedes it, and subscribeToDualStream                  *)

Superseded(f) == flow[f].op = "enter" /\ "switch" \notin flow[f].holds

\* the end of the admin and key reads before the subscribe
Prepared(f) ==
    /\ At(f, "prepare")
    /\ IF Superseded(f) THEN Ends(f) ELSE Goes(f, "open")
    /\ poller' = IF flow[f].op = "enter" /\ ~Superseded(f) THEN flow[f].chan ELSE poller
    /\ UNCHANGED <<clientVars, screenVars, active, preview, tableVars, courseVars>>

\* the object of the message stream, found or made
Open(f) ==
    LET c == flow[f].chan
    IN  /\ At(f, "open")
        /\ \/ client = 0 /\ Goes(f, "failed") /\ UNCHANGED table
           \/ /\ client # 0
              /\ table' = [table EXCEPT ![c]["msg"] = IF @ = None THEN {} ELSE @]
              /\ flow' = [flow EXCEPT ![f].at = "next", ![f].own = None]
        /\ UNCHANGED <<clientVars, screenVars, switchVars, net, courseVars>>

\* the partitions of the message stream that have no entry
Missing(f) == MsgParts \ (IF flow[f].own = None THEN table[flow[f].chan]["msg"] ELSE flow[f].own)
AllThere(f) == Missing(f) = {} /\ table[flow[f].chan]["eph"] # None

\* p is the first of them, or the control of the ephemeral stream, which comes last
Upcoming(f, p) ==
    \/ p = Control /\ Missing(f) = {}
    \/ \E i \in DOMAIN Parts : p = Parts[i] /\ p \in Missing(f) /\ \A j \in 1..(i - 1) : Parts[j] \notin Missing(f)

NextPart(f) ==
    /\ At(f, "next")
    /\ \/ AllThere(f) /\ Goes(f, "subscribed")
       \/ ~AllThere(f) /\ client = 0 /\ Goes(f, "failed")
       \/ /\ ~AllThere(f) /\ client # 0
          /\ \E p \in AllParts :
               Upcoming(f, p) /\ flow' = [flow EXCEPT ![f].at = "subscribe", ![f].part = p, ![f].late = FALSE]
    /\ UNCHANGED <<clientVars, screenVars, switchVars, tableVars, courseVars>>

Via(f) == IF flow[f].op = "enter" THEN "preview" ELSE "channel"

\* the subscription is put into the object the flow fills, over one that got there meanwhile; a new
\* object of the ephemeral stream is put into the table with it
Enters(f) ==
    LET c == flow[f].chan
        p == flow[f].part
        listed == p = Control \/ flow[f].own = None
        new  == [chan |-> c, part |-> p, via |-> Via(f), listed |-> listed]
        over == {IF listed /\ s.chan = c /\ s.part = p THEN [s EXCEPT !.listed = FALSE] ELSE s : s \in net}
    IN  /\ table' = IF p = Control THEN [table EXCEPT ![c]["eph"] = {p}]
                    ELSE IF listed THEN [table EXCEPT ![c]["msg"] = @ \cup {p}] ELSE table
        /\ flow' = [flow EXCEPT ![f].at = "next", ![f].own = IF listed THEN @ ELSE @ \cup {p}]
        /\ net' = IF flow[f].late THEN over ELSE over \cup {new}

\* client.subscribe returns
Subscribes(f) ==
    /\ At(f, "subscribe")
    /\ ~flow[f].late /\ node = "up"
    /\ Enters(f)
    /\ UNCHANGED <<clientVars, screenVars, switchVars, courseVars>>

\* it returns on a client that is going down, or was replaced
SubscribesLate(f) ==
    /\ At(f, "subscribe")
    /\ flow[f].late
    /\ Enters(f)
    /\ IF flow[f].part = Control THEN Spend("late") ELSE UNCHANGED left
    /\ UNCHANGED <<clientVars, screenVars, switchVars, course, joined>>

SubscribeFails(f) ==
    /\ At(f, "subscribe")
    /\ \/ (flow[f].late \/ node = "failed") /\ UNCHANGED left
       \/ ~flow[f].late /\ node = "up" /\ Spend("fail")
    /\ Goes(f, "failed")
    /\ UNCHANGED <<clientVars, screenVars, switchVars, tableVars, course, joined>>

Subscribed(f) ==
    /\ At(f, "subscribed")
    /\ IF Superseded(f) THEN Leave(f, flow[f].chan, "undone") ELSE
         /\ IF flow[f].op = "resume" THEN Goes(f, "represent") ELSE Ends(f)
         /\ UNCHANGED tableVars
    /\ poller' = IF flow[f].op = "select" THEN flow[f].chan ELSE poller
    /\ UNCHANGED <<clientVars, screenVars, active, preview, courseVars>>

Undone(f) ==
    /\ At(f, "undone")
    /\ StopPolling(flow[f].chan)
    /\ Ends(f)
    /\ UNCHANGED <<clientVars, screenVars, active, preview, tableVars, courseVars>>

\* the error: a select leaves it at that, an enter gives back what is still its own
Failed(f) ==
    /\ At(f, "failed")
    /\ IF flow[f].op = "resume" THEN Goes(f, "represent") ELSE Ends(f)
    /\ preview' = IF flow[f].op = "enter" /\ ~Superseded(f) /\ preview = flow[f].chan THEN None ELSE preview
    /\ screen' = IF flow[f].op = "enter" /\ "ui" \in flow[f].holds THEN None ELSE screen
    /\ UNCHANGED <<clientVars, shown, active, poller, tableVars, courseVars>>

-----------------------------------------------------------------------------
(* Joining from a preview                                                   *)

\* promotePreviewToActive: the subscription stays, its handlers forward to the channel
Promote(f) ==
    LET c == flow[f].chan
    IN  /\ At(f, "persist")
        /\ joined' = joined \cup {c}
        /\ screen' = None
        /\ IF preview = c THEN active' = c /\ preview' = None /\ poller' = c
                          ELSE UNCHANGED <<active, preview, poller>>
        /\ Goes(f, "bootstrap")
        /\ UNCHANGED <<clientVars, shown, tableVars, course, left>>

\* selectChannel of the channel joined
Settled(f) ==
    /\ At(f, "bootstrap")
    /\ flow' = [Exiting EXCEPT ![f] = New("select", IF screen = None THEN "arrive" ELSE "exit", flow[f].chan)]
    /\ UNCHANGED <<clientVars, screenVars, switchVars, tableVars, courseVars>>

-----------------------------------------------------------------------------
(* Another client                                                           *)

AllLate == [f \in Flows |-> IF flow[f] # None /\ flow[f].at = "subscribe"
                            THEN [flow[f] EXCEPT !.late = TRUE] ELSE flow[f]]

ForgetNothing == table' = table /\ net' = {} /\ flow' = AllLate     \* mutant of Forget
\* subscriptions.clear(), and the old client is destroyed
Forget == table' = Unlisted /\ net' = {} /\ flow' = Parted(AllLate, Chans)

ClientSteps ==
    /\ Quiet
    /\ ClientRest \/ NodeFails
    /\ IF Replaces THEN Forget ELSE UNCHANGED <<tableVars, flow>>
    /\ UNCHANGED <<screenVars, switchVars, courseVars>>

\* resumeAfterClientReplaced, for every client but the first
Resumes ==
    /\ Quiet
    /\ NodeUp
    /\ IF made > 1 THEN Starts(flow, New("resume", "resubscribe", None)) ELSE UNCHANGED flow
    /\ UNCHANGED <<screenVars, switchVars, tableVars, courseVars>>

\* resubscribeActive, after the DM inbox
Resubscribe(f) ==
    /\ At(f, "resubscribe")
    /\ IF active = None THEN Goes(f, "represent")
                        ELSE flow' = [flow EXCEPT ![f].at = "prepare", ![f].chan = active]
    /\ UNCHANGED <<clientVars, screenVars, switchVars, tableVars, courseVars>>

\* enterPreviewWithoutHistory of the preview on screen
Represent(f) ==
    /\ At(f, "represent")
    /\ \/ screen = None /\ Ends(f)
       \/ screen \in joined /\ flow' = [Exiting EXCEPT ![f] = New("select", "exit", screen)]
       \/ screen \in Chans \ joined /\ flow' = [Exiting EXCEPT ![f] = Previewing(screen)]
    /\ UNCHANGED <<clientVars, screenVars, switchVars, tableVars, courseVars>>

-----------------------------------------------------------------------------
(* Messages                                                                 *)

\* a message of a subscription made for a preview that is no longer one: _scheduleOrphanPreviewUnsub
Orphaned(c) ==
    /\ c \notin joined \cup {preview, active}
    /\ \E s \in net : s.chan = c /\ s.via = "preview"

UnsubscribeOrphan(c) ==
    /\ Orphaned(c) /\ flow[c] = None
    /\ net' = Quieted(c)
    /\ flow' = [flow EXCEPT ![c] = [New("orphan", "leave", None) EXCEPT !.on = c, !.wait = Listed(c)]]
    /\ UNCHANGED <<clientVars, screenVars, switchVars, table, courseVars>>

LandsAnywhere(s) ==                                                 \* mutant of Lands
    IF s.via = "channel" \/ s.chan \in joined THEN s.chan
    ELSE IF screen # None THEN screen ELSE None

\* the timeline a message of s is put in: the handlers of a channel know theirs; those of a preview
\* forward to a joined channel, drop what is not of the preview, and hand the rest to the screen
Lands(s) ==
    IF s.via = "channel" \/ s.chan \in joined THEN s.chan
    ELSE IF s.chan = preview /\ screen # None THEN screen ELSE None

-----------------------------------------------------------------------------

Runs(f) ==
    \/ Left(f) \/ Exit(f) \/ Exited(f) \/ Arrive(f) \/ Activate(f) \/ Closing(f) \/ Closed(f)
    \/ Place(f) \/ Cleared(f) \/ Settle(f) \/ Downgraded(f) \/ Claim(f)
    \/ Open(f) \/ NextPart(f) \/ Subscribed(f) \/ Undone(f) \/ Failed(f)
    \/ Represent(f)

\* what a flow waits for
Awaited(f) ==
    \/ \E s \in Streams : StreamEnds(f, s)
    \/ Prepared(f) \/ Subscribes(f) \/ SubscribesLate(f) \/ SubscribeFails(f)
    \/ Promote(f) \/ Settled(f) \/ Resubscribe(f)

Click ==
    \/ \E c \in Chans : Select(c) \/ Enter(c)
    \/ Close \/ Join

Next ==
    \/ \E f \in Flows : Runs(f)
    \/ Quiet /\ \E f \in Flows : Awaited(f)
    \/ Quiet /\ Click
    \/ Quiet /\ \E c \in Chans : UnsubscribeOrphan(c)
    \/ ClientSteps \/ Resumes

Spec == Init /\ [][Next]_vars

\* what ends by itself: the steps of a handler, a start that does not hang, a timer, a request,
\* the stop of the old client
FairSpec ==
    /\ Spec
    /\ WF_vars(\E f \in Flows : Runs(f))
    /\ WF_vars(Resumes)
    /\ WF_vars(ClientSteps /\ TimerFires)
    /\ WF_vars(ClientSteps /\ (ProbeTooLate \/ ProbeGetsThrough))
    /\ WF_vars(ClientSteps /\ NewClient)
    /\ WF_vars(ClientSteps /\ WatchdogFires)

-----------------------------------------------------------------------------
(* Properties                                                               *)

AtRest == Live = {} /\ client # 0 /\ node = "up"

Heard(c) == \A p \in AllParts : \E s \in net : s.chan = c /\ s.part = p

Steady == \A e \in FaultKinds : course.faults[e] = 0
Calm   == /\ course.left.again = 0 /\ course.left.fail = 0 /\ course.left.late = 0
          /\ course.left.join > 0 => Steady

ChannelHeard == AtRest /\ shown # None => Heard(shown)
PreviewHeard == AtRest /\ screen # None => preview = screen /\ Heard(preview)

\* Once the clicks have settled on a client whose node is up, the channel on screen is heard on each of
\* its streams, although selects, previews, joins and replacements of the client overlapped
\* (setActiveChannel, promotePreviewToActive, resubscribeActive), where nothing goes wrong that the code
\* has no answer to; and so is a preview, which is then the one its handlers forward, if the client is
\* not replaced (setPreviewChannel).  Not in every course: README, section 5.
ShownHeard == Calm => ChannelHeard /\ (Steady => PreviewHeard)

\* While only previews are browsed, no message is put in the timeline of another channel, however fast
\* one preview follows another (_handlePreviewMessage).
NoMix == course.left.select = 0 /\ course.left.join = 0 => \A s \in net : Lands(s) \in {s.chan, None}

-----------------------------------------------------------------------------
(* What the code does not keep                                              *)

\* a preview that is left is not claimed any more
NoStrayPreview == AtRest /\ screen = None => preview = None

\* nothing is heard of a channel that is not on screen
LeftIsQuiet == AtRest => \A s \in net : s.chan \in {shown, screen}

\* the moderation state that is polled is that of the channel on screen
PolledIsShown == AtRest /\ shown # None => poller = shown
=============================================================================
