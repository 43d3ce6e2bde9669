------------------------ MODULE Subscriptions_proofs ------------------------
(***************************************************************************)
(* What is proved of the client, for any bounds of the faults, and that it    *)
(* holds beside the handlers of a session: whatever they do, the client of    *)
(* Subscriptions behaves as NodeRevival says.  And that previews do not mix,  *)
(* for any number of clicks, faults and handlers, and that a channel chosen   *)
(* is heard, for any number of clicks.                                        *)
(***************************************************************************)
EXTENDS Subscriptions, TLAPS

-----------------------------------------------------------------------------
(* The client alone: NodeRevival                                            *)

\* a watchdog runs exactly while the revival rebuilds
WatchedOK  == rebuilding <=> watchdog
\* who is busy has a request under way or a rebuild
BusyOK     == busy => probes > 0 \/ rebuilding
\* a dead node, or one that is rebuilt, is not up
DeadOK     == dead \/ rebuilding => client = 0 \/ node # "up"
\* there is no client exactly while it is replaced
ReplacedOK == client = 0 <=> replacing # <<>>

Booleans == /\ dead \in BOOLEAN /\ busy \in BOOLEAN /\ rebuilding \in BOOLEAN
            /\ timer \in BOOLEAN /\ watchdog \in BOOLEAN

ClientInv == ClientTypeOK /\ Retrying /\ WatchedOK /\ BusyOK /\ DeadOK /\ ReplacedOK

-----------------------------------------------------------------------------

LEMMA MeetsTyped ==
    ASSUME faults \in [FaultKinds -> Nat], NEW e \in FaultKinds, Meets(e)
    PROVE  faults' \in [FaultKinds -> Nat]
BY SMT DEF Meets

\* Whoever reports a failed start leaves the parts of the invariant about the revival true.
LEMMA OnDeadKeeps ==
    ASSUME ClientInv, OnDead, UNCHANGED <<probes, stray>>
    PROVE  /\ Booleans'
           /\ Retrying' /\ WatchedOK' /\ BusyOK' /\ dead' /\ ~rebuilding'
BY Zenon DEF ClientInv, ClientTypeOK, Booleans, OnDead, Retrying, WatchedOK, BusyOK

LEMMA OnAliveKeeps ==
    ASSUME ClientInv, OnAlive, UNCHANGED <<probes, stray>>
    PROVE  /\ Booleans'
           /\ Retrying' /\ WatchedOK' /\ BusyOK' /\ ~dead' /\ ~rebuilding'
BY Zenon DEF ClientInv, ClientTypeOK, Booleans, OnAlive, Retrying, WatchedOK, BusyOK

LEMMA EnqueueKeeps ==
    ASSUME ClientInv, NEW by \in Askers, Enqueue(by)
    PROVE  /\ replacing' \in Seq(Askers) /\ client' \in Nat
           /\ replacing' # <<>> /\ client' = 0
BY SMT DEF ClientInv, ClientTypeOK, Enqueue, ReplacedOK

LEMMA InitKeeps == ClientInit => ClientInv
<1>  SUFFICES ASSUME ClientInit PROVE ClientInv OBVIOUS
<1>1. faults \in [FaultKinds -> Nat]
    BY FaultsAssumption DEF ClientInit
<1>2. replacing = <<>> /\ replacing \in Seq(Askers) /\ client # 0 /\ client \in Nat /\ made \in Nat
    BY SMT DEF ClientInit
<1>3. stray \in Nat /\ probes \in Nat
    BY SMT DEF ClientInit
<1>  QED
    BY <1>1, <1>2, <1>3, Zenon
    DEF ClientInit, ClientInv, ClientTypeOK, Retrying, WatchedOK, BusyOK, DeadOK, ReplacedOK

LEMMA StepKeeps == ClientInv /\ [ClientNext]_clientVars => ClientInv'
<1>  SUFFICES ASSUME ClientInv, [ClientNext]_clientVars PROVE ClientInv' OBVIOUS
<1>0. /\ ClientTypeOK /\ Retrying /\ WatchedOK /\ BusyOK /\ DeadOK /\ ReplacedOK
      /\ faults \in [FaultKinds -> Nat] /\ probes \in Nat /\ stray \in Nat
    BY DEF ClientInv, ClientTypeOK
<1>1. CASE NodeUp
    <2>1. OnAlive /\ UNCHANGED <<faults, client, made, replacing, stray, probes>> /\ node' = "up"
        BY <1>1 DEF NodeUp
    <2>2. Booleans' /\ Retrying' /\ WatchedOK' /\ BusyOK' /\ ~dead' /\ ~rebuilding'
        BY <2>1, OnAliveKeeps
    <2>  QED
        BY <1>0, <2>1, <2>2, Zenon DEF ClientInv, ClientTypeOK, Booleans, DeadOK, ReplacedOK
<1>2. CASE NodeFails
    <2>1. OnDead /\ Meets("dead") /\ node' = "failed" /\ UNCHANGED <<client, made, replacing, stray, probes>>
        BY <1>2 DEF NodeFails
    <2>2. faults' \in [FaultKinds -> Nat]
        BY <1>0, <2>1, MeetsTyped DEF FaultKinds
    <2>3. Booleans' /\ Retrying' /\ WatchedOK' /\ BusyOK'
        BY <2>1, OnDeadKeeps
    <2>4. node' # "up"
        BY <2>1
    <2>  QED
        BY <1>0, <2>1, <2>2, <2>3, <2>4, Zenon DEF ClientInv, ClientTypeOK, Booleans, DeadOK, ReplacedOK
<1>3. CASE TimerFires
    <2>1. probes' \in Nat /\ (probes > 0 => probes' > 0) /\ (dead /\ ~busy => probes' > 0)
        BY <1>0, <1>3, SMT DEF TimerFires, Attempt
    <2>2. busy' \in BOOLEAN /\ (busy' => busy \/ probes' > 0)
        BY <1>0, <1>3, <2>1, Zenon DEF TimerFires, Attempt, ClientTypeOK
    <2>  QED
        BY <1>0, <1>3, <2>1, <2>2, Zenon DEF TimerFires, ClientInv, ClientTypeOK, Retrying, WatchedOK, BusyOK, DeadOK, ReplacedOK
<1>4. CASE Kick
    <2>1. faults' \in [FaultKinds -> Nat]
        BY <1>0, <1>4, MeetsTyped DEF Kick, FaultKinds
    <2>2. probes' \in Nat /\ probes' > 0
        BY <1>0, <1>4, SMT DEF Kick, Attempt
    <2>3. busy' = TRUE
        BY <1>4, Zenon DEF Kick, Attempt
    <2>  QED
        BY <1>0, <1>4, <2>1, <2>2, <2>3, Zenon DEF Kick, ClientInv, ClientTypeOK, Retrying, WatchedOK, BusyOK, DeadOK, ReplacedOK
<1>5. CASE ProbeTooLate
    <2>1. probes' \in Nat
        BY <1>0, <1>5, SMT DEF ProbeTooLate
    <2>  QED
        BY <1>0, <1>5, <2>1, Zenon DEF ProbeTooLate, ClientInv, ClientTypeOK, Retrying, WatchedOK, BusyOK, DeadOK, ReplacedOK
<1>6. CASE ProbeFails
    <2>1. faults' \in [FaultKinds -> Nat]
        BY <1>0, <1>6, MeetsTyped DEF ProbeFails, FaultKinds
    <2>2. probes' \in Nat
        BY <1>0, <1>6, SMT DEF ProbeFails
    <2>  QED
        BY <1>0, <1>6, <2>1, <2>2, Zenon DEF ProbeFails, ClientInv, ClientTypeOK, Retrying, WatchedOK, BusyOK, DeadOK, ReplacedOK
<1>7. CASE ProbeGetsThrough
    <2>1. replacing' \in Seq(Askers) /\ client' \in Nat /\ replacing' # <<>> /\ client' = 0
        BY <1>7, EnqueueKeeps DEF ProbeGetsThrough, Askers
    <2>2. probes' \in Nat /\ stray' \in Nat
        BY <1>0, <1>7, SMT DEF ProbeGetsThrough
    <2>  QED
        BY <1>0, <1>7, <2>1, <2>2, Zenon DEF ProbeGetsThrough, ClientInv, ClientTypeOK, Retrying, WatchedOK, BusyOK, DeadOK, ReplacedOK
<1>8. CASE HealthRebuild
    <2>1. UNCHANGED <<made, node, revivalVars>>
        BY <1>8 DEF HealthRebuild
    <2>2. replacing' \in Seq(Askers) /\ client' \in Nat /\ replacing' # <<>> /\ client' = 0
        BY <1>8, EnqueueKeeps DEF HealthRebuild, Askers
    <2>3. faults' \in [FaultKinds -> Nat]
        BY <1>0, <1>8, MeetsTyped DEF HealthRebuild, FaultKinds
    <2>  QED
        BY <1>0, <2>1, <2>2, <2>3, Zenon DEF revivalVars, ClientInv, ClientTypeOK, Retrying, WatchedOK, BusyOK, DeadOK, ReplacedOK
<1>9. CASE NewClient
    <2>1. faults' \in [FaultKinds -> Nat]
        BY <1>0, <1>9, MeetsTyped DEF NewClient, FaultKinds
    <2>2. replacing' \in Seq(Askers) /\ made' \in Nat /\ made' # 0
        BY <1>9, SMT DEF NewClient, ClientInv, ClientTypeOK
    <2>3. client' \in Nat /\ (client' = 0 <=> replacing' # <<>>)
        BY <1>9, <2>2, SMT DEF NewClient, ClientInv, ClientTypeOK
    <2>4. node' \in {"starting", "hung", "up", "failed"} /\ node' # "up" /\ UNCHANGED revivalVars
        BY <1>9 DEF NewClient
    <2>  QED
        BY <1>0, <2>1, <2>2, <2>3, <2>4, Zenon DEF revivalVars, ClientInv, ClientTypeOK, Retrying, WatchedOK, BusyOK, DeadOK, ReplacedOK
<1>10. CASE WatchdogFires
    <2>1. OnDead /\ rebuilding /\ UNCHANGED <<client, made, node, replacing, stray, probes>>
        BY <1>10 DEF WatchdogFires
    <2>2. faults' \in [FaultKinds -> Nat]
        BY <1>0, <1>10, MeetsTyped DEF WatchdogFires, FaultKinds
    <2>3. Booleans' /\ Retrying' /\ WatchedOK' /\ BusyOK'
        BY <2>1, OnDeadKeeps
    <2>  QED
        BY <1>0, <2>1, <2>2, <2>3, Zenon DEF ClientInv, ClientTypeOK, Booleans, DeadOK, ReplacedOK
<1>11. CASE StrayFires
    <2>1. stray' \in Nat /\ UNCHANGED <<faults, client, made, node, replacing, probes>>
        BY <1>0, <1>11, SMT DEF StrayFires
    <2>2. Booleans' /\ Retrying' /\ WatchedOK' /\ BusyOK' /\ (dead' \/ rebuilding' => dead \/ rebuilding)
        <3>1. CASE rebuilding
            BY <1>0, <1>11, <2>1, <3>1, Zenon DEF StrayFires, ClientTypeOK, Booleans, OnDead, Retrying, WatchedOK, BusyOK
        <3>2. CASE ~rebuilding
            BY <1>0, <1>11, <2>1, <3>2, Zenon DEF StrayFires, ClientTypeOK, Booleans, Retrying, WatchedOK, BusyOK
        <3>  QED
            BY <3>1, <3>2
    <2>  QED
        BY <1>0, <2>1, <2>2, Zenon DEF ClientInv, ClientTypeOK, Booleans, DeadOK, ReplacedOK
<1>12. CASE UNCHANGED clientVars
    BY <1>0, <1>12, Zenon DEF clientVars, ClientInv, ClientTypeOK, Retrying, WatchedOK, BusyOK, DeadOK, ReplacedOK
<1>  QED
    BY <1>1, <1>2, <1>3, <1>4, <1>5, <1>6, <1>7, <1>8, <1>9, <1>10, <1>11, <1>12
    DEF ClientNext, ClientRest, Reports

\* Who replaces a client on behalf of the revival found the node dead, and a dead node is not up.
LEMMA StepSpares ==
    ClientInv /\ [ClientNext]_clientVars
    => ((client # 0 /\ client' = 0 /\ "revival" = Head(replacing')) => node # "up")
<1>  SUFFICES ASSUME ClientInv, ClientNext, client # 0, client' = 0, "revival" = Head(replacing')
              PROVE  node # "up"
    BY DEF clientVars
<1>0. replacing = <<>>
    BY DEF ClientInv, ReplacedOK
<1>1. ~NewClient
    BY <1>0 DEF NewClient
<1>2. CASE ProbeGetsThrough
    BY <1>2 DEF ProbeGetsThrough, ClientInv, DeadOK
<1>3. CASE HealthRebuild
    <2>1. replacing' = Append(<<>>, "health")
        BY <1>0, <1>3 DEF HealthRebuild, Enqueue
    <2>  QED
        BY <2>1, SMT
<1>4. CASE NodeUp \/ NodeFails \/ TimerFires \/ Kick \/ ProbeTooLate \/ ProbeFails \/ WatchdogFires \/ StrayFires
    <2>1. client' = client
        BY <1>4 DEF NodeUp, NodeFails, TimerFires, Kick, ProbeTooLate, ProbeFails, WatchdogFires, StrayFires
    <2>  QED
        BY <2>1
<1>  QED
    BY <1>1, <1>2, <1>3, <1>4 DEF ClientNext, ClientRest, Reports

-----------------------------------------------------------------------------

THEOREM ClientInvariant == ClientSpec => []ClientInv
BY InitKeeps, StepKeeps, PTL DEF ClientSpec

\* The variables of the client keep their types.
THEOREM ClientTyped == ClientSpec => []ClientTypeOK
<1>1. ClientInv => ClientTypeOK BY DEF ClientInv
<1>  QED BY <1>1, ClientInvariant, PTL

\* A dead node always has something under way that will try again (onDead, _schedule, _attempt).
THEOREM AlwaysRetrying == ClientSpec => []Retrying
<1>1. ClientInv => Retrying BY DEF ClientInv
<1>  QED BY <1>1, ClientInvariant, PTL

\* The revival never takes down a client whose node is up (_attempt).
THEOREM UpIsKept == ClientSpec => UpKept
<1>1. ClientInv /\ [ClientNext]_clientVars
      => [(client # 0 /\ client' = 0 /\ "revival" = Head(replacing')) => node # "up"]_clientVars
    BY StepSpares
<1>  QED BY <1>1, ClientInvariant, PTL DEF ClientSpec, UpKept

-----------------------------------------------------------------------------
(* The client in a session                                                  *)

LEMMA InitIsOfClient == Init => ClientInit
BY DEF Init

\* No handler touches the client; the two steps that do are steps of NodeRevival.
LEMMA StepIsOfClient == [Next]_vars => [ClientNext]_clientVars
<1>  SUFFICES ASSUME [Next]_vars PROVE ClientNext \/ UNCHANGED clientVars OBVIOUS
<1>1. ASSUME NEW f \in Flows, Runs(f) PROVE UNCHANGED clientVars
    <2>1. CASE Left(f) \/ Exit(f) \/ Exited(f) \/ Arrive(f) \/ Activate(f) \/ Closing(f) \/ Closed(f)
        BY <2>1 DEF Left, Exit, Exited, Arrive, Activate, Closing, Closed
    <2>2. CASE Place(f) \/ Cleared(f) \/ Settle(f) \/ Downgraded(f) \/ Claim(f)
        BY <2>2 DEF Place, Cleared, Settle, Downgraded, Claim
    <2>3. CASE Open(f) \/ NextPart(f) \/ Subscribed(f) \/ Undone(f) \/ Failed(f)
        BY <2>3 DEF Open, NextPart, Subscribed, Undone, Failed
    <2>4. CASE Represent(f)
        BY <2>4 DEF Represent
    <2>  QED
        BY <1>1, <2>1, <2>2, <2>3, <2>4 DEF Runs
<1>2. ASSUME NEW f \in Flows, Awaited(f) PROVE UNCHANGED clientVars
    BY <1>2 DEF Awaited, StreamEnds, Prepared, Subscribes, SubscribesLate, SubscribeFails, Promote, Settled, Resubscribe
<1>3. ASSUME Click PROVE UNCHANGED clientVars
    BY <1>3 DEF Click, Select, Enter, Close, Join
<1>4. ASSUME NEW c \in Chans, UnsubscribeOrphan(c) PROVE UNCHANGED clientVars
    BY <1>4 DEF UnsubscribeOrphan
<1>5. ASSUME ClientSteps PROVE ClientNext
    BY <1>5 DEF ClientSteps, ClientNext, Reports
<1>6. ASSUME Resumes PROVE ClientNext
    BY <1>6 DEF Resumes, ClientNext, Reports
<1>7. ASSUME UNCHANGED vars PROVE UNCHANGED clientVars
    BY <1>7 DEF vars
<1>  QED
    BY <1>1, <1>2, <1>3, <1>4, <1>5, <1>6, <1>7 DEF Next

-----------------------------------------------------------------------------

\* The client of a session with its handlers is the client of NodeRevival.
THEOREM ClientOfSession == Spec => ClientSpec
BY InitIsOfClient, StepIsOfClient, PTL DEF Spec, ClientSpec

\* While channels are opened and left, a dead node always has something under way that tries again.
THEOREM SessionRetries == Spec => []Retrying
BY ClientOfSession, AlwaysRetrying, PTL

\* Nor does the revival take down a client whose node is up.
THEOREM SessionSparesUp == Spec => UpKept
BY ClientOfSession, UpIsKept, PTL

-----------------------------------------------------------------------------
(* Previews alone: no channel is opened or joined                           *)
(*                                                                         *)
(* NoMix is not inductive: it is about a preview that is not the one on      *)
(* screen while its messages come in, and there is no such preview, however   *)
(* previews follow each other.  Why not takes the whole of the hand-over: one  *)
(* handler at a time goes on, only the last that was asked for places a        *)
(* preview, where there is none, and who fails gives back what it placed.     *)

Fields == {"op", "at", "chan", "holds", "on", "wait", "then", "own", "part", "late"}

\* a handler that goes on before anything else happens
Busy(f) == f \in Live /\ ~Pausing(f)

\* where a handler may stand while no channel is opened or joined
BrowseOps   == {"close", "enter", "resume", "orphan"}
BrowsePlace == {"leave", "prepare", "subscribe", "resubscribe", "exit", "exited", "closing", "closed", "place",
                "settle", "claim", "open", "next", "subscribed", "failed", "undone", "represent"}
AfterLeave  == {"exited", "closed", "undone", "end"}
Opening     == {"prepare", "open", "next", "subscribe", "failed"}

\* a preview is placed by the last that was asked for, where there is none; while it is the last, it is
\* the preview, or there is none any more
BrowseFlow(r) ==
    /\ Fields \subseteq DOMAIN r
    /\ r.op \in BrowseOps /\ r.at \in BrowsePlace /\ (r.at = "leave" => r.then \in AfterLeave)
    /\ r.op = "enter" => r.chan \notin joined \cup {None}
    /\ r.at \in Opening => r.op = "enter"
    /\ r.at \in {"place", "settle", "claim"} => r.op = "enter" /\ "ui" \in r.holds /\ preview = None
    /\ r.at \in {"settle", "claim"} => "switch" \in r.holds /\ screen = r.chan
    /\ r.at \in Opening /\ "ui" \in r.holds => "switch" \in r.holds /\ preview \in {None, r.chan}

OneBusy == \A f, g \in Flows : Busy(f) /\ Busy(g) => f = g
OneLast == \A f, g \in Live : "ui" \in flow[f].holds /\ "ui" \in flow[g].holds => f = g

\* the screen shows the preview there is
Faced == preview # None => preview = screen

BrowseInv ==
    /\ left \in [Events -> Nat] /\ left.select = 0 /\ left.join = 0
    /\ active = None /\ screen \notin joined /\ None \notin joined
    /\ DOMAIN flow = Flows
    /\ \A f \in Live : BrowseFlow(flow[f])
    /\ OneBusy /\ OneLast /\ Faced

\* a handler that is left where it is: at most it loses a generation it claimed
SameSpot(r, q) ==
    q # None => /\ r # None /\ Fields \subseteq DOMAIN q
                /\ q.op = r.op /\ q.at = r.at /\ q.chan = r.chan /\ q.wait = r.wait /\ q.then = r.then
                /\ "ui" \in q.holds => "ui" \in r.holds
                /\ "ui" \in q.holds /\ "switch" \in r.holds => "switch" \in q.holds

Beside(f) == DOMAIN flow' = Flows /\ \A g \in Flows : g # f => SameSpot(flow[g], flow'[g])

\* nobody but f goes on, and f may take the place of the last one only when it is
Alone(f) == \A g \in Flows : g # f => ~Busy(g)
LastStays(f) == \/ "ui" \in flow'[f].holds => f \in Live /\ "ui" \in flow[f].holds
                \/ \A g \in Flows : g # f /\ flow'[g] # None => "ui" \notin flow'[g].holds

\* what is not about flows: channels are neither opened nor joined
Browsing == /\ joined' = joined /\ active' = None
            /\ left' \in [Events -> Nat] /\ left'.select = 0 /\ left'.join = 0

LEMMA ActKeeps ==
    ASSUME BrowseInv, NEW f, Beside(f), Alone(f), Browsing,
           f \in Flows /\ flow'[f] # None => BrowseFlow(flow[f])' /\ LastStays(f),
           \/ preview' \in {preview, None}
           \/ f \in Live /\ "ui" \in flow[f].holds,
           screen' \notin joined, Faced'
    PROVE  BrowseInv'
<1>1. DOMAIN flow = Flows /\ DOMAIN flow' = Flows
  BY DEF BrowseInv, Beside
<1>2. ASSUME NEW g \in Flows, g # f, flow'[g] # None
      PROVE  /\ g \in Live /\ SameSpot(flow[g], flow'[g]) /\ ~Busy(g)' /\ BrowseFlow(flow[g])'
  <2>1. SameSpot(flow[g], flow'[g]) /\ g \in Live
    BY <1>2 DEF Beside, SameSpot, Live
  <2>2. Pausing(g) /\ flow[g].at \in Waiting /\ (flow[g].at = "leave" => flow[g].wait # {})
    BY <1>2, <2>1 DEF Alone, Busy, Pausing
  <2>3. ~Busy(g)'
    BY <1>2, <2>1, <2>2 DEF SameSpot, Busy, Pausing
  <2>4. BrowseFlow(flow[g])
    BY <2>1 DEF BrowseInv
  <2>5. flow'[g].at \notin {"place", "settle", "claim"}
    BY <1>2, <2>1, <2>2 DEF SameSpot, Waiting
  <2>6. ASSUME flow'[g].at \in Opening, "ui" \in flow'[g].holds
        PROVE  "switch" \in flow'[g].holds /\ preview' \in {None, flow'[g].chan}
    <3>1. "ui" \in flow[g].holds /\ "switch" \in flow[g].holds /\ preview \in {None, flow[g].chan}
      BY <1>2, <2>1, <2>4, <2>6 DEF SameSpot, BrowseFlow
    <3>2. preview' \in {preview, None}
      BY <1>2, <2>1, <3>1 DEF BrowseInv, OneLast
    <3> QED BY <1>2, <2>1, <2>6, <3>1, <3>2 DEF SameSpot
  <2>7. /\ Fields \subseteq DOMAIN flow'[g] /\ flow'[g].op \in BrowseOps /\ flow'[g].at \in BrowsePlace
        /\ flow'[g].at = "leave" => flow'[g].then \in AfterLeave
        /\ flow'[g].op = "enter" => flow'[g].chan \notin joined' \cup {None}
        /\ flow'[g].at \in Opening => flow'[g].op = "enter"
    BY <1>2, <2>1, <2>4 DEF SameSpot, BrowseFlow, Browsing
  <2>8. BrowseFlow(flow[g])'
    BY <2>5, <2>6, <2>7 DEF BrowseFlow
  <2> QED BY <2>1, <2>3, <2>8
<1>3. \A g \in Live' : BrowseFlow(flow[g])'
  BY <1>2 DEF Live
<1>4. OneBusy'
  BY <1>2 DEF OneBusy, Busy, Live
<1>5. OneLast'
  <2> SUFFICES ASSUME NEW g \in Flows, NEW h \in Flows, flow'[g] # None, flow'[h] # None,
                      "ui" \in flow'[g].holds, "ui" \in flow'[h].holds
               PROVE  g = h
    BY DEF OneLast, Live
  <2>1. CASE g # f /\ h # f
    BY <1>2, <2>1 DEF SameSpot, BrowseInv, OneLast
  <2>2. CASE g = f /\ h # f
    BY <1>2, <2>2 DEF SameSpot, BrowseInv, OneLast, LastStays
  <2>3. CASE g # f /\ h = f
    BY <1>2, <2>3 DEF SameSpot, BrowseInv, OneLast, LastStays
  <2> QED BY <2>1, <2>2, <2>3
<1> QED BY <1>1, <1>3, <1>4, <1>5 DEF BrowseInv, Browsing

\* no channel is opened or joined: what most steps say about the rest
LEMMA SameBrowsing ==
    ASSUME BrowseInv, joined' = joined, active' = active,
           left' = left \/ \E e \in Events : left[e] > 0 /\ left' = [left EXCEPT ![e] = @ - 1]
    PROVE  Browsing
<1>1. CASE left' = left
  BY <1>1 DEF BrowseInv, Browsing
<1>2. ASSUME NEW e \in Events, left[e] > 0, left' = [left EXCEPT ![e] = @ - 1] PROVE Browsing
  <2>1. e # "select" /\ e # "join" /\ left[e] - 1 \in Nat
    BY <1>2 DEF BrowseInv
  <2>2. "select" \in Events /\ "join" \in Events
    BY DEF Events
  <2> QED BY <1>2, <2>1, <2>2 DEF BrowseInv, Browsing
<1> QED BY <1>1, <1>2

LEMMA BesideOne ==
    ASSUME BrowseInv, NEW f, NEW q, flow' = [flow EXCEPT ![f] = q]
    PROVE  Beside(f) /\ (f \in Flows => flow'[f] = q)
<1>1. \A g \in Flows : g # f => flow'[g] = flow[g]
  BY DEF BrowseInv
<1>2. \A g \in Flows : flow[g] # None => Fields \subseteq DOMAIN flow[g]
  BY DEF BrowseInv, BrowseFlow, Live
<1> QED BY <1>1, <1>2 DEF Beside, SameSpot, BrowseInv

LEMMA EndsKeeps ==
    ASSUME BrowseInv, NEW f \in Live, Alone(f), Browsing, Ends(f),
           preview' \in {preview, None}, screen' \notin joined, Faced'
    PROVE  BrowseInv'
<1>1. Beside(f) /\ flow'[f] = None
  BY BesideOne DEF Ends, Live
<1> QED BY <1>1, ActKeeps

\* A handler that stays what it is and goes on, without placing a preview.
LEMMA GoesKeeps ==
    ASSUME BrowseInv, NEW f \in Live, Alone(f), Browsing, NEW q, flow' = [flow EXCEPT ![f] = q],
           Fields \subseteq DOMAIN q, q.op = flow[f].op, q.chan = flow[f].chan, q.holds = flow[f].holds,
           q.at \in BrowsePlace \ {"place", "settle", "claim"}, q.at = "leave" => q.then \in AfterLeave,
           q.at \in Opening => flow[f].at \in Opening,
           preview' \in {preview, None}, screen' \notin joined, Faced'
    PROVE  BrowseInv'
<1>1. BrowseFlow(flow[f]) /\ f \in Flows
  BY DEF BrowseInv, Live
<1>2. Beside(f) /\ flow'[f] = q
  BY <1>1, BesideOne
<1>3. BrowseFlow(flow[f])'
  BY <1>1, <1>2 DEF BrowseFlow, Browsing
<1>4. LastStays(f)
  BY <1>2 DEF LastStays
<1> QED BY <1>2, <1>3, <1>4, ActKeeps

\* the same, where only the place changes
LEMMA GoesTo ==
    ASSUME BrowseInv, NEW f \in Live, Alone(f), Browsing, NEW at, Goes(f, at),
           at \in BrowsePlace \ {"place", "settle", "claim", "leave"},
           at \in Opening => flow[f].at \in Opening,
           preview' \in {preview, None}, screen' \notin joined, Faced'
    PROVE  BrowseInv'
<1> DEFINE q == [flow[f] EXCEPT !.at = at]
<1>1. Fields \subseteq DOMAIN flow[f] /\ DOMAIN flow = Flows /\ f \in Flows
  BY DEF BrowseInv, BrowseFlow, Live
<1>2. flow' = [flow EXCEPT ![f] = q]
  BY <1>1 DEF Goes
<1>3. /\ Fields \subseteq DOMAIN q /\ q.op = flow[f].op /\ q.chan = flow[f].chan /\ q.holds = flow[f].holds
      /\ q.at = at
  BY <1>1 DEF Fields
<1> HIDE DEF q
<1> QED BY <1>2, <1>3, GoesKeeps

LEMMA LeaveKeeps ==
    ASSUME BrowseInv, NEW f \in Live, Alone(f), Browsing, NEW c, NEW then \in AfterLeave, Leave(f, c, then),
           preview' = preview, screen' = screen
    PROVE  BrowseInv'
<1> DEFINE q == [flow[f] EXCEPT !.at = "leave", !.on = c, !.wait = Listed(c), !.then = then]
<1>1. Fields \subseteq DOMAIN flow[f] /\ DOMAIN flow = Flows /\ f \in Flows
  BY DEF BrowseInv, BrowseFlow, Live
<1>2. flow' = [flow EXCEPT ![f] = q]
  BY <1>1 DEF Leave, Fields
<1>3. screen' \notin joined /\ Faced'
  BY DEF BrowseInv, Faced
<1>4. /\ Fields \subseteq DOMAIN q /\ q.op = flow[f].op /\ q.chan = flow[f].chan /\ q.holds = flow[f].holds
      /\ q.at = "leave" /\ q.then = then
  BY <1>1 DEF Fields
<1>5. "leave" \in BrowsePlace \ {"place", "settle", "claim"} /\ "leave" \notin Opening
  BY DEF BrowsePlace, Opening
<1> HIDE DEF q
<1> QED BY <1>2, <1>3, <1>4, <1>5, GoesKeeps

LEMMA BusyAlone == ASSUME BrowseInv, NEW f \in Live, ~Pausing(f) PROVE Alone(f)
BY DEF BrowseInv, OneBusy, Busy, Alone, Live

LEMMA QuietAlone == ASSUME Quiet, NEW f PROVE Alone(f)
BY DEF Quiet, Busy, Alone

\* the screen and the preview stay, or there is no preview any more
LEMMA StillFaced ==
    ASSUME BrowseInv, preview' \in {preview, None}, screen' = screen
    PROVE  screen' \notin joined /\ Faced'
BY DEF BrowseInv, Faced

-----------------------------------------------------------------------------
(* The handlers                                                             *)

LEMMA LeavingKeeps ==
    ASSUME BrowseInv, NEW f \in Flows,
           Left(f) \/ Exit(f) \/ Closing(f) \/ Closed(f) \/ Settle(f) \/ Subscribed(f) \/ Undone(f)
    PROVE  BrowseInv'
<1>1. f \in Live /\ BrowseFlow(flow[f]) /\ ~Pausing(f) /\ Alone(f)
  <2>1. f \in Live
    BY DEF Left, Exit, Closing, Closed, Settle, Subscribed, Undone, At
  <2>2. ~Pausing(f)
    BY DEF Left, Exit, Closing, Closed, Settle, Subscribed, Undone, At, Pausing, Waiting
  <2> QED BY <2>1, <2>2, BusyAlone DEF BrowseInv
<1>2. Browsing
  BY SameBrowsing DEF Left, Exit, Closing, Closed, Settle, Subscribed, Undone, courseVars, switchVars, BrowseInv,
     Browsing
<1>3. UNCHANGED <<preview, screen>>
  BY DEF Left, Exit, Closing, Closed, Settle, Subscribed, Undone, switchVars, screenVars
<1>4. screen' \notin joined /\ Faced'
  BY <1>3, StillFaced
<1>5. active = None
  BY DEF BrowseInv
<1>6. CASE Settle(f)
  <2>1. Goes(f, "claim")
    BY <1>5, <1>6 DEF Settle
  <2> DEFINE q == [flow[f] EXCEPT !.at = "claim"]
  <2>2. flow' = [flow EXCEPT ![f] = q]
    BY <1>1, <2>1 DEF Goes, BrowseFlow, BrowseInv
  <2>3. /\ Fields \subseteq DOMAIN q /\ q.op = flow[f].op /\ q.chan = flow[f].chan /\ q.holds = flow[f].holds
        /\ q.at = "claim"
    BY <1>1 DEF BrowseFlow, Fields
  <2> HIDE DEF q
  <2>4. Beside(f) /\ flow'[f] = q
    BY <2>2, BesideOne
  <2>5. BrowseFlow(flow[f])'
    BY <1>1, <1>2, <1>3, <1>6, <2>3, <2>4 DEF BrowseFlow, Browsing, Settle, At, Opening, BrowsePlace
  <2>6. LastStays(f)
    BY <1>1, <2>3, <2>4 DEF LastStays
  <2> QED BY <1>1, <1>2, <1>3, <1>4, <2>4, <2>5, <2>6, ActKeeps
<1>7. CASE Ends(f)
  BY <1>1, <1>2, <1>3, <1>4, <1>7, EndsKeeps
<1>8. CASE \E at \in {"exited", "closed", "undone", "represent"} : Goes(f, at)
  <2>1. PICK at \in {"exited", "closed", "undone", "represent"} : Goes(f, at)
    BY <1>8
  <2>2. at \in BrowsePlace \ {"place", "settle", "claim", "leave"} /\ at \notin Opening
    BY DEF BrowsePlace, Opening
  <2> QED BY <1>1, <1>2, <1>3, <1>4, <2>1, <2>2, GoesTo
<1>9. CASE \E c, then : then \in AfterLeave /\ Leave(f, c, then)
  BY <1>1, <1>2, <1>3, <1>9, LeaveKeeps
<1>10. CASE Left(f)
  <2>1. flow[f].then \in AfterLeave
    BY <1>1, <1>10 DEF Left, At, BrowseFlow
  <2> QED BY <1>7, <1>8, <1>10, <2>1 DEF Left, AfterLeave
<1>11. CASE Exit(f)
  BY <1>8, <1>9, <1>11 DEF Exit, AfterLeave
<1>12. CASE Closing(f)
  BY <1>5, <1>8, <1>12 DEF Closing
<1>13. CASE Closed(f)
  BY <1>7, <1>13 DEF Closed
<1>14. CASE Subscribed(f)
  BY <1>7, <1>8, <1>9, <1>14 DEF Subscribed, AfterLeave
<1>15. CASE Undone(f)
  BY <1>7, <1>15 DEF Undone
<1> QED BY <1>6, <1>10, <1>11, <1>12, <1>13, <1>14, <1>15

LEMMA OpeningKeeps ==
    ASSUME BrowseInv, NEW f \in Flows,
           \/ Open(f) \/ NextPart(f)
           \/ Quiet /\ (Prepared(f) \/ Subscribes(f) \/ SubscribesLate(f) \/ SubscribeFails(f) \/ Resubscribe(f))
    PROVE  BrowseInv'
<1>1. f \in Live /\ BrowseFlow(flow[f]) /\ Alone(f)
  <2>1. f \in Live
    BY DEF Open, NextPart, Prepared, Subscribes, SubscribesLate, SubscribeFails, Resubscribe, At
  <2>2. ~Pausing(f) \/ Quiet
    BY DEF Open, NextPart, At, Pausing, Waiting
  <2> QED BY <2>1, <2>2, BusyAlone, QuietAlone DEF BrowseInv
<1>2. Browsing
  <2>1. joined' = joined /\ active' = active
    BY DEF Open, NextPart, Prepared, Subscribes, SubscribesLate, SubscribeFails, Resubscribe, courseVars, switchVars
  <2>2. left' = left \/ \E e \in Events : left[e] > 0 /\ left' = [left EXCEPT ![e] = @ - 1]
    BY DEF Open, NextPart, Prepared, Subscribes, SubscribesLate, SubscribeFails, Resubscribe, courseVars, Spend, Events
  <2> QED BY <2>1, <2>2, SameBrowsing
<1>3. UNCHANGED <<preview, screen>>
  BY DEF Open, NextPart, Prepared, Subscribes, SubscribesLate, SubscribeFails, Resubscribe, switchVars, screenVars
<1>4. screen' \notin joined /\ Faced'
  BY <1>3, StillFaced
<1>5. active = None
  BY DEF BrowseInv
<1>6. CASE Ends(f)
  BY <1>1, <1>2, <1>3, <1>4, <1>6, EndsKeeps
<1>7. ASSUME NEW at, Goes(f, at), at \in {"represent", "subscribed"} \cup Opening, at \in Opening => flow[f].at \in Opening
      PROVE  BrowseInv'
  <2>1. at \in BrowsePlace \ {"place", "settle", "claim", "leave"}
    BY <1>7 DEF BrowsePlace, Opening
  <2> QED BY <1>1, <1>2, <1>3, <1>4, <1>7, <2>1, GoesTo
<1>8. ASSUME NEW at \in Opening, NEW own, NEW part, NEW late, flow[f].at \in Opening,
             flow' = [flow EXCEPT ![f] = [flow[f] EXCEPT !.at = at, !.own = own, !.part = part, !.late = late]]
      PROVE  BrowseInv'
  <2> DEFINE q == [flow[f] EXCEPT !.at = at, !.own = own, !.part = part, !.late = late]
  <2>1. /\ Fields \subseteq DOMAIN q /\ q.op = flow[f].op /\ q.chan = flow[f].chan /\ q.holds = flow[f].holds
        /\ q.at = at /\ flow' = [flow EXCEPT ![f] = q]
    BY <1>1, <1>8 DEF BrowseFlow, Fields
  <2>2. at \in BrowsePlace \ {"place", "settle", "claim"} /\ at # "leave"
    BY <1>8 DEF BrowsePlace, Opening
  <2> HIDE DEF q
  <2> QED BY <1>1, <1>2, <1>3, <1>4, <1>8, <2>1, <2>2, GoesKeeps
<1>9. CASE Open(f)
  <2>1. flow[f].at \in Opening /\ "next" \in Opening /\ "failed" \in Opening
    BY <1>9 DEF Open, At, Opening
  <2>2. CASE flow' = [flow EXCEPT ![f].at = "next", ![f].own = None]
    <3>1. flow' = [flow EXCEPT ![f] = [flow[f] EXCEPT !.at = "next", !.own = None, !.part = flow[f].part, !.late = flow[f].late]]
      BY <1>1, <2>2 DEF BrowseFlow, Fields, BrowseInv, Live
    <3> QED BY <2>1, <3>1, <1>8
  <2> QED BY <1>7, <1>9, <2>1, <2>2 DEF Open
<1>10. CASE NextPart(f)
  <2>1. flow[f].at \in Opening /\ "subscribe" \in Opening /\ "failed" \in Opening
    BY <1>10 DEF NextPart, At, Opening
  <2>2. ASSUME NEW p, flow' = [flow EXCEPT ![f].at = "subscribe", ![f].part = p, ![f].late = FALSE] PROVE BrowseInv'
    <3>1. flow' = [flow EXCEPT ![f] = [flow[f] EXCEPT !.at = "subscribe", !.own = flow[f].own, !.part = p, !.late = FALSE]]
      BY <1>1, <2>2 DEF BrowseFlow, Fields, BrowseInv, Live
    <3> QED BY <2>1, <3>1, <1>8
  <2> QED BY <1>7, <1>10, <2>1, <2>2 DEF NextPart, Opening
<1>11. CASE Prepared(f)
  BY <1>6, <1>7, <1>11 DEF Prepared, At, Opening
<1>12. CASE Subscribes(f) \/ SubscribesLate(f)
  <2>1. Enters(f) /\ flow[f].at \in Opening /\ "next" \in Opening
    BY <1>12 DEF Subscribes, SubscribesLate, At, Opening
  <2>2. PICK own : flow' = [flow EXCEPT ![f].at = "next", ![f].own = own]
    BY <2>1 DEF Enters
  <2>3. flow' = [flow EXCEPT ![f] = [flow[f] EXCEPT !.at = "next", !.own = own, !.part = flow[f].part, !.late = flow[f].late]]
    BY <1>1, <2>2 DEF BrowseFlow, Fields, BrowseInv, Live
  <2> QED BY <2>1, <2>3, <1>8
<1>13. CASE SubscribeFails(f)
  BY <1>7, <1>13 DEF SubscribeFails, At, Opening
<1>14. CASE Resubscribe(f)
  BY <1>5, <1>7, <1>14 DEF Resubscribe, Opening
<1> QED BY <1>9, <1>10, <1>11, <1>12, <1>13, <1>14

LEMMA BumpedIs ==
    ASSUME BrowseInv, NEW x, NEW g \in Flows
    PROVE  /\ DOMAIN Bumped(flow, x) = Flows
           /\ g \notin Live => Bumped(flow, x)[g] = None
           /\ g \in Live => LET r == Bumped(flow, x)[g]
                            IN  /\ Fields \subseteq DOMAIN r /\ r.op = flow[g].op /\ r.at = flow[g].at
                                /\ r.chan = flow[g].chan /\ r.wait = flow[g].wait /\ r.then = flow[g].then
                                /\ r.holds = flow[g].holds \ {x}
<1>1. g \in Live => Fields \subseteq DOMAIN flow[g]
  BY DEF BrowseInv, BrowseFlow
<1> QED BY <1>1 DEF Bumped, Live, Fields

\* A handler begins, where nothing else goes on; one that is the last takes that from the others.
LEMMA StartsKeeps ==
    ASSUME BrowseInv, NEW f, Alone(f), Browsing, NEW r, NEW fs, flow' = [fs EXCEPT ![f] = r],
           (fs = flow /\ r.holds = {}) \/ fs = Bumped(flow, "ui"),
           UNCHANGED <<preview, screen>>, BrowseFlow(r)
    PROVE  BrowseInv'
<1>1. DOMAIN fs = Flows /\ DOMAIN flow' = Flows
  BY BumpedIs DEF BrowseInv, Bumped
<1>2. ASSUME NEW g \in Flows, g # f
      PROVE  SameSpot(flow[g], flow'[g]) /\ (fs = Bumped(flow, "ui") /\ flow'[g] # None => "ui" \notin flow'[g].holds)
  <2>1. flow'[g] = fs[g]
    BY <1>1, <1>2
  <2>2. flow[g] # None => Fields \subseteq DOMAIN flow[g]
    BY DEF BrowseInv, BrowseFlow, Live
  <2>3. CASE fs = flow /\ r.holds = {}
    <3>1. SameSpot(flow[g], flow'[g])
      BY <2>1, <2>2, <2>3 DEF SameSpot
    <3>2. fs = Bumped(flow, "ui") /\ flow'[g] # None => "ui" \notin flow'[g].holds
      BY <2>1, BumpedIs DEF Live
    <3> QED BY <3>1, <3>2
  <2>4. CASE fs = Bumped(flow, "ui")
    BY <2>1, <2>4, BumpedIs DEF SameSpot, Live
  <2> QED BY <2>3, <2>4
<1>3. Beside(f)
  BY <1>1, <1>2 DEF Beside
<1>4. ASSUME f \in Flows PROVE BrowseFlow(flow[f])' /\ LastStays(f)
  <2>1. flow'[f] = r
    BY <1>1, <1>4
  <2>2. BrowseFlow(flow[f])'
    BY <2>1 DEF BrowseFlow, Browsing
  <2>3. LastStays(f)
    BY <1>2, <2>1 DEF LastStays
  <2> QED BY <2>2, <2>3
<1>5. screen' \notin joined /\ Faced'
  BY StillFaced
<1> QED BY <1>3, <1>4, <1>5, ActKeeps

\* Every handler is left where it is.
LEMMA SpotsKeep ==
    ASSUME BrowseInv, Quiet, Browsing, DOMAIN flow' = Flows, \A g \in Flows : SameSpot(flow[g], flow'[g]),
           UNCHANGED <<preview, screen>>
    PROVE  BrowseInv'
<1> DEFINE f == {g \in Flows : g \notin g}
<1>1. f \notin Flows
  OBVIOUS
<1> HIDE DEF f
<1>2. Beside(f) /\ Alone(f)
  BY QuietAlone DEF Beside
<1>3. screen' \notin joined /\ Faced'
  BY StillFaced
<1> QED BY <1>1, <1>2, <1>3, ActKeeps

LEMMA ExitedKeeps ==
    ASSUME BrowseInv, NEW f \in Flows, Exited(f)
    PROVE  BrowseInv'
<1>1. f \in Live /\ BrowseFlow(flow[f]) /\ ~Pausing(f)
  BY DEF Exited, At, Pausing, Waiting, BrowseInv
<1>2. Alone(f)
  BY <1>1, BusyAlone
<1>3. Browsing
  BY SameBrowsing DEF Exited, courseVars, BrowseInv
<1>4. preview' = None /\ screen' = None /\ screen' \notin joined /\ Faced'
  BY DEF Exited, Faced, BrowseInv
<1>5. CASE Ends(f)
  BY <1>1, <1>2, <1>3, <1>4, <1>5, EndsKeeps
<1>6. CASE flow[f].op = "enter" /\ "ui" \in flow[f].holds /\ Goes(f, "place")
  <2> DEFINE q == [flow[f] EXCEPT !.at = "place"]
  <2>1. flow' = [flow EXCEPT ![f] = q]
    BY <1>1, <1>6 DEF Goes, BrowseFlow, BrowseInv
  <2>2. /\ Fields \subseteq DOMAIN q /\ q.op = flow[f].op /\ q.chan = flow[f].chan /\ q.holds = flow[f].holds
        /\ q.at = "place"
    BY <1>1 DEF BrowseFlow, Fields
  <2> HIDE DEF q
  <2>3. Beside(f) /\ flow'[f] = q
    BY <2>1, BesideOne
  <2>4. BrowseFlow(flow[f])'
    BY <1>1, <1>3, <1>4, <1>6, <2>2, <2>3 DEF BrowseFlow, Browsing, Opening, BrowsePlace
  <2>5. LastStays(f)
    BY <1>1, <2>2, <2>3 DEF LastStays
  <2> QED BY <1>1, <1>2, <1>3, <1>4, <2>3, <2>4, <2>5, ActKeeps
<1> QED BY <1>1, <1>5, <1>6 DEF Exited, BrowseFlow, BrowseOps

LEMMA PlaceKeeps ==
    ASSUME BrowseInv, NEW f \in Flows, Place(f)
    PROVE  BrowseInv'
<1>1. f \in Live /\ BrowseFlow(flow[f]) /\ ~Pausing(f) /\ flow[f].at = "place"
  BY DEF Place, At, Pausing, Waiting, BrowseInv
<1>2. Alone(f)
  BY <1>1, BusyAlone
<1>3. Browsing
  BY SameBrowsing DEF Place, courseVars, BrowseInv
<1>4. /\ preview = None /\ preview' = None /\ screen' = flow[f].chan /\ screen' \notin joined /\ Faced'
      /\ flow[f].op = "enter" /\ "ui" \in flow[f].holds
  BY <1>1 DEF Place, Faced, BrowseFlow
<1>5. CASE Ends(f)
  BY <1>1, <1>2, <1>3, <1>4, <1>5, EndsKeeps
<1>6. CASE flow' = [[Bumped(flow, "switch") EXCEPT ![f].holds = @ \cup {"switch"}] EXCEPT ![f].at = "settle"]
  <2> DEFINE fs == Bumped(flow, "switch")
             q  == [fs[f] EXCEPT !.holds = @ \cup {"switch"}, !.at = "settle"]
  <2>1. /\ DOMAIN fs = Flows /\ Fields \subseteq DOMAIN fs[f] /\ fs[f].op = flow[f].op /\ fs[f].chan = flow[f].chan
        /\ fs[f].holds = flow[f].holds \ {"switch"}
    BY <1>1, BumpedIs
  <2> HIDE DEF fs
  <2>2. flow' = [fs EXCEPT ![f] = q]
    BY <1>6, <2>1 DEF fs, Fields
  <2>3. /\ Fields \subseteq DOMAIN q /\ q.op = flow[f].op /\ q.chan = flow[f].chan
        /\ q.holds = flow[f].holds \cup {"switch"} /\ q.at = "settle"
    BY <2>1 DEF Fields
  <2> HIDE DEF q
  <2>4. ASSUME NEW g \in Flows, g # f PROVE SameSpot(flow[g], flow'[g])
    <3>1. flow'[g] = fs[g]
      BY <2>1, <2>2, <2>4
    <3>2. g \in Live => "ui" \notin flow[g].holds
      BY <1>1, <1>4, <2>4 DEF BrowseInv, OneLast
    <3> QED BY <3>1, <3>2, BumpedIs DEF SameSpot, fs, Live
  <2>5. Beside(f) /\ flow'[f] = q
    BY <2>1, <2>2, <2>4 DEF Beside
  <2>6. BrowseFlow(flow[f])'
    BY <1>1, <1>3, <1>4, <2>3, <2>5 DEF BrowseFlow, Browsing, Opening, BrowsePlace
  <2>7. LastStays(f)
    BY <1>1, <1>4 DEF LastStays
  <2> QED BY <1>2, <1>3, <1>4, <2>5, <2>6, <2>7, ActKeeps
<1> QED BY <1>4, <1>5, <1>6 DEF Place

LEMMA ClaimKeeps ==
    ASSUME BrowseInv, NEW f \in Flows, Claim(f)
    PROVE  BrowseInv'
<1>1. f \in Live /\ BrowseFlow(flow[f]) /\ ~Pausing(f) /\ flow[f].at = "claim"
  BY DEF Claim, At, Pausing, Waiting, BrowseInv
<1>2. Alone(f)
  BY <1>1, BusyAlone
<1>3. Browsing
  BY SameBrowsing DEF Claim, courseVars, BrowseInv
<1>4. /\ preview' = flow[f].chan /\ screen' = flow[f].chan /\ screen' \notin joined /\ Faced'
      /\ "ui" \in flow[f].holds /\ "switch" \in flow[f].holds
  BY <1>1 DEF Claim, Faced, BrowseFlow, screenVars
<1> DEFINE q == [flow[f] EXCEPT !.at = "prepare"]
<1>5. flow' = [flow EXCEPT ![f] = q]
  BY <1>1 DEF Claim, Goes, BrowseFlow, BrowseInv
<1>6. /\ Fields \subseteq DOMAIN q /\ q.op = flow[f].op /\ q.chan = flow[f].chan /\ q.holds = flow[f].holds
      /\ q.at = "prepare"
  BY <1>1 DEF BrowseFlow, Fields
<1> HIDE DEF q
<1>7. Beside(f) /\ flow'[f] = q
  BY <1>5, BesideOne
<1>8. BrowseFlow(flow[f])'
  BY <1>1, <1>3, <1>4, <1>6, <1>7 DEF BrowseFlow, Browsing, BrowsePlace
<1>9. LastStays(f)
  BY <1>1, <1>4 DEF LastStays
<1> QED BY <1>1, <1>2, <1>3, <1>4, <1>7, <1>8, <1>9, ActKeeps

LEMMA FailedKeeps ==
    ASSUME BrowseInv, NEW f \in Flows, Failed(f)
    PROVE  BrowseInv'
<1>1. f \in Live /\ BrowseFlow(flow[f]) /\ ~Pausing(f) /\ flow[f].at = "failed"
  BY DEF Failed, At, Pausing, Waiting, BrowseInv
<1>2. Alone(f)
  BY <1>1, BusyAlone
<1>3. Browsing
  BY SameBrowsing DEF Failed, courseVars, BrowseInv
<1>4. preview' \in {preview, None} /\ screen' \notin joined /\ Faced'
  <2>1. preview' \in {preview, None}
    BY DEF Failed
  <2>2. CASE flow[f].op = "enter" /\ "ui" \in flow[f].holds
    <3>1. "switch" \in flow[f].holds /\ preview \in {None, flow[f].chan}
      BY <1>1, <2>2 DEF BrowseFlow, Opening
    <3>2. preview' = None /\ screen' = None
      BY <2>2, <3>1 DEF Failed, Superseded
    <3> QED BY <2>1, <3>2 DEF Faced, BrowseInv
  <2>3. CASE ~(flow[f].op = "enter" /\ "ui" \in flow[f].holds)
    BY <2>1, <2>3, StillFaced DEF Failed
  <2> QED BY <2>1, <2>2, <2>3
<1>5. CASE Ends(f)
  BY <1>1, <1>2, <1>3, <1>4, <1>5, EndsKeeps
<1>6. CASE Goes(f, "represent")
  <2>1. "represent" \in BrowsePlace \ {"place", "settle", "claim", "leave"} /\ "represent" \notin Opening
    BY DEF BrowsePlace, Opening
  <2> QED BY <1>1, <1>2, <1>3, <1>4, <1>6, <2>1, GoesTo
<1> QED BY <1>5, <1>6 DEF Failed

\* The preview of a handler that starts: the last that was asked for, once the one on screen is left.
LEMMA PreviewingIs ==
    ASSUME BrowseInv, NEW c, c \notin joined \cup {None}
    PROVE  BrowseFlow(Previewing(c))
BY DEF BrowseInv, BrowseFlow, Previewing, New, Faced, Fields, BrowseOps, BrowsePlace, Opening

LEMMA RepresentKeeps ==
    ASSUME BrowseInv, NEW f \in Flows, Represent(f)
    PROVE  BrowseInv'
<1>1. f \in Live /\ ~Pausing(f)
  BY DEF Represent, At, Pausing, Waiting
<1>2. Alone(f)
  BY <1>1, BusyAlone
<1>3. Browsing
  BY SameBrowsing DEF Represent, courseVars, switchVars, BrowseInv
<1>4. UNCHANGED <<preview, screen>> /\ screen \notin joined
  BY DEF Represent, switchVars, screenVars, BrowseInv
<1>5. screen' \notin joined /\ Faced'
  BY <1>4, StillFaced
<1>6. CASE Ends(f)
  BY <1>1, <1>2, <1>3, <1>4, <1>5, <1>6, EndsKeeps
<1>7. CASE screen \in Chans \ joined /\ flow' = [Exiting EXCEPT ![f] = Previewing(screen)]
  <2>1. Exiting = Bumped(flow, "ui")
    BY <1>7, SubscriptionsAssumption DEF Exiting
  <2>2. screen \notin joined \cup {None}
    BY <1>7, SubscriptionsAssumption
  <2> QED BY <1>2, <1>3, <1>4, <1>7, <2>1, <2>2, PreviewingIs, StartsKeeps
<1> QED BY <1>4, <1>6, <1>7 DEF Represent

LEMMA StreamEndsKeeps ==
    ASSUME BrowseInv, NEW f \in Flows, NEW s, StreamEnds(f, s), Quiet
    PROVE  BrowseInv'
<1>1. f \in Live /\ BrowseFlow(flow[f]) /\ flow[f].at = "leave" /\ DOMAIN flow = Flows
  BY DEF StreamEnds, At, BrowseInv
<1>2. Alone(f)
  BY QuietAlone
<1>3. Browsing
  BY SameBrowsing DEF StreamEnds, courseVars, switchVars, BrowseInv
<1>4. UNCHANGED <<preview, screen>>
  BY DEF StreamEnds, switchVars, screenVars
<1>5. screen' \notin joined /\ Faced'
  BY <1>4, StillFaced
<1> DEFINE q == [flow[f] EXCEPT !.wait = @ \ {s}]
           fs == [flow EXCEPT ![f] = q]
<1>6. /\ Fields \subseteq DOMAIN q /\ q.op = flow[f].op /\ q.chan = flow[f].chan /\ q.holds = flow[f].holds
      /\ q.at = "leave" /\ q.then = flow[f].then
  BY <1>1 DEF BrowseFlow, Fields
<1>7. flow' = Parted(fs, {flow[f].on}) \/ flow' = fs
  BY <1>1 DEF StreamEnds, BrowseFlow, Fields
<1> HIDE DEF q
<1>8. flow'[f] = q /\ DOMAIN flow' = Flows
  <2>1. ~Filling(f)
    BY <1>1 DEF Filling
  <2> QED BY <1>1, <1>7, <2>1 DEF Parted
<1>9. ASSUME NEW g \in Flows, g # f PROVE SameSpot(flow[g], flow'[g])
  <2>1. fs[g] = flow[g] /\ (flow[g] # None => Fields \subseteq DOMAIN flow[g])
    BY <1>1, <1>9 DEF BrowseInv, BrowseFlow, Live
  <2>2. Filling(g) => flow[g] # None
    BY DEF Filling
  <2>3. CASE ~(Filling(g) /\ flow[g].chan = flow[f].on)
    <3>1. flow'[g] = flow[g]
      BY <1>1, <1>7, <2>1, <2>3 DEF Parted
    <3> QED BY <2>1, <3>1 DEF SameSpot
  <2>4. CASE Filling(g) /\ flow[g].chan = flow[f].on
    <3>1. flow'[g] = flow[g] \/ flow'[g] = [flow[g] EXCEPT !.own = table[flow[g].chan]["msg"]]
      BY <1>1, <1>7, <2>1, <2>4 DEF Parted
    <3> QED BY <2>1, <2>2, <2>4, <3>1 DEF SameSpot, Fields
  <2> QED BY <2>3, <2>4
<1>10. Beside(f)
  BY <1>8, <1>9 DEF Beside
<1>11. BrowseFlow(flow[f])'
  BY <1>1, <1>3, <1>6, <1>8 DEF BrowseFlow, Browsing, Opening, BrowsePlace
<1>12. LastStays(f)
  BY <1>1, <1>6, <1>8 DEF LastStays
<1> QED BY <1>2, <1>3, <1>4, <1>5, <1>10, <1>11, <1>12, ActKeeps

LEMMA ChoosesIs ==
    ASSUME NEW e, NEW c, Chooses(e, c)
    PROVE  left[e] > 0 /\ (TooSoon(e, c) => left.again > 0)
BY DEF Chooses

LEMMA ChoosesBrowsing ==
    ASSUME BrowseInv, NEW e \in {"close", "enter"}, NEW c, Chooses(e, c), joined' = joined, active' = active
    PROVE  Browsing
<1>1. left[e] - 1 \in Nat /\ (TooSoon(e, c) => left.again - 1 \in Nat)
  <2>1. left[e] \in Nat /\ left.again \in Nat /\ left[e] > 0
    BY ChoosesIs DEF BrowseInv, Events
  <2>2. CASE TooSoon(e, c)
    BY <2>1, <2>2, ChoosesIs
  <2>3. CASE ~TooSoon(e, c)
    BY <2>1, <2>3
  <2> QED BY <2>2, <2>3
<1>2. left' = [left EXCEPT ![e] = left[e] - 1, !.again = IF TooSoon(e, c) THEN left.again - 1 ELSE left.again]
  BY DEF Chooses, BrowseInv, Events
<1> QED BY <1>1, <1>2 DEF BrowseInv, Browsing, Events

LEMMA ClickKeeps ==
    ASSUME BrowseInv, Quiet, Click
    PROVE  BrowseInv'
<1>1. \A c \in Chans : ~Select(c)
  <2> SUFFICES ASSUME NEW c \in Chans, Chooses("select", c) PROVE FALSE
    BY DEF Select
  <2>1. left["select"] > 0
    BY ChoosesIs
  <2> QED BY <2>1 DEF BrowseInv
<1>2. ~Join
  <2> SUFFICES ASSUME Chooses("join", screen) PROVE FALSE
    BY DEF Join
  <2>1. left["join"] > 0
    BY ChoosesIs
  <2> QED BY <2>1 DEF BrowseInv
<1>3. ASSUME NEW c \in Chans, Enter(c) PROVE BrowseInv'
  <2>1. Browsing
    BY <1>3, ChoosesBrowsing DEF Enter, switchVars
  <2>2. UNCHANGED <<preview, screen>> /\ c \notin joined \cup {None}
    BY <1>3, SubscriptionsAssumption DEF Enter, switchVars, screenVars
  <2>3. PICK f : flow' = [Bumped(flow, "ui") EXCEPT ![f] = Previewing(c)]
    BY <1>3 DEF Enter, Starts
  <2> QED BY <2>1, <2>2, <2>3, QuietAlone, PreviewingIs, StartsKeeps
<1>4. ASSUME Close PROVE BrowseInv'
  <2> DEFINE r == New("close", IF screen = None THEN "closing" ELSE "exit", None)
  <2>1. Browsing
    BY <1>4, ChoosesBrowsing DEF Close, switchVars
  <2>2. UNCHANGED <<preview, screen>>
    BY <1>4 DEF Close, switchVars, screenVars
  <2>3. PICK f : flow' = [Exiting EXCEPT ![f] = r]
    BY <1>4 DEF Close, Starts
  <2>4. BrowseFlow(r) /\ r.holds = {}
    BY DEF New, BrowseFlow, Fields, BrowseOps, BrowsePlace, Opening
  <2> HIDE DEF r
  <2> QED BY <2>1, <2>2, <2>3, <2>4, QuietAlone, StartsKeeps DEF Exiting
<1> QED BY <1>1, <1>2, <1>3, <1>4 DEF Click

LEMMA OrphanKeeps ==
    ASSUME BrowseInv, Quiet, NEW c \in Chans, UnsubscribeOrphan(c)
    PROVE  BrowseInv'
<1> DEFINE r == [New("orphan", "leave", None) EXCEPT !.on = c, !.wait = Listed(c)]
<1>1. Browsing
  BY SameBrowsing DEF UnsubscribeOrphan, courseVars, switchVars, BrowseInv
<1>2. UNCHANGED <<preview, screen>> /\ flow' = [flow EXCEPT ![c] = r]
  BY DEF UnsubscribeOrphan, switchVars, screenVars
<1>3. BrowseFlow(r) /\ r.holds = {}
  BY DEF New, BrowseFlow, Fields, BrowseOps, BrowsePlace, AfterLeave, Opening
<1> HIDE DEF r
<1> QED BY <1>1, <1>2, <1>3, QuietAlone, StartsKeeps

LEMMA ClientKeeps ==
    ASSUME BrowseInv, ClientSteps
    PROVE  BrowseInv'
<1>1. Quiet /\ UNCHANGED <<screenVars, switchVars, courseVars>>
  BY DEF ClientSteps
<1>2. Browsing
  BY <1>1, SameBrowsing DEF courseVars, switchVars, BrowseInv
<1>3. UNCHANGED <<preview, screen>>
  BY <1>1 DEF switchVars, screenVars
<1>4. flow' = flow \/ flow' = Parted(AllLate, Chans)
  BY DEF ClientSteps, Forget
<1>5. DOMAIN flow = Flows /\ DOMAIN flow' = Flows
  BY <1>4 DEF BrowseInv, Parted
<1>6. ASSUME NEW g \in Flows PROVE SameSpot(flow[g], flow'[g])
  <2>1. flow[g] # None => Fields \subseteq DOMAIN flow[g]
    BY DEF BrowseInv, BrowseFlow, Live
  <2>2. CASE flow' = flow
    BY <2>1, <2>2 DEF SameSpot
  <2>3. CASE flow' = Parted(AllLate, Chans)
    <3>1. flow[g] = None => flow'[g] = None
      BY <2>3 DEF Parted, AllLate, Filling
    <3>2. /\ flow[g] = None => AllLate[g] = flow[g]
          /\ flow[g] # None /\ flow[g].at = "subscribe" => AllLate[g] = [flow[g] EXCEPT !.late = TRUE]
          /\ flow[g] # None /\ flow[g].at # "subscribe" => AllLate[g] = flow[g]
      BY DEF AllLate
    <3>3. flow'[g] = AllLate[g] \/ \E own : flow'[g] = [AllLate[g] EXCEPT !.own = own]
      BY <2>3 DEF Parted
    <3> QED BY <2>1, <3>1, <3>2, <3>3 DEF SameSpot, Fields
  <2> QED BY <1>4, <2>2, <2>3
<1> QED BY <1>1, <1>2, <1>3, <1>5, <1>6, SpotsKeep

LEMMA ResumesKeeps ==
    ASSUME BrowseInv, Resumes
    PROVE  BrowseInv'
<1>1. Quiet /\ UNCHANGED <<screenVars, switchVars, courseVars>>
  BY DEF Resumes
<1>2. Browsing
  BY <1>1, SameBrowsing DEF courseVars, switchVars, BrowseInv
<1>3. UNCHANGED <<preview, screen>>
  BY <1>1 DEF switchVars, screenVars
<1>4. CASE flow' = flow
  <2>1. \A g \in Flows : SameSpot(flow[g], flow'[g])
    BY <1>4 DEF SameSpot, BrowseInv, BrowseFlow, Live
  <2> QED BY <1>1, <1>2, <1>3, <1>4, <2>1, SpotsKeep DEF BrowseInv
<1>5. CASE Starts(flow, New("resume", "resubscribe", None))
  <2> DEFINE r == New("resume", "resubscribe", None)
  <2>1. PICK f : flow' = [flow EXCEPT ![f] = r]
    BY <1>5 DEF Starts
  <2>2. BrowseFlow(r) /\ r.holds = {}
    BY DEF New, BrowseFlow, Fields, BrowseOps, BrowsePlace, Opening
  <2> HIDE DEF r
  <2> QED BY <1>1, <1>2, <1>3, <2>1, <2>2, QuietAlone, StartsKeeps
<1> QED BY <1>4, <1>5 DEF Resumes

-----------------------------------------------------------------------------

LEMMA BrowseNext ==
    ASSUME BrowseInv, [Next]_vars
    PROVE  BrowseInv'
<1>1. ASSUME NEW f \in Flows, Runs(f) PROVE BrowseInv'
  <2>1. ~(Arrive(f) \/ Activate(f) \/ Cleared(f) \/ Downgraded(f))
    BY DEF Arrive, Activate, Cleared, Downgraded, At, BrowseInv, BrowseFlow, BrowsePlace
  <2> QED BY <1>1, <2>1, LeavingKeeps, OpeningKeeps, ExitedKeeps, PlaceKeeps, ClaimKeeps, FailedKeeps,
             RepresentKeeps DEF Runs
<1>2. ASSUME NEW f \in Flows, Quiet, Awaited(f) PROVE BrowseInv'
  <2>1. ~(Promote(f) \/ Settled(f))
    BY DEF Promote, Settled, At, BrowseInv, BrowseFlow, BrowsePlace
  <2> QED BY <1>2, <2>1, StreamEndsKeeps, OpeningKeeps DEF Awaited
<1>3. CASE UNCHANGED vars
  BY <1>3 DEF vars, courseVars, switchVars, screenVars, BrowseInv, BrowseFlow, OneBusy, OneLast, Busy, Live, Pausing,
     Faced
<1> QED BY <1>1, <1>2, <1>3, ClickKeeps, OrphanKeeps, ClientKeeps, ResumesKeeps DEF Next

\* what the clicks of a behaviour are is settled when it begins
Browses == course.left.select = 0 /\ course.left.join = 0

LEMMA BrowseInit == ASSUME Init, Browses PROVE BrowseInv
<1>1. course.left \in [Events -> Nat] /\ course.joined \subseteq Chans
  BY SubscriptionsAssumption DEF Init
<1>2. Live = {}
  BY DEF Init, Live
<1> QED BY <1>1, <1>2, SubscriptionsAssumption DEF Init, Browses, BrowseInv, OneBusy, OneLast, Busy, Faced

LEMMA CourseStays == ASSUME [Next]_vars PROVE course' = course
BY DEF Next, Runs, Awaited, Click, vars, courseVars, Left, Exit, Exited, Arrive, Activate, Closing, Closed, Place,
   Cleared, Settle, Downgraded, Claim, Open, NextPart, Subscribed, Undone, Failed, Represent, StreamEnds, Prepared,
   Subscribes, SubscribesLate, SubscribeFails, Promote, Settled, Resubscribe, Select, Enter, Close, Join,
   UnsubscribeOrphan, ClientSteps, Resumes

\* what is heard is of a channel
Known(N) == \A s \in N : "chan" \in DOMAIN s /\ s.chan # None

LEMMA KnownNext ==
    ASSUME BrowseInv, Known(net), [Next]_vars
    PROVE  Known(net')
<1>1. ASSUME NEW c PROVE Known(Quieted(c))
  BY DEF Known, Quieted
<1>2. ASSUME NEW f \in Flows, Runs(f) PROVE Known(net')
  <2>1. CASE \E c, then : Leave(f, c, then)
    BY <1>1, <2>1 DEF Leave
  <2>2. CASE net' = net
    BY <2>2
  <2>3. CASE Place(f)
    BY <1>1, <2>2, <2>3 DEF Place, tableVars
  <2> QED BY <1>2, <2>1, <2>2, <2>3
          DEF Runs, tableVars, Left, Exit, Exited, Arrive, Activate, Closing, Closed, Cleared, Settle, Downgraded, Claim,
              Open, NextPart, Subscribed, Undone, Failed, Represent
<1>3. ASSUME NEW f \in Flows, Awaited(f) PROVE Known(net')
  <2>1. ASSUME NEW s, StreamEnds(f, s) PROVE Known(net')
    BY <2>1 DEF StreamEnds, Unreached, Known
  <2>2. ASSUME At(f, "subscribe"), Enters(f) PROVE Known(net')
    <3>1. flow[f].chan # None
      BY <2>2 DEF At, BrowseInv, BrowseFlow, Opening
    <3> QED BY <2>2, <3>1 DEF Enters, Known
  <2>3. CASE net' = net
    BY <2>3
  <2> QED BY <1>3, <2>1, <2>2, <2>3
          DEF Awaited, tableVars, Prepared, Subscribes, SubscribesLate, SubscribeFails, Promote, Settled, Resubscribe
<1>4. ASSUME Click \/ Resumes \/ UNCHANGED vars PROVE Known(net')
  BY <1>4 DEF Click, Select, Enter, Close, Join, Resumes, vars, tableVars
<1>5. ASSUME NEW c \in Chans, UnsubscribeOrphan(c) PROVE Known(net')
  BY <1>1, <1>5 DEF UnsubscribeOrphan
<1>6. ASSUME ClientSteps PROVE Known(net')
  BY <1>6 DEF ClientSteps, Forget, tableVars, Known
<1> QED BY <1>2, <1>3, <1>4, <1>5, <1>6 DEF Next

LEMMA FacedIsNoMix == ASSUME Browses => BrowseInv /\ Known(net) PROVE NoMix
BY DEF NoMix, Browses, BrowseInv, Faced, Known, Lands

\* However fast one preview follows another, and whatever is closed, fails or is replaced under them, the
\* handlers of a preview hand its messages to no other channel (_handlePreviewMessage).
THEOREM PreviewsDoNotMix == Spec => []NoMix
<1> DEFINE Inv == Browses => BrowseInv /\ Known(net)
<1>1. Init => Inv
  BY BrowseInit DEF Init, Known
<1>2. Inv /\ [Next]_vars => Inv'
  <2> SUFFICES ASSUME Inv, [Next]_vars, Browses' PROVE (BrowseInv /\ Known(net))'
    OBVIOUS
  <2>1. Browses
    BY CourseStays DEF Browses
  <2> QED BY <2>1, BrowseNext, KnownNext
<1>3. Inv => NoMix
  BY FacedIsNoMix
<1> QED BY <1>1, <1>2, <1>3, PTL DEF Spec

-----------------------------------------------------------------------------
(* Channels chosen and closed, on a client that holds                       *)
(*                                                                         *)
(* That the channel on screen is heard is about handlers at rest.  Before     *)
(* that: whoever chose it is alone in it, nobody is leaving it, and what the   *)
(* table lists of it is live; and the same of the active channel, which need   *)
(* not be the one on screen and is taken at its word when it is chosen again.  *)

\* nothing is too soon, fails or is previewed, and the client is the first one
Switches == course.left.enter = 0 /\ Calm /\ Steady

FirstClient ==
    /\ faults \in [FaultKinds -> Nat] /\ \A e \in FaultKinds : faults[e] = 0
    /\ client = 1 /\ made = 1 /\ node \in {"starting", "hung", "up"} /\ replacing = <<>>
    /\ ~dead /\ ~rebuilding /\ ~timer /\ ~watchdog /\ stray = 0 /\ probes = 0

\* all that is subscribed of c is listed
Complete(c) == /\ table[c]["msg"] # None /\ MsgParts \subseteq table[c]["msg"]
               /\ table[c]["eph"] # None

Selecting == {"arrive", "leave", "activate", "prepare", "open", "next", "subscribe", "subscribed"}
Filled    == {"next", "subscribe", "subscribed"}

Apart(f, c) == \A g \in Live : g # f => flow[g].on # c /\ flow[g].chan # c

SwitchFlow(f, r) ==
    /\ \/ /\ r.op = "select" /\ r.chan \in Chans /\ r.at \in Selecting
          /\ r.at = "leave" => r.then = "activate"
       \/ /\ r.op = "close" /\ r.chan = None /\ r.at \in {"closing", "leave", "closed"}
          /\ r.at = "leave" => r.then = "closed"
    /\ ~r.late /\ (r.at = "subscribe" => r.part # None)
    /\ r.at \notin Filled => r.own = None
    /\ r.at \in {"next", "subscribe"} /\ r.own = None => table[r.chan]["msg"] # None
    /\ r.at = "subscribed" /\ r.own = None => Complete(r.chan)
    /\ r.at = "arrive" => r.on = None /\ (active = r.chan => Complete(r.chan))
    /\ r.op = "select" /\ r.at \in {"arrive", "leave", "activate"} => Apart(f, r.chan) /\ r.on # r.chan
    /\ r.op = "select" /\ r.at \in {"leave", "activate"} => active # r.chan

\* a listed subscription is live, unless its stream is about to end
OnNet(c, p) == \E s \in net : s.chan = c /\ s.part = p /\ s.listed
Ending(c, st) == \E f \in Live : flow[f].at = "leave" /\ flow[f].on = c /\ st \in flow[f].wait
Backed(c) ==
    /\ table[c]["msg"] # None => \A p \in table[c]["msg"] : p # Control /\ (OnNet(c, p) \/ Ending(c, "msg"))
    /\ table[c]["eph"] # None => OnNet(c, Control) \/ Ending(c, "eph")

\* nobody leaves c, who fills its object fills the one of the table, and it is complete or will be
Held(c) ==
    /\ \A f \in Live : flow[f].on # c /\ (flow[f].chan = c => flow[f].own = None)
    /\ (\E f \in Live : flow[f].chan = c) \/ Complete(c)

HeldShown  == shown # None /\ (\A f \in Live : flow[f].op # "close") => Held(shown)
HeldActive == active # None /\ (\A f \in Live : flow[f].on # active) => Held(active)
\* who leaves the active channel will take its place
ActiveLeft == active # None => \A f \in Live : flow[f].on = active => flow[f].at \in {"leave", "activate", "closed"}

SwitchTyped ==
    /\ flow \in [Flows -> Flow \cup {None}]
    /\ table \in [Chans -> [Streams -> {None} \cup SUBSET AllParts]]
    /\ \A c \in Chans : table[c]["msg"] \in {None} \cup SUBSET MsgParts
    /\ net \subseteq {s \in Subscription : s.via = "channel"}

SwitchFrame ==
    /\ FirstClient
    /\ left \in [Events -> Nat] /\ left.enter = 0 /\ left.again = 0 /\ left.fail = 0 /\ left.late = 0
    /\ joined \subseteq Chans
    /\ screen = None /\ preview = None /\ shown \in Chans \cup {None} /\ active \in Chans \cup {None}

\* one handler for a channel
OneEach == \A f, g \in Live : flow[f].op = "select" /\ flow[g].op = "select" /\ flow[f].chan = flow[g].chan => f = g

SwitchFlows == \A f \in Live : SwitchFlow(f, flow[f])

SwitchInv ==
    /\ SwitchTyped /\ SwitchFrame
    /\ SwitchFlows /\ OneBusy /\ OneEach
    /\ \A c \in Chans : Backed(c)
    /\ HeldShown /\ HeldActive /\ ActiveLeft

\* the flow of f alone changes, and no entry goes
OnlyOne(f) == flow' \in [Flows -> Flow \cup {None}] /\ \A g \in Flows : g # f => flow'[g] = flow[g]
Grown ==
    /\ table' \in [Chans -> [Streams -> {None} \cup SUBSET AllParts]]
    /\ \A c \in Chans : /\ table[c]["msg"] # None => table'[c]["msg"] # None /\ table[c]["msg"] \subseteq table'[c]["msg"]
                        /\ table[c]["eph"] # None => table'[c]["eph"] # None

LEMMA SwitchAlone == ASSUME SwitchInv, NEW f \in Live, ~Pausing(f) PROVE Alone(f)
BY DEF SwitchInv, OneBusy, Busy, Alone, Live

LEMMA GrownComplete == ASSUME Grown, NEW c \in Chans, Complete(c) PROVE Complete(c)'
BY DEF Grown, Complete

LEMMA SameGrown == ASSUME SwitchInv, UNCHANGED table PROVE Grown
BY DEF Grown, SwitchInv, SwitchTyped

LEMMA OthersKeep ==
    ASSUME SwitchInv, NEW f \in Flows, OnlyOne(f), Grown, Alone(f),
           flow'[f] # None => SwitchFlow(f, flow[f])',
           \A g \in Live : g # f /\ flow[g].op = "select" =>
               /\ flow[g].at \in {"leave", "activate"} => active' # flow[g].chan /\ (flow'[f] # None => flow'[f].on # flow[g].chan)
               /\ flow'[f] # None => flow'[f].chan # flow[g].chan
    PROVE  SwitchFlows' /\ OneBusy' /\ OneEach'
<1>1. ASSUME NEW g \in Flows, g # f, flow'[g] # None
      PROVE  g \in Live /\ flow'[g] = flow[g] /\ Pausing(g) /\ SwitchFlow(g, flow[g])
  BY <1>1 DEF OnlyOne, Alone, Busy, Live, SwitchInv, SwitchFlows
<1>2. ASSUME NEW g \in Flows, g # f, flow'[g] # None PROVE SwitchFlow(g, flow[g])'
  <2>1. g \in Live /\ flow'[g] = flow[g] /\ Pausing(g) /\ SwitchFlow(g, flow[g])
    BY <1>1, <1>2
  <2>2. flow[g].at \in Waiting
    BY <2>1 DEF Pausing
  <2>3. flow[g].at \notin {"arrive", "activate", "subscribed"}
    BY <2>2 DEF Waiting
  <2>4. ASSUME flow[g].op = "select", flow[g].at = "leave"
        PROVE  Apart(g, flow[g].chan)' /\ active' # flow[g].chan
    <3>1. Apart(g, flow[g].chan)
      BY <2>1, <2>4 DEF SwitchFlow
    <3>2. ASSUME NEW h \in Flows, flow'[h] # None, h # g
          PROVE  flow'[h].on # flow[g].chan /\ flow'[h].chan # flow[g].chan
      <4>1. CASE h = f
        BY <1>2, <2>1, <2>4, <3>2, <4>1
      <4>2. CASE h # f
        BY <1>1, <3>1, <3>2, <4>2 DEF Apart
      <4> QED BY <4>1, <4>2
    <3> QED BY <1>2, <2>1, <2>4, <3>2 DEF Apart, Live
  <2>5. flow[g].at \in {"next", "subscribe"} /\ flow[g].own = None => table'[flow[g].chan]["msg"] # None
    BY <2>1 DEF SwitchFlow, Grown
  <2> QED BY <2>1, <2>3, <2>4, <2>5 DEF SwitchFlow
<1>3. SwitchFlows'
  BY <1>2 DEF SwitchFlows, Live
<1>4. OneBusy'
  <2> SUFFICES ASSUME NEW g \in Flows, NEW h \in Flows, Busy(g)', Busy(h)' PROVE g = h
    BY DEF OneBusy
  <2>1. \A k \in Flows : k # f /\ flow'[k] # None => ~Busy(k)'
    BY <1>1 DEF Busy, Pausing
  <2> QED BY <2>1 DEF Busy, Live
<1>5. OneEach'
  <2> SUFFICES ASSUME NEW g \in Flows, NEW h \in Flows, flow'[g] # None, flow'[h] # None, flow'[g].op = "select",
                      flow'[h].op = "select", flow'[g].chan = flow'[h].chan
               PROVE  g = h
    BY DEF OneEach, Live
  <2>1. CASE g # f /\ h # f
    BY <1>1, <2>1 DEF SwitchInv, OneEach
  <2>2. CASE g = f /\ h # f
    BY <1>1, <2>2
  <2>3. CASE g # f /\ h = f
    BY <1>1, <2>3
  <2> QED BY <2>1, <2>2, <2>3
<1> QED BY <1>3, <1>4, <1>5

\* A channel nobody leaves stays one.
LEMMA HeldKeeps ==
    ASSUME SwitchInv, NEW f \in Flows, OnlyOne(f), Grown, NEW c \in Chans, Held(c),
           flow'[f] # None => flow'[f].on # c /\ (flow'[f].chan = c => flow'[f].own = None),
           f \in Live /\ flow[f].chan = c => (flow'[f] # None /\ flow'[f].chan = c) \/ Complete(c)'
    PROVE  Held(c)'
<1>1. ASSUME NEW g \in Flows, flow'[g] # None PROVE flow'[g].on # c /\ (flow'[g].chan = c => flow'[g].own = None)
  BY <1>1 DEF OnlyOne, Held, Live
<1>2. (\E g \in Live : flow[g].chan = c)' \/ Complete(c)'
  <2>1. CASE Complete(c)
    BY <2>1, GrownComplete
  <2>2. ASSUME NEW g \in Live, flow[g].chan = c PROVE (\E h \in Live : flow[h].chan = c)' \/ Complete(c)'
    <3>1. CASE g = f
      BY <2>2, <3>1 DEF Live
    <3>2. CASE g # f
      BY <2>2, <3>2 DEF Live, OnlyOne
    <3> QED BY <3>1, <3>2
  <2> QED BY <2>1, <2>2 DEF Held
<1> QED BY <1>1, <1>2 DEF Held, Live

LEMMA BackedKeeps ==
    ASSUME SwitchInv, NEW f \in Flows, OnlyOne(f), UNCHANGED tableVars,
           f \in Live /\ flow[f].at = "leave" => flow[f].wait = {} \/ flow'[f] = flow[f]
    PROVE  \A c \in Chans : Backed(c)'
<1>1. \A c, p : OnNet(c, p)' <=> OnNet(c, p)
  BY DEF OnNet, tableVars
<1>2. \A c, st : Ending(c, st) => Ending(c, st)'
  BY DEF Ending, Live, OnlyOne
<1>3. table' = table
  BY DEF tableVars
<1> QED BY <1>1, <1>2, <1>3 DEF Backed, SwitchInv

\* A handler that goes on where it is: the same channel, the same it left.
LEMMA WalkKeeps ==
    ASSUME SwitchInv, NEW f \in Live, OnlyOne(f), Alone(f), Grown, SwitchTyped', SwitchFrame',
           UNCHANGED <<active, shown>>,
           flow'[f] # None, flow'[f].op = flow[f].op, flow'[f].chan = flow[f].chan, flow'[f].on = flow[f].on,
           flow[f].own = None => flow'[f].own = None,
           flow[f].on = active /\ active # None => flow'[f].at \in {"leave", "activate", "closed"},
           SwitchFlow(f, flow[f])',
           \A c \in Chans : Backed(c)'
    PROVE  SwitchInv'
<1>1. f \in Flows /\ flow[f] # None /\ SwitchFlow(f, flow[f])
  BY DEF Live, SwitchInv, SwitchFlows
<1>2. Live' = Live
  BY <1>1 DEF Live, OnlyOne
<1>3. SwitchFlows' /\ OneBusy' /\ OneEach'
  <2> SUFFICES ASSUME NEW g \in Live, g # f, flow[g].op = "select"
               PROVE  /\ flow[g].at \in {"leave", "activate"} => active' # flow[g].chan /\ flow'[f].on # flow[g].chan
                      /\ flow'[f].chan # flow[g].chan
    BY <1>1, OthersKeep
  <2>1. SwitchFlow(g, flow[g])
    BY DEF SwitchInv, SwitchFlows
  <2>2. flow[g].chan # flow[f].chan
    BY <1>1, <2>1, SubscriptionsAssumption DEF SwitchFlow, SwitchInv, OneEach
  <2> QED BY <2>1, <2>2 DEF SwitchFlow, Apart
<1>4. \A g \in Live : flow'[g].op = flow[g].op /\ flow'[g].on = flow[g].on
  BY <1>1 DEF OnlyOne, Live
<1>5. \A c \in Chans : Held(c) => Held(c)'
  <2> SUFFICES ASSUME NEW c \in Chans, Held(c) PROVE Held(c)'
    OBVIOUS
  <2>1. flow[f].on # c /\ (flow[f].chan = c => flow[f].own = None)
    BY DEF Held
  <2> QED BY <1>1, <2>1, HeldKeeps
<1>6. HeldShown'
  BY <1>2, <1>4, <1>5 DEF HeldShown, SwitchInv, SwitchFrame
<1>7. HeldActive'
  BY <1>2, <1>4, <1>5 DEF HeldActive, SwitchInv, SwitchFrame
<1>8. ActiveLeft'
  <2> SUFFICES ASSUME NEW g \in Live, active # None, flow'[g].on = active
               PROVE  flow'[g].at \in {"leave", "activate", "closed"}
    BY <1>2 DEF ActiveLeft
  <2>1. CASE g = f
    BY <2>1
  <2>2. CASE g # f
    BY <2>2 DEF OnlyOne, Live, SwitchInv, ActiveLeft
  <2> QED BY <2>1, <2>2
<1> QED BY <1>3, <1>6, <1>7, <1>8 DEF SwitchInv

LEMMA OneMoves ==
    ASSUME SwitchInv, NEW f \in Flows, NEW q \in Flow, flow' = [flow EXCEPT ![f] = q]
    PROVE  OnlyOne(f) /\ flow'[f] = q /\ q # None
BY NoFlowAssumption DEF SwitchInv, SwitchTyped, OnlyOne

LEMMA GoesIs ==
    ASSUME SwitchInv, NEW f \in Live, NEW at \in Waiting \cup Running, Goes(f, at)
    PROVE  /\ OnlyOne(f) /\ flow'[f] # None /\ flow'[f].at = at
           /\ flow'[f].op = flow[f].op /\ flow'[f].chan = flow[f].chan /\ flow'[f].on = flow[f].on
           /\ flow'[f].then = flow[f].then /\ flow'[f].own = flow[f].own /\ flow'[f].late = flow[f].late
           /\ flow'[f].part = flow[f].part /\ flow'[f].wait = flow[f].wait
<1> DEFINE q == [flow[f] EXCEPT !.at = at]
<1>1. f \in Flows /\ flow[f] \in Flow
  BY DEF Live, SwitchInv, SwitchTyped
<1>2. q \in Flow /\ flow' = [flow EXCEPT ![f] = q]
  BY <1>1 DEF Flow, Goes
<1>3. /\ q.at = at /\ q.op = flow[f].op /\ q.chan = flow[f].chan /\ q.on = flow[f].on
      /\ q.then = flow[f].then /\ q.own = flow[f].own /\ q.late = flow[f].late /\ q.part = flow[f].part
      /\ q.wait = flow[f].wait
  BY <1>1 DEF Flow
<1> HIDE DEF q
<1> QED BY <1>1, <1>2, <1>3, OneMoves

LEMMA EndsIs ==
    ASSUME SwitchInv, NEW f \in Live, Ends(f)
    PROVE  OnlyOne(f) /\ flow'[f] = None /\ f \in Flows
BY DEF Ends, SwitchInv, SwitchTyped, OnlyOne, Live

\* a step of a handler leaves alone what is not about channels
LEMMA FrameStays ==
    ASSUME SwitchInv, UNCHANGED <<clientVars, courseVars, screen, preview>>,
           shown' \in Chans \cup {None}, active' \in Chans \cup {None}
    PROVE  SwitchFrame'
BY DEF SwitchInv, SwitchFrame, FirstClient, clientVars, courseVars

LEMMA TypedStays ==
    ASSUME SwitchInv, flow' \in [Flows -> Flow \cup {None}], UNCHANGED table, net' = net \/ \E c : net' = Quieted(c)
    PROVE  SwitchTyped'
BY DEF SwitchInv, SwitchTyped, Quieted

LEMMA LeftKeeps ==
    ASSUME SwitchInv, NEW f \in Flows, Left(f)
    PROVE  SwitchInv'
<1>1. f \in Live /\ flow[f].at = "leave" /\ flow[f].wait = {} /\ SwitchFlow(f, flow[f]) /\ ~Pausing(f)
  BY DEF Left, At, SwitchInv, SwitchFlows, Pausing
<1>2. Goes(f, flow[f].then) /\ flow[f].then = (IF flow[f].op = "select" THEN "activate" ELSE "closed")
  BY <1>1 DEF Left, SwitchFlow
<1>3. /\ OnlyOne(f) /\ flow'[f] # None /\ flow'[f].at = flow[f].then /\ flow'[f].op = flow[f].op
      /\ flow'[f].chan = flow[f].chan /\ flow'[f].on = flow[f].on /\ flow'[f].own = flow[f].own
      /\ flow'[f].late = flow[f].late
  BY <1>1, <1>2, GoesIs DEF Running
<1>4. SwitchFrame' /\ SwitchTyped' /\ Grown /\ Alone(f) /\ UNCHANGED <<active, shown>>
  BY <1>1, <1>3, FrameStays, TypedStays, SameGrown, SwitchAlone
     DEF Left, tableVars, switchVars, screenVars, OnlyOne, SwitchInv, SwitchFrame
<1>5. Apart(f, flow[f].chan) => Apart(f, flow[f].chan)'
  BY <1>3 DEF Apart, Live, OnlyOne
<1>6. SwitchFlow(f, flow[f])'
  BY <1>1, <1>2, <1>3, <1>4, <1>5 DEF SwitchFlow, Filled, Selecting
<1>7. \A c \in Chans : Backed(c)'
  BY <1>1, <1>3, BackedKeeps DEF Left
<1> QED BY <1>1, <1>2, <1>3, <1>4, <1>6, <1>7, WalkKeeps

LEMMA PreparedKeeps ==
    ASSUME SwitchInv, NEW f \in Flows, Prepared(f), Quiet
    PROVE  SwitchInv'
<1>1. f \in Live /\ flow[f].at = "prepare" /\ SwitchFlow(f, flow[f]) /\ flow[f].op = "select" /\ flow[f].own = None
  BY DEF Prepared, At, SwitchInv, SwitchFlows, SwitchFlow, Filled
<1>2. Goes(f, "open")
  BY <1>1 DEF Prepared, Superseded
<1>3. /\ OnlyOne(f) /\ flow'[f] # None /\ flow'[f].at = "open" /\ flow'[f].op = flow[f].op
      /\ flow'[f].chan = flow[f].chan /\ flow'[f].on = flow[f].on /\ flow'[f].own = flow[f].own
      /\ flow'[f].late = flow[f].late
  BY <1>1, <1>2, GoesIs DEF Running
<1>4. SwitchFrame' /\ SwitchTyped' /\ Grown /\ Alone(f) /\ UNCHANGED <<active, shown>>
  BY <1>1, <1>3, FrameStays, TypedStays, SameGrown, QuietAlone
     DEF Prepared, tableVars, switchVars, screenVars, OnlyOne, SwitchInv, SwitchFrame
<1>5. SwitchFlow(f, flow[f])'
  BY <1>1, <1>3, <1>4 DEF SwitchFlow, Filled, Selecting
<1>6. \A c \in Chans : Backed(c)'
  BY <1>1, <1>3, BackedKeeps DEF Prepared
<1>7. flow[f].on = active => active = None
  BY <1>1 DEF SwitchInv, ActiveLeft
<1> QED BY <1>1, <1>3, <1>4, <1>5, <1>6, <1>7, WalkKeeps

LEMMA OpenKeeps ==
    ASSUME SwitchInv, NEW f \in Flows, Open(f)
    PROVE  SwitchInv'
<1>1. f \in Live /\ flow[f].at = "open" /\ SwitchFlow(f, flow[f]) /\ flow[f].op = "select" /\ flow[f].own = None /\ flow[f] \in Flow
  BY DEF Open, At, SwitchInv, SwitchFlows, SwitchFlow, SwitchTyped, Filled, Live
<1>2. ~Pausing(f) /\ flow[f].chan \in Chans
  BY <1>1 DEF Pausing, Waiting, SwitchFlow
<1> DEFINE c == flow[f].chan
           q == [flow[f] EXCEPT !.at = "next", !.own = None]
<1>3. /\ table' = [table EXCEPT ![c]["msg"] = IF @ = None THEN {} ELSE @]
      /\ flow' = [flow EXCEPT ![f] = q]
  <2>1. /\ table' = [table EXCEPT ![c]["msg"] = IF @ = None THEN {} ELSE @]
        /\ flow' = [flow EXCEPT ![f].at = "next", ![f].own = None]
    <3>1. client # 0
      BY DEF SwitchInv, SwitchFrame, FirstClient
    <3> QED BY <3>1, Zenon DEF Open
  <2>2. f \in DOMAIN flow /\ DOMAIN flow[f] = Fields
    BY <1>1 DEF SwitchInv, SwitchTyped, Flow, Fields
  <2> QED BY <2>1, <2>2 DEF Fields
<1>4. q \in Flow /\ q.at = "next" /\ q.op = flow[f].op /\ q.chan = c /\ q.on = flow[f].on /\ q.own = None /\ q.late = flow[f].late
  BY <1>1 DEF Flow, Running
<1> HIDE DEF q
<1>5. OnlyOne(f) /\ flow'[f] = q /\ q # None
  BY <1>1, <1>3, <1>4, OneMoves
<1>6. /\ table' \in [Chans -> [Streams -> {None} \cup SUBSET AllParts]]
      /\ \A d \in Chans : table'[d]["eph"] = table[d]["eph"]
      /\ \A d \in Chans : d # c => table'[d] = table[d]
      /\ table'[c]["msg"] = IF table[c]["msg"] = None THEN {} ELSE table[c]["msg"]
  BY <1>2, <1>3 DEF SwitchInv, SwitchTyped, Streams
<1>7. table'[c]["msg"] # None
  BY <1>6, SubscriptionsAssumption
<1>8. SwitchTyped'
  BY <1>2, <1>5, <1>6 DEF SwitchInv, SwitchTyped, OnlyOne, Open
<1>9. Grown /\ Alone(f) /\ UNCHANGED <<active, shown, net>>
  BY <1>1, <1>2, <1>6, <1>7, SwitchAlone DEF Grown, Open, switchVars, screenVars
<1>10. SwitchFrame'
  BY <1>9, FrameStays DEF Open, switchVars, screenVars, SwitchInv, SwitchFrame
<1>11. SwitchFlow(f, flow[f])'
  BY <1>1, <1>2, <1>4, <1>5, <1>7 DEF SwitchFlow, Filled, Selecting
<1>12. ASSUME NEW d \in Chans PROVE Backed(d)'
  <2>1. \A p : OnNet(d, p)' <=> OnNet(d, p)
    BY <1>9 DEF OnNet
  <2>2. \A st : Ending(d, st) => Ending(d, st)'
    BY <1>1, <1>5 DEF Ending, Live, OnlyOne
  <2>3. Backed(d)
    BY DEF SwitchInv
  <2> QED BY <1>6, <2>1, <2>2, <2>3 DEF Backed
<1>13. flow[f].on = active => active = None
  BY <1>1 DEF SwitchInv, ActiveLeft
<1> QED BY <1>1, <1>4, <1>5, <1>8, <1>9, <1>10, <1>11, <1>12, <1>13, WalkKeeps

LEMMA NextPartKeeps ==
    ASSUME SwitchInv, NEW f \in Flows, NextPart(f)
    PROVE  SwitchInv'
<1>1. f \in Live /\ flow[f].at = "next" /\ SwitchFlow(f, flow[f]) /\ flow[f].op = "select" /\ flow[f] \in Flow
  BY DEF NextPart, At, SwitchInv, SwitchFlows, SwitchFlow, SwitchTyped, Live
<1>2. ~Pausing(f) /\ flow[f].chan \in Chans /\ client # 0
  BY <1>1 DEF Pausing, Waiting, SwitchFlow, SwitchInv, SwitchFrame, FirstClient
<1>3. ASSUME OnlyOne(f), flow'[f] # None, flow'[f].op = flow[f].op, flow'[f].chan = flow[f].chan, flow'[f].on = flow[f].on,
             flow'[f].own = flow[f].own, SwitchFlow(f, flow[f])'
      PROVE  SwitchInv'
  <2>1. SwitchFrame' /\ SwitchTyped' /\ Grown /\ Alone(f) /\ UNCHANGED <<active, shown>>
    BY <1>1, <1>2, <1>3, FrameStays, TypedStays, SameGrown, SwitchAlone
       DEF NextPart, tableVars, switchVars, screenVars, OnlyOne, SwitchInv, SwitchFrame
  <2>2. \A c \in Chans : Backed(c)'
    BY <1>1, <1>3, BackedKeeps DEF NextPart
  <2>3. flow[f].on = active => active = None
    BY <1>1 DEF SwitchInv, ActiveLeft
  <2> QED BY <1>1, <1>3, <2>1, <2>2, <2>3, WalkKeeps
<1>4. CASE AllThere(f) /\ Goes(f, "subscribed")
  <2>1. /\ OnlyOne(f) /\ flow'[f] # None /\ flow'[f].at = "subscribed" /\ flow'[f].op = flow[f].op
        /\ flow'[f].chan = flow[f].chan /\ flow'[f].on = flow[f].on /\ flow'[f].own = flow[f].own
        /\ flow'[f].late = flow[f].late
    BY <1>1, <1>4, GoesIs DEF Running
  <2>2. flow[f].own = None => Complete(flow[f].chan)
    BY <1>1, <1>4 DEF AllThere, Missing, Complete, SwitchFlow
  <2>3. flow[f].own = None => Complete(flow[f].chan)'
    <3>1. table' = table
      BY DEF NextPart, tableVars
    <3> QED BY <2>1, <2>2, <3>1 DEF Complete
  <2> QED BY <1>1, <1>3, <2>1, <2>3 DEF SwitchFlow, Filled, Selecting
<1>5. ASSUME NEW p \in AllParts, flow' = [flow EXCEPT ![f].at = "subscribe", ![f].part = p, ![f].late = FALSE]
      PROVE  SwitchInv'
  <2> DEFINE q == [flow[f] EXCEPT !.at = "subscribe", !.part = p, !.late = FALSE]
  <2>1. /\ q \in Flow /\ flow' = [flow EXCEPT ![f] = q]
        /\ q.at = "subscribe" /\ q.op = flow[f].op /\ q.chan = flow[f].chan /\ q.on = flow[f].on /\ q.own = flow[f].own
        /\ q.late = FALSE /\ q.part = p
    BY <1>1, <1>5 DEF Flow, Waiting
  <2> HIDE DEF q
  <2>2. OnlyOne(f) /\ flow'[f] = q /\ q # None
    BY <2>1, OneMoves
  <2>3. p # None
    BY SubscriptionsAssumption
  <2>4. table' = table
    BY DEF NextPart, tableVars
  <2> QED BY <1>1, <1>3, <2>1, <2>2, <2>3, <2>4 DEF SwitchFlow, Filled, Selecting
<1> QED BY <1>2, <1>4, <1>5 DEF NextPart

LEMMA SubscribesKeeps ==
    ASSUME SwitchInv, NEW f \in Flows, Subscribes(f), Quiet
    PROVE  SwitchInv'
<1>1. /\ f \in Live /\ flow[f].at = "subscribe" /\ SwitchFlow(f, flow[f]) /\ flow[f].op = "select" /\ flow[f] \in Flow
      /\ Enters(f) /\ ~flow[f].late
  BY DEF Subscribes, At, SwitchInv, SwitchFlows, SwitchFlow, SwitchTyped, Live
<1> DEFINE c == flow[f].chan
           p == flow[f].part
           listed == p = Control \/ flow[f].own = None
           new == [chan |-> c, part |-> p, via |-> "channel", listed |-> listed]
           over == {IF listed /\ s.chan = c /\ s.part = p THEN [s EXCEPT !.listed = FALSE] ELSE s : s \in net}
           q == [flow[f] EXCEPT !.at = "next", !.own = IF listed THEN @ ELSE @ \cup {p}]
<1>2. /\ table' = IF p = Control THEN [table EXCEPT ![c]["eph"] = {p}]
                  ELSE IF listed THEN [table EXCEPT ![c]["msg"] = @ \cup {p}] ELSE table
      /\ net' = over \cup {new}
      /\ flow' = [flow EXCEPT ![f].at = "next", ![f].own = IF listed THEN @ ELSE @ \cup {p}]
  <2>1. Via(f) = "channel"
    BY <1>1 DEF Via
  <2> QED BY <1>1, <2>1 DEF Enters
<1>3. c \in Chans /\ p \in AllParts /\ (p # Control => p \in MsgParts)
  BY <1>1 DEF SwitchFlow, Flow, AllParts
<1>4. /\ flow' = [flow EXCEPT ![f] = q] /\ q \in Flow
      /\ q.at = "next" /\ q.op = flow[f].op /\ q.chan = c /\ q.on = flow[f].on /\ q.late = flow[f].late
      /\ flow[f].own = None => q.own = None
      /\ q.own = None => flow[f].own = None
  <2>1. f \in DOMAIN flow /\ DOMAIN flow[f] = Fields
    BY <1>1 DEF SwitchInv, SwitchTyped, Flow, Fields
  <2>2. flow' = [flow EXCEPT ![f] = q]
    BY <1>2, <2>1 DEF Fields
  <2>3. (IF listed THEN flow[f].own ELSE flow[f].own \cup {p}) \in {None} \cup SUBSET MsgParts
    BY <1>1, <1>3 DEF Flow
  <2>4. q \in Flow
    BY <1>1, <2>3 DEF Flow, Running
  <2>5. ~listed => flow[f].own \cup {p} # None
    BY <1>1, <1>3, SubscriptionsAssumption DEF Flow, AllParts
  <2> QED BY <1>1, <2>1, <2>2, <2>4, <2>5 DEF Fields
<1>5. /\ table' \in [Chans -> [Streams -> {None} \cup SUBSET AllParts]]
      /\ \A d \in Chans : d # c => table'[d] = table[d]
      /\ table'[c]["eph"] = IF p = Control THEN {p} ELSE table[c]["eph"]
      /\ table'[c]["msg"] = IF p # Control /\ listed THEN table[c]["msg"] \cup {p} ELSE table[c]["msg"]
  <2>1. p # Control /\ listed => table[c]["msg"] # None
    BY <1>1 DEF SwitchFlow
  <2>2. /\ table \in [Chans -> [Streams -> {None} \cup SUBSET AllParts]]
        /\ table[c]["msg"] \in {None} \cup SUBSET MsgParts /\ "msg" \in Streams /\ "eph" \in Streams
    BY <1>3 DEF SwitchInv, SwitchTyped, Streams
  <2>3. CASE p = Control
    <3>1. table' = [table EXCEPT ![c]["eph"] = {p}]
      BY <1>2, <2>3
    <3> QED BY <1>3, <2>2, <2>3, <3>1 DEF AllParts
  <2>4. CASE p # Control /\ listed
    <3>1. table' = [table EXCEPT ![c]["msg"] = table[c]["msg"] \cup {p}]
      BY <1>2, <2>4
    <3>2. table[c]["msg"] \cup {p} \in SUBSET AllParts
      BY <1>3, <2>1, <2>2, <2>4 DEF AllParts
    <3> QED BY <1>3, <2>2, <2>4, <3>1, <3>2
  <2>5. CASE p # Control /\ ~listed
    BY <1>2, <2>2, <2>5
  <2> QED BY <2>3, <2>4, <2>5
<1> HIDE DEF q
<1>6. OnlyOne(f) /\ flow'[f] = q /\ q # None
  BY <1>1, <1>4, OneMoves
<1>7. (p # Control /\ listed => table[c]["msg"] # None) /\ table[c]["msg"] \in {None} \cup SUBSET MsgParts
  BY <1>1, <1>3 DEF SwitchFlow, SwitchInv, SwitchTyped
<1>8. Grown
  <2>1. {p} # None /\ (p # Control => (table[c]["msg"] \in SUBSET MsgParts => table[c]["msg"] \cup {p} # None))
    BY <1>3, SubscriptionsAssumption DEF AllParts
  <2> QED BY <1>3, <1>5, <1>7, <2>1 DEF Grown
<1>9. SwitchTyped'
  <2>1. \A d \in Chans : table'[d]["msg"] \in {None} \cup SUBSET MsgParts
    BY <1>3, <1>5, <1>7 DEF SwitchInv, SwitchTyped
  <2>2. new \in {s \in Subscription : s.via = "channel"}
    BY <1>3 DEF Subscription
  <2>3. \A s \in net : [s EXCEPT !.listed = FALSE] \in {t \in Subscription : t.via = "channel"}
    BY DEF SwitchInv, SwitchTyped, Subscription
  <2>4. net' \subseteq {s \in Subscription : s.via = "channel"}
    BY <1>2, <2>2, <2>3 DEF SwitchInv, SwitchTyped
  <2> QED BY <1>5, <1>6, <2>1, <2>4 DEF SwitchTyped, OnlyOne
<1>10. Alone(f) /\ UNCHANGED <<active, shown>> /\ SwitchFrame'
  BY QuietAlone, FrameStays DEF Subscribes, switchVars, screenVars, SwitchInv, SwitchFrame
<1>11. SwitchFlow(f, flow[f])'
  <2>1. q.own = None => table'[c]["msg"] # None
    BY <1>1, <1>3, <1>4, <1>8 DEF SwitchFlow, Grown
  <2> QED BY <1>1, <1>4, <1>6, <2>1 DEF SwitchFlow, Filled, Selecting
<1>12. ASSUME NEW d \in Chans PROVE Backed(d)'
  <2>1. ASSUME NEW x, listed, d = c, x = p PROVE OnNet(d, x)'
    <3>1. new \in net' /\ new.chan = d /\ new.part = x /\ new.listed
      BY <1>2, <2>1
    <3> QED BY <3>1 DEF OnNet
  <2>2. ASSUME NEW x, OnNet(d, x) PROVE OnNet(d, x)'
    <3>1. PICK s \in net : s.chan = d /\ s.part = x /\ s.listed
      BY <2>2 DEF OnNet
    <3>2. CASE listed /\ d = c /\ x = p
      BY <2>1, <3>2
    <3>3. CASE ~(listed /\ d = c /\ x = p)
      <4>1. s \in net'
        BY <1>2, <3>1, <3>3
      <4> QED BY <3>1, <4>1 DEF OnNet
    <3> QED BY <3>2, <3>3
  <2>3. \A st : Ending(d, st) => Ending(d, st)'
    BY <1>1, <1>6 DEF Ending, Live, OnlyOne
  <2>4. Backed(d)
    BY DEF SwitchInv
  <2>5. ASSUME NEW x \in table'[d]["msg"], table'[d]["msg"] # None
        PROVE  x # Control /\ (OnNet(d, x)' \/ Ending(d, "msg")')
    <3>1. CASE x \in table[d]["msg"] /\ table[d]["msg"] # None
      BY <2>2, <2>3, <2>4, <3>1 DEF Backed
    <3>2. CASE d = c /\ p # Control /\ listed /\ x = p
      BY <2>1, <3>2
    <3> QED BY <1>5, <1>7, <2>5, <3>1, <3>2
  <2>6. ASSUME table'[d]["eph"] # None PROVE OnNet(d, Control)' \/ Ending(d, "eph")'
    BY <1>5, <2>1, <2>2, <2>3, <2>4, <2>6 DEF Backed
  <2> QED BY <2>5, <2>6 DEF Backed
<1>13. flow[f].on = active => active = None
  BY <1>1 DEF SwitchInv, ActiveLeft
<1> QED BY <1>1, <1>4, <1>6, <1>8, <1>9, <1>10, <1>11, <1>12, <1>13, WalkKeeps

LEMMA SubscribedKeeps ==
    ASSUME SwitchInv, NEW f \in Flows, Subscribed(f)
    PROVE  SwitchInv'
<1>1. f \in Live /\ flow[f].at = "subscribed" /\ SwitchFlow(f, flow[f]) /\ flow[f].op = "select" /\ ~Pausing(f)
  BY DEF Subscribed, At, SwitchInv, SwitchFlows, SwitchFlow, Pausing, Waiting
<1>2. Ends(f) /\ UNCHANGED <<tableVars, active, shown, screen, preview, clientVars, courseVars>>
  BY <1>1 DEF Subscribed, Superseded, screenVars
<1>3. OnlyOne(f) /\ flow'[f] = None /\ Alone(f) /\ Grown
  BY <1>1, <1>2, EndsIs, SwitchAlone, SameGrown DEF tableVars
<1>4. SwitchFrame' /\ SwitchTyped'
  BY <1>2, <1>3, FrameStays, TypedStays DEF tableVars, OnlyOne, SwitchInv, SwitchFrame
<1>5. SwitchFlows' /\ OneBusy' /\ OneEach'
  <2>1. ASSUME NEW g \in Live, flow[g].op = "select", flow[g].at \in {"leave", "activate"} PROVE active' # flow[g].chan
    BY <1>2, <2>1 DEF SwitchInv, SwitchFlows, SwitchFlow
  <2> QED BY <1>3, <2>1, OthersKeep
<1>6. \A c \in Chans : Backed(c)'
  BY <1>1, <1>2, <1>3, BackedKeeps
<1>7. ASSUME NEW c \in Chans, Held(c) PROVE Held(c)'
  <2>1. flow[f].chan = c => Complete(c)'
    BY <1>1, <1>2, <1>7 DEF Held, SwitchFlow, Complete, tableVars
  <2> QED BY <1>3, <1>7, <2>1, HeldKeeps
<1>8. \A g \in Live : g # f => g \in Live' /\ flow'[g] = flow[g]
  BY <1>3 DEF Live, OnlyOne
<1>9. HeldShown'
  BY <1>1, <1>2, <1>7, <1>8 DEF HeldShown, SwitchInv, SwitchFrame
<1>10. HeldActive'
  <2>1. flow[f].on = active => active = None
    BY <1>1 DEF SwitchInv, ActiveLeft
  <2> QED BY <1>2, <1>7, <1>8, <2>1 DEF HeldActive, SwitchInv, SwitchFrame
<1>11. ActiveLeft'
  BY <1>2, <1>3 DEF ActiveLeft, SwitchInv, Live, OnlyOne
<1> QED BY <1>4, <1>5, <1>6, <1>9, <1>10, <1>11 DEF SwitchInv

LEMMA StreamEndsHolds ==
    ASSUME SwitchInv, NEW f \in Flows, NEW s \in Streams, StreamEnds(f, s), Quiet
    PROVE  SwitchInv'
<1>1. /\ f \in Live /\ flow[f].at = "leave" /\ s \in flow[f].wait /\ SwitchFlow(f, flow[f]) /\ flow[f] \in Flow
  BY DEF StreamEnds, At, SwitchInv, SwitchFlows, SwitchTyped, Live
<1> DEFINE c == flow[f].on
           q == [flow[f] EXCEPT !.wait = @ \ {s}]
           fs == [flow EXCEPT ![f] = q]
           Loses(g) == s = "msg" /\ Filling(g) /\ flow[g].chan = c
<1>2. /\ table' = [table EXCEPT ![c][s] = None]
      /\ net' = Unreached({c}, s)
      /\ UNCHANGED <<clientVars, screenVars, switchVars, courseVars>>
  BY DEF StreamEnds
<1>3. flow' = IF s = "msg" THEN Parted(fs, {c}) ELSE fs
  <2>1. f \in DOMAIN flow /\ "wait" \in DOMAIN flow[f]
    BY <1>1 DEF SwitchInv, SwitchTyped, Flow
  <2>2. fs = [flow EXCEPT ![f].wait = @ \ {s}]
    BY <2>1
  <2> QED BY <2>2 DEF StreamEnds
<1>4. /\ q \in Flow /\ q.at = "leave" /\ q.op = flow[f].op /\ q.chan = flow[f].chan /\ q.on = c /\ q.then = flow[f].then
      /\ q.own = flow[f].own /\ q.late = flow[f].late /\ q.wait = flow[f].wait \ {s} /\ q # None
  BY <1>1, NoFlowAssumption DEF Flow
<1> HIDE DEF q
<1>5. flow'[f] = q
  <2>1. ~Filling(f) /\ f \in DOMAIN flow
    BY <1>1 DEF Filling, SwitchInv, SwitchTyped
  <2> QED BY <1>3, <2>1 DEF Parted
<1>6. ASSUME NEW g \in Live, g # f
      PROVE  /\ flow'[g] \in Flow /\ flow'[g] # None
             /\ flow'[g].at = flow[g].at /\ flow'[g].op = flow[g].op /\ flow'[g].chan = flow[g].chan
             /\ flow'[g].on = flow[g].on /\ flow'[g].then = flow[g].then /\ flow'[g].late = flow[g].late
             /\ flow'[g].wait = flow[g].wait /\ flow'[g].part = flow[g].part
             /\ flow'[g].own = IF Loses(g) THEN table[flow[g].chan]["msg"] ELSE flow[g].own
             /\ Loses(g) => flow'[g].own # None
  <2>1. g \in Flows /\ flow[g] \in Flow /\ fs[g] = flow[g] /\ SwitchFlow(g, flow[g])
    BY <1>6 DEF Live, SwitchInv, SwitchTyped, SwitchFlows
  <2>2. CASE ~Loses(g)
    <3>1. flow'[g] = flow[g]
      BY <1>3, <2>1, <2>2 DEF Parted
    <3> QED BY <2>1, <2>2, <3>1, NoFlowAssumption
  <2>3. CASE Loses(g)
    <3>1. flow'[g] = [flow[g] EXCEPT !.own = table[flow[g].chan]["msg"]]
      BY <1>3, <2>1, <2>3 DEF Parted
    <3>2. flow[g].op = "select" /\ flow[g].chan \in Chans /\ flow[g].own = None
      BY <2>1, <2>3 DEF Filling, SwitchFlow
    <3>3. table[flow[g].chan]["msg"] # None /\ table[flow[g].chan]["msg"] \in SUBSET MsgParts
      BY <2>1, <2>3, <3>2 DEF Filling, SwitchFlow, SwitchInv, SwitchTyped
    <3>4. flow'[g] \in Flow
      BY <2>1, <3>1, <3>3 DEF Flow
    <3> QED BY <2>1, <2>3, <3>1, <3>3, <3>4, NoFlowAssumption DEF Flow
  <2> QED BY <2>2, <2>3
<1>7. flow' \in [Flows -> Flow \cup {None}] /\ Live' = Live
  <2>1. DOMAIN flow' = Flows /\ flow' = [g \in Flows |-> flow'[g]]
    BY <1>3 DEF Parted, SwitchInv, SwitchTyped
  <2>2. ASSUME NEW g \in Flows, flow[g] = None PROVE flow'[g] = None
    <3>1. ~Filling(g) /\ fs[g] = None
      BY <1>1, <2>2 DEF Filling, Live, SwitchInv, SwitchTyped
    <3> QED BY <1>3, <3>1 DEF Parted
  <2>3. \A g \in Flows : flow'[g] \in Flow \cup {None} /\ (flow'[g] = None <=> flow[g] = None)
    BY <1>1, <1>4, <1>5, <1>6, <2>2 DEF Live
  <2> QED BY <2>1, <2>3 DEF Live
<1>8. /\ table' \in [Chans -> [Streams -> {None} \cup SUBSET AllParts]]
      /\ \A d \in Chans, t \in Streams : table'[d][t] = IF d = c /\ t = s THEN None ELSE table[d][t]
  BY <1>2 DEF SwitchInv, SwitchTyped
<1>9. SwitchTyped'
  <2>1. \A d \in Chans : table'[d]["msg"] \in {None} \cup SUBSET MsgParts
    BY <1>8 DEF SwitchInv, SwitchTyped, Streams
  <2>2. \A t \in net : [t EXCEPT !.listed = FALSE] \in {x \in Subscription : x.via = "channel"}
    BY DEF SwitchInv, SwitchTyped, Subscription
  <2>3. net' \subseteq {x \in Subscription : x.via = "channel"}
    BY <1>2, <2>2 DEF Unreached, SwitchInv, SwitchTyped
  <2> QED BY <1>7, <1>8, <2>1, <2>3 DEF SwitchTyped
<1>10. SwitchFrame' /\ UNCHANGED <<active, shown>>
  BY <1>2, FrameStays DEF screenVars, switchVars, SwitchInv, SwitchFrame
<1>11. \A g \in Live : flow'[g].op = flow[g].op /\ flow'[g].chan = flow[g].chan /\ flow'[g].on = flow[g].on /\ flow'[g].at = flow[g].at
  BY <1>1, <1>4, <1>5, <1>6
<1>12. SwitchFlows'
  <2> SUFFICES ASSUME NEW g \in Live PROVE SwitchFlow(g, flow[g])'
    BY <1>7 DEF SwitchFlows
  <2>1. SwitchFlow(g, flow[g]) /\ flow[g].at \in Waiting
    BY DEF SwitchInv, SwitchFlows, Quiet, Pausing
  <2>2. \A d : Apart(g, d) => Apart(g, d)'
    BY <1>7, <1>11 DEF Apart
  <2>3. CASE g = f
    BY <1>1, <1>4, <1>5, <1>10, <2>1, <2>2, <2>3 DEF SwitchFlow
  <2>4. CASE g # f
    <3>1. flow[g].at \in {"next", "subscribe"} /\ flow'[g].own = None => table'[flow[g].chan]["msg"] # None
      <4>1. SUFFICES ASSUME flow[g].at \in {"next", "subscribe"}, flow'[g].own = None PROVE table'[flow[g].chan]["msg"] # None
        OBVIOUS
      <4>2. ~Loses(g) /\ flow[g].own = None
        BY <1>6, <2>4, <4>1
      <4>3. Filling(g)
        BY <4>1, <4>2 DEF Filling, Live
      <4>4. flow[g].chan \in Chans /\ table[flow[g].chan]["msg"] # None
        BY <2>1, <4>1, <4>2 DEF SwitchFlow
      <4> QED BY <1>8, <4>2, <4>3, <4>4 DEF Streams
    <3>2. flow[g].at \notin Filled => flow'[g].own = None
      BY <1>6, <2>1, <2>4 DEF SwitchFlow, Filling, Filled
    <3>3. flow[g].at \notin {"arrive", "subscribed"}
      BY <2>1 DEF Waiting
    <3> QED BY <1>6, <1>10, <2>1, <2>2, <2>4, <3>1, <3>2, <3>3 DEF SwitchFlow
  <2> QED BY <2>3, <2>4
<1>13. OneBusy'
  <2>1. \A g \in Live : g # f => ~Busy(g)'
    BY <1>6 DEF Quiet, Busy, Pausing
  <2> QED BY <1>7, <2>1 DEF OneBusy, Busy
<1>14. OneEach'
  BY <1>7, <1>11 DEF OneEach, SwitchInv
<1>15. ASSUME NEW d \in Chans PROVE Backed(d)'
  <2>1. ASSUME NEW t \in Streams, ~(d = c /\ t = s), Ending(d, t) PROVE Ending(d, t)'
    <3>1. PICK g \in Live : flow[g].at = "leave" /\ flow[g].on = d /\ t \in flow[g].wait
      BY <2>1 DEF Ending
    <3>2. t \in flow'[g].wait
      BY <1>4, <1>5, <1>6, <2>1, <3>1
    <3> QED BY <1>7, <1>11, <3>1, <3>2 DEF Ending
  <2>2. ASSUME NEW x, ~(d = c /\ StreamOf(x) = s), OnNet(d, x) PROVE OnNet(d, x)'
    <3>1. PICK t \in net : t.chan = d /\ t.part = x /\ t.listed
      BY <2>2 DEF OnNet
    <3>2. t \in net'
      BY <1>2, <2>2, <3>1 DEF Unreached
    <3> QED BY <3>1, <3>2 DEF OnNet
  <2>3. Backed(d) /\ "msg" \in Streams /\ "eph" \in Streams
    BY DEF SwitchInv, Streams
  <2>4. ASSUME table'[d]["msg"] # None, NEW x \in table'[d]["msg"] PROVE x # Control /\ (OnNet(d, x)' \/ Ending(d, "msg")')
    <3>1. ~(d = c /\ "msg" = s) /\ table[d]["msg"] # None /\ x \in table[d]["msg"]
      BY <1>8, <2>3, <2>4
    <3>2. x # Control /\ (OnNet(d, x) \/ Ending(d, "msg"))
      BY <2>3, <3>1 DEF Backed
    <3> QED BY <2>1, <2>2, <2>3, <3>1, <3>2 DEF StreamOf
  <2>5. ASSUME table'[d]["eph"] # None PROVE OnNet(d, Control)' \/ Ending(d, "eph")'
    <3>1. ~(d = c /\ "eph" = s) /\ table[d]["eph"] # None
      BY <1>8, <2>3, <2>5
    <3> QED BY <2>1, <2>2, <2>3, <3>1 DEF StreamOf, Backed
  <2> QED BY <2>4, <2>5 DEF Backed
<1>16. ASSUME NEW d \in Chans, Held(d) PROVE Held(d)'
  <2>1. d # c
    BY <1>1, <1>16 DEF Held
  <2>2. Complete(d) => Complete(d)'
    BY <1>8, <2>1 DEF Complete, Streams
  <2>3. ASSUME NEW g \in Live, flow[g].chan = d PROVE flow'[g].own = None
    BY <1>4, <1>5, <1>6, <1>16, <2>1, <2>3 DEF Held
  <2> QED BY <1>7, <1>11, <1>16, <2>2, <2>3 DEF Held
<1>17. HeldShown' /\ HeldActive' /\ ActiveLeft'
  BY <1>7, <1>10, <1>11, <1>16 DEF HeldShown, HeldActive, ActiveLeft, SwitchInv, SwitchFrame
<1> QED BY <1>9, <1>10, <1>12, <1>13, <1>14, <1>15, <1>17 DEF SwitchInv

LEMMA LeaveIs ==
    ASSUME SwitchInv, NEW f \in Live, NEW c \in Chans, NEW then \in Running, Leave(f, c, then)
    PROVE  /\ OnlyOne(f) /\ flow'[f] # None /\ flow'[f].at = "leave" /\ flow'[f].on = c /\ flow'[f].then = then
           /\ flow'[f].op = flow[f].op /\ flow'[f].chan = flow[f].chan /\ flow'[f].own = flow[f].own
           /\ flow'[f].late = flow[f].late /\ flow'[f].wait = Listed(c)
           /\ table' = table /\ net' = Quieted(c)
<1> DEFINE q == [flow[f] EXCEPT !.at = "leave", !.on = c, !.wait = Listed(c), !.then = then]
<1>1. f \in Flows /\ flow[f] \in Flow /\ f \in DOMAIN flow /\ DOMAIN flow[f] = Fields
  BY DEF Live, SwitchInv, SwitchTyped, Flow, Fields
<1>2. flow' = [flow EXCEPT ![f] = q]
  BY <1>1 DEF Leave, Fields
<1>3. Listed(c) \in SUBSET Streams
  BY DEF Listed
<1>4. q \in Flow
  BY <1>1, <1>3 DEF Flow, Waiting
<1>5. /\ q.at = "leave" /\ q.op = flow[f].op /\ q.chan = flow[f].chan /\ q.on = c
      /\ q.then = then /\ q.own = flow[f].own /\ q.late = flow[f].late /\ q.wait = Listed(c)
  BY <1>1 DEF Fields
<1> HIDE DEF q
<1>6. table' = table /\ net' = Quieted(c)
  BY DEF Leave
<1> QED BY <1>1, <1>2, <1>4, <1>5, <1>6, OneMoves

\* What the table lists of a channel that is left ends with its streams.
LEMMA LeaveBacks ==
    ASSUME SwitchInv, NEW f \in Live, NEW c \in Chans, NEW then \in Running, Leave(f, c, then), flow[f].at # "leave"
    PROVE  \A d \in Chans : Backed(d)'
<1>1. /\ OnlyOne(f) /\ flow'[f] # None /\ flow'[f].at = "leave" /\ flow'[f].on = c /\ flow'[f].wait = Listed(c)
      /\ table' = table /\ net' = Quieted(c) /\ f \in Flows
  BY LeaveIs DEF Live
<1>2. ASSUME NEW d \in Chans PROVE Backed(d)'
  <2>1. \A x : d # c /\ OnNet(d, x) => OnNet(d, x)'
    BY <1>1 DEF OnNet, Quieted
  <2>2. \A st : Ending(d, st) => Ending(d, st)'
    BY <1>1 DEF Ending, Live, OnlyOne
  <2>3. \A st \in Streams : d = c /\ table[d][st] # None => Ending(d, st)'
    BY <1>1 DEF Ending, Live, Listed
  <2>4. Backed(d) /\ "msg" \in Streams /\ "eph" \in Streams
    BY DEF SwitchInv, Streams
  <2> QED BY <1>1, <2>1, <2>2, <2>3, <2>4 DEF Backed
<1> QED BY <1>2

LEMMA ActivateKeeps ==
    ASSUME SwitchInv, NEW f \in Flows, Activate(f)
    PROVE  SwitchInv'
<1>1. /\ f \in Live /\ flow[f].at = "activate" /\ SwitchFlow(f, flow[f]) /\ flow[f].op = "select" /\ ~Pausing(f)
      /\ flow[f].chan \in Chans /\ Apart(f, flow[f].chan) /\ flow[f].on # flow[f].chan /\ flow[f].own = None
  BY DEF Activate, At, SwitchInv, SwitchFlows, SwitchFlow, Pausing, Waiting, Filled
<1>2. Goes(f, "prepare") /\ active' = flow[f].chan /\ UNCHANGED <<tableVars, shown, screen, preview, clientVars, courseVars>>
  BY DEF Activate, screenVars
<1>3. /\ OnlyOne(f) /\ flow'[f] # None /\ flow'[f].at = "prepare" /\ flow'[f].op = flow[f].op
      /\ flow'[f].chan = flow[f].chan /\ flow'[f].on = flow[f].on /\ flow'[f].own = flow[f].own
      /\ flow'[f].late = flow[f].late
  BY <1>1, <1>2, GoesIs DEF Waiting
<1>4. SwitchFrame' /\ SwitchTyped' /\ Grown /\ Alone(f)
  BY <1>1, <1>2, <1>3, FrameStays, TypedStays, SameGrown, SwitchAlone DEF tableVars, OnlyOne, SwitchInv, SwitchFrame
<1>5. SwitchFlow(f, flow[f])'
  BY <1>1, <1>3 DEF SwitchFlow, Filled, Selecting
<1>6. SwitchFlows' /\ OneBusy' /\ OneEach'
  <2> SUFFICES ASSUME NEW g \in Live, g # f, flow[g].op = "select"
               PROVE  /\ flow[g].at \in {"leave", "activate"} => active' # flow[g].chan /\ flow'[f].on # flow[g].chan
                      /\ flow'[f].chan # flow[g].chan
    BY <1>3, <1>4, <1>5, OthersKeep
  <2>1. SwitchFlow(g, flow[g]) /\ flow[g].chan # flow[f].chan
    BY <1>1 DEF SwitchInv, SwitchFlows, Apart
  <2> QED BY <1>1, <1>2, <1>3, <2>1 DEF SwitchFlow, Apart
<1>7. \A c \in Chans : Backed(c)'
  BY <1>1, <1>2, <1>3, BackedKeeps
<1>8. Live' = Live /\ \A g \in Live : flow'[g].op = flow[g].op /\ flow'[g].on = flow[g].on /\ flow'[g].chan = flow[g].chan
  BY <1>1, <1>3 DEF Live, OnlyOne
<1>9. ASSUME NEW c \in Chans, Held(c) PROVE Held(c)'
  <2>1. flow[f].on # c /\ (flow[f].chan = c => flow[f].own = None)
    BY <1>1, <1>9 DEF Held
  <2> QED BY <1>1, <1>3, <1>4, <1>9, <2>1, HeldKeeps
<1>10. HeldShown'
  BY <1>2, <1>8, <1>9 DEF HeldShown, SwitchInv, SwitchFrame
<1>11. \A g \in Live : flow[g].on # flow[f].chan /\ (flow[g].chan = flow[f].chan => g = f)
  BY <1>1 DEF Apart
<1>12. HeldActive'
  BY <1>1, <1>2, <1>3, <1>8, <1>11 DEF HeldActive, Held
<1>13. ActiveLeft'
  BY <1>2, <1>8, <1>11 DEF ActiveLeft
<1> QED BY <1>4, <1>6, <1>7, <1>10, <1>12, <1>13 DEF SwitchInv

LEMMA ClosedKeeps ==
    ASSUME SwitchInv, NEW f \in Flows, Closed(f)
    PROVE  SwitchInv'
<1>1. f \in Live /\ flow[f].at = "closed" /\ ~Pausing(f)
  BY DEF Closed, At, Pausing, Waiting
<1>2. Ends(f) /\ active' = None /\ shown' = None /\ UNCHANGED <<tableVars, screen, preview, clientVars, courseVars>>
  BY DEF Closed
<1>3. OnlyOne(f) /\ flow'[f] = None /\ Alone(f) /\ Grown
  BY <1>1, <1>2, EndsIs, SwitchAlone, SameGrown DEF tableVars
<1>4. SwitchFrame' /\ SwitchTyped'
  BY <1>2, <1>3, FrameStays, TypedStays DEF tableVars, OnlyOne
<1>5. SwitchFlows' /\ OneBusy' /\ OneEach'
  <2>1. ASSUME NEW g \in Live, flow[g].op = "select" PROVE active' # flow[g].chan
    BY <1>2, <2>1, SubscriptionsAssumption DEF SwitchInv, SwitchFlows, SwitchFlow
  <2> QED BY <1>3, <2>1, OthersKeep
<1>6. \A c \in Chans : Backed(c)'
  BY <1>1, <1>2, <1>3, BackedKeeps
<1>7. HeldShown' /\ HeldActive' /\ ActiveLeft'
  BY <1>2 DEF HeldShown, HeldActive, ActiveLeft
<1> QED BY <1>4, <1>5, <1>6, <1>7 DEF SwitchInv

LEMMA ClosingKeeps ==
    ASSUME SwitchInv, NEW f \in Flows, Closing(f)
    PROVE  SwitchInv'
<1>1. /\ f \in Live /\ flow[f].at = "closing" /\ SwitchFlow(f, flow[f]) /\ flow[f].op = "close" /\ ~Pausing(f)
      /\ flow[f].chan = None /\ flow[f].own = None /\ ~flow[f].late
  BY DEF Closing, At, SwitchInv, SwitchFlows, SwitchFlow, Pausing, Waiting, Filled, Selecting
<1>2. UNCHANGED <<active, shown, screen, preview, clientVars, courseVars>>
  BY DEF Closing, screenVars
<1>3. /\ OnlyOne(f) /\ flow'[f] # None /\ flow'[f].op = "close" /\ flow'[f].chan = None /\ flow'[f].own = None
      /\ ~flow'[f].late /\ table' = table
      /\ flow'[f].at = "closed" \/ (flow'[f].at = "leave" /\ flow'[f].then = "closed")
      /\ active = None \/ flow'[f].on = active
      /\ active = None => flow'[f].on = flow[f].on
      /\ net' = net \/ \E c : net' = Quieted(c)
      /\ \A c \in Chans : Backed(c)'
  <2>1. CASE active = None
    <3>1. Goes(f, "closed") /\ UNCHANGED tableVars
      BY <2>1 DEF Closing
    <3>2. /\ OnlyOne(f) /\ flow'[f] # None /\ flow'[f].at = "closed" /\ flow'[f].op = flow[f].op
          /\ flow'[f].chan = flow[f].chan /\ flow'[f].on = flow[f].on /\ flow'[f].own = flow[f].own
          /\ flow'[f].late = flow[f].late
      BY <1>1, <3>1, GoesIs DEF Running
    <3>3. \A c \in Chans : Backed(c)'
      BY <1>1, <3>1, <3>2, BackedKeeps
    <3> QED BY <1>1, <2>1, <3>1, <3>2, <3>3 DEF tableVars
  <2>2. CASE active # None
    <3>1. Leave(f, active, "closed") /\ active \in Chans /\ "closed" \in Running
      BY <2>2 DEF Closing, SwitchInv, SwitchFrame, Running
    <3>2. PICK c \in Chans : c = active
      BY <3>1
    <3>3. /\ OnlyOne(f) /\ flow'[f] # None /\ flow'[f].at = "leave" /\ flow'[f].on = c /\ flow'[f].then = "closed"
          /\ flow'[f].op = flow[f].op /\ flow'[f].chan = flow[f].chan /\ flow'[f].own = flow[f].own
          /\ flow'[f].late = flow[f].late /\ table' = table /\ net' = Quieted(c)
      BY <1>1, <3>1, <3>2, LeaveIs
    <3>4. \A d \in Chans : Backed(d)'
      BY <1>1, <3>1, <3>2, LeaveBacks
    <3> QED BY <1>1, <2>2, <3>2, <3>3, <3>4
  <2> QED BY <2>1, <2>2
<1>4. SwitchFrame' /\ SwitchTyped' /\ Grown /\ Alone(f)
  BY <1>1, <1>2, <1>3, FrameStays, TypedStays, SameGrown, SwitchAlone DEF OnlyOne, SwitchInv, SwitchFrame
<1>5. SwitchFlow(f, flow[f])'
  BY <1>1, <1>3 DEF SwitchFlow, Filled
<1>6. SwitchFlows' /\ OneBusy' /\ OneEach'
  <2> SUFFICES ASSUME NEW g \in Live, g # f, flow[g].op = "select"
               PROVE  /\ flow[g].at \in {"leave", "activate"} => active' # flow[g].chan /\ flow'[f].on # flow[g].chan
                      /\ flow'[f].chan # flow[g].chan
    BY <1>3, <1>4, <1>5, OthersKeep
  <2>1. SwitchFlow(g, flow[g])
    BY DEF SwitchInv, SwitchFlows
  <2> QED BY <1>1, <1>2, <1>3, <2>1, SubscriptionsAssumption DEF SwitchFlow, Apart
<1>7. Live' = Live /\ \A g \in Live : g # f => flow'[g] = flow[g]
  BY <1>1, <1>3 DEF Live, OnlyOne
<1>8. HeldShown' /\ HeldActive' /\ ActiveLeft'
  <2>1. HeldShown'
    BY <1>1, <1>3, <1>7 DEF HeldShown
  <2>2. HeldActive'
    BY <1>1, <1>2, <1>3, <1>7 DEF HeldActive
  <2>3. ActiveLeft'
    BY <1>1, <1>2, <1>3, <1>7 DEF ActiveLeft, SwitchInv
  <2> QED BY <2>1, <2>2, <2>3
<1> QED BY <1>3, <1>4, <1>6, <1>8 DEF SwitchInv

LEMMA ArriveKeeps ==
    ASSUME SwitchInv, NEW f \in Flows, Arrive(f)
    PROVE  SwitchInv'
<1>1. /\ f \in Live /\ flow[f].at = "arrive" /\ SwitchFlow(f, flow[f]) /\ flow[f].op = "select" /\ ~Pausing(f)
      /\ flow[f].chan \in Chans /\ flow[f].own = None /\ ~flow[f].late /\ flow[f].on = None
      /\ Apart(f, flow[f].chan) /\ (active = flow[f].chan => Complete(flow[f].chan))
  BY DEF Arrive, At, SwitchInv, SwitchFlows, SwitchFlow, Pausing, Waiting, Filled
<1>2. PICK c \in Chans : c = flow[f].chan
  BY <1>1
<1>3. shown' = c /\ UNCHANGED <<active, screen, preview, clientVars, courseVars>> /\ Alone(f) /\ SwitchFrame'
  BY <1>1, <1>2, SwitchAlone, FrameStays DEF Arrive, SwitchInv, SwitchFrame
<1>4. \A g \in Live : g # f => flow[g].on # c /\ flow[g].chan # c
  BY <1>1, <1>2 DEF Apart
<1>5. CASE active = c
  <2>1. Ends(f) /\ UNCHANGED tableVars
    BY <1>2, <1>5, SubscriptionsAssumption DEF Arrive
  <2>2. OnlyOne(f) /\ flow'[f] = None /\ Grown
    BY <1>1, <2>1, EndsIs, SameGrown DEF tableVars
  <2>3. SwitchTyped'
    BY <2>1, <2>2, TypedStays DEF tableVars, OnlyOne
  <2>4. SwitchFlows' /\ OneBusy' /\ OneEach'
    <3>1. ASSUME NEW g \in Live, flow[g].op = "select", flow[g].at \in {"leave", "activate"} PROVE active' # flow[g].chan
      BY <1>3, <3>1 DEF SwitchInv, SwitchFlows, SwitchFlow
    <3> QED BY <1>3, <2>2, <3>1, OthersKeep
  <2>5. \A d \in Chans : Backed(d)'
    BY <1>1, <2>1, <2>2, BackedKeeps
  <2>6. \A g \in Live' : g \in Live /\ g # f /\ flow'[g] = flow[g]
    BY <2>2 DEF Live, OnlyOne
  <2>7. Complete(c)'
    <3>1. Complete(c)
      BY <1>1, <1>2, <1>5
    <3> QED BY <2>1, <3>1 DEF Complete, tableVars
  <2>8. Held(c)'
    BY <1>4, <2>6, <2>7 DEF Held
  <2>9. HeldShown' /\ HeldActive'
    BY <1>3, <1>5, <2>8 DEF HeldShown, HeldActive
  <2>10. ActiveLeft'
    BY <1>4, <1>3, <1>5, <2>6 DEF ActiveLeft
  <2> QED BY <1>3, <2>3, <2>4, <2>5, <2>9, <2>10 DEF SwitchInv
<1>6. CASE active # c
  <2>1. /\ OnlyOne(f) /\ flow'[f] # None /\ flow'[f].op = "select" /\ flow'[f].chan = c /\ flow'[f].own = None
        /\ ~flow'[f].late /\ table' = table
        /\ flow'[f].at = "activate" \/ (flow'[f].at = "leave" /\ flow'[f].then = "activate")
        /\ flow'[f].on = active
        /\ net' = net \/ \E d : net' = Quieted(d)
        /\ active # None => flow'[f].at = "leave"
        /\ \A d \in Chans : Backed(d)'
    <3>1. CASE active = None
      <4>1. Goes(f, "activate") /\ UNCHANGED tableVars
        BY <1>1, <3>1, SubscriptionsAssumption DEF Arrive
      <4>2. /\ OnlyOne(f) /\ flow'[f] # None /\ flow'[f].at = "activate" /\ flow'[f].op = flow[f].op
            /\ flow'[f].chan = flow[f].chan /\ flow'[f].on = flow[f].on /\ flow'[f].own = flow[f].own
            /\ flow'[f].late = flow[f].late
        BY <1>1, <4>1, GoesIs DEF Running
      <4>3. \A d \in Chans : Backed(d)'
        BY <1>1, <4>1, <4>2, BackedKeeps
      <4> QED BY <1>1, <1>2, <3>1, <4>1, <4>2, <4>3 DEF tableVars
    <3>2. CASE active # None
      <4>1. Leave(f, active, "activate") /\ active \in Chans /\ "activate" \in Running
        BY <1>2, <1>6, <3>2 DEF Arrive, SwitchInv, SwitchFrame, Running
      <4>2. PICK d \in Chans : d = active
        BY <4>1
      <4>3. /\ OnlyOne(f) /\ flow'[f] # None /\ flow'[f].at = "leave" /\ flow'[f].on = d /\ flow'[f].then = "activate"
            /\ flow'[f].op = flow[f].op /\ flow'[f].chan = flow[f].chan /\ flow'[f].own = flow[f].own
            /\ flow'[f].late = flow[f].late /\ table' = table /\ net' = Quieted(d)
        BY <1>1, <4>1, <4>2, LeaveIs
      <4>4. \A x \in Chans : Backed(x)'
        BY <1>1, <4>1, <4>2, LeaveBacks
      <4> QED BY <1>1, <1>2, <3>2, <4>2, <4>3, <4>4
    <3> QED BY <3>1, <3>2
  <2>2. SwitchTyped' /\ Grown
    BY <2>1, TypedStays, SameGrown DEF OnlyOne
  <2>3. Live' = Live /\ \A g \in Live : g # f => flow'[g] = flow[g]
    BY <1>1, <2>1 DEF Live, OnlyOne
  <2>4. SwitchFlow(f, flow[f])'
    <3>1. \A g \in Live : g # f => flow'[g].on # flow'[f].chan /\ flow'[g].chan # flow'[f].chan
      BY <1>4, <2>1, <2>3
    <3>2. Apart(f, flow[f].chan)'
      BY <2>3, <3>1 DEF Apart
    <3> QED BY <1>2, <1>3, <1>6, <2>1, <3>2 DEF SwitchFlow, Filled, Selecting
  <2>5. SwitchFlows' /\ OneBusy' /\ OneEach'
    <3> SUFFICES ASSUME NEW g \in Live, g # f, flow[g].op = "select"
                 PROVE  /\ flow[g].at \in {"leave", "activate"} => active' # flow[g].chan /\ flow'[f].on # flow[g].chan
                        /\ flow'[f].chan # flow[g].chan
      BY <1>3, <2>1, <2>2, <2>4, OthersKeep
    <3>1. SwitchFlow(g, flow[g]) /\ flow[g].chan # c
      BY <1>4 DEF SwitchInv, SwitchFlows
    <3> QED BY <1>3, <2>1, <3>1 DEF SwitchFlow
  <2>6. Held(c)'
    <3>1. \A g \in Live : flow'[g].on # c /\ (flow'[g].chan = c => flow'[g].own = None)
      BY <1>4, <1>6, <2>1, <2>3
    <3> QED BY <1>1, <2>1, <2>3, <3>1 DEF Held
  <2>7. HeldShown' /\ HeldActive'
    BY <1>1, <1>3, <2>1, <2>3, <2>6 DEF HeldShown, HeldActive
  <2>8. ActiveLeft'
    BY <1>1, <1>3, <2>1, <2>3 DEF ActiveLeft, SwitchInv
  <2> QED BY <1>3, <2>1, <2>2, <2>5, <2>7, <2>8 DEF SwitchInv
<1> QED BY <1>5, <1>6

LEMMA ChoosesCalm ==
    ASSUME SwitchInv, NEW e \in {"select", "close"}, NEW c, Chooses(e, c), UNCHANGED joined
    PROVE  /\ ~TooSoon(e, c)
           /\ left' \in [Events -> Nat] /\ left'.enter = 0 /\ left'.again = 0 /\ left'.fail = 0 /\ left'.late = 0
<1>1. left[e] \in Nat /\ left[e] > 0 /\ left \in [Events -> Nat] /\ left.again = 0
  BY ChoosesIs DEF SwitchInv, SwitchFrame, Events
<1>2. ~TooSoon(e, c)
  BY <1>1, ChoosesIs
<1>3. left' = [left EXCEPT ![e] = left[e] - 1, !.again = left.again]
  BY <1>1, <1>2 DEF Chooses, Events
<1>4. left[e] - 1 \in Nat /\ e # "again" /\ {e, "again", "enter", "fail", "late"} \subseteq Events
  BY <1>1 DEF Events
<1>5. left' = [left EXCEPT ![e] = left[e] - 1]
  BY <1>1, <1>3, <1>4
<1>6. left.enter = 0 /\ left.fail = 0 /\ left.late = 0 /\ e \notin {"enter", "fail", "late"}
  BY DEF SwitchInv, SwitchFrame
<1> QED BY <1>1, <1>2, <1>4, <1>5, <1>6

\* a click starts a handler beside those under way
LEMMA SwitchStarts ==
    ASSUME SwitchInv, Quiet, NEW r \in Flow, Starts(flow, r), UNCHANGED <<clientVars, screenVars, switchVars, tableVars>>,
           joined' = joined,
           left' \in [Events -> Nat] /\ left'.enter = 0 /\ left'.again = 0 /\ left'.fail = 0 /\ left'.late = 0,
           r.own = None /\ r.on = None /\ ~r.late,
           \/ r.op = "close" /\ r.at = "closing" /\ r.chan = None
           \/ /\ r.op = "select" /\ r.at = "arrive" /\ r.chan \in Chans
              /\ \A g \in Live : flow[g].on # r.chan /\ flow[g].chan # r.chan
              /\ active = r.chan => Complete(r.chan)
    PROVE  SwitchInv'
<1>1. PICK f \in Free : flow' = [flow EXCEPT ![f] = r]
  BY DEF Starts
<1>2. f \in Flows /\ flow[f] = None /\ f \notin Live
  BY <1>1 DEF Free, Flows, Live
<1>3. OnlyOne(f) /\ flow'[f] = r /\ r # None
  BY <1>1, <1>2, OneMoves
<1>4. UNCHANGED <<active, shown, screen, preview>> /\ Alone(f) /\ Grown
  BY QuietAlone, SameGrown DEF screenVars, switchVars, tableVars
<1>5. SwitchFrame' /\ SwitchTyped'
  <2>1. SwitchFrame'
    BY <1>4 DEF SwitchInv, SwitchFrame, FirstClient, clientVars
  <2>2. SwitchTyped'
    BY <1>3, TypedStays DEF OnlyOne, tableVars
  <2> QED BY <2>1, <2>2
<1>6. Live' = Live \cup {f} /\ \A g \in Live : flow'[g] = flow[g] /\ g # f
  BY <1>2, <1>3 DEF Live, OnlyOne
<1>7. SwitchFlow(f, flow[f])'
  <2>1. CASE r.op = "close"
    BY <1>3, <2>1 DEF SwitchFlow, Filled, Selecting
  <2>2. CASE r.op = "select"
    <3>1. \A g \in Live' : g # f => flow'[g].on # r.chan /\ flow'[g].chan # r.chan
      BY <1>6, <2>2
    <3>2. Apart(f, flow[f].chan)'
      BY <1>3, <3>1 DEF Apart
    <3>3. active' = flow'[f].chan => Complete(flow[f].chan)'
      BY <1>3, <1>4, <2>2 DEF Complete, tableVars
    <3>4. r.on # r.chan
      BY <2>2, SubscriptionsAssumption
    <3> QED BY <1>3, <2>2, <3>2, <3>3, <3>4 DEF SwitchFlow, Filled, Selecting
  <2> QED BY <2>1, <2>2
<1>8. SwitchFlows' /\ OneBusy' /\ OneEach'
  <2> SUFFICES ASSUME NEW g \in Live, g # f, flow[g].op = "select"
               PROVE  /\ flow[g].at \in {"leave", "activate"} => active' # flow[g].chan /\ flow'[f].on # flow[g].chan
                      /\ flow'[f].chan # flow[g].chan
    BY <1>2, <1>3, <1>4, <1>7, OthersKeep
  <2>1. SwitchFlow(g, flow[g]) /\ flow[g].chan \in Chans
    BY DEF SwitchInv, SwitchFlows, SwitchFlow
  <2> QED BY <1>3, <1>4, <2>1, SubscriptionsAssumption DEF SwitchFlow
<1>9. \A c \in Chans : Backed(c)'
  BY <1>2, <1>3, BackedKeeps
<1>10. ASSUME NEW c \in Chans, Held(c) PROVE Held(c)'
  <2>1. r.on # c
    BY SubscriptionsAssumption
  <2> QED BY <1>2, <1>3, <1>4, <1>10, <2>1, HeldKeeps
<1>11. HeldShown'
  BY <1>4, <1>6, <1>10 DEF HeldShown, SwitchInv, SwitchFrame
<1>12. HeldActive'
  BY <1>4, <1>6, <1>10 DEF HeldActive, SwitchInv, SwitchFrame
<1>13. ActiveLeft'
  BY <1>3, <1>4, <1>6 DEF ActiveLeft, SwitchInv
<1> QED BY <1>5, <1>8, <1>9, <1>11, <1>12, <1>13 DEF SwitchInv

LEMMA SwitchClick ==
    ASSUME SwitchInv, Quiet, Click
    PROVE  SwitchInv'
<1>1. Exiting = flow /\ screen = None
  BY DEF Exiting, SwitchInv, SwitchFrame
<1>2. ASSUME NEW c \in Chans, Select(c) PROVE SwitchInv'
  <2> DEFINE r == New("select", "arrive", c)
  <2>1. Chooses("select", c) /\ Starts(flow, r) /\ UNCHANGED <<clientVars, screenVars, switchVars, tableVars, joined>>
    BY <1>1, <1>2 DEF Select
  <2>2. /\ ~TooSoon("select", c)
        /\ left' \in [Events -> Nat] /\ left'.enter = 0 /\ left'.again = 0 /\ left'.fail = 0 /\ left'.late = 0
    BY <2>1, ChoosesCalm
  <2>3. Live = {} \/ c \notin Concerned
    BY <2>2, SubscriptionsAssumption DEF TooSoon
  <2>4. \A g \in Live : flow[g].on # c /\ flow[g].chan # c
    BY <2>3 DEF Concerned
  <2>5. active = c => Complete(c)
    BY <2>3, SubscriptionsAssumption DEF Concerned, SwitchInv, HeldActive, Held
  <2>6. r \in Flow /\ r.own = None /\ r.on = None /\ ~r.late /\ r.op = "select" /\ r.at = "arrive" /\ r.chan = c
    BY DEF New, Flow, Running
  <2> HIDE DEF r
  <2> QED BY <2>1, <2>2, <2>4, <2>5, <2>6, SwitchStarts
<1>3. ASSUME Close PROVE SwitchInv'
  <2> DEFINE r == New("close", "closing", None)
  <2>1. Chooses("close", None) /\ Starts(flow, r) /\ UNCHANGED <<clientVars, screenVars, switchVars, tableVars, joined>>
    BY <1>1, <1>3 DEF Close
  <2>2. left' \in [Events -> Nat] /\ left'.enter = 0 /\ left'.again = 0 /\ left'.fail = 0 /\ left'.late = 0
    BY <2>1, ChoosesCalm
  <2>3. r \in Flow /\ r.own = None /\ r.on = None /\ ~r.late /\ r.op = "close" /\ r.at = "closing" /\ r.chan = None
    BY DEF New, Flow, Running
  <2> HIDE DEF r
  <2> QED BY <2>1, <2>2, <2>3, SwitchStarts
<1>4. \A c \in Chans : ~Enter(c)
  <2> SUFFICES ASSUME NEW c \in Chans, Chooses("enter", c) PROVE FALSE
    BY DEF Enter
  <2>1. left["enter"] > 0
    BY ChoosesIs
  <2> QED BY <2>1 DEF SwitchInv, SwitchFrame
<1> QED BY <1>1, <1>2, <1>3, <1>4 DEF Click, Join

LEMMA SwitchStays ==
    ASSUME SwitchInv, SwitchFrame', UNCHANGED <<tableVars, active, shown, flow>>
    PROVE  SwitchInv'
<1>1. Live' = Live
  BY DEF Live
<1>2. SwitchFlows'
  BY <1>1 DEF SwitchInv, SwitchFlows, SwitchFlow, Apart, Complete, tableVars
<1>3. OneBusy' /\ OneEach'
  BY <1>1 DEF SwitchInv, OneBusy, Busy, Pausing, OneEach
<1>4. \A c \in Chans : Backed(c)'
  BY <1>1 DEF SwitchInv, Backed, OnNet, Ending, tableVars
<1>5. HeldShown' /\ HeldActive' /\ ActiveLeft'
  BY <1>1 DEF SwitchInv, HeldShown, HeldActive, Held, Complete, ActiveLeft, tableVars
<1>6. SwitchTyped'
  BY DEF SwitchInv, SwitchTyped, tableVars
<1> QED BY <1>2, <1>3, <1>4, <1>5, <1>6 DEF SwitchInv

\* The first client comes up, and nothing else happens to it.
LEMMA SwitchClient ==
    ASSUME SwitchInv, ClientSteps \/ Resumes
    PROVE  SwitchInv'
<1>1. FirstClient
  BY DEF SwitchInv, SwitchFrame
<1>2. \A e : e \in FaultKinds => ~Meets(e)
  <2> SUFFICES ASSUME NEW e \in FaultKinds, faults[e] > 0 PROVE FALSE
    BY DEF Meets
  <2> QED BY <1>1 DEF FirstClient
<1>3. ~ClientSteps
  <2>1. ~(TimerFires \/ WatchdogFires \/ StrayFires \/ NewClient)
    BY <1>1 DEF FirstClient, TimerFires, WatchdogFires, StrayFires, NewClient
  <2>2. ~(ProbeTooLate \/ ProbeFails \/ ProbeGetsThrough)
    BY <1>1 DEF FirstClient, ProbeTooLate, ProbeFails, ProbeGetsThrough
  <2>3. ~(Kick \/ HealthRebuild \/ NodeFails)
    BY <1>2 DEF Kick, HealthRebuild, NodeFails, FaultKinds
  <2> QED BY <2>1, <2>2, <2>3 DEF ClientSteps, ClientRest
<1>4. CASE Resumes
  <2>1. NodeUp /\ UNCHANGED <<screenVars, switchVars, tableVars, courseVars, flow>>
    BY <1>1, <1>4 DEF Resumes, FirstClient
  <2>2. FirstClient'
    BY <1>1, <2>1 DEF NodeUp, OnAlive, FirstClient
  <2>3. SwitchFrame'
    BY <2>1, <2>2 DEF SwitchInv, SwitchFrame, screenVars, switchVars, courseVars
  <2> QED BY <2>1, <2>3, SwitchStays DEF screenVars, switchVars
<1> QED BY <1>3, <1>4

-----------------------------------------------------------------------------

LEMMA SwitchNext ==
    ASSUME SwitchInv, [Next]_vars
    PROVE  SwitchInv'
<1>1. \A f \in Live : SwitchFlow(f, flow[f])
  BY DEF SwitchInv, SwitchFlows
<1>2. ASSUME NEW f \in Flows, Runs(f) PROVE SwitchInv'
  <2>1. ~(Exit(f) \/ Exited(f) \/ Place(f) \/ Cleared(f) \/ Settle(f) \/ Downgraded(f) \/ Claim(f) \/ Undone(f)
           \/ Failed(f) \/ Represent(f))
    BY <1>1 DEF Exit, Exited, Place, Cleared, Settle, Downgraded, Claim, Undone, Failed, Represent, At, SwitchFlow,
       Selecting
  <2> QED BY <1>2, <2>1, LeftKeeps, ArriveKeeps, ActivateKeeps, ClosingKeeps, ClosedKeeps, OpenKeeps, NextPartKeeps,
             SubscribedKeeps DEF Runs
<1>3. ASSUME NEW f \in Flows, Quiet, Awaited(f) PROVE SwitchInv'
  <2>1. ~(Promote(f) \/ Settled(f) \/ Resubscribe(f) \/ SubscribesLate(f))
    BY <1>1 DEF Promote, Settled, Resubscribe, SubscribesLate, At, SwitchFlow, Selecting
  <2>2. ~SubscribeFails(f)
    <3>1. ~Spend("fail") /\ node # "failed"
      BY DEF Spend, SwitchInv, SwitchFrame, FirstClient
    <3> QED BY <1>1, <3>1 DEF SubscribeFails, At, SwitchFlow
  <2> QED BY <1>3, <2>1, <2>2, StreamEndsHolds, PreparedKeeps, SubscribesKeeps DEF Awaited
<1>4. ASSUME NEW c \in Chans PROVE ~UnsubscribeOrphan(c)
  BY DEF UnsubscribeOrphan, Orphaned, SwitchInv, SwitchTyped
<1>5. CASE UNCHANGED vars
  <2>1. UNCHANGED <<tableVars, active, shown, flow, screen, preview, clientVars, courseVars>>
    BY <1>5 DEF vars, screenVars, switchVars
  <2>2. SwitchFrame'
    BY <2>1, FrameStays DEF SwitchInv, SwitchFrame
  <2> QED BY <2>1, <2>2, SwitchStays
<1> QED BY <1>2, <1>3, <1>4, <1>5, SwitchClick, SwitchClient DEF Next

LEMMA SwitchInit == ASSUME Init, Switches PROVE SwitchInv
<1>1. /\ course.left \in [Events -> Nat] /\ course.joined \subseteq Chans /\ course.faults = faults /\ left = course.left
      /\ joined = course.joined /\ faults \in [FaultKinds -> Nat]
  BY SubscriptionsAssumption, FaultsAssumption DEF Init
<1>2. Live = {}
  BY DEF Init, Live
<1>3. FirstClient
  BY <1>1 DEF Init, ClientInit, FirstClient, Switches, Steady
<1>4. SwitchFrame
  BY <1>1, <1>3 DEF Init, SwitchFrame, Switches, Calm
<1>5. SwitchTyped
  BY DEF Init, SwitchTyped, Unlisted, Streams
<1>6. \A c \in Chans : Backed(c)
  BY DEF Init, Backed, Unlisted, Streams
<1> QED BY <1>2, <1>4, <1>5, <1>6
        DEF Init, SwitchInv, SwitchFlows, OneBusy, Busy, OneEach, HeldShown, HeldActive, ActiveLeft

LEMMA HeldIsHeard == ASSUME SwitchInv PROVE ShownHeard
<1> SUFFICES ASSUME AtRest, shown # None PROVE Heard(shown)
  BY DEF ShownHeard, ChannelHeard, PreviewHeard, SwitchInv, SwitchFrame
<1>1. shown \in Chans /\ Complete(shown) /\ Live = {}
  BY DEF AtRest, SwitchInv, SwitchFrame, HeldShown, Held
<1>2. \A st : ~Ending(shown, st)
  BY <1>1 DEF Ending
<1>3. \A p \in AllParts : OnNet(shown, p)
  BY <1>1, <1>2 DEF Complete, Backed, SwitchInv, AllParts
<1> QED BY <1>3 DEF Heard, OnNet

\* However many channels are chosen and closed, and however their handlers overlap, the one on screen is heard
\* on each of its streams once they are done: where no click comes too soon, no subscribe fails and the client
\* holds (setActiveChannel, clearActiveChannel, subscribeToDualStream, unsubscribeFromDualStream).
THEOREM ChosenAreHeard == Spec /\ Switches => []ShownHeard
<1>1. Init /\ Switches => SwitchInv
  BY SwitchInit
<1>2. SwitchInv /\ [Next]_vars => SwitchInv'
  BY SwitchNext
<1>3. SwitchInv => ShownHeard
  BY HeldIsHeard
<1> QED BY <1>1, <1>2, <1>3, PTL DEF Spec
=============================================================================
