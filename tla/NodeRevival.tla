---------------------------- MODULE NodeRevival -----------------------------
(***************************************************************************)
(* The Streamr client of a session and its rebuilds: NodeRevival.js, the    *)
(* watch and the replacement of the client in streamr.js, and the rebuild    *)
(* that rpcHealth.js asks for.  The SDK starts the node of a client once and *)
(* keeps a failed start for the client's life, so a dead node means a new    *)
(* client.                                                                   *)
(*                                                                         *)
(* The lengths of the waits are left out: a timer that is set may fire at    *)
(* any time.  So are logout and a rebuild that throws, which init never does *)
(* in a session that has a signer.                                           *)
(***************************************************************************)
EXTENDS Naturals, Sequences

CONSTANT Faults     \* bounds of the behaviours: how often each fault may still happen

\* a start that fails, one that never reports, one slower than the watchdog, a request that
\* does not get through, a rebuild for other RPC endpoints, a page back online or in view
FaultKinds == {"dead", "hung", "slow", "offline", "health", "kick"}
Askers     == {"revival", "health"}

ASSUME FaultsAssumption == Faults \subseteq [FaultKinds -> Nat]

VARIABLES
    faults,     \* what is left of them
    client,     \* this.client, by number; 0 is null
    made,       \* how many clients there have been
    node,       \* the start of the node of this.client
    replacing,  \* who asked for the replacements under way, in order (_replacing); the first one runs
    dead, busy, rebuilding,     \* the fields of NodeRevival
    timer,      \* waitTimer is set
    watchdog,   \* watchdog is set
    stray,      \* watchdogs that still run and that nothing holds
    probes      \* attempts that await networkUp

clientVars == <<faults, client, made, node, replacing, dead, busy, rebuilding, timer, watchdog, stray, probes>>
revivalVars == <<dead, busy, rebuilding, timer, watchdog, stray, probes>>

ClientTypeOK ==
    /\ faults \in [FaultKinds -> Nat]
    /\ client \in Nat /\ made \in Nat
    /\ node \in {"starting", "hung", "up", "failed"}
    /\ replacing \in Seq(Askers)
    /\ dead \in BOOLEAN /\ busy \in BOOLEAN /\ rebuilding \in BOOLEAN
    /\ timer \in BOOLEAN /\ watchdog \in BOOLEAN
    /\ stray \in Nat /\ probes \in Nat

ClientInit ==
    /\ faults \in Faults
    /\ client = 1 /\ made = 1 /\ node \in {"starting", "hung"}
    /\ replacing = <<>>
    /\ dead = FALSE /\ busy = FALSE /\ rebuilding = FALSE
    /\ timer = FALSE /\ watchdog = FALSE /\ stray = 0 /\ probes = 0

Meets(e) == faults[e] > 0 /\ faults' = [faults EXCEPT ![e] = @ - 1]

-----------------------------------------------------------------------------
(* The revival                                                              *)

\* onDead: a failed rebuild gives its turn back, and who is not busy schedules the next attempt
OnDead ==
    /\ dead' = TRUE
    /\ rebuilding' = FALSE
    /\ watchdog' = IF rebuilding THEN FALSE ELSE watchdog
    /\ busy' = (busy /\ ~rebuilding)
    /\ timer' = (timer \/ ~busy')

OnAlive ==
    /\ dead' = FALSE /\ rebuilding' = FALSE /\ busy' = FALSE
    /\ timer' = FALSE /\ watchdog' = FALSE

\* _attempt up to its await
Attempt ==
    IF dead /\ ~busy THEN busy' = TRUE /\ probes' = probes + 1
                     ELSE UNCHANGED <<busy, probes>>

TimerFires ==
    /\ timer
    /\ timer' = FALSE
    /\ Attempt
    /\ UNCHANGED <<faults, client, made, node, replacing, dead, rebuilding, watchdog, stray>>

Kick ==
    /\ Meets("kick")
    /\ dead /\ ~busy
    /\ timer' = FALSE
    /\ Attempt
    /\ UNCHANGED <<client, made, node, replacing, dead, rebuilding, watchdog, stray>>

\* the end of networkUp for an attempt that is not needed any more
ProbeTooLate ==
    /\ probes > 0 /\ ~dead
    /\ probes' = probes - 1
    /\ busy' = FALSE
    /\ UNCHANGED <<faults, client, made, node, replacing, dead, rebuilding, timer, watchdog, stray>>

ProbeFailsQuietly ==                                                \* mutant of ProbeFails
    /\ probes > 0 /\ dead
    /\ Meets("offline")
    /\ probes' = probes - 1
    /\ busy' = FALSE
    /\ UNCHANGED <<client, made, node, replacing, dead, rebuilding, timer, watchdog, stray>>

ProbeFails ==
    /\ probes > 0 /\ dead
    /\ Meets("offline")
    /\ probes' = probes - 1
    /\ busy' = FALSE
    /\ timer' = TRUE
    /\ UNCHANGED <<client, made, node, replacing, dead, rebuilding, watchdog, stray>>

-----------------------------------------------------------------------------
(* Replacing the client                                                     *)

\* replaceClient: behind the one under way, or at once
Enqueue(by) ==
    /\ replacing' = Append(replacing, by)
    /\ client' = IF replacing = <<>> THEN 0 ELSE client

Replaces == client # 0 /\ client' = 0        \* the subscriptions go with the old client

ProbeAlwaysThrough ==                                               \* mutant of ProbeGetsThrough
    /\ probes > 0
    /\ probes' = probes - 1
    /\ rebuilding' = TRUE
    /\ watchdog' = TRUE
    /\ stray' = IF watchdog THEN stray + 1 ELSE stray
    /\ Enqueue("revival")
    /\ UNCHANGED <<faults, made, node, dead, busy, timer>>

ProbeGetsThrough ==
    /\ probes > 0 /\ dead
    /\ probes' = probes - 1
    /\ rebuilding' = TRUE
    /\ watchdog' = TRUE
    /\ stray' = IF watchdog THEN stray + 1 ELSE stray
    /\ Enqueue("revival")
    /\ UNCHANGED <<faults, made, node, dead, busy, timer>>

\* shouldRebuild of rpcHealth: endpoints left out or taken in again
HealthRebuild ==
    /\ Meets("health")
    /\ client # 0
    /\ Enqueue("health")
    /\ UNCHANGED <<made, node, revivalVars>>

\* _replaceClientNow after the old client stopped, or five seconds: a new client whose node starts;
\* with another replacement waiting that one begins before the node can report
NewClient ==
    /\ replacing # <<>>
    /\ replacing' = Tail(replacing)
    /\ made' = made + 1
    /\ client' = IF Tail(replacing) = <<>> THEN made + 1 ELSE 0
    /\ \/ node' = "starting" /\ UNCHANGED faults
       \/ node' = "hung" /\ Meets("hung")
    /\ UNCHANGED revivalVars

\* _watchNode: only the client in use is heard
NodeUp ==
    /\ client # 0 /\ node = "starting"
    /\ node' = "up"
    /\ OnAlive
    /\ UNCHANGED <<faults, client, made, replacing, stray, probes>>

NodeFails ==
    /\ client # 0 /\ node = "starting"
    /\ Meets("dead")
    /\ node' = "failed"
    /\ OnDead
    /\ UNCHANGED <<client, made, replacing, stray, probes>>

\* the watchdog of a rebuild: its start never reports, or is slow
WatchdogFires ==
    /\ watchdog /\ rebuilding
    /\ \/ client # 0 /\ node = "hung" /\ UNCHANGED faults
       \/ Meets("slow")
    /\ OnDead
    /\ UNCHANGED <<client, made, node, replacing, stray, probes>>

\* one that was set before another took its place
StrayFires ==
    /\ stray > 0
    /\ stray' = stray - 1
    /\ IF rebuilding THEN OnDead ELSE UNCHANGED <<dead, busy, rebuilding, timer, watchdog>>
    /\ UNCHANGED <<faults, client, made, node, replacing, probes>>

Reports == NodeUp \/ NodeFails

ClientRest ==
    \/ TimerFires \/ Kick
    \/ ProbeTooLate \/ ProbeFails \/ ProbeGetsThrough
    \/ HealthRebuild \/ NewClient
    \/ WatchdogFires \/ StrayFires

ClientNext == Reports \/ ClientRest

ClientSpec == ClientInit /\ [][ClientNext]_clientVars

-----------------------------------------------------------------------------
(* Properties                                                               *)

\* A dead node always has something under way that will try again: the wait, a request, or a rebuild
\* that a watchdog looks after (onDead, _schedule, _attempt).
Retrying ==
    /\ dead => timer \/ probes > 0 \/ rebuilding
    /\ rebuilding => watchdog

\* The revival never takes down a client whose node is up: a late report, or a rebuild for other
\* endpoints, may have brought it up while the request was under way (_attempt looks at dead again).
UpKept ==
    [][(client # 0 /\ client' = 0 /\ "revival" = Head(replacing')) => node # "up"]_clientVars

\* A node found dead comes up in the end, whatever failed, hung or was offline before.
Revives == dead ~> (client # 0 /\ node = "up")
=============================================================================
