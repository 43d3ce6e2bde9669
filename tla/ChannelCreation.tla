-------------------------- MODULE ChannelCreation --------------------------
(***************************************************************************)
(* The creation of channels on chain, transaction by transaction, on one    *)
(* device (channels.js, PendingCreates.js, streamr.js, utils/retry.js), and *)
(* the repair of what a creation left out (ChannelHealth.js).               *)
(*                                                                         *)
(* The chain keeps clones of the gate contract and, of each channel, the    *)
(* writes that landed. The device keeps a record of each creation before    *)
(* its first transaction, drops it when the channel is saved, and after a   *)
(* reload asks the chain what the creation left behind.                     *)
(* Left out: the password challenge and the subscriptions that follow the   *)
(* record's end, partitions and metadata of a repair, and transactions that *)
(* are still unmined when the chain is asked for them (the wait before each *)
(* question is what the code relies on).                                    *)
(***************************************************************************)
EXTENDS Naturals, SequencesExt

CONSTANTS Creations,    \* base paths of the channels
          Gated,        \* those of type 'gated', Sealed and with a first member
          Mode,         \* the gate mode of each
          Streams,      \* the roles of the instance, out of Roles
          Rounds,       \* maxRetries of a write
          CreationCourses   \* bounds of the behaviours

Roles == {"message", "ephemeral", "admin", "keys", "interactions"}
CreationEvents == {"refuse", "lost", "unread", "diskfail", "reload", "away", "hour", "discard", "rekey", "repair"}
CreationStates == [begin : SUBSET Creations, left : [CreationEvents -> Nat]]

ASSUME CreationAssumption ==
    /\ Gated \subseteq Creations /\ DOMAIN Mode = Creations
    /\ {"message", "ephemeral"} \subseteq Streams /\ Streams \subseteq Roles
    /\ Rounds \in Nat \ {0}
    /\ CreationCourses \subseteq CreationStates

VARIABLES
    clones,     \* gate clones in the order of their deploys: [by, mine]
    onChain,    \* what the chain holds of each channel
    records,    \* pendingCreates of the account, on disk
    saved,      \* the channels of the account, on disk: {} or {its gate}
    keyring,    \* the shared keys kept of each channel; publish keys by revision
    present,    \* the session is in the account that creates
    listed,     \* channelManager.channels (memory), likewise
    run,        \* what is under way of each channel: a creation or a repair
    report,     \* the steps a diagnosis found for each channel (ChannelHealthUI)
    states,     \* PendingCreates.states (memory)
    due,        \* records that reconcileAll still has to ask for
    looks,      \* questions of reconcile that the chain has answered
    ahead,     \* what is left of the course of this behaviour
    discarded,  \* history: creations that the user discarded
    twice       \* history: sends of what the chain already had

ledger == <<clones, onChain>>
disk == <<records, saved, keyring>>
memory == <<present, listed, run, report, states, due, looks>>
creationVars == <<ledger, disk, memory, ahead, discarded, twice>>

None == 0       \* no gate, no key

Happens(e) ==
    /\ ahead.left[e] > 0
    /\ ahead' = [ahead EXCEPT !.left[e] = @ - 1]

-----------------------------------------------------------------------------
(***************************************************************************)
(* The writes of a creation, and how each is sent                           *)
(***************************************************************************)
RolesOf(c) == {s \in Streams : s = "keys" => c \in Gated}

\* what f gives of each role of S, role after role
InOrder(S, f) ==
    LET of(s) == IF s \in S THEN f[s] ELSE <<>>
    IN  of("message") \o of("ephemeral") \o of("admin") \o of("keys") \o of("interactions")

Write(op, s, g) == [op |-> op, on |-> s, gate |-> g]

\* ask: asked for before the first send (verifyFirst); tries: rounds; fail: what a failure does
Step(op, s, g, ask, tries, fail) ==
    [w |-> Write(op, s, g), ask |-> ask, tries |-> tries, fail |-> fail]

Each(S, op, g, ask, fail) == InOrder(S, [s \in Roles |-> <<Step(op, s, g, ask, Rounds, fail)>>])

\* enableStorage: a node, then its retention, which is not sent without the node
StorageOf(S, g, ask) ==
    InOrder(S \ {"ephemeral"}, [s \in Roles |-> <<Step("node", s, g, ask, Rounds, "skipTwo"),
                                                  Step("days", s, g, ask, Rounds, "skip")>>])

\* Gate.allowBatch: sent once; when resuming, only for who is not allowed yet
AllowOf(c, g, ask) == IF c \in Gated THEN <<Step("allow", "gate", g, ask, 1, "skip")>> ELSE <<>>

DeployOf(g) == <<Step("gate", "gate", g, FALSE, 1, "stop")>>

CreatePlan(c, g, ask) ==
    Each(RolesOf(c), "stream", g, ask, "recover") \o Each(RolesOf(c), "grant", g, ask, "skip")
    \o StorageOf(RolesOf(c), g, ask) \o AllowOf(c, g, ask)

\* what createStream does when a stream could not be created although the -1 is there
\* (its catch), and what _runCreate sends after it, which knows no -3 to -5 then
RecoveryPlan(c, g, ask, ephemeralThere) ==
    LET grant(s) == IF c \in Gated THEN <<>> ELSE <<Step("grant", s, g, FALSE, Rounds, "skip")>>
    IN  grant("message")
        \o (IF ephemeralThere THEN <<>>
            ELSE <<Step("stream", "ephemeral", g, FALSE, 1, IF c \in Gated THEN "skip" ELSE "skipTwo")>>)
        \o grant("ephemeral")
        \o StorageOf({"message"}, g, ask) \o AllowOf(c, g, ask)

-----------------------------------------------------------------------------
(***************************************************************************)
(* executeWithRetryAndVerify                                                *)
(***************************************************************************)
Idle == [kind |-> "idle", todo |-> <<>>, mode |-> "idle", round |-> 0, gate |-> None,
         ask |-> FALSE, recovered |-> FALSE, failed |-> FALSE]
Busy(c) == run[c].kind # "idle"
Creating(c) == run[c].kind = "create"       \* PendingCreates.running

\* run r, which has todo left
Going(r, todo) ==
    [r EXCEPT !.todo = todo, !.round = 1,
              !.mode = CASE todo = <<>> -> IF r.kind = "repair" THEN "over" ELSE "save"
                         [] OTHER -> IF todo[1].ask THEN "ask" ELSE "send"]

Start(kind, todo, g, ask) == Going([Idle EXCEPT !.kind = kind, !.gate = g, !.ask = ask], todo)

Exists(c, s) == \E w \in onChain[c] : w.op = "stream" /\ w.on = s
InPlace(c, w) ==
    CASE w.op = "stream" -> Exists(c, w.on)
      [] w.op = "clone"  -> {w, [w EXCEPT !.op = "grant"]} \cap onChain[c] # {}
      [] OTHER -> w \in onChain[c]

Current(c) == run[c].todo[1]

PendingCreates == {c \in Creations : records[c].on}

\* a creation ends with an error: it is claimed no more, and the dialog asks the chain again
Ends(c) ==
    /\ run' = [run EXCEPT ![c] = Idle]
    /\ due' = IF present THEN PendingCreates ELSE due

\* the write of run c is given up
GivesUp(c) ==
    LET r == [run[c] EXCEPT !.failed = @ \/ Current(c).fail # "pass"]
        after(n) == Going(r, SubSeq(r.todo, n + 1, Len(r.todo)))
    IN  IF Current(c).fail = "stop" THEN Ends(c)
        ELSE /\ run' = [run EXCEPT ![c] = CASE Current(c).fail = "recover" -> [r EXCEPT !.mode = "recover"]
                                            [] Current(c).fail = "skipTwo" -> after(2)
                                            [] OTHER -> after(1)]
             /\ UNCHANGED due

\* mutant of NextRound: sends again without asking the chain
NextRoundBlind(c) ==
    IF run[c].round < Current(c).tries
    THEN /\ run' = [run EXCEPT ![c].round = @ + 1, ![c].mode = "send"]
         /\ UNCHANGED due
    ELSE GivesUp(c)

\* a round of the write has failed, or its question had no answer
NextRound(c) ==
    IF run[c].round < Current(c).tries
    THEN /\ run' = [run EXCEPT ![c].round = @ + 1, ![c].mode = "ask"]
         /\ UNCHANGED due
    ELSE GivesUp(c)

\* the question before a send; an allowlist that cannot be read is sent whole
Ask(c) ==
    /\ run[c].mode = "ask"
    /\ LET w == Current(c).w IN
        \/ /\ run' = [run EXCEPT ![c] = IF InPlace(c, w) THEN Going(@, Tail(@.todo))
                                        ELSE [@ EXCEPT !.mode = "send"]]
           /\ UNCHANGED <<due, ahead>>
        \/ /\ Happens("unread")
           /\ IF w.op = "allow" THEN run' = [run EXCEPT ![c].mode = "send"] /\ UNCHANGED due
              ELSE NextRound(c)
    /\ UNCHANGED <<ledger, disk, present, listed, report, states, looks, discarded, twice>>

\* the transaction is mined, or refused. The registry refuses a stream that is there, and the
\* account switched to everything but the deploy of a gate.
Send(c) ==
    /\ run[c].mode = "send"
    /\ LET w == Current(c).w
           refused == IF w.op = "gate" THEN FALSE ELSE ~present \/ (w.op = "stream" /\ Exists(c, w.on))
       IN
        /\ twice' = IF InPlace(c, w) /\ present THEN twice \cup {[of |-> c, w |-> w, 
                                                            unasked |-> run[c].recovered \/ run[c].kind = "repair"]}
                    ELSE twice
        /\ \/ /\ ~refused
              /\ IF w.op = "gate" THEN clones' = Append(clones, [by |-> c, mine |-> present]) /\ UNCHANGED onChain
                 ELSE onChain' = [onChain EXCEPT ![c] = @ \cup {w}] /\ UNCHANGED clones
              /\ run' = [run EXCEPT ![c].mode = "mined"]
              /\ UNCHANGED <<due, ahead>>
           \/ /\ IF refused THEN UNCHANGED ahead ELSE Happens("refuse")
              /\ NextRound(c)
              /\ UNCHANGED ledger
    /\ UNCHANGED <<disk, present, listed, report, states, looks, discarded>>

\* its receipt is read, or is not. The address of a gate comes with the receipt, and is recorded
\* before anything else is sent, unless the account has changed.
Receipt(c) ==
    /\ run[c].mode = "mined"
    /\ LET w == Current(c).w
           g == Max({i \in DOMAIN clones : clones[i].by = c})
       IN  \/ /\ w.op # "gate"
              /\ run' = [run EXCEPT ![c] = Going(@, Tail(@.todo))]
              /\ UNCHANGED <<records, due, ahead>>
           \/ /\ w.op = "gate" /\ present
              /\ records' = [records EXCEPT ![c].gate = g, ![c].on = TRUE]
              /\ run' = [run EXCEPT ![c] = Start("create", CreatePlan(c, g, FALSE), g, FALSE)]
              /\ UNCHANGED <<due, ahead>>
           \/ /\ w.op = "gate" /\ ~present
              /\ Ends(c) /\ UNCHANGED <<records, ahead>>
           \/ /\ Happens("lost") /\ NextRound(c) /\ UNCHANGED records
    /\ UNCHANGED <<ledger, saved, keyring, present, listed, report, states, looks, discarded, twice>>

-----------------------------------------------------------------------------
(***************************************************************************)
(* A creation, from its record to its channel                               *)
(***************************************************************************)
NoReport == [full |-> FALSE, steps |-> <<>>]
NoRecord == [on |-> FALSE, gate |-> None, start |-> 0, old |-> FALSE]

\* createChannel, _beginPendingCreate: the record, with the block the deploy comes after
Begin(c) ==
    /\ present /\ c \in ahead.begin
    /\ ahead' = [ahead EXCEPT !.begin = @ \ {c}]
    /\ records' = [records EXCEPT ![c] = [NoRecord EXCEPT !.on = TRUE, !.start = Len(clones)]]
    /\ run' = [run EXCEPT ![c] = Start("create", IF c \in Gated THEN DeployOf(None)
                                                 ELSE CreatePlan(c, None, FALSE), None, FALSE)]
    /\ UNCHANGED <<ledger, saved, keyring, present, listed, report, states, due, looks, discarded, twice>>

\* createStream's catch: a stream that cannot be read counts as missing here
Recover(c) ==
    /\ run[c].mode = "recover"
    /\ LET there == {s \in {"message", "ephemeral"} : Exists(c, s)} IN
       \E seen \in SUBSET there :
        /\ IF seen = there THEN UNCHANGED ahead ELSE Happens("unread")
        /\ IF "message" \notin seen THEN Ends(c)
           ELSE /\ run' = [run EXCEPT ![c] = Going([@ EXCEPT !.recovered = TRUE],
                               RecoveryPlan(c, @.gate, @.ask, "ephemeral" \in seen))]
                /\ UNCHANGED due
    /\ UNCHANGED <<ledger, disk, present, listed, report, states, looks, discarded, twice>>

\* the end of _runCreate: the channel, its shared keys, and only then the record. An account
\* switched to meanwhile stops it before the channel, and takes what is written after.
Lists(c) ==
    /\ run[c].mode = "save"
    /\ IF present
       THEN /\ listed' = [listed EXCEPT ![c] = {run[c].gate}]
            /\ run' = [run EXCEPT ![c].mode = "store"]
            /\ UNCHANGED due
       ELSE Ends(c) /\ UNCHANGED listed
    /\ UNCHANGED <<ledger, disk, present, report, states, looks, ahead, discarded, twice>>

\* mutant of Stores: the record is dropped before the keys are adopted
StoresLast(c) ==
    /\ run[c].mode = "store"
    /\ saved' = IF present THEN listed ELSE saved
    /\ run' = [run EXCEPT ![c].mode = "complete"]
    /\ UNCHANGED <<ledger, records, keyring, present, listed, report, states, due, looks, ahead,
                   discarded, twice>>

Stores(c) ==
    /\ run[c].mode = "store"
    /\ \/ /\ saved' = IF present THEN listed ELSE saved
          /\ run' = [run EXCEPT ![c].mode = IF c \in Gated THEN "adoptPublish" ELSE "complete"]
          /\ UNCHANGED <<due, ahead>>
       \/ /\ Happens("diskfail") /\ Ends(c) /\ UNCHANGED saved
    /\ UNCHANGED <<ledger, records, keyring, present, listed, report, states, looks, discarded, twice>>

\* mutant of AdoptsPublish: the second key is forgotten
AdoptsPublishOnly(c) ==
    /\ run[c].mode = "adoptPublish"
    /\ keyring' = IF present THEN [keyring EXCEPT ![c].publish = 1] ELSE keyring
    /\ run' = [run EXCEPT ![c].mode = "complete"]
    /\ UNCHANGED <<ledger, records, saved, present, listed, report, states, due, looks, ahead, discarded, twice>>

AdoptsPublish(c) ==
    /\ run[c].mode = "adoptPublish"
    /\ keyring' = IF present THEN [keyring EXCEPT ![c].publish = 1] ELSE keyring
    /\ run' = [run EXCEPT ![c].mode = "adoptInteractions"]
    /\ UNCHANGED <<ledger, records, saved, present, listed, report, states, due, looks, ahead, discarded, twice>>

AdoptsInteractions(c) ==
    /\ run[c].mode = "adoptInteractions"
    /\ keyring' = IF present THEN [keyring EXCEPT ![c].interactions = 1] ELSE keyring
    /\ run' = [run EXCEPT ![c].mode = "complete"]
    /\ UNCHANGED <<ledger, records, saved, present, listed, report, states, due, looks, ahead, discarded, twice>>

\* PendingCreates.complete
Completes(c) ==
    /\ run[c].mode = "complete"
    /\ records' = IF present THEN [records EXCEPT ![c] = NoRecord] ELSE records
    /\ states' = [states EXCEPT ![c] = "none"]
    /\ run' = [run EXCEPT ![c] = Idle]
    /\ UNCHANGED <<ledger, saved, keyring, present, listed, report, due, looks, ahead, discarded, twice>>

-----------------------------------------------------------------------------
(***************************************************************************)
(* PendingCreates: what the chain holds of an interrupted creation          *)
(***************************************************************************)
\* host.findGate, GateManager.findCreatedGate: the first clone since the record's start that has
\* the creation's mode and backs nothing known here
FoundGates(c) ==
    {i \in DOMAIN clones : /\ i > records[c].start /\ clones[i].mine /\ Mode[clones[i].by] = Mode[c]
                           /\ \A d \in Creations : i \notin listed[d] /\ (records[d].on => records[d].gate # i)}
FoundGate(c) == IF FoundGates(c) = {} THEN None ELSE Min(FoundGates(c))

\* the answer to l; a Finish that cannot go on is an error, after which the dialog asks for all
Judged(l) ==
    LET c == l.of
        there == present /\ records[c].on       \* PendingCreates.get
        state(v) == states' = [states EXCEPT ![c] = v]
        error == due' = IF l.finish /\ present THEN PendingCreates ELSE due \ {c}
        late == l.found # None /\ (Creating(c) \/ ~there)
    IN  \/ /\ l.seen = "unread"
           /\ state("unreadable") /\ error /\ UNCHANGED <<records, run>>
        \/ /\ l.seen = "there" /\ late
           /\ error /\ UNCHANGED <<states, records, run>>
        \/ /\ l.seen = "there" /\ ~late
           /\ state("resumable")
           /\ records' = IF l.found = None THEN records ELSE [records EXCEPT ![c].gate = l.found]
           /\ IF l.finish /\ ~Busy(c) /\ there
              THEN LET g == records'[c].gate
                   IN  /\ run' = [run EXCEPT ![c] = Start("create", CreatePlan(c, g, TRUE), g, TRUE)]
                       /\ due' = due \ {c}
              ELSE error /\ UNCHANGED run
        \/ /\ l.seen = "missing" /\ ~records[c].old
           /\ state("waiting") /\ error /\ UNCHANGED <<records, run>>
        \/ /\ l.seen = "missing" /\ records[c].old
           /\ IF Creating(c) THEN UNCHANGED <<records, states>>
              ELSE /\ records' = IF present THEN [records EXCEPT ![c] = NoRecord] ELSE records
                   /\ state("none")
           /\ error /\ UNCHANGED run

\* the record of c is asked for; a gate it names is answer enough
Question(c, finish) ==
    LET base == [of |-> c, finish |-> finish, found |-> None, seen |-> "there"]
        g == FoundGate(c)
        said(v) == looks' = looks \cup {v}
    IN  IF c \in Gated /\ records[c].gate # None
        THEN Judged(base) /\ UNCHANGED <<looks, ahead>>
        ELSE /\ due' = due \ {c}
             /\ UNCHANGED <<states, records, run>>
             /\ \/ Happens("unread") /\ said([base EXCEPT !.seen = "unread"])
                \/ /\ UNCHANGED ahead
                   /\ IF c \in Gated
                      THEN said([base EXCEPT !.found = g, !.seen = IF g = None THEN "missing" ELSE "there"])
                      ELSE said([base EXCEPT !.seen = IF Exists(c, "message") THEN "there" ELSE "missing"])

\* reconcileAll, at the start of a session and after a creation that failed
Reconcile(c) ==
    /\ present /\ c \in due
    /\ IF Creating(c) \/ ~records[c].on
       THEN due' = due \ {c} /\ UNCHANGED <<states, records, run, looks, ahead>>
       ELSE Question(c, FALSE)
    /\ UNCHANGED <<ledger, saved, keyring, present, listed, report, discarded, twice>>

\* finishPendingCreate
Finish(c) ==
    /\ present /\ records[c].on /\ states[c] = "resumable" /\ ~Busy(c)
    /\ ~\E l \in looks : l.of = c /\ l.finish
    /\ Question(c, TRUE)
    /\ UNCHANGED <<ledger, saved, keyring, present, listed, report, discarded, twice>>

ChainAnswers ==
    \E l \in looks :
        /\ looks' = looks \ {l}
        /\ Judged(l)
        /\ UNCHANGED <<ledger, saved, keyring, present, listed, report, ahead, discarded, twice>>

\* discardPendingCreate
Discard(c) ==
    /\ present /\ records[c].on /\ states[c] = "resumable" /\ ~Creating(c)
    /\ Happens("discard")
    /\ records' = [records EXCEPT ![c] = NoRecord]
    /\ states' = [states EXCEPT ![c] = "none"]
    /\ discarded' = discarded \cup {c}
    /\ UNCHANGED <<ledger, saved, keyring, present, listed, run, report, due, looks, twice>>

-----------------------------------------------------------------------------
(***************************************************************************)
(* ChannelHealth: what a saved channel lacks on chain                       *)
(***************************************************************************)
\* the grant that the check owns: of the clone, where shared keys have theirs beside it
OwnGrant(c, s, g) ==
    Step(IF c \in Gated /\ s \in {"message", "ephemeral", "interactions"} THEN "clone" ELSE "grant",
         s, g, FALSE, Rounds, "skip")

\* mutant of StepsOf: a stream that is created gets no grant
StepsOfBare(c, s, g) ==
    LET new == ~Exists(c, s)
        grant == OwnGrant(c, s, g)
        lacks(op) == ~InPlace(c, Write(op, s, g))
        stored == s # "ephemeral"
        paced == InPlace(c, Write("days", "message", g))
    IN  (IF new THEN <<Step("stream", s, g, FALSE, Rounds, "skip")>> ELSE <<>>)
        \o (IF ~new /\ ~InPlace(c, grant.w) THEN <<grant>> ELSE <<>>)
        \o (IF stored /\ lacks("node")
            THEN <<Step("node", s, g, FALSE, 1, "skipTwo"), Step("days", s, g, FALSE, 1, "pass")>>
            ELSE IF stored /\ s # "message" /\ paced /\ lacks("days")
            THEN <<Step("days", s, g, FALSE, Rounds, "skip")>> ELSE <<>>)

\* channelRepairSteps for one stream: everything of a stream that is created, otherwise what is
\* missing; the -1 gives the others its node and its retention, and is never given a retention
StepsOf(c, s, g) ==
    LET new == ~Exists(c, s)
        grant == OwnGrant(c, s, g)
        lacks(op) == ~InPlace(c, Write(op, s, g))
        stored == s # "ephemeral"
        paced == InPlace(c, Write("days", "message", g))
    IN  (IF new THEN <<Step("stream", s, g, FALSE, Rounds, "skip")>> ELSE <<>>)
        \o (IF new \/ ~InPlace(c, grant.w) THEN <<grant>> ELSE <<>>)
        \o (IF stored /\ lacks("node")
            THEN <<Step("node", s, g, FALSE, 1, "skipTwo"), Step("days", s, g, FALSE, 1, "pass")>>
            ELSE IF stored /\ s # "message" /\ paced /\ lacks("days")
            THEN <<Step("days", s, g, FALSE, Rounds, "skip")>> ELSE <<>>)

\* diagnoseChannel: a stream that cannot be read is neither faulted nor repaired
Diagnose(c) ==
    /\ present /\ listed[c] # {} /\ ~Busy(c)
    /\ Happens("repair")
    /\ LET g == CHOOSE h \in listed[c] : TRUE
       IN  \E unread \in {{}} \cup {{s} : s \in RolesOf(c)} :
            report' = [report EXCEPT ![c] =
                [full |-> unread = {},
                 steps |-> IF "message" \notin unread /\ ~Exists(c, "message") THEN <<>>
                           ELSE InOrder(RolesOf(c) \ unread, [s \in Roles |-> StepsOf(c, s, g)])]]
    /\ UNCHANGED <<ledger, disk, present, listed, run, states, due, looks, discarded, twice>>

\* ChannelHealthUI.repair, repairChannel: what the report says, however old it is
Repair(c) ==
    /\ present /\ listed[c] # {} /\ report[c].steps # <<>>
    /\ ~Busy(c) /\ ~\E d \in Creations : run[d].kind = "repair"
    /\ ~\E l \in looks : l.of = c /\ l.finish
    /\ run' = [run EXCEPT ![c] = Start("repair", report[c].steps, None, FALSE)]
    /\ UNCHANGED <<ledger, disk, present, listed, report, states, due, looks, ahead, discarded, twice>>

\* the panel diagnoses again
Repaired(c) ==
    /\ run[c].mode = "over"
    /\ run' = [run EXCEPT ![c] = Idle]
    /\ report' = [report EXCEPT ![c] = NoReport]
    /\ UNCHANGED <<ledger, disk, present, listed, states, due, looks, ahead, discarded, twice>>

-----------------------------------------------------------------------------
(***************************************************************************)
(* The session                                                              *)
(***************************************************************************)
Forgets ==
    /\ run' = [c \in Creations |-> Idle]
    /\ report' = [c \in Creations |-> NoReport]
    /\ states' = [c \in Creations |-> "none"]
    /\ looks' = {}

\* the page is loaded again and the account signs in
Reload ==
    /\ present /\ Happens("reload")
    /\ Forgets /\ listed' = saved /\ due' = PendingCreates
    /\ UNCHANGED <<ledger, disk, present, discarded, twice>>

\* another account signs in, and later this one again; what was running runs on
Away ==
    /\ present /\ Happens("away")
    /\ present' = FALSE /\ listed' = [c \in Creations |-> {}] /\ due' = {}
    /\ UNCHANGED <<ledger, disk, run, report, states, looks, discarded, twice>>

Ending == {"store", "adoptPublish", "adoptInteractions", "complete"}
Back ==
    /\ ~present /\ \A c \in Creations : run[c].mode \notin Ending
    /\ present' = TRUE /\ listed' = saved /\ due' = PendingCreates
    /\ UNCHANGED <<ledger, disk, run, report, states, looks, ahead, discarded, twice>>

\* PENDING_CREATE_MAX_AGE_MS passes, longer than a read of the chain takes
Hour ==
    /\ Happens("hour") /\ looks = {}
    /\ records' = [c \in Creations |-> [records[c] EXCEPT !.old = @ \/ records[c].on]]
    /\ UNCHANGED <<ledger, saved, keyring, memory, discarded, twice>>

\* the owner mints a publish key of the next revision, and grants it in place of the old one
Rekey(c) ==
    /\ c \in Gated /\ present /\ listed[c] # {} /\ ~Busy(c) /\ keyring[c].publish # None
    /\ Happens("rekey")
    /\ keyring' = [keyring EXCEPT ![c].publish = @ + 1]
    /\ onChain' = [onChain EXCEPT ![c] = {IF w.op = "grant" /\ w.on \in {"message", "ephemeral"}
                                          THEN [w EXCEPT !.op = "clone"] ELSE w : w \in @}]
    /\ UNCHANGED <<clones, records, saved, memory, discarded, twice>>

CreationInit ==
    /\ clones = <<>> /\ onChain = [c \in Creations |-> {}]
    /\ records = [c \in Creations |-> NoRecord]
    /\ saved = [c \in Creations |-> {}] /\ listed = saved
    /\ keyring = [c \in Creations |-> [publish |-> None, interactions |-> None]]
    /\ present = TRUE
    /\ run = [c \in Creations |-> Idle]
    /\ report = [c \in Creations |-> NoReport]
    /\ states = [c \in Creations |-> "none"]
    /\ due = {} /\ looks = {} /\ discarded = {} /\ twice = {}
    /\ ahead \in CreationCourses

Work ==
    \/ ChainAnswers
    \/ \E c \in Creations :
        \/ Ask(c) \/ Send(c) \/ Receipt(c) \/ Recover(c)
        \/ Lists(c) \/ Stores(c) \/ AdoptsPublish(c) \/ AdoptsInteractions(c) \/ Completes(c)
        \/ Reconcile(c) \/ Repaired(c)

User == \E c \in Creations :
    Begin(c) \/ Finish(c) \/ Discard(c) \/ Diagnose(c) \/ Repair(c) \/ Rekey(c)

World == Reload \/ Away \/ Back \/ Hour

CreationNext == Work \/ User \/ World

CreationSpec == CreationInit /\ [][CreationNext]_creationVars

CreationFairSpec == CreationSpec /\ WF_creationVars(Work)

-----------------------------------------------------------------------------
(***************************************************************************)
(* Properties                                                               *)
(***************************************************************************)
Writes == [op : {"gate", "stream", "grant", "clone", "node", "days", "allow"},
           on : Streams \cup {"gate"}, gate : Nat]
CreationTypeOK ==
    /\ ahead \in CreationStates
    /\ \A i \in DOMAIN clones : clones[i] \in [by : Gated, mine : BOOLEAN]
    /\ \A c \in Creations :
        /\ onChain[c] \subseteq Writes
        /\ records[c] \in [on : BOOLEAN, gate : 0..Len(clones), start : 0..Len(clones), old : BOOLEAN]
        /\ saved[c] \subseteq 0..Len(clones) /\ listed[c] \subseteq 0..Len(clones)
        /\ Cardinality(saved[c]) <= 1 /\ Cardinality(listed[c]) <= 1
        /\ keyring[c] \in [publish : Nat, interactions : {0, 1}]
        /\ run[c].kind \in {"idle", "create", "repair"} /\ run[c].round \in 0..Rounds
        /\ run[c].mode \in {"ask", "send", "mined", "recover"} => run[c].todo # <<>>
        /\ states[c] \in {"none", "resumable", "waiting", "unreadable"}
    /\ due \subseteq Creations /\ present \in BOOLEAN /\ discarded \subseteq Creations

\* What a creation has paid for is never lost but by the user: while a stream or a clone of it is on
\* chain, its record is pending here, or its channel is saved with the shared keys that the grants
\* name. Whatever fails, in whatever order, over reloads and changes of account (_runCreate's ordered
\* end, PendingCreates), as long as no two creations have one gate mode.
KeysKept(c) == c \in Gated => keyring[c].publish # None /\ keyring[c].interactions # None
Started(c) == onChain[c] # {} \/ \E i \in DOMAIN clones : clones[i].by = c /\ clones[i].mine
PaidIsHeld ==
    \A c \in Creations : Started(c) /\ c \notin discarded =>
        records[c].on \/ (saved[c] # {} /\ KeysKept(c))

\* No transaction is sent for what the chain already has, nor a second clone deployed, over retries,
\* lost receipts, unread answers and resumed sessions (executeWithRetryAndVerify, finishPendingCreate),
\* but for an allowlist that could not be read, createStream's own recovery and a repair.
PaidOnce ==
    /\ \A t \in twice : t.unasked \/ t.w.op = "allow"
    /\ \A c \in Creations : Cardinality({i \in DOMAIN clones : clones[i].by = c}) <= 1

\* A repair that could read every stream and reports no failure leaves nothing for the next: every
\* stream of the channel is there, stored where it must be, and granted to whom the check expects,
\* whatever half of its creation had landed (diagnoseChannel, repairChannel).
Healthy(c) ==
    LET g == CHOOSE h \in listed[c] : TRUE
    IN  \A s \in RolesOf(c) :
            /\ Exists(c, s) /\ InPlace(c, OwnGrant(c, s, g).w)
            /\ s # "ephemeral" => InPlace(c, Write("node", s, g))
RepairHeals ==
    \A c \in Creations :
        run[c].mode = "over" /\ ~run[c].failed /\ report[c].full /\ listed[c] # {} => Healthy(c)

\* A creation, or the Finish of an interrupted one, that runs from its first step with no fault
\* left to happen ends with the whole channel on chain, saved with its keys, and its record dropped.
Clean == present /\ \A e \in CreationEvents : ahead.left[e] = 0
AtStart(c) == Creating(c) /\ run[c].round = 1 /\ Len(run[c].todo) = Len(CreatePlan(c, None, FALSE))
Whole(c) == \A i \in DOMAIN CreatePlan(c, None, FALSE) :
    \E g \in saved[c] : InPlace(c, CreatePlan(c, g, FALSE)[i].w)
Done(c) == saved[c] # {} /\ KeysKept(c) /\ ~records[c].on /\ Whole(c)
FinishLands == \A c \in Creations : (Clean /\ AtStart(c)) ~> Done(c)

\* Not upheld: the clone found is `what an interrupted channel creation paid for', but one of the
\* same mode that is mined and not yet recorded is taken from the creation that deployed it.
OneGateEach == \A c, d \in Gated : c # d => saved[c] \cap saved[d] = {}

\* Not upheld: the record is there `instead of a paid channel nobody holds', but createStream's
\* recovery reports success without the -3 to -5, and the record is dropped.
DoneIsWhole == [][\A c \in Creations : records[c].on /\ ~records'[c].on /\ c \notin discarded'
                                       => Whole(c) \/ onChain[c] = {}]_creationVars

\* Not upheld: `never sending it twice', `each write asks the chain first'; createStream's recovery
\* takes a stream it cannot read for missing and grants without asking, and a repair goes by its report.
SentOnce == \A t \in twice : t.w.op = "allow"

\* Not upheld: a publish key gives way only to a newer one; finishing a creation whose channel was
\* saved, and re-keyed, before its record was dropped adopts the first key again.
KeyNeverBack == [][\A c \in Creations : keyring'[c].publish >= keyring[c].publish]_creationVars
=============================================================================
