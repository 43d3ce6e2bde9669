----------------------------- MODULE AccountSync -----------------------------
(***************************************************************************)
(* One account on several devices, kept in step through snapshots in the    *)
(* storage of its own inbox (syncManager.js, with the merge of syncMerge.js *)
(* and the startup, hide and visibility triggers of app.js).                *)
(*                                                                         *)
(* A state has two parts, after how a pull writes them back.  `kept' stands *)
(* for the channels, the epoch keys and the deletions: entries that only    *)
(* grow here and are merged again with the live state before the import.    *)
(* `val' stands for a slice picked by its stamp (blocked peers, contacts,   *)
(* username): it takes the later edit and is written as the merge left it.  *)
(* An edit, its save and the scheduling of its push are one step; a         *)
(* snapshot is one row, however many chunks it travels in.  Stamps are       *)
(* unique and every device is shown (not in the background) unless it hides.*)
(***************************************************************************)
EXTENDS Naturals, Sequences

CONSTANTS Devices,      \* devices of the account
          Slots,        \* bound: sync operations a device can have under way at once
          Courses       \* bounds of the behaviours: each starts on one of these

Events == {"edit", "slice", "lost", "miss", "fail", "noread", "stale", "torn", "broken", "probe",
           "cold", "crash", "hide", "sync"}

\* a course: the devices that run, their slots, those set to "Manual only", and how often
\* each edit, fault or prompt may still happen
CourseStates == [devices : SUBSET Devices, slots : SUBSET Slots, manual : SUBSET Devices,
                 left : [Events -> Nat]]

ASSUME AccountSyncAssumption == Courses \subseteq CourseStates

VARIABLES
    live,       \* the account state each device holds (saved with each change)
    dirty,      \* the dirty flag (localStorage)
    applied,    \* rows merged into the state or published by it (localStorage)
    confirmed,  \* the state storage was last seen to hold (localStorage)
    session,    \* what the running page keeps in memory
    job,        \* the sync operations under way
    store,      \* rows the storage nodes hold
    clock,      \* stamps given to edits
    pushed,     \* rows published
    course,     \* what is left of the course of this behaviour
    mine,       \* history: the entries each device added itself
    sent,       \* history: the entries each device has published
    hidden      \* history: devices whose page was hidden with changes to push

vars == <<live, dirty, applied, confirmed, session, job, store, clock, pushed, course, mine, sent, hidden>>
hist == <<mine, sent, hidden>>

Nothing == [kept |-> {}, val |-> FALSE, stamp |-> 0]
NoHash  == <<{}, FALSE, FALSE>>
Hash(l) == <<l.kept, l.val, TRUE>>            \* syncStateKey leaves the stamps out
NoConfirm == [at |-> 0, hash |-> NoHash]
\* connecting probes the inbox first; a "cold" session starts without the answer
NewSession(probed) == [timer |-> FALSE, queued |-> FALSE, syncing |-> FALSE, probed |-> probed,
                       started |-> FALSE, confirm |-> NoConfirm, own |-> {}, seen |-> 0]
Idle == [by |-> "none", at |-> "idle", todo |-> <<>>, base |-> Nothing, rows |-> {}]

May(e)    == course.left[e] > 0
Spend(e)  == May(e) /\ course' = [course EXCEPT !.left[e] = @ - 1]
AutoSync(d) == d \notin course.manual                                 \* isAutoSyncAllowed
Latest(S) == IF S = {} THEN 0 ELSE CHOOSE n \in S : \A k \in S : k <= n
Ats(rows) == {r.at : r \in rows}

(***************************************************************************)
(* mergeState: entries are united, the slice with the later stamp is taken. *)
(***************************************************************************)
Merged(base, rows) ==
    LET states == {base} \cup {r.data : r \in rows}
        last   == CHOOSE s \in states : \A t \in states : t.stamp <= s.stamp
    IN  [kept |-> UNION {s.kept : s \in states}, val |-> last.val, stamp |-> last.stamp]

ImportedBare(now, merged) == merged                                 \* mutant of Imported

\* the rebase of pullSync: entries again with the live state, the slice as merged
Imported(now, merged) == [merged EXCEPT !.kept = @ \cup now.kept]

(***************************************************************************)
(* Session bookkeeping                                                      *)
(***************************************************************************)
\* scheduleAutoPush marks the state dirty and, where allowed, sets the timer
Scheduled(d, s) == IF AutoSync(d) THEN [s EXCEPT !.timer = TRUE] ELSE s

\* the finally of pushSync and pullSync, with _flushQueuedPush
Released(d, s) == LET r == [s EXCEPT !.syncing = FALSE, !.queued = FALSE]
                  IN  IF s.queued THEN Scheduled(d, r) ELSE r

Returned(j) == IF Len(j.todo) = 1 THEN Idle
               ELSE [Idle EXCEPT !.by = j.by, !.at = "between", !.todo = Tail(j.todo)]

\* past hasInbox: the operation takes isSyncing, and a push takes its snapshot
Begun(d, j) ==
    IF Head(j.todo) = "push" THEN [j EXCEPT !.at = "exported", !.base = live[d]]
    ELSE [j EXCEPT !.at = "reading"]

(***************************************************************************)
(* pushSync or pullSync is called: checked against isSyncing at once, and   *)
(* begun at once when the inbox is known to exist.                          *)
(***************************************************************************)
Call(d, i, j, s) ==
    IF s.syncing
    THEN /\ session' = [session EXCEPT ![d] = IF Head(j.todo) = "push"
                                              THEN [s EXCEPT !.queued = TRUE] ELSE s]
         /\ job' = [job EXCEPT ![d][i] = Returned(j)]
    ELSE /\ session' = [session EXCEPT ![d] = [s EXCEPT !.syncing = s.probed]]
         /\ job' = [job EXCEPT ![d][i] = IF s.probed THEN Begun(d, j) ELSE [j EXCEPT !.at = "inbox"]]

Prompt(d, i, by, todo, s) ==
    /\ job[d][i].at = "idle"
    /\ Call(d, i, [Idle EXCEPT !.by = by, !.todo = todo], s)

\* smartSync pushes first only with changes waiting
SyncOrder(d) == IF dirty[d] THEN <<"push", "pull">> ELSE <<"pull", "push">>

\* smartSync asks for the inbox before it looks at the dirty flag
Ask(d, i, by, s) ==
    IF s.probed THEN Prompt(d, i, by, SyncOrder(d), s)
    ELSE /\ job[d][i].at = "idle"
         /\ job' = [job EXCEPT ![d][i] = [Idle EXCEPT !.by = by, !.at = "asked"]]
         /\ session' = [session EXCEPT ![d] = s]

-----------------------------------------------------------------------------
(***************************************************************************)
(* Edits and triggers                                                       *)
(***************************************************************************)
Edited(d) ==
    /\ clock' = clock + 1
    /\ dirty' = [dirty EXCEPT ![d] = TRUE]
    /\ session' = [session EXCEPT ![d] = Scheduled(d, @)]
    /\ UNCHANGED <<applied, confirmed, job, store, pushed, sent, hidden>>

Edit(d) ==
    /\ Spend("edit")
    /\ live' = [live EXCEPT ![d].kept = @ \cup {clock + 1}]
    /\ mine' = [mine EXCEPT ![d] = @ \cup {clock + 1}]
    /\ Edited(d)

EditSlice(d) ==
    /\ Spend("slice")
    /\ live' = [live EXCEPT ![d].val = ~@, ![d].stamp = clock + 1]
    /\ UNCHANGED mine
    /\ Edited(d)

\* the debounce timer of scheduleAutoPush
TimerFires(d, i) ==
    /\ session[d].timer
    /\ Prompt(d, i, "timer", <<"push">>, [session[d] EXCEPT !.timer = FALSE])
    /\ UNCHANGED <<live, dirty, applied, confirmed, store, clock, pushed, course, hist>>

\* smartSync at startup or by hand
SmartSync(d, i) ==
    /\ \/ /\ AutoSync(d) /\ ~session[d].started
          /\ Ask(d, i, "start", [session[d] EXCEPT !.started = TRUE])
          /\ UNCHANGED course
       \/ /\ Spend("sync")
          /\ Ask(d, i, "sync", session[d])
    /\ UNCHANGED <<live, dirty, applied, confirmed, store, clock, pushed, hist>>

\* forcePushNow when the page hides with the state dirty
Hide(d, i) ==
    /\ dirty[d]
    /\ Spend("hide")
    /\ LET s == [session[d] EXCEPT !.timer = FALSE, !.queued = FALSE]      \* cancelAutoPush
       IN  IF AutoSync(d) /\ ~s.syncing
           THEN Prompt(d, i, "hide", <<"push">>, s)
           ELSE session' = [session EXCEPT ![d] = s] /\ UNCHANGED job
    /\ hidden' = hidden \cup {d}
    /\ UNCHANGED <<live, dirty, applied, confirmed, store, clock, pushed, mine, sent>>

ForeignPastOwn(d) ==                                                \* mutant of Foreign
    {n \in Ats(store) : n > Latest({session[d].seen} \cup session[d].own)}

\* a row of another session newer than anything this one has read
Foreign(d) == {n \in Ats(store) : n \notin session[d].own /\ n > session[d].seen}

\* checkForNewSnapshot, once a minute: it asks for the inbox, and the newest row decides
Watch(d, i) ==
    /\ AutoSync(d) /\ ~session[d].syncing
    /\ Latest(Ats(store)) \in Foreign(d)
    /\ Prompt(d, i, "pull", <<"pull">>, [session[d] EXCEPT !.probed = TRUE])
    /\ UNCHANGED <<live, dirty, applied, confirmed, store, clock, pushed, course, hist>>

-----------------------------------------------------------------------------
(***************************************************************************)
(* The steps of an operation                                                *)
(***************************************************************************)
\* the second phase of smartSync
NextPhase(d, i) ==
    /\ job[d][i].at = "between"
    /\ Call(d, i, job[d][i], session[d])
    /\ UNCHANGED <<live, dirty, applied, confirmed, store, clock, pushed, course, hist>>

\* hasInbox answers: a push goes on, whoever has isSyncing by now; smartSync starts
InboxFound(d, i) ==
    /\ \/ /\ job[d][i].at = "inbox"
          /\ session' = [session EXCEPT ![d].probed = TRUE, ![d].syncing = TRUE]
          /\ job' = [job EXCEPT ![d][i] = Begun(d, @)]
       \/ /\ job[d][i].at = "asked"
          /\ Call(d, i, [job[d][i] EXCEPT !.todo = SyncOrder(d)], [session[d] EXCEPT !.probed = TRUE])
    /\ UNCHANGED <<live, dirty, applied, confirmed, store, clock, pushed, course, hist>>

\* hasInbox fails: the operation is skipped and nobody is told
InboxMissing(d, i) ==
    /\ job[d][i].at \in {"asked", "inbox"}
    /\ Spend("probe")
    /\ job' = [job EXCEPT ![d][i] = IF @.at = "asked" THEN Idle ELSE Returned(@)]
    /\ UNCHANGED <<live, dirty, applied, confirmed, session, store, clock, pushed, hist>>

\* a change was scheduled, or a push asked for, since this one began
ScheduledSince(d) == session[d].timer \/ session[d].queued

\* the dirty flag when a push ends well: cleared, then set again by a queued push
DirtyAfter(d) == ScheduledSince(d) /\ (dirty[d] \/ session[d].queued)

PushPublish(d, i, stays) ==
    LET n == pushed + 1
        base == job[d][i].base
    IN
    /\ job[d][i].at = "exported"
    /\ Hash(base) \notin {confirmed[d], session[d].confirm.hash}
    /\ pushed' = n
    /\ \/ stays /\ store' = store \cup {[at |-> n, data |-> base]} /\ UNCHANGED course
       \/ ~stays /\ Spend("lost") /\ UNCHANGED store
    /\ applied' = [applied EXCEPT ![d] = @ \cup {n}]
    /\ sent' = [sent EXCEPT ![d] = @ \cup base.kept]
    /\ dirty' = [dirty EXCEPT ![d] = DirtyAfter(d)]
    /\ session' = [session EXCEPT ![d] =
            Released(d, [session[d] EXCEPT !.own = @ \cup {n}, !.confirm = [at |-> n, hash |-> Hash(base)]])]
    /\ job' = [job EXCEPT ![d][i] = Returned(@)]
    /\ UNCHANGED <<live, confirmed, clock, mine, hidden>>

\* storage is known to hold this state, or its read-back is under way
PushSkip(d, i) ==
    /\ job[d][i].at = "exported"
    /\ Hash(job[d][i].base) \in {confirmed[d], session[d].confirm.hash}
    /\ dirty' = [dirty EXCEPT ![d] = DirtyAfter(d)]
    /\ session' = [session EXCEPT ![d] = Released(d, @)]
    /\ job' = [job EXCEPT ![d][i] = Returned(@)]
    /\ UNCHANGED <<live, applied, confirmed, store, clock, pushed, course, hist>>

\* the publish fails: the timer and smartSync schedule the push again, a hide does not
PushFail(d, i) ==
    LET again == job[d][i].by \in {"timer", "start", "sync"}
        s     == Released(d, session[d])
    IN
    /\ job[d][i].at = "exported"
    /\ Spend("fail")
    /\ dirty' = [dirty EXCEPT ![d] = @ \/ again \/ session[d].queued]
    /\ session' = [session EXCEPT ![d] = IF again THEN Scheduled(d, s) ELSE s]
    /\ job' = [job EXCEPT ![d][i] = Returned(@)]
    /\ UNCHANGED <<live, applied, confirmed, store, clock, pushed, hist>>

(***************************************************************************)
(* The read-back of a push.  One that finds a row of another device pulls.  *)
(***************************************************************************)
ReadBack(d, i, s) ==
    IF AutoSync(d) /\ Foreign(d) # {} THEN Prompt(d, i, "pull", <<"pull">>, s)
    ELSE session' = [session EXCEPT ![d] = s] /\ UNCHANGED job

HeldBackBlind(d) == session[d].confirm.at # 0                       \* mutant of HeldBack

HeldBack(d) == session[d].confirm.at \in Ats(store)

ConfirmHolds(d, i) ==
    /\ HeldBack(d)
    /\ confirmed' = [confirmed EXCEPT ![d] = session[d].confirm.hash]
    /\ ReadBack(d, i, [session[d] EXCEPT !.confirm = NoConfirm])
    /\ UNCHANGED <<live, dirty, applied, store, clock, pushed, course, hist>>

\* every read-back missed the row
ConfirmFails(d, i) ==
    /\ session[d].confirm.at # 0
    /\ IF HeldBack(d) THEN Spend("miss") ELSE UNCHANGED course
    /\ dirty' = [dirty EXCEPT ![d] = TRUE]
    /\ ReadBack(d, i, [session[d] EXCEPT !.confirm = NoConfirm])
    /\ UNCHANGED <<live, applied, confirmed, store, clock, pushed, hist>>

(***************************************************************************)
(* pullSync.  A read can fail (taken for empty), come from a replica that   *)
(* lags, or hold a run whose chunks are not all there (dropped, yet noted   *)
(* as read).  What was applied before is skipped; a read provably older     *)
(* than what was applied is made once more.                                 *)
(***************************************************************************)
Reads == {[rows |-> store, whole |-> store, fault |-> "none"],
          [rows |-> {}, whole |-> {}, fault |-> "noread"]}
         \cup {[rows |-> R, whole |-> R, fault |-> "stale"] : R \in SUBSET store}
         \cup {[rows |-> store, whole |-> R, fault |-> "torn"] : R \in SUBSET store}

RecordedAll(d, rows) == applied[d] \cup Ats(store)                  \* mutant of Recorded

\* _recordAppliedTs: what was merged is not merged again
Recorded(d, rows) == applied[d] \cup Ats(rows)

PullRead(d, i) ==
    /\ job[d][i].at \in {"reading", "rereading"}
    /\ \E read \in Reads :
        LET fresh == {r \in read.whole : r.at \notin applied[d]}
            s     == [session[d] EXCEPT !.seen = Latest({@} \cup Ats(read.rows))]
            older == read.whole # {} /\ Latest(Ats(read.whole)) < Latest(applied[d])
        IN
        /\ IF read.fault = "none" THEN UNCHANGED course ELSE Spend(read.fault)
        /\ \/ /\ fresh # {}
              /\ job' = [job EXCEPT ![d][i].at = "merging", ![d][i].base = live[d], ![d][i].rows = fresh]
              /\ session' = [session EXCEPT ![d] = s]
              /\ UNCHANGED dirty
           \/ /\ fresh = {} /\ older /\ job[d][i].at = "reading"
              /\ job' = [job EXCEPT ![d][i].at = "rereading"]
              /\ session' = [session EXCEPT ![d] = s]
              /\ UNCHANGED dirty
           \/ /\ fresh = {} /\ ~(older /\ job[d][i].at = "reading")
              /\ job' = [job EXCEPT ![d][i] = Returned(@)]
              /\ session' = [session EXCEPT ![d] = Released(d, s)]
              /\ dirty' = [dirty EXCEPT ![d] = @ \/ session[d].queued]
    /\ UNCHANGED <<live, applied, confirmed, store, clock, pushed, hist>>

\* the merge comes back from the worker and is imported
PullImport(d, i) ==
    LET j == job[d][i] IN
    /\ j.at = "merging"
    /\ live' = [live EXCEPT ![d] = Imported(@, Merged(j.base, j.rows))]
    /\ applied' = [applied EXCEPT ![d] = Recorded(d, j.rows)]
    /\ job' = [job EXCEPT ![d][i] = Returned(@)]
    /\ session' = [session EXCEPT ![d] = Released(d, @)]
    /\ dirty' = [dirty EXCEPT ![d] = @ \/ session[d].queued]
    /\ UNCHANGED <<confirmed, store, clock, pushed, course, hist>>

\* the worker fails: a smartSync that reads first stops there, and startup tries again
PullFail(d, i) ==
    LET first == Len(job[d][i].todo) = 2
        s == Released(d, session[d])
    IN
    /\ job[d][i].at = "merging"
    /\ Spend("broken")
    /\ job' = [job EXCEPT ![d][i] = IF first THEN Idle ELSE Returned(@)]
    /\ session' = [session EXCEPT ![d] = [s EXCEPT !.started = @ /\ job[d][i].by # "start"]]
    /\ dirty' = [dirty EXCEPT ![d] = @ \/ session[d].queued]
    /\ UNCHANGED <<live, applied, confirmed, store, clock, pushed, hist>>

\* the page goes away; the next session starts with what is stored
Restart(d) ==
    /\ session[d].started
    /\ \/ Spend("crash") /\ session' = [session EXCEPT ![d] = NewSession(TRUE)]
       \/ /\ May("crash") /\ May("cold")
          /\ course' = [course EXCEPT !.left["crash"] = @ - 1, !.left["cold"] = @ - 1]
          /\ session' = [session EXCEPT ![d] = NewSession(FALSE)]
    /\ job' = [job EXCEPT ![d] = [i \in Slots |-> Idle]]
    /\ UNCHANGED <<live, dirty, applied, confirmed, store, clock, pushed, hist>>

-----------------------------------------------------------------------------
Init ==
    /\ live = [d \in Devices |-> Nothing]
    /\ dirty = [d \in Devices |-> FALSE]
    /\ applied = [d \in Devices |-> {}]
    /\ confirmed = [d \in Devices |-> NoHash]
    /\ course \in Courses
    /\ \E cold \in IF May("cold") THEN SUBSET course.devices ELSE {{}} :
            session = [d \in Devices |-> NewSession(d \notin cold)]
    /\ job = [d \in Devices |-> [i \in Slots |-> Idle]]
    /\ store = {} /\ clock = 0 /\ pushed = 0
    /\ mine = [d \in Devices |-> {}]
    /\ sent = [d \in Devices |-> {}]
    /\ hidden = {}

Step(d, i) ==
    \/ TimerFires(d, i) \/ SmartSync(d, i) \/ Hide(d, i) \/ Watch(d, i)
    \/ NextPhase(d, i) \/ InboxFound(d, i) \/ InboxMissing(d, i)
    \/ PushPublish(d, i, TRUE) \/ PushPublish(d, i, FALSE) \/ PushSkip(d, i) \/ PushFail(d, i)
    \/ ConfirmHolds(d, i) \/ ConfirmFails(d, i)
    \/ PullRead(d, i) \/ PullImport(d, i) \/ PullFail(d, i)

Next == \E d \in course.devices :
    \/ Edit(d) \/ EditSlice(d) \/ Restart(d)
    \/ \E i \in course.slots : Step(d, i)

Spec == Init /\ [][Next]_vars

(***************************************************************************)
(* Timers fire, network calls and the worker return, the watch runs and a   *)
(* connected session starts its sync.  (FairSpec is for courses in which     *)
(* every device runs and has all its slots.)                                *)
(***************************************************************************)
Progress(d, i) ==
    \/ NextPhase(d, i) \/ InboxFound(d, i) \/ PushPublish(d, i, TRUE) \/ PushSkip(d, i)
    \/ PullRead(d, i) \/ PullImport(d, i)

FairSpec ==
    /\ Spec
    /\ \A d \in Devices :
        /\ WF_vars(\E i \in Slots : TimerFires(d, i))
        /\ WF_vars(\E i \in Slots : SmartSync(d, i) /\ ~session[d].started)
        /\ WF_vars(\E i \in Slots : Watch(d, i))
        /\ WF_vars(\E i \in Slots : ConfirmHolds(d, i))
        /\ WF_vars(\E i \in Slots : ConfirmFails(d, i) /\ ~HeldBack(d))
        /\ \A i \in Slots : WF_vars(Progress(d, i))

-----------------------------------------------------------------------------
(***************************************************************************)
(* Properties                                                               *)
(***************************************************************************)
States  == [kept : SUBSET (1..clock), val : BOOLEAN, stamp : 0..clock]
Rows    == [at : 1..pushed, data : States]
Hashes  == (SUBSET (1..clock)) \X BOOLEAN \X BOOLEAN
Todos   == {<<>>, <<"push">>, <<"pull">>, <<"push", "pull">>, <<"pull", "push">>}
Phases  == {"idle", "asked", "between", "inbox", "exported", "reading", "rereading", "merging"}
Sessions == [timer : BOOLEAN, queued : BOOLEAN, syncing : BOOLEAN, probed : BOOLEAN, started : BOOLEAN,
             confirm : [at : 0..pushed, hash : Hashes], own : SUBSET (1..pushed), seen : 0..pushed]
Jobs    == [by : {"none", "timer", "start", "sync", "hide", "pull"}, at : Phases, todo : Todos,
            base : States, rows : SUBSET Rows]

(* Every device's state, session and operations are well formed, and what is recorded *)
(* names rows that were published. *)
TypeOK ==
    /\ clock \in Nat /\ pushed \in Nat
    /\ course \in CourseStates
    /\ live \in [Devices -> States]
    /\ dirty \in [Devices -> BOOLEAN]
    /\ applied \in [Devices -> SUBSET (1..pushed)]
    /\ confirmed \in [Devices -> Hashes]
    /\ store \in SUBSET Rows
    /\ session \in [Devices -> Sessions]
    /\ job \in [Devices -> [Slots -> Jobs]]
    /\ mine \in [Devices -> SUBSET (1..clock)]
    /\ sent \in [Devices -> SUBSET (1..clock)]
    /\ hidden \subseteq Devices

(* A pull writes the merged snapshot over the state, and an entry added here while the *)
(* merge ran (a channel joined, a key adopted) is still there afterwards: nothing a     *)
(* device holds is ever dropped by syncing. *)
EntriesKept == [][\A d \in Devices : live[d].kept \subseteq live'[d].kept]_vars

(* What counts as applied is in the state: skipping a row that was merged or published *)
(* before loses nothing, even when two pulls run over each other. *)
AppliedIsHeld == \A d \in Devices : \A r \in store :
                    r.at \in applied[d] => r.data.kept \subseteq live[d].kept

\* a push that carries the entries S is under way, or will take its snapshot
PushUnderWay(d, S) == \E i \in Slots :
    \/ job[d][i].at = "inbox" /\ Head(job[d][i].todo) = "push"
    \/ job[d][i].at = "exported" /\ S \subseteq job[d][i].base.kept

(* Not upheld: isDirty, "True if local changes may not have been pushed yet": with an entry added  *)
(* here and published by nobody, the flag is set or the push that carries it runs. *)
DirtyCovers == \A d \in Devices : LET S == mine[d] \ sent[d] IN
                    S # {} => dirty[d] \/ PushUnderWay(d, S)

\* an operation that will still take the snapshot of a push
PushAhead(j) == /\ j.at \notin {"idle", "exported"}
                /\ j.at = "asked" \/ "push" \in {j.todo[k] : k \in 1..Len(j.todo)}

(* An entry added on a device that syncs by itself is in storage, or something will still push  *)
(* it: the flag, a push or its read-back under way, or the sync the session starts with; unless  *)
(* the page was hidden with changes waiting, which cancels the timer for good. *)
NothingStranded == \A d \in Devices \ (hidden \cup course.manual) :
    LET S == mine[d] \ UNION {r.data.kept : r \in store}
    IN  S # {} => \/ dirty[d] \/ session[d].queued \/ PushUnderWay(d, S)
                  \/ session[d].confirm.at # 0
                  \/ ~session[d].started
                  \/ \E i \in Slots : PushAhead(job[d][i])

(* Not upheld: a slice edited here is not replaced by one edited earlier. *)
SliceNeverOlder == [][\A d \in Devices : live'[d].stamp >= live[d].stamp]_vars

(* Not upheld: _isConfirmedState, "True when storage already holds this exact state": the state a  *)
(* push is skipped over is in storage with its stamps. *)
SkipsExactState == \A d \in Devices, i \in Slots :
    job[d][i].at = "exported" /\ Hash(job[d][i].base) = confirmed[d]
        => \E r \in store : r.data = job[d][i].base

(* Not upheld: the read-back of a push pulls "rows from another device met on the way": one that is *)
(* in storage while it runs is merged in the end. *)
MetRowsPulled == \A d \in Devices : \A n \in UNION {1..(2 * c.left["edit"]) : c \in Courses} :
    (session[d].confirm.at # 0 /\ n \in Foreign(d)) ~> (n \in applied[d])

(* Every entry added on one device reaches all of them, through failed publishes,      *)
(* lagging replicas and a restart. *)
EntriesSpread == \A e \in UNION {1..c.left["edit"] : c \in Courses} :
    (\E d \in Devices : e \in mine[d]) ~> (\A d \in Devices : e \in live[d].kept)
=============================================================================
