-------------------------- MODULE AccountSync_proofs --------------------------
(***************************************************************************)
(* Proofs about AccountSync, for any devices, operations and courses.       *)
(*                                                                         *)
(* AppliedIsHeld is not inductive: a push adds its row to the ledger when    *)
(* its publish returns, by which time the state it exported may be old, and  *)
(* an import adds rows that were read long before.  The strengthening says   *)
(* that the state only grows beyond what a push exported (Exported holds),   *)
(* and that what is being merged is still what storage holds, whose rows are *)
(* told apart by their stamp.                                               *)
(*                                                                         *)
(* NothingStranded, for sessions that connect with their inbox probed, has a  *)
(* strengthening of its own (What carries an entry to storage).              *)
(*                                                                         *)
(* The last parts are about SyncMerge, the merge of two states as it is, for  *)
(* any states: the parts that come out the same in whatever order and         *)
(* grouping snapshots are folded, and the one that does not.  No theorem is   *)
(* by induction: order and grouping are commutativity and associativity of    *)
(* one merge.                                                               *)
(***************************************************************************)
EXTENDS AccountSync, SyncMerge, FiniteSetTheorems, WellFoundedInduction, TLAPS

-----------------------------------------------------------------------------
(* The latest of some stamps                                                *)

\* Without induction: of the sets of what is above each stamp, a least one is empty.
LEMMA MaxExists ==
    ASSUME NEW T \in SUBSET Nat, T # {}, NEW n \in Nat, \A t \in T : t <= n
    PROVE  \E m \in T : \A k \in T : k <= m
<1> DEFINE Above(m) == {k \in T : k > m}
           U == {Above(m) : m \in T}
<1>1. IsFiniteSet(T)
  BY FS_BoundedSetOfNaturals
<1>2. \A m \in T : Above(m) \in FiniteSubsetsOf(T)
  <2> SUFFICES ASSUME NEW m \in T PROVE IsFiniteSet(Above(m)) /\ Above(m) \subseteq T
    BY DEF FiniteSubsetsOf
  <2> QED BY <1>1, FS_Subset
<1>3. U \subseteq FiniteSubsetsOf(T) /\ U # {}
  BY <1>2
<1>4. IsWellFoundedOn(StrictSubsetOrdering(T), FiniteSubsetsOf(T))
  BY FS_StrictSubsetOrderingWellFounded
<1>5. PICK x \in U : \A y \in U : ~(<<y, x>> \in StrictSubsetOrdering(T))
  <2> HIDE DEF U
  <2> QED BY <1>3, <1>4, WFMin
<1>6. PICK m \in T : x = Above(m)
  OBVIOUS
<1>7. ASSUME NEW k \in T, k > m PROVE FALSE
  <2>1. Above(k) \subseteq T /\ x \subseteq T
    BY <1>6
  <2>2. \A a \in T : a \in Nat
    OBVIOUS
  <2>4. ASSUME NEW a \in Above(k) PROVE a \in Above(m)
    <3>1. a \in T /\ a > k
      OBVIOUS
    <3>2. a > m
      BY <1>7, <2>2, <3>1
    <3> QED BY <3>1, <3>2
  <2>5. k \in Above(m) /\ k \notin Above(k)
    BY <1>7, <2>2
  <2>6. Above(k) \subseteq x /\ k \in x /\ k \notin Above(k)
    BY <1>6, <2>4, <2>5
  <2>3. <<Above(k), x>> \in StrictSubsetOrdering(T)
    BY <2>1, <2>6 DEF StrictSubsetOrdering
  <2> QED BY <1>5, <2>3
<1> QED BY <1>7

LEMMA LatestTyped ==
    ASSUME NEW n \in Nat, NEW S \in SUBSET (0..n)
    PROVE  Latest(S) \in 0..n
<1>1. CASE S = {}
  BY <1>1 DEF Latest
<1>2. CASE S # {}
  <2>1. \E m \in S : \A k \in S : k <= m
    <3>1. S \in SUBSET Nat /\ \A k \in S : k <= n
      OBVIOUS
    <3> QED BY <1>2, <3>1, MaxExists
  <2>2. Latest(S) \in S
    BY <1>2, <2>1 DEF Latest
  <2> QED BY <2>2
<1> QED BY <1>1, <1>2

\* a merge is a state, and holds the entries of all it merges
LEMMA MergedTyped ==
    ASSUME clock \in Nat, NEW base \in States, NEW rows \in SUBSET Rows
    PROVE  /\ Merged(base, rows) \in States
           /\ base.kept \subseteq Merged(base, rows).kept
           /\ \A r \in rows : r.data.kept \subseteq Merged(base, rows).kept
<1> DEFINE states == {base} \cup {r.data : r \in rows}
           last   == CHOOSE s \in states : \A t \in states : t.stamp <= s.stamp
           stamps == {s.stamp : s \in states}
<1>1. states \subseteq States /\ base \in states /\ \A r \in rows : r.data \in states
  BY DEF Rows
<1>2. last \in states
  <2>1. stamps \in SUBSET Nat /\ stamps # {} /\ \A t \in stamps : t <= clock
    BY <1>1 DEF States
  <2>2. PICK m \in stamps : \A k \in stamps : k <= m
    <3> HIDE DEF stamps
    <3> QED BY <2>1, MaxExists
  <2>3. \E s \in states : \A t \in states : t.stamp <= s.stamp
    BY <2>2
  <2> HIDE DEF states
  <2> QED BY <2>3
<1>3. UNION {s.kept : s \in states} \in SUBSET (1..clock)
  BY <1>1 DEF States
<1>4. Merged(base, rows) = [kept |-> UNION {s.kept : s \in states}, val |-> last.val, stamp |-> last.stamp]
  BY DEF Merged
<1>5. last.val \in BOOLEAN /\ last.stamp \in 0..clock
  BY <1>1, <1>2 DEF States
<1> HIDE DEF last
<1>6. Merged(base, rows) \in States
  BY <1>3, <1>4, <1>5 DEF States
<1> QED BY <1>1, <1>4, <1>6

-----------------------------------------------------------------------------
(* The invariant                                                            *)

\* an operation under way on d: it has something to do, it merges what storage holds, and the state
\* it exported has only grown since
Held(d, j) == /\ j.at \notin {"idle", "asked"} => j.todo # <<>>
              /\ j.rows \subseteq store
              /\ j.at = "exported" => j.base.kept \subseteq live[d].kept
JobsOK(jobs) == /\ jobs \in [Devices -> [Slots -> Jobs]]
                /\ \A d \in Devices, i \in Slots : Held(d, jobs[d][i])
OneRowEach   == \A r, q \in store : r.at = q.at => r = q

SyncInv == TypeOK /\ JobsOK(job) /\ OneRowEach /\ AppliedIsHeld

-----------------------------------------------------------------------------
(* Types of the values a step makes                                         *)

LEMMA Spent == ASSUME course \in CourseStates, NEW e \in Events, Spend(e)
               PROVE  course' \in CourseStates
  <1>1. course.left[e] \in Nat /\ course.left[e] > 0
    BY DEF Spend, May, CourseStates
  <1>2. [course.left EXCEPT ![e] = @ - 1] \in [Events -> Nat]
    BY <1>1 DEF CourseStates
  <1>3. course' = [course EXCEPT !.left = [course.left EXCEPT ![e] = @ - 1]]
    BY DEF Spend, CourseStates
  <1> QED BY <1>2, <1>3 DEF CourseStates

LEMMA NothingTyped ==
    ASSUME clock \in Nat, pushed \in Nat
    PROVE  /\ Nothing \in States /\ NoHash \in Hashes
           /\ NoConfirm \in [at : 0..pushed, hash : Hashes]
           /\ Idle \in Jobs /\ \A d \in Devices : Held(d, Idle)
           /\ \A p \in BOOLEAN : NewSession(p) \in Sessions
<1>1. Nothing \in States
  BY DEF Nothing, States
<1>2. NoHash \in Hashes
  BY DEF NoHash, Hashes
<1>3. NoConfirm \in [at : 0..pushed, hash : Hashes]
  BY <1>2 DEF NoConfirm
<1>4. Idle \in Jobs /\ \A d \in Devices : Held(d, Idle)
  BY <1>1 DEF Idle, Jobs, Phases, Todos, Held
<1>5. \A p \in BOOLEAN : NewSession(p) \in Sessions
  BY <1>3 DEF NewSession, Sessions
<1> QED BY <1>1, <1>2, <1>3, <1>4, <1>5

LEMMA HashTyped == ASSUME NEW l \in States PROVE Hash(l) \in Hashes
  BY DEF Hash, Hashes, States

LEMMA SessionTyped ==
    ASSUME clock \in Nat, pushed \in Nat, NEW s \in Sessions, NEW d \in Devices
    PROVE  /\ Scheduled(d, s) \in Sessions
           /\ Released(d, s) \in Sessions
           /\ \A b \in BOOLEAN : /\ [s EXCEPT !.timer = b] \in Sessions
                                 /\ [s EXCEPT !.queued = b] \in Sessions
                                 /\ [s EXCEPT !.syncing = b] \in Sessions
                                 /\ [s EXCEPT !.started = b] \in Sessions
                                 /\ [s EXCEPT !.probed = b] \in Sessions
           /\ [s EXCEPT !.syncing = s.probed] \in Sessions
           /\ [s EXCEPT !.timer = FALSE, !.queued = FALSE] \in Sessions
           /\ [s EXCEPT !.probed = TRUE, !.syncing = TRUE] \in Sessions
           /\ [s EXCEPT !.confirm = NoConfirm] \in Sessions
           /\ \A n \in 0..pushed : [s EXCEPT !.seen = n] \in Sessions
           /\ s.queued \in BOOLEAN /\ s.timer \in BOOLEAN /\ s.started \in BOOLEAN /\ s.seen \in 0..pushed
           /\ s.confirm.hash \in Hashes
<1>1. NoConfirm \in [at : 0..pushed, hash : Hashes]
  BY NothingTyped
<1>2. [s EXCEPT !.syncing = FALSE, !.queued = FALSE] \in Sessions
  BY DEF Sessions
<1>3. \A t \in Sessions : Scheduled(d, t) \in Sessions
  BY DEF Scheduled, Sessions
<1>4. Released(d, s) \in Sessions
  BY <1>2, <1>3 DEF Released
<1>5. /\ \A b \in BOOLEAN : /\ [s EXCEPT !.timer = b] \in Sessions
                            /\ [s EXCEPT !.queued = b] \in Sessions
                            /\ [s EXCEPT !.syncing = b] \in Sessions
                            /\ [s EXCEPT !.started = b] \in Sessions
                            /\ [s EXCEPT !.probed = b] \in Sessions
      /\ [s EXCEPT !.syncing = s.probed] \in Sessions
      /\ [s EXCEPT !.timer = FALSE, !.queued = FALSE] \in Sessions
      /\ [s EXCEPT !.probed = TRUE, !.syncing = TRUE] \in Sessions
  BY DEF Sessions
<1>6. /\ [s EXCEPT !.confirm = NoConfirm] \in Sessions
      /\ \A n \in 0..pushed : [s EXCEPT !.seen = n] \in Sessions
      /\ s.queued \in BOOLEAN /\ s.timer \in BOOLEAN /\ s.started \in BOOLEAN /\ s.seen \in 0..pushed
      /\ s.confirm.hash \in Hashes
  BY <1>1 DEF Sessions
<1> QED BY <1>3, <1>4, <1>5, <1>6

\* an operation that ends, or goes on to its second phase
LEMMA ReturnedTyped ==
    ASSUME clock \in Nat, pushed \in Nat, NEW j \in Jobs, j.todo # <<>>, NEW d \in Devices
    PROVE  Returned(j) \in Jobs /\ Held(d, Returned(j))
<1>1. Idle \in Jobs /\ Held(d, Idle)
  BY NothingTyped
<1>2. CASE Len(j.todo) = 1
  BY <1>1, <1>2 DEF Returned
<1>3. CASE Len(j.todo) # 1
  <2>1. j.todo = <<"push", "pull">> \/ j.todo = <<"pull", "push">>
    BY <1>3 DEF Jobs, Todos
  <2>2. Tail(j.todo) \in Todos /\ Tail(j.todo) # <<>>
    <3>1. Tail(<<"push", "pull">>) = <<"pull">> /\ Tail(<<"pull", "push">>) = <<"push">>
      OBVIOUS
    <3>2. <<"pull">> # <<>> /\ <<"push">> # <<>>
      OBVIOUS
    <3> QED BY <2>1, <3>1, <3>2 DEF Todos
  <2>3. Returned(j) = [Idle EXCEPT !.by = j.by, !.at = "between", !.todo = Tail(j.todo)]
    BY <1>3 DEF Returned
  <2>4. Nothing \in States
    BY NothingTyped
  <2> QED BY <2>2, <2>3, <2>4 DEF Idle, Jobs, Phases, Held
<1> QED BY <1>2, <1>3

\* one operation of a device takes a step
LEMMA OneJob ==
    ASSUME JobsOK(job), NEW d \in Devices, NEW i \in Slots, NEW j \in Jobs, Held(d, j)
    PROVE  JobsOK([job EXCEPT ![d][i] = j])
  BY DEF JobsOK

LEMMA BegunTyped ==
    ASSUME clock \in Nat, pushed \in Nat, NEW d \in Devices, live[d] \in States,
           NEW j \in Jobs, j.todo # <<>>, j.rows \subseteq store
    PROVE  Begun(d, j) \in Jobs /\ Held(d, Begun(d, j))
<1>1. CASE Head(j.todo) = "push"
  <2>1. Begun(d, j) = [j EXCEPT !.at = "exported", !.base = live[d]]
    BY <1>1 DEF Begun
  <2> QED BY <2>1 DEF Jobs, Phases, Held
<1>2. CASE Head(j.todo) # "push"
  <2>1. Begun(d, j) = [j EXCEPT !.at = "reading"]
    BY <1>2 DEF Begun
  <2> QED BY <2>1 DEF Jobs, Phases, Held
<1> QED BY <1>1, <1>2

LEMMA CallTyped ==
    ASSUME SyncInv, NEW d \in Devices, NEW i \in Slots, NEW j \in Jobs, j.todo # <<>>, j.rows \subseteq store,
           NEW s \in Sessions, Call(d, i, j, s)
    PROVE  session' \in [Devices -> Sessions] /\ JobsOK(job')
<1>1. /\ clock \in Nat /\ pushed \in Nat /\ live[d] \in States /\ session \in [Devices -> Sessions]
      /\ JobsOK(job)
  BY DEF SyncInv, TypeOK
<1>2. CASE s.syncing
  <2>1. (IF Head(j.todo) = "push" THEN [s EXCEPT !.queued = TRUE] ELSE s) \in Sessions
    BY <1>1, SessionTyped
  <2>2. /\ session' = [session EXCEPT ![d] = IF Head(j.todo) = "push" THEN [s EXCEPT !.queued = TRUE] ELSE s]
        /\ job' = [job EXCEPT ![d][i] = Returned(j)]
    BY <1>2 DEF Call
  <2>3. JobsOK(job')
    BY <1>1, <2>2, ReturnedTyped, OneJob
  <2> QED BY <1>1, <2>1, <2>2, <2>3
<1>3. CASE ~s.syncing
  <2> DEFINE k == IF s.probed THEN Begun(d, j) ELSE [j EXCEPT !.at = "inbox"]
  <2>1. [s EXCEPT !.syncing = s.probed] \in Sessions
    BY <1>1, SessionTyped
  <2>2. k \in Jobs /\ Held(d, k)
    <3>1. [j EXCEPT !.at = "inbox"] \in Jobs /\ Held(d, [j EXCEPT !.at = "inbox"])
      BY DEF Jobs, Phases, Held
    <3> QED BY <1>1, <3>1, BegunTyped
  <2>3. session' = [session EXCEPT ![d] = [s EXCEPT !.syncing = s.probed]] /\ job' = [job EXCEPT ![d][i] = k]
    BY <1>3 DEF Call
  <2> HIDE DEF k
  <2> QED BY <1>1, <2>1, <2>2, <2>3, OneJob
<1> QED BY <1>2, <1>3

LEMMA PromptTyped ==
    ASSUME SyncInv, NEW d \in Devices, NEW i \in Slots, NEW by \in {"timer", "start", "sync", "hide", "pull"},
           NEW todo \in Todos \ {<<>>}, NEW s \in Sessions, Prompt(d, i, by, todo, s)
    PROVE  session' \in [Devices -> Sessions] /\ JobsOK(job')
<1> DEFINE j == [Idle EXCEPT !.by = by, !.todo = todo]
<1>1. Nothing \in States
  BY NothingTyped DEF SyncInv, TypeOK
<1>2. j \in Jobs /\ j.todo # <<>> /\ j.rows \subseteq store
  BY <1>1 DEF Idle, Jobs, Phases
<1>3. Call(d, i, j, s)
  BY DEF Prompt
<1> HIDE DEF j
<1> QED BY <1>2, <1>3, CallTyped

LEMMA SyncOrderTyped == ASSUME NEW d PROVE SyncOrder(d) \in Todos \ {<<>>}
  BY DEF SyncOrder, Todos

LEMMA AskTyped ==
    ASSUME SyncInv, NEW d \in Devices, NEW i \in Slots, NEW by \in {"start", "sync"}, NEW s \in Sessions,
           Ask(d, i, by, s)
    PROVE  session' \in [Devices -> Sessions] /\ JobsOK(job')
<1>1. CASE s.probed
  <2>1. Prompt(d, i, by, SyncOrder(d), s)
    BY <1>1 DEF Ask
  <2> QED BY <2>1, SyncOrderTyped, PromptTyped
<1>2. CASE ~s.probed
  <2> DEFINE j == [Idle EXCEPT !.by = by, !.at = "asked"]
  <2>1. Nothing \in States /\ session \in [Devices -> Sessions] /\ JobsOK(job)
    BY NothingTyped DEF SyncInv, TypeOK
  <2>2. j \in Jobs /\ Held(d, j)
    BY <2>1 DEF Idle, Jobs, Phases, Todos, Held
  <2>3. job' = [job EXCEPT ![d][i] = j] /\ session' = [session EXCEPT ![d] = s]
    BY <1>2 DEF Ask
  <2> HIDE DEF j
  <2> QED BY <2>1, <2>2, <2>3, OneJob
<1> QED BY <1>1, <1>2

-----------------------------------------------------------------------------
(* Initial states                                                           *)

LEMMA InitInv == Init => SyncInv
<1> SUFFICES ASSUME Init PROVE SyncInv
  OBVIOUS
<1>1. clock = 0 /\ pushed = 0 /\ store = {} /\ course \in CourseStates
  BY AccountSyncAssumption DEF Init
<1>2. /\ Nothing \in States /\ NoHash \in Hashes /\ Idle \in Jobs
      /\ \A d \in Devices : Held(d, Idle)
      /\ \A p \in BOOLEAN : NewSession(p) \in Sessions
  BY <1>1, NothingTyped
<1>3. session \in [Devices -> Sessions]
  <2>1. PICK cold : session = [d \in Devices |-> NewSession(d \notin cold)]
    BY DEF Init
  <2> QED BY <1>2, <2>1
<1>4. JobsOK(job)
  BY <1>2 DEF Init, JobsOK
<1>5. TypeOK
  BY <1>1, <1>2, <1>3, <1>4 DEF Init, TypeOK, JobsOK
<1>6. OneRowEach /\ AppliedIsHeld
  BY <1>1 DEF OneRowEach, AppliedIsHeld
<1> QED BY <1>4, <1>5, <1>6 DEF SyncInv

-----------------------------------------------------------------------------
(* Steps that change neither a state nor what is published or recorded       *)

Quiet == UNCHANGED <<live, applied, store, clock, pushed, mine, sent>>

LEMMA QuietStep ==
    ASSUME SyncInv, Quiet, course' \in CourseStates, dirty' \in [Devices -> BOOLEAN],
           confirmed' \in [Devices -> Hashes], session' \in [Devices -> Sessions], JobsOK(job'),
           hidden' \subseteq Devices
    PROVE  SyncInv'
<1>1. States' = States /\ Rows' = Rows /\ Hashes' = Hashes
  BY DEF Quiet, States, Rows, Hashes
<1>2. Sessions' = Sessions /\ Jobs' = Jobs
  BY <1>1 DEF Quiet, Sessions, Jobs
<1>3. TypeOK'
  BY <1>1, <1>2 DEF Quiet, SyncInv, TypeOK, JobsOK
<1>4. JobsOK(job)'
  BY <1>2 DEF Quiet, JobsOK, Held
<1>5. OneRowEach' /\ AppliedIsHeld'
  BY DEF Quiet, SyncInv, OneRowEach, AppliedIsHeld
<1> QED BY <1>3, <1>4, <1>5 DEF SyncInv

\* what every step of an operation starts from
LEMMA Here ==
    ASSUME SyncInv, NEW d \in Devices, NEW i \in Slots
    PROVE  /\ clock \in Nat /\ pushed \in Nat /\ course \in CourseStates
           /\ live \in [Devices -> States] /\ live[d] \in States
           /\ dirty \in [Devices -> BOOLEAN] /\ confirmed \in [Devices -> Hashes]
           /\ session \in [Devices -> Sessions] /\ session[d] \in Sessions
           /\ JobsOK(job) /\ job[d][i] \in Jobs /\ Held(d, job[d][i])
           /\ hidden \subseteq Devices
           /\ store \in SUBSET Rows /\ applied \in [Devices -> SUBSET (1..pushed)]
  BY DEF SyncInv, TypeOK, JobsOK

LEMMA StepTimer ==
    ASSUME SyncInv, NEW d \in Devices, NEW i \in Slots, TimerFires(d, i) PROVE SyncInv'
<1>1. [session[d] EXCEPT !.timer = FALSE] \in Sessions
  BY Here, SessionTyped
<1>2. <<"push">> \in Todos \ {<<>>}
  BY DEF Todos
<1>3. session' \in [Devices -> Sessions] /\ JobsOK(job')
  BY <1>1, <1>2, PromptTyped DEF TimerFires
<1> QED BY <1>3, Here, QuietStep DEF TimerFires, hist, Quiet

LEMMA StepSmart ==
    ASSUME SyncInv, NEW d \in Devices, NEW i \in Slots, SmartSync(d, i) PROVE SyncInv'
<1>1. session' \in [Devices -> Sessions] /\ JobsOK(job') /\ course' \in CourseStates
  <2>1. CASE Ask(d, i, "start", [session[d] EXCEPT !.started = TRUE]) /\ UNCHANGED course
    <3>1. [session[d] EXCEPT !.started = TRUE] \in Sessions
      BY Here, SessionTyped
    <3> QED BY <2>1, <3>1, Here, AskTyped
  <2>2. CASE Ask(d, i, "sync", session[d]) /\ Spend("sync")
    BY <2>2, Here, AskTyped, Spent DEF Events
  <2> QED BY <2>1, <2>2 DEF SmartSync
<1> QED BY <1>1, Here, QuietStep DEF SmartSync, hist, Quiet

LEMMA StepHide ==
    ASSUME SyncInv, NEW d \in Devices, NEW i \in Slots, Hide(d, i) PROVE SyncInv'
<1> DEFINE s == [session[d] EXCEPT !.timer = FALSE, !.queued = FALSE]
<1>1. s \in Sessions
  BY Here, SessionTyped
<1>2. <<"push">> \in Todos \ {<<>>}
  BY DEF Todos
<1>3. session' \in [Devices -> Sessions] /\ JobsOK(job')
  <2>1. CASE Prompt(d, i, "hide", <<"push">>, s)
    BY <1>1, <1>2, <2>1, PromptTyped
  <2>2. CASE session' = [session EXCEPT ![d] = s] /\ UNCHANGED job
    BY <1>1, <2>2, Here
  <2> QED BY <2>1, <2>2 DEF Hide
<1>4. course' \in CourseStates
  BY Here, Spent DEF Hide, Events
<1> QED BY <1>3, <1>4, Here, QuietStep DEF Hide, Quiet

LEMMA StepWatch ==
    ASSUME SyncInv, NEW d \in Devices, NEW i \in Slots, Watch(d, i) PROVE SyncInv'
<1>1. [session[d] EXCEPT !.probed = TRUE] \in Sessions
  BY Here, SessionTyped
<1>2. <<"pull">> \in Todos \ {<<>>}
  BY DEF Todos
<1>3. session' \in [Devices -> Sessions] /\ JobsOK(job')
  BY <1>1, <1>2, PromptTyped DEF Watch
<1> QED BY <1>3, Here, QuietStep DEF Watch, hist, Quiet

LEMMA StepPhase ==
    ASSUME SyncInv, NEW d \in Devices, NEW i \in Slots, NextPhase(d, i) PROVE SyncInv'
<1>1. job[d][i].todo # <<>> /\ job[d][i].rows \subseteq store
  BY Here DEF NextPhase, Held
<1>2. session' \in [Devices -> Sessions] /\ JobsOK(job')
  BY <1>1, Here, CallTyped DEF NextPhase
<1> QED BY <1>2, Here, QuietStep DEF NextPhase, hist, Quiet

LEMMA StepFound ==
    ASSUME SyncInv, NEW d \in Devices, NEW i \in Slots, InboxFound(d, i) PROVE SyncInv'
<1>1. session' \in [Devices -> Sessions] /\ JobsOK(job')
  <2>1. CASE /\ job[d][i].at = "inbox"
             /\ session' = [session EXCEPT ![d].probed = TRUE, ![d].syncing = TRUE]
             /\ job' = [job EXCEPT ![d][i] = Begun(d, @)]
    <3>1. [session[d] EXCEPT !.probed = TRUE, !.syncing = TRUE] \in Sessions
      BY Here, SessionTyped
    <3>2. session' = [session EXCEPT ![d] = [session[d] EXCEPT !.probed = TRUE, !.syncing = TRUE]]
      BY <2>1, Here
    <3>3. job[d][i].todo # <<>> /\ job[d][i].rows \subseteq store
      BY <2>1, Here DEF Held
    <3>4. Begun(d, job[d][i]) \in Jobs /\ Held(d, Begun(d, job[d][i]))
      BY <3>3, Here, BegunTyped
    <3>5. job' = [job EXCEPT ![d][i] = Begun(d, job[d][i])]
      BY <2>1
    <3> QED BY <3>1, <3>2, <3>4, <3>5, Here, OneJob
  <2>2. CASE Call(d, i, [job[d][i] EXCEPT !.todo = SyncOrder(d)], [session[d] EXCEPT !.probed = TRUE])
    <3> DEFINE j == [job[d][i] EXCEPT !.todo = SyncOrder(d)]
    <3>1. [session[d] EXCEPT !.probed = TRUE] \in Sessions
      BY Here, SessionTyped
    <3>2. j \in Jobs /\ j.todo # <<>> /\ j.rows \subseteq store
      BY Here, SyncOrderTyped DEF Jobs, Held
    <3> HIDE DEF j
    <3> QED BY <2>2, <3>1, <3>2, CallTyped DEF j
  <2> QED BY <2>1, <2>2 DEF InboxFound
<1> QED BY <1>1, Here, QuietStep DEF InboxFound, hist, Quiet

LEMMA StepMissing ==
    ASSUME SyncInv, NEW d \in Devices, NEW i \in Slots, InboxMissing(d, i) PROVE SyncInv'
<1> DEFINE j == job[d][i]
           k == IF j.at = "asked" THEN Idle ELSE Returned(j)
<1>1. k \in Jobs /\ Held(d, k)
  <2>1. CASE j.at = "asked"
    BY <2>1, Here, NothingTyped
  <2>2. CASE j.at = "inbox"
    <3>1. j.todo # <<>>
      BY <2>2, Here DEF Held
    <3> QED BY <2>2, <3>1, Here, ReturnedTyped
  <2> QED BY <2>1, <2>2 DEF InboxMissing
<1>2. job' = [job EXCEPT ![d][i] = k]
  BY DEF InboxMissing
<1>3. course' \in CourseStates
  BY Here, Spent DEF InboxMissing, Events
<1> HIDE DEF k
<1>4. JobsOK(job')
  BY <1>1, <1>2, Here, OneJob
<1> QED BY <1>3, <1>4, Here, QuietStep DEF InboxMissing, hist, Quiet

\* an operation past its inbox ends, or goes on to its second phase
LEMMA JobReturns ==
    ASSUME SyncInv, NEW d \in Devices, NEW i \in Slots, job[d][i].at \notin {"idle", "asked"}
    PROVE  JobsOK([job EXCEPT ![d][i] = Returned(job[d][i])])
<1>1. job[d][i].todo # <<>>
  BY Here DEF Held
<1> QED BY <1>1, Here, ReturnedTyped, OneJob

LEMMA StepSkip ==
    ASSUME SyncInv, NEW d \in Devices, NEW i \in Slots, PushSkip(d, i) PROVE SyncInv'
<1>1. JobsOK(job')
  BY JobReturns DEF PushSkip
<1>2. session' \in [Devices -> Sessions]
  BY Here, SessionTyped DEF PushSkip
<1>3. dirty' \in [Devices -> BOOLEAN]
  BY Here, SessionTyped DEF PushSkip, DirtyAfter, ScheduledSince
<1> QED BY <1>1, <1>2, <1>3, Here, QuietStep DEF PushSkip, hist, Quiet

LEMMA StepPushFail ==
    ASSUME SyncInv, NEW d \in Devices, NEW i \in Slots, PushFail(d, i) PROVE SyncInv'
<1>1. JobsOK(job')
  BY JobReturns DEF PushFail
<1>2. session' \in [Devices -> Sessions]
  <2>1. Released(d, session[d]) \in Sessions
    BY Here, SessionTyped
  <2>2. Scheduled(d, Released(d, session[d])) \in Sessions
    BY <2>1, Here, SessionTyped
  <2> QED BY <2>1, <2>2, Here DEF PushFail
<1>3. dirty' \in [Devices -> BOOLEAN]
  BY Here, SessionTyped DEF PushFail
<1>4. course' \in CourseStates
  BY Here, Spent DEF PushFail, Events
<1> QED BY <1>1, <1>2, <1>3, <1>4, Here, QuietStep DEF PushFail, hist, Quiet

LEMMA ReadBackTyped ==
    ASSUME SyncInv, NEW d \in Devices, NEW i \in Slots, NEW s \in Sessions, ReadBack(d, i, s)
    PROVE  session' \in [Devices -> Sessions] /\ JobsOK(job')
<1>1. <<"pull">> \in Todos \ {<<>>}
  BY DEF Todos
<1>2. CASE Prompt(d, i, "pull", <<"pull">>, s)
  BY <1>1, <1>2, PromptTyped
<1>3. CASE session' = [session EXCEPT ![d] = s] /\ UNCHANGED job
  BY <1>3, Here
<1> QED BY <1>2, <1>3 DEF ReadBack

LEMMA StepHolds ==
    ASSUME SyncInv, NEW d \in Devices, NEW i \in Slots, ConfirmHolds(d, i) PROVE SyncInv'
<1>1. [session[d] EXCEPT !.confirm = NoConfirm] \in Sessions /\ session[d].confirm.hash \in Hashes
  BY Here, SessionTyped
<1>2. session' \in [Devices -> Sessions] /\ JobsOK(job')
  BY <1>1, ReadBackTyped DEF ConfirmHolds
<1>3. confirmed' \in [Devices -> Hashes]
  BY <1>1, Here DEF ConfirmHolds
<1> QED BY <1>2, <1>3, Here, QuietStep DEF ConfirmHolds, hist, Quiet

LEMMA StepConfirmFails ==
    ASSUME SyncInv, NEW d \in Devices, NEW i \in Slots, ConfirmFails(d, i) PROVE SyncInv'
<1>1. [session[d] EXCEPT !.confirm = NoConfirm] \in Sessions
  BY Here, SessionTyped
<1>2. session' \in [Devices -> Sessions] /\ JobsOK(job')
  BY <1>1, ReadBackTyped DEF ConfirmFails
<1>3. dirty' \in [Devices -> BOOLEAN]
  BY Here DEF ConfirmFails
<1>4. course' \in CourseStates
  BY Here, Spent DEF ConfirmFails, Events
<1> QED BY <1>2, <1>3, <1>4, Here, QuietStep DEF ConfirmFails, hist, Quiet

\* what a read returns is held by storage
LEMMA ReadsStored ==
    ASSUME NEW read \in Reads
    PROVE  /\ read.rows \subseteq store /\ read.whole \subseteq store
           /\ read.fault # "none" => read.fault \in Events
  BY DEF Reads, Events

LEMMA AtsTyped == ASSUME NEW R \in SUBSET Rows PROVE Ats(R) \in SUBSET (1..pushed)
  BY DEF Ats, Rows

LEMMA StepRead ==
    ASSUME SyncInv, NEW d \in Devices, NEW i \in Slots, PullRead(d, i) PROVE SyncInv'
<1> DEFINE j == job[d][i]
           fresh(read) == {r \in read.whole : r.at \notin applied[d]}
           s(read) == [session[d] EXCEPT !.seen = Latest({@} \cup Ats(read.rows))]
<1>1. j.at \in {"reading", "rereading"}
  BY DEF PullRead
<1>2. PICK read \in Reads :
        /\ IF read.fault = "none" THEN UNCHANGED course ELSE Spend(read.fault)
        /\ \/ /\ job' = [job EXCEPT ![d][i].at = "merging", ![d][i].base = live[d], ![d][i].rows = fresh(read)]
              /\ session' = [session EXCEPT ![d] = s(read)]
              /\ UNCHANGED dirty
           \/ /\ job' = [job EXCEPT ![d][i].at = "rereading"]
              /\ session' = [session EXCEPT ![d] = s(read)]
              /\ UNCHANGED dirty
           \/ /\ job' = [job EXCEPT ![d][i] = Returned(@)]
              /\ session' = [session EXCEPT ![d] = Released(d, s(read))]
              /\ dirty' = [dirty EXCEPT ![d] = @ \/ session[d].queued]
  BY DEF PullRead
<1>3. read.rows \subseteq store /\ read.whole \subseteq store /\ (read.fault # "none" => read.fault \in Events)
  BY ReadsStored
<1>4. s(read) \in Sessions /\ Released(d, s(read)) \in Sessions
  <2>1. {session[d].seen} \cup Ats(read.rows) \in SUBSET (0..pushed)
    <3>1. Ats(read.rows) \in SUBSET (1..pushed)
      BY <1>3, Here, AtsTyped
    <3>2. session[d].seen \in 0..pushed
      BY Here, SessionTyped
    <3> QED BY <3>1, <3>2
  <2>2. Latest({session[d].seen} \cup Ats(read.rows)) \in 0..pushed
    BY <2>1, Here, LatestTyped
  <2> QED BY <2>2, Here, SessionTyped
<1>5. course' \in CourseStates
  BY <1>2, <1>3, Here, Spent
<1>6. session' \in [Devices -> Sessions] /\ dirty' \in [Devices -> BOOLEAN]
  <2> HIDE DEF s, fresh
  <2> QED BY <1>2, <1>4, Here, SessionTyped
<1>7. JobsOK(job')
  <2> DEFINE merging == [j EXCEPT !.at = "merging", !.base = live[d], !.rows = fresh(read)]
             again == [j EXCEPT !.at = "rereading"]
  <2>1. fresh(read) \subseteq store
    BY <1>3
  <2>2. merging \in Jobs /\ Held(d, merging) /\ again \in Jobs /\ Held(d, again)
    BY <1>1, <2>1, Here DEF Jobs, Phases, Held
  <2>3. \/ job' = [job EXCEPT ![d][i] = merging]
        \/ job' = [job EXCEPT ![d][i] = again]
        \/ job' = [job EXCEPT ![d][i] = Returned(j)]
    <3>1. /\ [job EXCEPT ![d][i].at = "merging", ![d][i].base = live[d], ![d][i].rows = fresh(read)]
                = [job EXCEPT ![d][i] = merging]
          /\ [job EXCEPT ![d][i].at = "rereading"] = [job EXCEPT ![d][i] = again]
      <4> HIDE DEF fresh, s
      <4> QED BY Here DEF JobsOK
    <3> HIDE DEF fresh, s, merging, again
    <3> QED BY <1>2, <3>1
  <2> HIDE DEF merging, again
  <2> QED BY <1>1, <2>2, <2>3, Here, OneJob, JobReturns
<1> QED BY <1>5, <1>6, <1>7, Here, QuietStep DEF PullRead, hist, Quiet

LEMMA StepPullFail ==
    ASSUME SyncInv, NEW d \in Devices, NEW i \in Slots, PullFail(d, i) PROVE SyncInv'
<1> DEFINE k == IF Len(job[d][i].todo) = 2 THEN Idle ELSE Returned(job[d][i])
<1>1. k \in Jobs /\ Held(d, k)
  <2>1. job[d][i].todo # <<>>
    BY Here DEF PullFail, Held
  <2> QED BY <2>1, Here, NothingTyped, ReturnedTyped
<1>2. job' = [job EXCEPT ![d][i] = k]
  BY DEF PullFail
<1>3. JobsOK(job')
  <2> HIDE DEF k
  <2> QED BY <1>1, <1>2, Here, OneJob
<1>4. session' \in [Devices -> Sessions]
  <2> DEFINE r == Released(d, session[d])
  <2>1. r \in Sessions
    BY Here, SessionTyped
  <2>2. [r EXCEPT !.started = r.started /\ job[d][i].by # "start"] \in Sessions
    <3> HIDE DEF r
    <3> QED BY <2>1, Here, SessionTyped
  <2>3. session' = [session EXCEPT ![d] = [r EXCEPT !.started = r.started /\ job[d][i].by # "start"]]
    BY Here DEF PullFail
  <2> HIDE DEF r
  <2> QED BY <2>2, <2>3, Here
<1>5. dirty' \in [Devices -> BOOLEAN]
  BY Here, SessionTyped DEF PullFail
<1>6. course' \in CourseStates
  BY Here, Spent DEF PullFail, Events
<1> QED BY <1>3, <1>4, <1>5, <1>6, Here, QuietStep DEF PullFail, hist, Quiet

LEMMA StepRestart ==
    ASSUME SyncInv, NEW d \in Devices, Restart(d) PROVE SyncInv'
<1>1. /\ clock \in Nat /\ pushed \in Nat /\ course \in CourseStates /\ session \in [Devices -> Sessions]
      /\ JobsOK(job) /\ dirty \in [Devices -> BOOLEAN] /\ confirmed \in [Devices -> Hashes]
      /\ hidden \subseteq Devices
  BY DEF SyncInv, TypeOK
<1>2. Idle \in Jobs /\ (\A e \in Devices : Held(e, Idle)) /\ (\A p \in BOOLEAN : NewSession(p) \in Sessions)
  BY <1>1, NothingTyped
<1>3. session' \in [Devices -> Sessions]
  BY <1>1, <1>2 DEF Restart
<1>4. JobsOK(job')
  BY <1>1, <1>2 DEF Restart, JobsOK
<1>5. course' \in CourseStates
  <2>1. CASE Spend("crash")
    BY <1>1, <2>1, Spent DEF Events
  <2>2. CASE /\ May("crash") /\ May("cold")
             /\ course' = [course EXCEPT !.left["crash"] = @ - 1, !.left["cold"] = @ - 1]
    <3> DEFINE left == [course.left EXCEPT !["crash"] = @ - 1, !["cold"] = @ - 1]
    <3>1. left \in [Events -> Nat]
      BY <1>1, <2>2 DEF May, CourseStates, Events
    <3>2. course' = [course EXCEPT !.left = left]
      BY <1>1, <2>2 DEF CourseStates
    <3> HIDE DEF left
    <3> QED BY <1>1, <3>1, <3>2 DEF CourseStates
  <2> QED BY <2>1, <2>2 DEF Restart
<1> QED BY <1>1, <1>3, <1>4, <1>5, QuietStep DEF Restart, hist, Quiet

-----------------------------------------------------------------------------
(* Steps that make a stamp, a row, or a state                                *)

LEMMA Grown ==
    ASSUME clock \in Nat, pushed \in Nat, clock' \in Nat, pushed' \in Nat, clock <= clock', pushed <= pushed'
    PROVE  /\ States \subseteq States' /\ Rows \subseteq Rows' /\ Hashes \subseteq Hashes'
           /\ Sessions \subseteq Sessions' /\ Jobs \subseteq Jobs'
           /\ 1..clock \subseteq 1..clock' /\ 1..pushed \subseteq 1..pushed'
<1>1. 1..clock \subseteq 1..clock' /\ 1..pushed \subseteq 1..pushed'
      /\ 0..clock \subseteq 0..clock' /\ 0..pushed \subseteq 0..pushed'
  OBVIOUS
<1>2. States \subseteq States'
  BY <1>1 DEF States
<1>3. Rows \subseteq Rows'
  BY <1>1, <1>2 DEF Rows
<1>4. Hashes \subseteq Hashes'
  BY <1>1 DEF Hashes
<1>5. Sessions \subseteq Sessions'
  BY <1>1, <1>4 DEF Sessions
<1>6. Jobs \subseteq Jobs'
  BY <1>2, <1>3 DEF Jobs
<1> QED BY <1>1, <1>2, <1>3, <1>4, <1>5, <1>6

LEMMA StepEdit ==
    ASSUME SyncInv, NEW d \in Devices, Edit(d) \/ EditSlice(d) PROVE SyncInv'
<1>1. /\ clock \in Nat /\ pushed \in Nat /\ course \in CourseStates /\ session \in [Devices -> Sessions]
      /\ live \in [Devices -> States] /\ mine \in [Devices -> SUBSET (1..clock)]
      /\ sent \in [Devices -> SUBSET (1..clock)]
      /\ JobsOK(job) /\ dirty \in [Devices -> BOOLEAN] /\ confirmed \in [Devices -> Hashes]
      /\ hidden \subseteq Devices /\ store \in SUBSET Rows /\ applied \in [Devices -> SUBSET (1..pushed)]
  BY DEF SyncInv, TypeOK
<1>2. /\ clock' = clock + 1 /\ clock' \in Nat /\ pushed' = pushed /\ clock' \in 1..clock'
      /\ UNCHANGED <<applied, confirmed, job, store, sent, hidden>>
  BY <1>1 DEF Edit, EditSlice, Edited
<1>3. /\ States \subseteq States' /\ Rows \subseteq Rows' /\ Hashes \subseteq Hashes'
      /\ Sessions \subseteq Sessions' /\ Jobs \subseteq Jobs' /\ 1..clock \subseteq 1..clock'
  BY <1>1, <1>2, Grown
<1>4. /\ live' \in [Devices -> States'] /\ mine' \in [Devices -> SUBSET (1..clock')]
      /\ \A e \in Devices : live[e].kept \subseteq live'[e].kept
  <2>1. CASE Edit(d)
    <3>1. live' = [live EXCEPT ![d].kept = @ \cup {clock + 1}] /\ mine' = [mine EXCEPT ![d] = @ \cup {clock + 1}]
      BY <2>1 DEF Edit
    <3>2. [live[d] EXCEPT !.kept = @ \cup {clock + 1}] \in States'
      BY <1>1, <1>2, <1>3 DEF States
    <3>3. \A e \in Devices : live[e].kept \subseteq live'[e].kept
      BY <1>1, <3>1 DEF States
    <3> QED BY <1>1, <1>2, <1>3, <3>1, <3>2, <3>3
  <2>2. CASE EditSlice(d)
    <3>1. live' = [live EXCEPT ![d].val = ~@, ![d].stamp = clock + 1] /\ mine' = mine
      BY <2>2 DEF EditSlice
    <3>2. [live[d] EXCEPT !.val = ~@, !.stamp = clock + 1] \in States'
      <4>1. live[d] \in States' /\ clock + 1 \in 0..clock'
        BY <1>1, <1>2, <1>3
      <4>2. (~live[d].val) \in BOOLEAN
        OBVIOUS
      <4> QED BY <4>1, <4>2 DEF States
    <3>3. \A e \in Devices : live[e].kept \subseteq live'[e].kept
      BY <1>1, <3>1 DEF States
    <3> QED BY <1>1, <1>3, <3>1, <3>2, <3>3
  <2> QED BY <2>1, <2>2
<1>5. session' \in [Devices -> Sessions']
  <2>1. session' = [session EXCEPT ![d] = Scheduled(d, session[d])]
    BY DEF Edit, EditSlice, Edited
  <2>2. Scheduled(d, session[d]) \in Sessions
    BY <1>1, SessionTyped
  <2> QED BY <1>1, <1>3, <2>1, <2>2
<1>6. course' \in CourseStates /\ dirty' \in [Devices -> BOOLEAN]
  BY <1>1, Spent DEF Edit, EditSlice, Edited, Events
<1>7. JobsOK(job)'
  BY <1>1, <1>2, <1>3, <1>4 DEF JobsOK, Held
<1>8. TypeOK'
  BY <1>1, <1>2, <1>3, <1>4, <1>5, <1>6, <1>7 DEF TypeOK, JobsOK
<1>9. OneRowEach' /\ AppliedIsHeld'
  BY <1>2, <1>4 DEF SyncInv, OneRowEach, AppliedIsHeld
<1> QED BY <1>7, <1>8, <1>9 DEF SyncInv

LEMMA StepPublish ==
    ASSUME SyncInv, NEW d \in Devices, NEW i \in Slots, NEW stays \in BOOLEAN, PushPublish(d, i, stays)
    PROVE  SyncInv'
<1> DEFINE n == pushed + 1
           base == job[d][i].base
           row == [at |-> n, data |-> base]
<1>1. /\ clock \in Nat /\ pushed \in Nat /\ course \in CourseStates /\ session \in [Devices -> Sessions]
      /\ live \in [Devices -> States] /\ mine \in [Devices -> SUBSET (1..clock)]
      /\ sent \in [Devices -> SUBSET (1..clock)]
      /\ JobsOK(job) /\ dirty \in [Devices -> BOOLEAN] /\ confirmed \in [Devices -> Hashes]
      /\ hidden \subseteq Devices /\ store \in SUBSET Rows /\ applied \in [Devices -> SUBSET (1..pushed)]
  BY DEF SyncInv, TypeOK
<1>2. /\ pushed' = n /\ pushed' \in Nat /\ clock' = clock /\ n \in 1..pushed'
      /\ applied' = [applied EXCEPT ![d] = @ \cup {n}]
      /\ sent' = [sent EXCEPT ![d] = @ \cup base.kept]
      /\ UNCHANGED <<live, confirmed, mine, hidden>>
      /\ store' \in {store, store \cup {row}}
      /\ job' = [job EXCEPT ![d][i] = Returned(job[d][i])]
  BY <1>1 DEF PushPublish
<1>3. /\ States \subseteq States' /\ Rows \subseteq Rows' /\ Hashes \subseteq Hashes'
      /\ Sessions \subseteq Sessions' /\ Jobs \subseteq Jobs' /\ 1..pushed \subseteq 1..pushed'
  BY <1>1, <1>2, Grown
<1>4. base \in States /\ base.kept \subseteq live[d].kept /\ base.kept \in SUBSET (1..clock)
  BY Here DEF PushPublish, Held, Jobs, States
<1>5. store' \in SUBSET Rows' /\ store \subseteq store'
  <2>1. row \in Rows'
    BY <1>2, <1>3, <1>4 DEF Rows
  <2> QED BY <1>1, <1>2, <1>3, <2>1
<1>6. session' \in [Devices -> Sessions']
  <2> DEFINE s == [session[d] EXCEPT !.own = @ \cup {n}, !.confirm = [at |-> n, hash |-> Hash(base)]]
  <2>1. session[d] \in Sessions /\ Hash(base) \in Hashes'
    BY <1>1, <1>3, <1>4, HashTyped
  <2>2. s \in Sessions'
    <3>1. [at |-> n, hash |-> Hash(base)] \in [at : 0..pushed', hash : Hashes']
      BY <1>1, <1>2, <2>1
    <3>2. session[d] \in Sessions' /\ session[d].own \cup {n} \in SUBSET (1..pushed')
      BY <1>2, <1>3, <2>1 DEF Sessions
    <3> QED BY <3>1, <3>2 DEF Sessions
  <2>3. Released(d, s) \in Sessions'
    <3> HIDE DEF s
    <3> QED BY <2>2 DEF Released, Scheduled, Sessions
  <2>4. session' = [session EXCEPT ![d] = Released(d, s)]
    BY <1>1 DEF PushPublish
  <2> HIDE DEF s
  <2> QED BY <1>1, <1>3, <2>3, <2>4
<1>7. dirty' \in [Devices -> BOOLEAN]
  BY Here, SessionTyped DEF PushPublish, DirtyAfter, ScheduledSince
<1>8. course' \in CourseStates
  BY <1>1, Spent DEF PushPublish, Events
<1>9. JobsOK(job)'
  <2>1. JobsOK(job')
    BY <1>2, JobReturns DEF PushPublish
  <2> QED BY <1>2, <1>3, <1>5, <2>1 DEF JobsOK, Held
<1>10. TypeOK'
  <2>1. applied' \in [Devices -> SUBSET (1..pushed')] /\ sent' \in [Devices -> SUBSET (1..clock')]
    BY <1>1, <1>2, <1>3, <1>4
  <2> QED BY <1>1, <1>2, <1>3, <1>5, <1>6, <1>7, <1>8, <1>9, <2>1 DEF TypeOK, JobsOK
<1>11. \A r \in store : r.at \in 1..pushed /\ r.at # n
  BY <1>1 DEF Rows
<1>12. OneRowEach'
  BY <1>2, <1>11 DEF SyncInv, OneRowEach
<1>13. AppliedIsHeld'
  <2> SUFFICES ASSUME NEW e \in Devices, NEW r \in store', r.at \in applied'[e]
               PROVE  r.data.kept \subseteq live[e].kept
    BY <1>2 DEF AppliedIsHeld
  <2>1. CASE r \in store
    <3>1. r.at \in applied[e]
      BY <1>1, <1>2, <1>11, <2>1
    <3> QED BY <2>1, <3>1 DEF SyncInv, AppliedIsHeld
  <2>2. CASE r = row
    <3>1. n \notin applied[e]
      BY <1>1
    <3>2. e = d
      BY <1>1, <1>2, <2>2, <3>1
    <3> QED BY <1>4, <2>2, <3>2
  <2> QED BY <1>2, <2>1, <2>2
<1> QED BY <1>9, <1>10, <1>12, <1>13 DEF SyncInv

LEMMA StepImport ==
    ASSUME SyncInv, NEW d \in Devices, NEW i \in Slots, PullImport(d, i)
    PROVE  SyncInv' /\ live[d].kept \subseteq live'[d].kept
<1> DEFINE j == job[d][i]
           m == Merged(j.base, j.rows)
           l == Imported(live[d], m)
<1>1. /\ clock \in Nat /\ pushed \in Nat /\ course \in CourseStates /\ session \in [Devices -> Sessions]
      /\ live \in [Devices -> States] /\ mine \in [Devices -> SUBSET (1..clock)]
      /\ sent \in [Devices -> SUBSET (1..clock)]
      /\ JobsOK(job) /\ dirty \in [Devices -> BOOLEAN] /\ confirmed \in [Devices -> Hashes]
      /\ hidden \subseteq Devices /\ store \in SUBSET Rows /\ applied \in [Devices -> SUBSET (1..pushed)]
  BY DEF SyncInv, TypeOK
<1>2. /\ live' = [live EXCEPT ![d] = l]
      /\ applied' = [applied EXCEPT ![d] = Recorded(d, j.rows)]
      /\ job' = [job EXCEPT ![d][i] = Returned(j)]
      /\ UNCHANGED <<confirmed, store, clock, pushed, course, mine, sent, hidden>>
  BY DEF PullImport, hist
<1>3. j.base \in States /\ j.rows \in SUBSET Rows /\ j.rows \subseteq store
  BY Here DEF Jobs, Held
<1>4. /\ m \in States /\ \A r \in j.rows : r.data.kept \subseteq m.kept
  BY <1>1, <1>3, MergedTyped
<1>5. l \in States /\ live[d].kept \subseteq l.kept /\ m.kept \subseteq l.kept
  <2> HIDE DEF m
  <2>1. live[d] \in States
    BY <1>1
  <2>2. l = [m EXCEPT !.kept = @ \cup live[d].kept]
    BY DEF Imported
  <2> QED BY <1>4, <2>1, <2>2 DEF States
<1>6. Recorded(d, j.rows) = applied[d] \cup {r.at : r \in j.rows}
  BY DEF Recorded, Ats
<1>7. States' = States /\ Rows' = Rows /\ Hashes' = Hashes
  BY <1>2 DEF States, Rows, Hashes
<1>8. Sessions' = Sessions /\ Jobs' = Jobs
  BY <1>2, <1>7 DEF Sessions, Jobs
<1>9. session' \in [Devices -> Sessions] /\ dirty' \in [Devices -> BOOLEAN]
  BY Here, SessionTyped DEF PullImport
<1> HIDE DEF l, m
<1>10. \A e \in Devices : live[e].kept \subseteq live'[e].kept
  BY <1>1, <1>2, <1>5
<1>11. JobsOK(job)'
  <2>1. JobsOK(job')
    BY <1>2, JobReturns DEF PullImport
  <2> QED BY <1>2, <1>8, <1>10, <2>1 DEF JobsOK, Held
<1>12. TypeOK'
  <2>1. applied' \in [Devices -> SUBSET (1..pushed)]
    BY <1>1, <1>2, <1>3, AtsTyped DEF Recorded
  <2>2. live' \in [Devices -> States]
    BY <1>1, <1>2, <1>5
  <2> QED BY <1>1, <1>2, <1>7, <1>8, <1>9, <1>11, <2>1, <2>2 DEF TypeOK, JobsOK
<1>13. OneRowEach'
  BY <1>2 DEF SyncInv, OneRowEach
<1>14. AppliedIsHeld'
  <2> SUFFICES ASSUME NEW e \in Devices, NEW r \in store, r.at \in applied'[e]
               PROVE  r.data.kept \subseteq live'[e].kept
    BY <1>2 DEF AppliedIsHeld
  <2>1. CASE r.at \in applied[e]
    BY <1>10, <2>1 DEF SyncInv, AppliedIsHeld
  <2>2. CASE r.at \notin applied[e]
    <3>1. e = d
      BY <1>1, <1>2, <2>2
    <3>2. PICK q \in j.rows : q.at = r.at
      BY <1>1, <1>2, <1>6, <2>2, <3>1
    <3>3. q = r
      BY <1>3, <3>2 DEF SyncInv, OneRowEach
    <3> QED BY <1>1, <1>2, <1>4, <1>5, <3>1, <3>2, <3>3
  <2> QED BY <2>1, <2>2
<1> QED BY <1>2, <1>10, <1>11, <1>12, <1>13, <1>14 DEF SyncInv

-----------------------------------------------------------------------------
(* The theorems                                                             *)

LEMMA NextInv == SyncInv /\ [Next]_vars => SyncInv'
<1> SUFFICES ASSUME SyncInv, [Next]_vars PROVE SyncInv'
  OBVIOUS
<1>1. CASE UNCHANGED vars
  <2>1. Quiet /\ course' = course /\ dirty' = dirty /\ confirmed' = confirmed /\ session' = session
        /\ job' = job /\ hidden' = hidden
    BY <1>1 DEF vars, Quiet
  <2>2. /\ course \in CourseStates /\ session \in [Devices -> Sessions] /\ JobsOK(job)
        /\ dirty \in [Devices -> BOOLEAN] /\ confirmed \in [Devices -> Hashes] /\ hidden \subseteq Devices
    BY DEF SyncInv, TypeOK
  <2> QED BY <2>1, <2>2, QuietStep
<1>2. CASE Next
  <2>1. PICK d \in course.devices : \/ Edit(d) \/ EditSlice(d) \/ Restart(d)
                                    \/ \E i \in course.slots : Step(d, i)
    BY <1>2 DEF Next
  <2>2. d \in Devices /\ course.slots \subseteq Slots
    BY DEF SyncInv, TypeOK, CourseStates
  <2>3. CASE Edit(d) \/ EditSlice(d) \/ Restart(d)
    BY <2>2, <2>3, StepEdit, StepRestart
  <2>4. CASE \E i \in course.slots : Step(d, i)
    <3>1. PICK i \in Slots : Step(d, i)
      BY <2>2, <2>4
    <3>2. CASE PushPublish(d, i, TRUE) \/ PushPublish(d, i, FALSE)
      BY <2>2, <3>2, StepPublish
    <3>3. CASE PullImport(d, i)
      BY <2>2, <3>3, StepImport
    <3> QED BY <2>2, <3>1, <3>2, <3>3, StepTimer, StepSmart, StepHide, StepWatch, StepPhase, StepFound,
               StepMissing, StepSkip, StepPushFail, StepHolds, StepConfirmFails, StepRead, StepPullFail
            DEF Step
  <2> QED BY <2>1, <2>3, <2>4
<1> QED BY <1>1, <1>2

\* The strengthening holds in every reachable state.
LEMMA AlwaysInv == Spec => []SyncInv
  BY InitInv, NextInv, PTL DEF Spec

\* Every device's state, session and operations are well formed, and what a device recorded names rows
\* that were published (TypeOK).
THEOREM SyncTyped == Spec => []TypeOK
<1>1. SyncInv => TypeOK
  BY DEF SyncInv
<1> QED BY <1>1, AlwaysInv, PTL

\* A row a device counts as applied is in its state, so that skipping it loses nothing, with any
\* number of operations running over each other (_recordAppliedTs, the ledger of pushSync and pullSync).
THEOREM AppliedHeld == Spec => []AppliedIsHeld
<1>1. SyncInv => AppliedIsHeld
  BY DEF SyncInv
<1> QED BY <1>1, AlwaysInv, PTL

LEMMA EntriesStep ==
    ASSUME SyncInv, [Next]_vars
    PROVE  [\A d \in Devices : live[d].kept \subseteq live'[d].kept]_vars
<1>1. live \in [Devices -> States] /\ course.devices \subseteq Devices /\ course.slots \subseteq Slots
  BY DEF SyncInv, TypeOK, CourseStates
<1>2. CASE UNCHANGED live
  BY <1>2
<1>3. CASE \E d \in course.devices : Edit(d) \/ EditSlice(d)
  BY <1>1, <1>3 DEF Edit, EditSlice, States
<1>4. CASE \E d \in course.devices : \E i \in course.slots : PullImport(d, i)
  <2>1. PICK d \in Devices, i \in Slots : PullImport(d, i)
    BY <1>1, <1>4
  <2>2. \A e \in Devices : e # d => live'[e] = live[e]
    BY <1>1, <2>1 DEF PullImport
  <2> QED BY <2>1, <2>2, StepImport
<1>5. ASSUME NEW d, NEW i, Step(d, i) PROVE PullImport(d, i) \/ UNCHANGED live
  <2>1. CASE TimerFires(d, i) \/ SmartSync(d, i) \/ Hide(d, i) \/ Watch(d, i) \/ NextPhase(d, i)
             \/ InboxFound(d, i) \/ InboxMissing(d, i)
    BY <2>1 DEF TimerFires, SmartSync, Hide, Watch, NextPhase, InboxFound, InboxMissing
  <2>2. CASE PushPublish(d, i, TRUE) \/ PushPublish(d, i, FALSE) \/ PushSkip(d, i) \/ PushFail(d, i)
    BY <2>2 DEF PushPublish, PushSkip, PushFail
  <2>3. CASE ConfirmHolds(d, i) \/ ConfirmFails(d, i) \/ PullRead(d, i) \/ PullFail(d, i)
    BY <2>3 DEF ConfirmHolds, ConfirmFails, PullRead, PullFail
  <2> QED BY <1>5, <2>1, <2>2, <2>3 DEF Step
<1>6. CASE UNCHANGED vars
  BY <1>2, <1>6 DEF vars
<1>7. CASE \E d \in course.devices : Restart(d)
  BY <1>2, <1>7 DEF Restart
<1> QED BY <1>2, <1>3, <1>4, <1>5, <1>6, <1>7 DEF Next

\* Syncing drops nothing a device holds: an entry added while the merge ran in the worker survives its
\* import (the rebase of pullSync).
THEOREM EntriesStay == Spec => EntriesKept
<1>1. SyncInv /\ [Next]_vars => [\A d \in Devices : live[d].kept \subseteq live'[d].kept]_vars
  BY EntriesStep
<1> QED BY <1>1, AlwaysInv, PTL DEF Spec, EntriesKept

-----------------------------------------------------------------------------
(* What carries an entry to storage                                         *)
(*                                                                         *)
(* NothingStranded is about all the entries of a device at once, and its     *)
(* cases turn into one another: the strengthening follows one entry (Cover).  *)
(* The dirty flag is enough only with something that will look at it after    *)
(* the push under way, which clears it (a timer, a queued push, or no push);  *)
(* a read-back, or a push, is enough for the entries it carries.  That the    *)
(* cases hand over to each other needs one operation past its inbox at a time *)
(* (OneRuns), and every push to export what awaits its read-back.            *)

\* operations that hold isSyncing
Active(j) == j.at \in {"exported", "reading", "rereading", "merging"}
Pushes(j) == "push" \in {j.todo[k] : k \in 1..Len(j.todo)}
Stored    == UNION {r.data.kept : r \in store}

\* isSyncing is held while one operation runs, and one at a time
OneRuns(s, jobs) == \A i, k \in Slots : Active(jobs[i]) => s.syncing /\ (Active(jobs[k]) => i = k)

\* what awaits its read-back is in the state, and the row it wrote, if storage has it, says the same
SessionShape(d, s) ==
    /\ s.probed
    /\ s.confirm.at = 0 => s.confirm.hash = NoHash
    /\ s.confirm.hash[1] \subseteq live[d].kept
    /\ \A r \in store : r.at = s.confirm.at => r.data.kept = s.confirm.hash[1]

\* an operation is past its inbox, and a push exported at least what awaits its read-back; h: its
\* page was hidden
JobShape(s, j, h) ==
    /\ j.at \notin {"asked", "inbox"}
    /\ Active(j) => (j.at = "exported" <=> Head(j.todo) = "push")
    /\ j.at = "exported" => s.confirm.hash[1] \subseteq j.base.kept
    /\ j.at # "idle" => j.by # "none"
    /\ j.by = "hide" => h
    /\ j.by = "pull" => ~Pushes(j)

\* the entry e is carried: what will push it, by session, operations and dirty flag
Cover(s, jobs, b, e) ==
    \/ b /\ (s.timer \/ s.queued \/ \A i \in Slots : jobs[i].at # "exported")
    \/ s.queued
    \/ s.confirm.at # 0 /\ e \in s.confirm.hash[1]
    \/ ~s.started
    \/ \E i \in Slots : jobs[i].at = "exported" /\ e \in jobs[i].base.kept
    \/ \E i \in Slots : jobs[i].by = "start" /\ PushAhead(jobs[i])

Shapes(d, s, jobs, h) ==
    /\ SessionShape(d, s)
    /\ OneRuns(s, jobs)
    /\ \A i \in Slots : JobShape(s, jobs[i], h)

\* every entry added on d and not in storage is carried
Carried(d) == d \notin hidden \cup course.manual =>
                 \A e \in mine[d] \ Stored : Cover(session[d], job[d], dirty[d], e)

DeviceOK(d) ==
    /\ mine[d] \subseteq live[d].kept
    /\ confirmed[d][1] \subseteq Stored
    /\ Shapes(d, session[d], job[d], d \in hidden)
    /\ Carried(d)

\* every session connects with the probe of its inbox answered
Warm == course.left["cold"] = 0

CarryInv == SyncInv /\ course.left["cold"] = 0 /\ \A d \in Devices : DeviceOK(d)

-----------------------------------------------------------------------------
(* Operations and sessions                                                  *)

LEMMA Todo ==
    ASSUME NEW j \in Jobs, j.todo # <<>>
    PROVE  /\ Head(j.todo) = "push" => Pushes(j)
           /\ Head(j.todo) \in {"push", "pull"}
           /\ Len(j.todo) \in {1, 2}
<1>1. j.todo = <<"push">> \/ j.todo = <<"pull">> \/ j.todo = <<"push", "pull">> \/ j.todo = <<"pull", "push">>
  BY DEF Jobs, Todos
<1> DEFINE Fine(t) == Head(t) \in {"push", "pull"} /\ Len(t) \in {1, 2} /\ Head(t) = t[1]
<1>2. Head(j.todo) \in {"push", "pull"} /\ Len(j.todo) \in {1, 2} /\ Head(j.todo) = j.todo[1]
  <2>1. Fine(<<"push">>) /\ Fine(<<"pull">>)
    OBVIOUS
  <2>2. Fine(<<"push", "pull">>) /\ Fine(<<"pull", "push">>)
    OBVIOUS
  <2>3. Fine(j.todo)
    <3> HIDE DEF Fine
    <3> QED BY <1>1, <2>1, <2>2
  <2> QED BY <2>3
<1>3. j.todo[1] \in {j.todo[k] : k \in 1..Len(j.todo)}
  BY <1>2
<1> QED BY <1>2, <1>3 DEF Pushes

LEMMA ReturnedShape ==
    ASSUME NEW j \in Jobs, j.todo # <<>>, NEW s, NEW h, j.by # "none", j.by = "hide" => h, j.by = "pull" => ~Pushes(j)
    PROVE  /\ JobShape(s, Returned(j), h)
           /\ Returned(j).at \in {"idle", "between"} /\ ~Active(Returned(j))
           /\ Head(j.todo) = "pull" /\ Pushes(j) => Returned(j).by = j.by /\ PushAhead(Returned(j))
<1>1. CASE Len(j.todo) = 1
  <2>1. Returned(j) = Idle /\ Idle.at = "idle" /\ Idle.by = "none"
    BY <1>1 DEF Returned, Idle
  <2>2. JobShape(s, Idle, h) /\ ~Active(Idle)
    BY DEF JobShape, Active, Idle
  <2>3. j.todo = <<"push">> \/ j.todo = <<"pull">>
    BY <1>1 DEF Jobs, Todos
  <2>4. ~(Head(j.todo) = "pull" /\ Pushes(j))
    BY <2>3 DEF Pushes
  <2> QED BY <2>1, <2>2, <2>4
<1>2. CASE Len(j.todo) # 1
  <2>1. j.todo = <<"push", "pull">> \/ j.todo = <<"pull", "push">>
    BY <1>2 DEF Jobs, Todos
  <2> DEFINE k == Returned(j)
  <2>2. k = [Idle EXCEPT !.by = j.by, !.at = "between", !.todo = Tail(j.todo)]
    BY <1>2 DEF Returned
  <2>3. k.by = j.by /\ k.at = "between" /\ k.todo = Tail(j.todo)
    BY <2>2 DEF Idle
  <2>4. Tail(<<"push", "pull">>) = <<"pull">> /\ Tail(<<"pull", "push">>) = <<"push">>
    OBVIOUS
  <2>5. /\ j.todo = <<"push", "pull">> => k.todo = <<"pull">> /\ Head(j.todo) = "push" /\ Pushes(j) /\ ~Pushes(k)
        /\ j.todo = <<"pull", "push">> => k.todo = <<"push">> /\ Head(j.todo) = "pull" /\ Pushes(k)
    <3> HIDE DEF k
    <3>1. CASE j.todo = <<"push", "pull">>
      <4>1. k.todo = <<"pull">> /\ Head(j.todo) = "push"
        BY <2>3, <2>4, <3>1
      <4>2. j.todo # <<>>
        OBVIOUS
      <4>3. Pushes(j) /\ ~Pushes(k)
        BY <4>1, Todo DEF Pushes
      <4>4. <<"push", "pull">> # <<"pull", "push">>
        OBVIOUS
      <4> QED BY <3>1, <4>1, <4>3, <4>4
    <3>2. CASE j.todo = <<"pull", "push">>
      <4>1. k.todo = <<"push">> /\ Head(j.todo) = "pull"
        BY <2>3, <2>4, <3>2
      <4>2. Pushes(k)
        <5>1. k.todo[1] = "push" /\ 1 \in 1..Len(k.todo)
          BY <4>1
        <5> QED BY <5>1 DEF Pushes
      <4>4. <<"push", "pull">> # <<"pull", "push">>
        OBVIOUS
      <4> QED BY <3>2, <4>1, <4>2, <4>4
    <3> QED BY <2>1, <3>1, <3>2
  <2>6. ~Active(k)
    BY <2>3 DEF Active
  <2>7. Pushes(k) => Pushes(j)
    <3>1. j.todo = <<"pull", "push">> => Pushes(j)
      <4> SUFFICES ASSUME j.todo = <<"pull", "push">> PROVE Pushes(j)
        OBVIOUS
      <4>1. j.todo[2] = "push" /\ 2 \in 1..Len(j.todo)
        OBVIOUS
      <4> QED BY <4>1 DEF Pushes
    <3> QED BY <2>1, <2>5, <3>1
  <2>8. Head(j.todo) = "pull" /\ Pushes(j) => Pushes(k)
    BY <2>1, <2>5
  <2> HIDE DEF k
  <2>9. JobShape(s, k, h)
    BY <2>3, <2>6, <2>7 DEF JobShape
  <2>10. Pushes(k) => PushAhead(k)
    BY <2>3 DEF Pushes, PushAhead
  <2> QED BY <2>3, <2>6, <2>8, <2>9, <2>10 DEF k
<1> QED BY <1>1, <1>2

\* operations none of which is active after one is replaced
LEMMA Replaced ==
    ASSUME NEW jobs \in [Slots -> Jobs], NEW s, NEW t, NEW h, NEW i \in Slots, NEW k \in Jobs,
           OneRuns(s, jobs), \A n \in Slots : JobShape(s, jobs[n], h),
           Active(jobs[i]) \/ ~s.syncing \/ t.confirm = s.confirm,
           ~Active(k), JobShape(t, k, h),
           Active(jobs[i]) \/ ~s.syncing \/ t.syncing = s.syncing
    PROVE  /\ OneRuns(t, [jobs EXCEPT ![i] = k])
           /\ \A n \in Slots : JobShape(t, [jobs EXCEPT ![i] = k][n], h)
<1>1. /\ [jobs EXCEPT ![i] = k][i] = k
      /\ \A n \in Slots : n # i => [jobs EXCEPT ![i] = k][n] = jobs[n]
  OBVIOUS
<1>2. ASSUME NEW n \in Slots, Active([jobs EXCEPT ![i] = k][n]) 
      PROVE  n # i /\ Active(jobs[n]) /\ ~Active(jobs[i]) /\ s.syncing
  BY <1>1, <1>2 DEF OneRuns
<1>3. OneRuns(t, [jobs EXCEPT ![i] = k])
  <2> SUFFICES ASSUME NEW n \in Slots, NEW m \in Slots, Active([jobs EXCEPT ![i] = k][n])
               PROVE  t.syncing /\ (Active([jobs EXCEPT ![i] = k][m]) => n = m)
    BY DEF OneRuns
  <2>1. t.syncing
    BY <1>2
  <2>2. Active([jobs EXCEPT ![i] = k][m]) => n = m
    BY <1>2 DEF OneRuns
  <2> QED BY <2>1, <2>2
<1>4. ASSUME NEW n \in Slots PROVE JobShape(t, [jobs EXCEPT ![i] = k][n], h)
  <2>1. CASE n = i
    BY <1>1, <2>1
  <2>2. CASE n # i /\ jobs[n].at # "exported"
    BY <1>1, <2>2 DEF JobShape
  <2>3. CASE n # i /\ jobs[n].at = "exported"
    <3>1. t.confirm = s.confirm
      BY <1>1, <1>2, <2>3 DEF Active
    <3> QED BY <1>1, <2>3, <3>1 DEF JobShape
  <2> QED BY <2>1, <2>2, <2>3
<1> QED BY <1>3, <1>4

LEMMA BegunShape ==
    ASSUME SyncInv, NEW d \in Devices, NEW j \in Jobs, j.todo # <<>>, NEW s, SessionShape(d, s), NEW h, j.by # "none",
           j.by = "hide" => h, j.by = "pull" => ~Pushes(j)
    PROVE  /\ JobShape(s, Begun(d, j), h)
           /\ Head(j.todo) = "push" => Begun(d, j).at = "exported" /\ Begun(d, j).base = live[d]
           /\ Head(j.todo) # "push" => Begun(d, j).at = "reading" /\ Begun(d, j).by = j.by /\ (Pushes(j) => PushAhead(Begun(d, j)))
<1>1. CASE Head(j.todo) = "push"
  <2>1. Begun(d, j) = [j EXCEPT !.at = "exported", !.base = live[d]]
    BY <1>1 DEF Begun
  <2> DEFINE k == Begun(d, j)
  <2>2. k.at = "exported" /\ k.base = live[d] /\ k.todo = j.todo /\ k.by = j.by
    BY <2>1 DEF Jobs
  <2>3. JobShape(s, k, h)
    <3> HIDE DEF k
    <3> QED BY <1>1, <2>2 DEF JobShape, SessionShape, Pushes
  <2> QED BY <1>1, <2>2, <2>3
<1>2. CASE Head(j.todo) # "push"
  <2>1. Begun(d, j) = [j EXCEPT !.at = "reading"]
    BY <1>2 DEF Begun
  <2> DEFINE k == Begun(d, j)
  <2>2. k.at = "reading" /\ k.todo = j.todo /\ k.by = j.by
    BY <2>1 DEF Jobs
  <2>3. JobShape(s, k, h) /\ (Pushes(j) => PushAhead(k))
    <3> HIDE DEF k
    <3> QED BY <1>2, <2>2 DEF JobShape, SessionShape, Pushes, PushAhead
  <2> QED BY <1>2, <2>2, <2>3
<1> QED BY <1>1, <1>2

\* the session and the operations after a push or a pull is called
LEMMA CallShape ==
    ASSUME SyncInv, NEW d \in Devices, NEW i \in Slots, NEW j \in Jobs, j.todo # <<>>, NEW h, j.by # "none",
           j.by = "hide" => h, j.by = "pull" => ~Pushes(j), j.rows \subseteq store,
           NEW s \in Sessions, Shapes(d, s, job[d], h), job[d][i].at \in {"idle", "between"}, Call(d, i, j, s)
    PROVE  Shapes(d, session'[d], job'[d], h)
<1>1. job[d] \in [Slots -> Jobs] /\ live[d] \in States /\ clock \in Nat /\ pushed \in Nat /\ session \in [Devices -> Sessions]
      /\ job \in [Devices -> [Slots -> Jobs]]
  BY DEF SyncInv, TypeOK
<1>2. /\ SessionShape(d, s) /\ OneRuns(s, job[d]) /\ (\A n \in Slots : JobShape(s, job[d][n], h))
      /\ ~Active(job[d][i]) /\ s.probed
  BY DEF Shapes, Active, SessionShape
<1>3. CASE s.syncing
  <2> DEFINE t == IF Head(j.todo) = "push" THEN [s EXCEPT !.queued = TRUE] ELSE s
  <2>1. session'[d] = t /\ job'[d] = [job[d] EXCEPT ![i] = Returned(j)]
    BY <1>1, <1>3 DEF Call
  <2>2. t.confirm = s.confirm /\ t.syncing = s.syncing /\ t.probed = s.probed
    BY DEF Sessions
  <2> HIDE DEF t
  <2>3. JobShape(t, Returned(j), h) /\ ~Active(Returned(j))
    BY ReturnedShape
  <2>4. Returned(j) \in Jobs
    BY <1>1, ReturnedTyped
  <2>5. SessionShape(d, t)
    BY <1>2, <2>2 DEF SessionShape
  <2>6. OneRuns(t, job'[d]) /\ \A n \in Slots : JobShape(t, job'[d][n], h)
    <3> DEFINE jobs == job[d]
               k == Returned(j)
    <3>1. jobs \in [Slots -> Jobs] /\ OneRuns(s, jobs) /\ (\A n \in Slots : JobShape(s, jobs[n], h))
          /\ k \in Jobs /\ ~Active(k) /\ JobShape(t, k, h)
      BY <1>1, <1>2, <2>3, <2>4
    <3>2. job'[d] = [jobs EXCEPT ![i] = k]
      BY <2>1
    <3> HIDE DEF jobs, k
    <3>3. /\ OneRuns(t, [jobs EXCEPT ![i] = k])
          /\ \A n \in Slots : JobShape(t, [jobs EXCEPT ![i] = k][n], h)
      BY <2>2, <3>1, Replaced
    <3> QED BY <3>2, <3>3
  <2> QED BY <2>1, <2>5, <2>6 DEF Shapes
<1>4. CASE ~s.syncing
  <2> DEFINE t == [s EXCEPT !.syncing = s.probed]
             k == Begun(d, j)
  <2>1. session'[d] = t /\ job'[d] = [job[d] EXCEPT ![i] = k]
    BY <1>1, <1>2, <1>4 DEF Call
  <2>2. t.confirm = s.confirm /\ t.syncing = s.probed /\ t.probed = s.probed
    BY DEF Sessions
  <2>3. k \in Jobs
    BY <1>1, BegunTyped
  <2> HIDE DEF t
  <2>5. SessionShape(d, t)
    BY <1>2, <2>2 DEF SessionShape
  <2>4. JobShape(t, k, h)
    BY <2>5, BegunShape
  <2> HIDE DEF k
  <2>6. \A n \in Slots : ~Active(job[d][n])
    BY <1>2, <1>4 DEF OneRuns
  <2>7. OneRuns(t, job'[d])
    BY <1>1, <1>2, <2>1, <2>2, <2>6 DEF OneRuns
  <2>8. \A n \in Slots : n # i => JobShape(t, job'[d][n], h)
    BY <1>1, <1>2, <2>1, <2>6 DEF JobShape, Active
  <2>9. JobShape(t, job'[d][i], h)
    BY <1>1, <2>1, <2>4
  <2> QED BY <2>1, <2>5, <2>7, <2>8, <2>9 DEF Shapes
<1> QED BY <1>3, <1>4

LEMMA CallCover ==
    ASSUME SyncInv, NEW d \in Devices, NEW i \in Slots, NEW j \in Jobs, j.todo # <<>>, j.by # "none", j.rows \subseteq store,
           j.by = "pull" => ~Pushes(j),
           NEW s \in Sessions, SessionShape(d, s), job[d][i].at \in {"idle", "between"}, Call(d, i, j, s),
           NEW b, NEW e \in live[d].kept,
           \/ Head(j.todo) = "push"
           \/ j.by = "start" /\ Pushes(j)
           \/ Cover(s, job[d], b, e) /\ ~(job[d][i].by = "start" /\ PushAhead(job[d][i]))
    PROVE  Cover(session'[d], job'[d], b, e)
<1>1. job[d] \in [Slots -> Jobs] /\ live[d] \in States /\ clock \in Nat /\ pushed \in Nat /\ session \in [Devices -> Sessions]
      /\ job \in [Devices -> [Slots -> Jobs]]
  BY DEF SyncInv, TypeOK
<1>2. s.probed
  BY DEF SessionShape
<1>3. ASSUME NEW t, NEW k \in Jobs, k.at # "exported", job'[d] = [job[d] EXCEPT ![i] = k],
             session'[d] = t, t.timer = s.timer, t.queued = s.queued, t.started = s.started, t.confirm = s.confirm,
             Cover(s, job[d], b, e), ~(job[d][i].by = "start" /\ PushAhead(job[d][i]))
      PROVE  Cover(t, job'[d], b, e)
  <2>1. /\ job'[d][i] = k /\ job[d][i].at # "exported"
        /\ \A n \in Slots : n # i => job'[d][n] = job[d][n]
    BY <1>1, <1>3
  <2>2. (\A n \in Slots : job[d][n].at # "exported") => \A n \in Slots : job'[d][n].at # "exported"
    BY <1>3, <2>1
  <2>3. (\E n \in Slots : job[d][n].at = "exported" /\ e \in job[d][n].base.kept)
          => \E n \in Slots : job'[d][n].at = "exported" /\ e \in job'[d][n].base.kept
    BY <2>1
  <2>4. (\E n \in Slots : job[d][n].by = "start" /\ PushAhead(job[d][n]))
          => \E n \in Slots : job'[d][n].by = "start" /\ PushAhead(job'[d][n])
    BY <1>3, <2>1
  <2> QED BY <1>3, <2>2, <2>3, <2>4, Zenon DEF Cover
<1>4. CASE s.syncing
  <2> DEFINE t == IF Head(j.todo) = "push" THEN [s EXCEPT !.queued = TRUE] ELSE s
             k == Returned(j)
  <2>1. session'[d] = t /\ job'[d] = [job[d] EXCEPT ![i] = k]
    BY <1>1, <1>4 DEF Call
  <2>2. CASE Head(j.todo) = "push"
    <3>1. t.queued = TRUE
      BY <2>2 DEF Sessions
    <3> QED BY <2>1, <3>1 DEF Cover
  <2>3. CASE Head(j.todo) # "push"
    <3>1. t = s /\ Head(j.todo) = "pull"
      BY <2>3, Todo
    <3>2. k \in Jobs /\ k.at # "exported" /\ (Pushes(j) => k.by = j.by /\ PushAhead(k))
      BY <1>1, <3>1, ReturnedTyped, ReturnedShape
    <3> HIDE DEF t, k
    <3>3. CASE j.by = "start" /\ Pushes(j)
      <4>1. job'[d][i].by = "start" /\ PushAhead(job'[d][i])
        BY <1>1, <2>1, <3>2, <3>3
      <4> QED BY <4>1 DEF Cover
    <3> QED BY <1>3, <2>1, <2>3, <3>1, <3>2, <3>3
  <2> QED BY <2>2, <2>3
<1>5. CASE ~s.syncing
  <2> DEFINE t == [s EXCEPT !.syncing = s.probed]
             k == Begun(d, j)
  <2>1. session'[d] = t /\ job'[d] = [job[d] EXCEPT ![i] = k]
    BY <1>1, <1>2, <1>5 DEF Call
  <2>2. t.timer = s.timer /\ t.queued = s.queued /\ t.started = s.started /\ t.confirm = s.confirm
    BY DEF Sessions
  <2>3. k \in Jobs
    BY <1>1, BegunTyped
  <2>4. /\ Head(j.todo) = "push" => k.at = "exported" /\ k.base = live[d]
        /\ Head(j.todo) # "push" => k.at = "reading" /\ k.by = j.by /\ (Pushes(j) => PushAhead(k))
    BY BegunShape
  <2> HIDE DEF t, k
  <2>5. job'[d][i] = k
    BY <1>1, <2>1
  <2>6. CASE Head(j.todo) = "push"
    BY <2>4, <2>5, <2>6 DEF Cover
  <2>7. CASE j.by = "start" /\ Pushes(j) /\ Head(j.todo) # "push"
    BY <2>4, <2>5, <2>7 DEF Cover
  <2>8. CASE Head(j.todo) # "push" /\ ~(j.by = "start" /\ Pushes(j))
    BY <1>3, <2>1, <2>2, <2>3, <2>4, <2>8
  <2> QED BY <2>6, <2>7, <2>8
<1> QED BY <1>4, <1>5

\* a pull ends and gives up isSyncing: what was queued is scheduled
LEMMA PullEnds ==
    ASSUME NEW jobs \in [Slots -> Jobs], NEW i \in Slots, NEW s \in Sessions, NEW d, NEW e,
           NEW t, t.timer <=> s.timer \/ s.queued, t.started => s.started, t.confirm = s.confirm,
           NEW k \in Jobs, k.at # "exported",
           ~t.started \/ (jobs[i].by = "start" /\ PushAhead(jobs[i]) => k.by = "start" /\ PushAhead(k)),
           jobs[i].at # "exported",
           dirty'[d] <=> dirty[d] \/ s.queued,
           Cover(s, jobs, dirty[d], e)
    PROVE  Cover(t, [jobs EXCEPT ![i] = k], dirty'[d], e)
<1> DEFINE new == [jobs EXCEPT ![i] = k]
<1>1. /\ new[i] = k /\ \A n \in Slots : n # i => new[n] = jobs[n]
  OBVIOUS
<1> HIDE DEF new
<1>2. (\A n \in Slots : jobs[n].at # "exported") => \A n \in Slots : new[n].at # "exported"
  BY <1>1
<1>3. (\E n \in Slots : jobs[n].at = "exported" /\ e \in jobs[n].base.kept)
          => \E n \in Slots : new[n].at = "exported" /\ e \in new[n].base.kept
  BY <1>1
<1>4. t.started /\ (\E n \in Slots : jobs[n].by = "start" /\ PushAhead(jobs[n]))
          => \E n \in Slots : new[n].by = "start" /\ PushAhead(new[n])
  BY <1>1
<1>5. Cover(t, new, dirty'[d], e)
  BY <1>2, <1>3, <1>4, Zenon DEF Cover
<1> QED BY <1>5 DEF new

\* a push ends, and what awaited its read-back, or this push carried, awaits it now
LEMMA PushEnds ==
    ASSUME NEW jobs \in [Slots -> Jobs], NEW i \in Slots, NEW s \in Sessions, NEW d, NEW e,
           NEW t, t.timer <=> s.timer \/ s.queued, t.started <=> s.started,
           s.confirm.at # 0 /\ e \in s.confirm.hash[1] => t.confirm.at # 0 /\ e \in t.confirm.hash[1],
           jobs[i].at = "exported", e \in jobs[i].base.kept => t.confirm.at # 0 /\ e \in t.confirm.hash[1],
           OneRuns(s, jobs), NEW k \in Jobs,
           dirty'[d] <=> (s.timer \/ s.queued) /\ (dirty[d] \/ s.queued),
           Cover(s, jobs, dirty[d], e)
    PROVE  Cover(t, [jobs EXCEPT ![i] = k], dirty'[d], e)
<1> DEFINE new == [jobs EXCEPT ![i] = k]
<1>1. /\ new[i] = k /\ \A n \in Slots : n # i => new[n] = jobs[n]
  OBVIOUS
<1> HIDE DEF new
<1>2. ~\A n \in Slots : jobs[n].at # "exported"
  OBVIOUS
<1>3. (\E n \in Slots : jobs[n].at = "exported" /\ e \in jobs[n].base.kept)
          => t.confirm.at # 0 /\ e \in t.confirm.hash[1]
  BY DEF OneRuns, Active
<1>4. (\E n \in Slots : jobs[n].by = "start" /\ PushAhead(jobs[n]))
          => \E n \in Slots : new[n].by = "start" /\ PushAhead(new[n])
  BY <1>1 DEF PushAhead
<1>5. Cover(t, new, dirty'[d], e)
  BY <1>2, <1>3, <1>4, Zenon DEF Cover
<1> QED BY <1>5 DEF new

LEMMA ReleasedFields ==
    ASSUME NEW d, NEW s \in Sessions
    PROVE  /\ AutoSync(d) => (Released(d, s).timer <=> s.timer \/ s.queued)
           /\ Released(d, s).started = s.started /\ Released(d, s).confirm = s.confirm
           /\ Released(d, s).probed = s.probed
<1> DEFINE r == [s EXCEPT !.syncing = FALSE, !.queued = FALSE]
<1>1. /\ r \in Sessions /\ r.timer = s.timer /\ r.started = s.started /\ r.confirm = s.confirm /\ r.probed = s.probed
  BY DEF Sessions
<1>2. Scheduled(d, r) = IF AutoSync(d) THEN [r EXCEPT !.timer = TRUE] ELSE r
  BY DEF Scheduled
<1>3. Released(d, s) = IF s.queued THEN Scheduled(d, r) ELSE r
  BY DEF Released
<1>4. /\ [r EXCEPT !.timer = TRUE].timer = TRUE /\ [r EXCEPT !.timer = TRUE].started = r.started
      /\ [r EXCEPT !.timer = TRUE].confirm = r.confirm /\ [r EXCEPT !.timer = TRUE].probed = r.probed
  BY <1>1 DEF Sessions
<1> HIDE DEF r
<1>5. CASE s.queued
  <2>1. Released(d, s) = IF AutoSync(d) THEN [r EXCEPT !.timer = TRUE] ELSE r
    BY <1>2, <1>3, <1>5
  <2>2. CASE AutoSync(d)
    BY <1>1, <1>4, <1>5, <2>1, <2>2
  <2>3. CASE ~AutoSync(d)
    BY <1>1, <1>5, <2>1, <2>3
  <2> QED BY <2>2, <2>3
<1>6. CASE ~s.queued
  <2>1. Released(d, s) = r
    BY <1>3, <1>6
  <2> QED BY <1>1, <1>6, <2>1
<1> QED BY <1>5, <1>6

-----------------------------------------------------------------------------
(* The device that acts, and the others                                     *)

\* a device that does not act, whatever others do
LEMMA OthersOK ==
    ASSUME SyncInv, SyncInv', NEW d \in Devices, DeviceOK(d), session'[d] = session[d], job'[d] = job[d],
           dirty'[d] = dirty[d], confirmed'[d] = confirmed[d], mine'[d] = mine[d], live[d].kept \subseteq live'[d].kept,
           (d \in hidden') <=> (d \in hidden), course'.manual = course.manual,
           store \subseteq store', \A r \in store' \ store : r.at = pushed + 1
    PROVE  DeviceOK(d)'
<1>1. session[d].confirm.at # pushed + 1
  BY DEF SyncInv, TypeOK, Sessions
<1>2. Stored \subseteq Stored'
  BY DEF Stored
<1>3. SessionShape(d, session[d])'
  <2>1. SessionShape(d, session[d])
    BY DEF DeviceOK, Shapes
  <2>2. \A r \in store' : r.at = session[d].confirm.at => r.data.kept = session[d].confirm.hash[1]
    BY <1>1, <2>1 DEF SessionShape
  <2> QED BY <2>1, <2>2 DEF SessionShape
<1>4. Shapes(d, session[d], job[d], d \in hidden)'
  BY <1>3 DEF DeviceOK, Shapes, OneRuns, JobShape
<1>5. Carried(d)'
  <2> SUFFICES ASSUME d \notin hidden' \cup course'.manual, NEW e \in mine'[d] \ Stored'
               PROVE  Cover(session'[d], job'[d], dirty'[d], e)
    BY DEF Carried
  <2> QED BY <1>2 DEF DeviceOK, Carried
<1>6. mine'[d] \subseteq live'[d].kept /\ confirmed'[d][1] \subseteq Stored'
  BY <1>2 DEF DeviceOK
<1> QED BY <1>4, <1>5, <1>6 DEF DeviceOK

\* a step that leaves the states, storage and the entries alone
LEMMA QuietOK ==
    ASSUME CarryInv, SyncInv', NEW d \in Devices, UNCHANGED <<live, store, mine, hidden>>,
           course'.manual = course.manual, course'.left["cold"] = 0,
           \A o \in Devices : o # d => session'[o] = session[o] /\ job'[o] = job[o],
           \A o \in Devices : o # d => dirty'[o] = dirty[o] /\ confirmed'[o] = confirmed[o],
           confirmed'[d][1] \subseteq Stored,
           Shapes(d, session'[d], job'[d], d \in hidden),
           ASSUME d \notin hidden, AutoSync(d), NEW e \in mine[d] \ Stored
           PROVE  Cover(session'[d], job'[d], dirty'[d], e)
    PROVE  CarryInv'
<1>1. ASSUME NEW o \in Devices, o # d PROVE DeviceOK(o)'
  BY <1>1, OthersOK DEF CarryInv
<1>2. DeviceOK(d)'
  <2>1. Stored' = Stored
    BY DEF Stored
  <2>2. Carried(d)'
    <3> SUFFICES ASSUME d \notin hidden' \cup course'.manual, NEW e \in mine'[d] \ Stored'
                 PROVE  Cover(session'[d], job'[d], dirty'[d], e)
      BY DEF Carried
    <3> QED BY <2>1 DEF AutoSync
  <2>3. Shapes(d, session[d], job[d], d \in hidden)'
    BY DEF Shapes, SessionShape, OneRuns, JobShape
  <2> QED BY <2>1, <2>2, <2>3 DEF CarryInv, DeviceOK
<1> QED BY <1>1, <1>2 DEF CarryInv

\* what an action of device d starts from
LEMMA Start ==
    ASSUME CarryInv, NEW d \in Devices, NEW i \in Slots
    PROVE  /\ SyncInv /\ course.left["cold"] = 0 /\ course \in CourseStates
           /\ session[d] \in Sessions /\ job[d] \in [Slots -> Jobs] /\ job[d][i] \in Jobs /\ dirty[d] \in BOOLEAN
           /\ session \in [Devices -> Sessions] /\ job \in [Devices -> [Slots -> Jobs]] /\ dirty \in [Devices -> BOOLEAN]
           /\ session[d].probed /\ job[d][i].at \notin {"asked", "inbox"}
           /\ job[d][i].at # "idle" => job[d][i].todo # <<>> /\ job[d][i].by # "none"
           /\ job[d][i].rows \subseteq store
           /\ Shapes(d, session[d], job[d], d \in hidden)
           /\ JobShape(session[d], job[d][i], d \in hidden)
           /\ SessionShape(d, session[d]) /\ OneRuns(session[d], job[d])
           /\ mine[d] \subseteq live[d].kept /\ confirmed[d][1] \subseteq Stored
           /\ \A e \in mine[d] \ Stored : d \notin hidden /\ AutoSync(d) => Cover(session[d], job[d], dirty[d], e)
<1>1. SyncInv /\ course.left["cold"] = 0 /\ course \in CourseStates /\ DeviceOK(d)
  BY DEF CarryInv, SyncInv, TypeOK
<1>2. /\ session[d] \in Sessions /\ job[d] \in [Slots -> Jobs] /\ job[d][i] \in Jobs /\ dirty[d] \in BOOLEAN
      /\ session \in [Devices -> Sessions] /\ job \in [Devices -> [Slots -> Jobs]] /\ dirty \in [Devices -> BOOLEAN]
      /\ Held(d, job[d][i])
  BY <1>1 DEF SyncInv, TypeOK, JobsOK
<1>3. /\ Shapes(d, session[d], job[d], d \in hidden)
      /\ JobShape(session[d], job[d][i], d \in hidden)
      /\ SessionShape(d, session[d]) /\ OneRuns(session[d], job[d])
      /\ mine[d] \subseteq live[d].kept /\ confirmed[d][1] \subseteq Stored
  BY <1>1 DEF DeviceOK, Shapes
<1>4. session[d].probed /\ job[d][i].at \notin {"asked", "inbox"} /\ (job[d][i].at # "idle" => job[d][i].by # "none")
  BY <1>3 DEF SessionShape, JobShape
<1>5. (job[d][i].at # "idle" => job[d][i].todo # <<>>) /\ job[d][i].rows \subseteq store
  BY <1>2, <1>4 DEF Held
<1>6. \A e \in mine[d] \ Stored : d \notin hidden /\ AutoSync(d) => Cover(session[d], job[d], dirty[d], e)
  BY <1>1 DEF DeviceOK, Carried, AutoSync
<1> QED BY <1>1, <1>2, <1>3, <1>4, <1>5, <1>6

LEMMA SpentWarm ==
    ASSUME course \in CourseStates, course.left["cold"] = 0, NEW x \in Events, Spend(x)
    PROVE  course'.left["cold"] = 0 /\ course'.manual = course.manual
<1>1. x # "cold" /\ "cold" \in Events
  BY DEF Spend, May, Events
<1>2. course' = [course EXCEPT !.left = [course.left EXCEPT ![x] = @ - 1]]
  BY DEF Spend, CourseStates
<1> QED BY <1>1, <1>2 DEF CourseStates

-----------------------------------------------------------------------------
(* One lemma for each action                                                *)

LEMMA Others == ASSUME NEW d \in Devices, NEW i \in Slots, NEW j, NEW s, Call(d, i, j, s), SyncInv
                PROVE  \A o \in Devices : o # d => session'[o] = session[o] /\ job'[o] = job[o]
<1>1. session \in [Devices -> Sessions] /\ job \in [Devices -> [Slots -> Jobs]]
  BY DEF SyncInv, TypeOK
<1> QED BY <1>1 DEF Call

\* a prompt that begins with a push, or with the read of a session that starts, or that drops nothing
LEMMA PromptOK ==
    ASSUME CarryInv, SyncInv', NEW d \in Devices, NEW i \in Slots, NEW by \in {"timer", "start", "sync", "pull"},
           NEW todo \in Todos \ {<<>>}, NEW s \in Sessions, SessionShape(d, s), s.syncing = session[d].syncing,
           s.confirm.hash[1] \subseteq session[d].confirm.hash[1],
           Prompt(d, i, by, todo, s), by = "pull" => todo = <<"pull">>,
           UNCHANGED <<live, store, mine, hidden>>, course'.manual = course.manual, course'.left["cold"] = 0,
           \A o \in Devices : o # d => dirty'[o] = dirty[o] /\ confirmed'[o] = confirmed[o],
           confirmed'[d][1] \subseteq Stored,
           \/ Head(todo) = "push"
           \/ by = "start" /\ todo = <<"pull", "push">>
           \/ \A e \in mine[d] \ Stored : d \notin hidden /\ AutoSync(d) => Cover(s, job[d], dirty'[d], e)
    PROVE  CarryInv'
<1> DEFINE j == [Idle EXCEPT !.by = by, !.todo = todo]
<1>1. j \in Jobs /\ j.todo = todo /\ j.todo # <<>> /\ j.rows \subseteq store /\ j.by = by /\ j.by # "none" /\ j.by # "hide"
  <2>1. Nothing \in States
    BY NothingTyped DEF CarryInv, SyncInv, TypeOK
  <2> QED BY <2>1 DEF Idle, Jobs, Phases
<1>2. Call(d, i, j, s) /\ job[d][i].at = "idle"
  BY DEF Prompt
<1> HIDE DEF j
<1>3. j.by = "pull" => ~Pushes(j)
  <2> SUFFICES ASSUME j.by = "pull" PROVE ~Pushes(j)
    OBVIOUS
  <2>1. j.todo = <<"pull">>
    BY <1>1
  <2> QED BY <2>1 DEF Pushes
<1>4. Shapes(d, s, job[d], d \in hidden)
  <2>1. OneRuns(s, job[d])
    BY Start DEF OneRuns
  <2>2. \A n \in Slots : JobShape(s, job[d][n], d \in hidden)
    BY Start DEF JobShape
  <2> QED BY <2>1, <2>2 DEF Shapes
<1>5. Shapes(d, session'[d], job'[d], d \in hidden)
  BY <1>1, <1>2, <1>3, <1>4, CallShape DEF CarryInv
<1>6. ASSUME d \notin hidden, AutoSync(d), NEW e \in mine[d] \ Stored
      PROVE  Cover(session'[d], job'[d], dirty'[d], e)
  <2>1. e \in live[d].kept
    BY Start
  <2>2. todo = <<"pull", "push">> => Pushes(j)
    <3> SUFFICES ASSUME todo = <<"pull", "push">> PROVE Pushes(j)
      OBVIOUS
    <3>1. j.todo[2] = "push" /\ 2 \in 1..Len(j.todo)
      BY <1>1
    <3> QED BY <3>1 DEF Pushes
  <2>3. ~PushAhead(job[d][i])
    BY <1>2 DEF PushAhead
  <2>4. Head(j.todo) = "push" \/ (j.by = "start" /\ Pushes(j)) \/ Cover(s, job[d], dirty'[d], e)
    BY <1>1, <1>6, <2>2
  <2> QED BY <1>1, <1>2, <1>3, <2>1, <2>3, <2>4, CallCover DEF CarryInv
<1>7. \A o \in Devices : o # d => session'[o] = session[o] /\ job'[o] = job[o]
  BY <1>2, Others, Start
<1> QED BY <1>5, <1>6, <1>7, QuietOK

LEMMA CarryTimer ==
    ASSUME CarryInv, SyncInv', NEW d \in Devices, NEW i \in Slots, TimerFires(d, i) PROVE CarryInv'
<1> DEFINE s == [session[d] EXCEPT !.timer = FALSE]
<1>1. s \in Sessions /\ s.syncing = session[d].syncing /\ s.confirm = session[d].confirm /\ s.probed = session[d].probed
  BY Start DEF Sessions
<1>2. Prompt(d, i, "timer", <<"push">>, s) /\ UNCHANGED <<live, dirty, confirmed, store, course, mine, hidden>>
  BY DEF TimerFires, hist
<1> HIDE DEF s
<1>3. SessionShape(d, s) /\ s.confirm.hash[1] \subseteq session[d].confirm.hash[1]
  BY <1>1, Start DEF SessionShape
<1>4. <<"push">> \in Todos \ {<<>>} /\ Head(<<"push">>) = "push"
  BY DEF Todos
<1>5. \A o \in Devices : dirty'[o] = dirty[o]
  BY <1>2
<1>6. confirmed'[d][1] \subseteq Stored
  BY <1>2 DEF CarryInv, DeviceOK
<1>7. course'.manual = course.manual /\ course'.left["cold"] = 0
  BY <1>2, Start
<1> QED BY <1>1, <1>2, <1>3, <1>4, <1>5, <1>6, <1>7, PromptOK

LEMMA CarryWatch ==
    ASSUME CarryInv, SyncInv', NEW d \in Devices, NEW i \in Slots, Watch(d, i) PROVE CarryInv'
<1> DEFINE s == [session[d] EXCEPT !.probed = TRUE]
<1>1. s = session[d]
  <2>1. session[d].probed = TRUE
    BY Start DEF Sessions
  <2> QED BY <2>1, Start DEF Sessions
<1>2. Prompt(d, i, "pull", <<"pull">>, s) /\ UNCHANGED <<live, dirty, confirmed, store, course, mine, hidden>>
  BY DEF Watch, hist
<1> HIDE DEF s
<1>3. SessionShape(d, s) /\ s.confirm.hash[1] \subseteq session[d].confirm.hash[1]
      /\ s \in Sessions /\ s.syncing = session[d].syncing
  BY <1>1, Start DEF SessionShape
<1>4. <<"pull">> \in Todos \ {<<>>}
  BY DEF Todos
<1>5. \A o \in Devices : dirty'[o] = dirty[o]
  BY <1>2
<1>6. confirmed'[d][1] \subseteq Stored
  BY <1>2 DEF CarryInv, DeviceOK
<1>7. course'.manual = course.manual /\ course'.left["cold"] = 0
  BY <1>2, Start
<1>8. \A e \in mine[d] \ Stored : d \notin hidden /\ AutoSync(d) => Cover(s, job[d], dirty'[d], e)
  BY <1>1, <1>2, Start
<1> DEFINE todo == <<"pull">>
<1>9. Prompt(d, i, "pull", todo, s) /\ todo \in Todos \ {<<>>} /\ ("pull" = "pull" => todo = <<"pull">>)
  BY <1>2, <1>4
<1> HIDE DEF todo
<1>10. UNCHANGED <<live, store, mine, hidden>> /\ \A o \in Devices : confirmed'[o] = confirmed[o]
  BY <1>2
<1> QED BY <1>3, <1>5, <1>6, <1>7, <1>8, <1>9, <1>10, PromptOK

LEMMA CarrySmart ==
    ASSUME CarryInv, SyncInv', NEW d \in Devices, NEW i \in Slots, SmartSync(d, i) PROVE CarryInv'
<1>1. UNCHANGED <<live, dirty, confirmed, store, mine, hidden>>
  BY DEF SmartSync, hist
<1>2. SyncOrder(d) \in Todos \ {<<>>} /\ (Head(SyncOrder(d)) = "push" \/ SyncOrder(d) = <<"pull", "push">>)
  BY SyncOrderTyped DEF SyncOrder
<1>3. \A o \in Devices : dirty'[o] = dirty[o]
  BY <1>1
<1>4. confirmed'[d][1] \subseteq Stored
  BY <1>1 DEF CarryInv, DeviceOK
<1>5. CASE Ask(d, i, "start", [session[d] EXCEPT !.started = TRUE]) /\ UNCHANGED course
  <2> DEFINE s == [session[d] EXCEPT !.started = TRUE]
  <2>1. s \in Sessions /\ s.syncing = session[d].syncing /\ s.confirm = session[d].confirm /\ s.probed = session[d].probed
    BY Start DEF Sessions
  <2>2. Prompt(d, i, "start", SyncOrder(d), s)
    BY <1>5, <2>1, Start DEF Ask
  <2> HIDE DEF s
  <2>3. SessionShape(d, s) /\ s.confirm.hash[1] \subseteq session[d].confirm.hash[1]
    BY <2>1, Start DEF SessionShape
  <2>4. course'.manual = course.manual /\ course'.left["cold"] = 0
    BY <1>5, Start
  <2> QED BY <1>1, <1>2, <1>3, <1>4, <2>1, <2>2, <2>3, <2>4, PromptOK
<1>6. CASE Ask(d, i, "sync", session[d]) /\ Spend("sync")
  <2> DEFINE s == session[d]
  <2>1. Prompt(d, i, "sync", SyncOrder(d), s)
    BY <1>6, Start DEF Ask
  <2>2. SessionShape(d, s) /\ s.confirm.hash[1] \subseteq session[d].confirm.hash[1] /\ s \in Sessions
        /\ s.syncing = session[d].syncing
    BY Start
  <2>3. course'.manual = course.manual /\ course'.left["cold"] = 0
    BY <1>6, Start, SpentWarm DEF Events
  <2>4. \A e \in mine[d] \ Stored : d \notin hidden /\ AutoSync(d) => Cover(s, job[d], dirty'[d], e)
    BY <1>1, Start
  <2> DEFINE todo == SyncOrder(d)
  <2>5. Prompt(d, i, "sync", todo, s) /\ todo \in Todos \ {<<>>}
    BY <1>2, <2>1
  <2> HIDE DEF s, todo
  <2>6. UNCHANGED <<live, store, mine, hidden>> /\ \A o \in Devices : confirmed'[o] = confirmed[o]
    BY <1>1
  <2> QED BY <1>3, <1>4, <2>2, <2>3, <2>4, <2>5, <2>6, PromptOK
<1> QED BY <1>5, <1>6 DEF SmartSync

LEMMA CarryPhase ==
    ASSUME CarryInv, SyncInv', NEW d \in Devices, NEW i \in Slots, NextPhase(d, i) PROVE CarryInv'
<1> DEFINE j == job[d][i]
           s == session[d]
<1>1. /\ j.at = "between" /\ Call(d, i, j, s) /\ UNCHANGED <<live, dirty, confirmed, store, course, mine, hidden>>
  BY DEF NextPhase, hist
<1>2. /\ j \in Jobs /\ j.todo # <<>> /\ j.by # "none" /\ j.rows \subseteq store
      /\ (j.by = "hide" => d \in hidden) /\ (j.by = "pull" => ~Pushes(j))
  BY <1>1, Start DEF JobShape
<1>3. Shapes(d, s, job[d], d \in hidden) /\ s \in Sessions /\ SessionShape(d, s) /\ SyncInv
  BY Start
<1>4. Shapes(d, session'[d], job'[d], d \in hidden)
  BY <1>1, <1>2, <1>3, CallShape
<1>5. ASSUME d \notin hidden, AutoSync(d), NEW e \in mine[d] \ Stored
      PROVE  Cover(session'[d], job'[d], dirty'[d], e)
  <2>1. e \in live[d].kept /\ Cover(s, job[d], dirty[d], e) /\ dirty'[d] = dirty[d]
    BY <1>1, <1>5, Start
  <2>2. (j.by = "start" /\ Pushes(j)) \/ ~(j.by = "start" /\ PushAhead(j))
    BY <1>1 DEF PushAhead, Pushes
  <2> QED BY <1>1, <1>2, <1>3, <2>1, <2>2, CallCover
<1>6. \A o \in Devices : o # d => session'[o] = session[o] /\ job'[o] = job[o] /\ dirty'[o] = dirty[o]
  BY <1>1, <1>3, Others
<1>7. course'.manual = course.manual /\ course'.left["cold"] = 0
  BY <1>1, Start
<1>8. confirmed'[d][1] \subseteq Stored
  BY <1>1, Start
<1> QED BY <1>1, <1>4, <1>5, <1>6, <1>7, <1>8, QuietOK

LEMMA CarryHide ==
    ASSUME CarryInv, SyncInv', NEW d \in Devices, NEW i \in Slots, Hide(d, i) PROVE CarryInv'
<1> DEFINE s == [session[d] EXCEPT !.timer = FALSE, !.queued = FALSE]
<1>1. /\ s \in Sessions /\ s.syncing = session[d].syncing /\ s.confirm = session[d].confirm
      /\ s.probed = session[d].probed
  BY Start DEF Sessions
<1>2. /\ UNCHANGED <<live, dirty, confirmed, store, mine>> /\ hidden' = hidden \cup {d} /\ Spend("hide")
      /\ \/ Prompt(d, i, "hide", <<"push">>, s)
         \/ session' = [session EXCEPT ![d] = s] /\ UNCHANGED job
  BY DEF Hide
<1> HIDE DEF s
<1>3. Shapes(d, s, job[d], TRUE)
  <2>1. Shapes(d, session[d], job[d], TRUE)
    <3>1. Shapes(d, session[d], job[d], d \in hidden)
      BY Start
    <3> QED BY <3>1 DEF Shapes, JobShape
  <2> QED BY <1>1, <2>1 DEF Shapes, SessionShape, OneRuns, JobShape
<1>4. Shapes(d, session'[d], job'[d], TRUE) /\ \A o \in Devices : o # d => session'[o] = session[o] /\ job'[o] = job[o]
  <2>1. CASE Prompt(d, i, "hide", <<"push">>, s)
    <3> DEFINE j == [Idle EXCEPT !.by = "hide", !.todo = <<"push">>]
    <3>1. Nothing \in States
      BY NothingTyped DEF CarryInv, SyncInv, TypeOK
    <3>2. j \in Jobs /\ j.todo # <<>> /\ j.rows \subseteq store /\ j.by = "hide"
      BY <3>1 DEF Idle, Jobs, Phases, Todos
    <3>3. Call(d, i, j, s) /\ job[d][i].at = "idle"
      BY <2>1 DEF Prompt
    <3> HIDE DEF j
    <3>4. Shapes(d, session'[d], job'[d], TRUE)
      BY <1>1, <1>3, <3>2, <3>3, CallShape DEF CarryInv
    <3> QED BY <3>3, <3>4, Others DEF CarryInv
  <2>2. CASE session' = [session EXCEPT ![d] = s] /\ UNCHANGED job
    BY <1>3, <2>2, Start
  <2> QED BY <1>2, <2>1, <2>2
<1>5. course'.manual = course.manual /\ course'.left["cold"] = 0
  BY <1>2, Start, SpentWarm DEF Events
<1>6. ASSUME NEW o \in Devices, o # d PROVE DeviceOK(o)'
  BY <1>2, <1>4, <1>5, <1>6, OthersOK DEF CarryInv
<1>7. DeviceOK(d)'
  <2>1. Stored' = Stored
    BY <1>2 DEF Stored
  <2>2. Carried(d)'
    BY <1>2 DEF Carried
  <2>3. Shapes(d, session[d], job[d], d \in hidden)'
    BY <1>2, <1>4 DEF Shapes, SessionShape, OneRuns, JobShape
  <2>4. mine'[d] \subseteq live'[d].kept /\ confirmed'[d][1] \subseteq Stored'
    BY <1>2, <2>1, Start
  <2> QED BY <2>2, <2>3, <2>4 DEF DeviceOK
<1> QED BY <1>5, <1>6, <1>7 DEF CarryInv

LEMMA CarryEdit ==
    ASSUME CarryInv, SyncInv', NEW d \in Devices, Edit(d) \/ EditSlice(d) PROVE CarryInv'
<1> DEFINE s == Scheduled(d, session[d])
<1>1. /\ session' = [session EXCEPT ![d] = s] /\ dirty' = [dirty EXCEPT ![d] = TRUE]
      /\ UNCHANGED <<confirmed, job, store, hidden>>
      /\ Spend("edit") \/ Spend("slice")
  BY DEF Edit, EditSlice, Edited
<1>2. /\ SyncInv /\ session \in [Devices -> Sessions] /\ dirty \in [Devices -> BOOLEAN] /\ session[d] \in Sessions
      /\ live \in [Devices -> States] /\ mine \in [Devices -> SUBSET (1..clock)]
      /\ course \in CourseStates /\ course.left["cold"] = 0 /\ DeviceOK(d)
  BY DEF CarryInv, SyncInv, TypeOK
<1>3. /\ s.syncing = session[d].syncing /\ s.confirm = session[d].confirm /\ s.probed = session[d].probed
      /\ AutoSync(d) => s.timer = TRUE
  BY <1>2 DEF Scheduled, Sessions
<1> HIDE DEF s
<1>4. /\ \A o \in Devices : live[o].kept \subseteq live'[o].kept
      /\ \A o \in Devices : o # d => mine'[o] = mine[o]
      /\ mine'[d] \subseteq live'[d].kept
  <2>1. CASE Edit(d)
    <3>1. live' = [live EXCEPT ![d].kept = @ \cup {clock + 1}] /\ mine' = [mine EXCEPT ![d] = @ \cup {clock + 1}]
      BY <2>1 DEF Edit
    <3>2. live'[d].kept = live[d].kept \cup {clock + 1} /\ mine'[d] = mine[d] \cup {clock + 1}
          /\ \A o \in Devices : o # d => live'[o] = live[o]
      BY <1>2, <3>1 DEF States
    <3> QED BY <1>2, <3>1, <3>2 DEF DeviceOK
  <2>2. CASE EditSlice(d)
    <3>1. live' = [live EXCEPT ![d].val = ~@, ![d].stamp = clock + 1] /\ mine' = mine
      BY <2>2 DEF EditSlice
    <3>2. \A o \in Devices : live'[o].kept = live[o].kept
      BY <1>2, <3>1 DEF States
    <3> QED BY <1>2, <3>1, <3>2 DEF DeviceOK
  <2> QED BY <2>1, <2>2
<1>5. course'.manual = course.manual /\ course'.left["cold"] = 0
  BY <1>1, <1>2, SpentWarm DEF Events
<1>6. ASSUME NEW o \in Devices, o # d PROVE DeviceOK(o)'
  <2>1. session'[o] = session[o] /\ job'[o] = job[o] /\ dirty'[o] = dirty[o] /\ confirmed'[o] = confirmed[o]
    BY <1>1, <1>2, <1>6
  <2> QED BY <1>1, <1>2, <1>4, <1>5, <1>6, <2>1, OthersOK DEF CarryInv
<1>7. DeviceOK(d)'
  <2>1. Stored' = Stored /\ session'[d] = s /\ dirty'[d] = TRUE
    BY <1>1, <1>2 DEF Stored
  <2>2. Carried(d)'
    <3> SUFFICES ASSUME d \notin hidden' \cup course'.manual, NEW e \in mine'[d] \ Stored'
                 PROVE  Cover(session'[d], job'[d], dirty'[d], e)
      BY DEF Carried
    <3>1. s.timer = TRUE
      BY <1>3, <1>5 DEF AutoSync
    <3> QED BY <2>1, <3>1 DEF Cover
  <2>3. Shapes(d, session[d], job[d], d \in hidden)
    BY <1>2 DEF DeviceOK
  <2>4. SessionShape(d, session[d])'
    <3>1. SessionShape(d, session[d])
      BY <2>3 DEF Shapes
    <3> QED BY <1>1, <1>3, <1>4, <2>1, <3>1 DEF SessionShape
  <2>5. Shapes(d, session[d], job[d], d \in hidden)'
    BY <1>1, <1>3, <2>1, <2>3, <2>4 DEF Shapes, OneRuns, JobShape
  <2>6. confirmed'[d][1] \subseteq Stored'
    BY <1>1, <1>2, <2>1 DEF DeviceOK
  <2> QED BY <1>4, <2>2, <2>5, <2>6 DEF DeviceOK
<1> QED BY <1>5, <1>6, <1>7 DEF CarryInv

\* the read-back of a push ends, and may start a pull
LEMMA ReadBackOK ==
    ASSUME CarryInv, SyncInv', NEW d \in Devices, NEW i \in Slots,
           ReadBack(d, i, [session[d] EXCEPT !.confirm = NoConfirm]),
           UNCHANGED <<live, store, mine, hidden>>, course'.manual = course.manual, course'.left["cold"] = 0,
           \A o \in Devices : o # d => dirty'[o] = dirty[o] /\ confirmed'[o] = confirmed[o],
           confirmed'[d][1] \subseteq Stored,
           \A e \in mine[d] \ Stored : d \notin hidden /\ AutoSync(d)
               => Cover([session[d] EXCEPT !.confirm = NoConfirm], job[d], dirty'[d], e)
    PROVE  CarryInv'
<1> DEFINE s == [session[d] EXCEPT !.confirm = NoConfirm]
           todo == <<"pull">>
<1>1. s.syncing = session[d].syncing /\ s.confirm = NoConfirm /\ s.probed = session[d].probed /\ s \in Sessions
  <2>1. s \in Sessions
    BY Start, SessionTyped DEF SyncInv, TypeOK
  <2> QED BY <2>1, Start DEF Sessions
<1>2. \/ Prompt(d, i, "pull", todo, s)
      \/ session' = [session EXCEPT ![d] = s] /\ UNCHANGED job
  BY DEF ReadBack
<1>3. todo \in Todos \ {<<>>} /\ ("pull" = "pull" => todo = <<"pull">>)
  BY DEF Todos
<1>4. \A e \in mine[d] \ Stored : d \notin hidden /\ AutoSync(d) => Cover(s, job[d], dirty'[d], e)
  OBVIOUS
<1> HIDE DEF s, todo
<1>5. NoConfirm.at = 0 /\ NoConfirm.hash = NoHash /\ NoConfirm.hash[1] = {}
  BY DEF NoConfirm, NoHash
<1>6. SessionShape(d, s) /\ s.confirm.hash[1] \subseteq session[d].confirm.hash[1]
  <2>1. \A r \in store : r.at # 0
    BY Start DEF SyncInv, TypeOK, Rows
  <2> QED BY <1>1, <1>5, <2>1, Start DEF SessionShape
<1>7. CASE Prompt(d, i, "pull", todo, s)
  BY <1>1, <1>3, <1>4, <1>6, <1>7, PromptOK
<1>8. CASE session' = [session EXCEPT ![d] = s] /\ UNCHANGED job
  <2>1. session'[d] = s /\ job'[d] = job[d]
        /\ \A o \in Devices : o # d => session'[o] = session[o] /\ job'[o] = job[o]
    BY <1>8, Start
  <2>2. Shapes(d, s, job[d], d \in hidden)
    <3>1. OneRuns(s, job[d])
      BY <1>1, Start DEF OneRuns
    <3>2. \A n \in Slots : JobShape(s, job[d][n], d \in hidden)
      BY <1>6, Start DEF JobShape
    <3> QED BY <1>6, <3>1, <3>2 DEF Shapes
  <2>3. Shapes(d, session'[d], job'[d], d \in hidden)
    BY <2>1, <2>2
  <2>4. ASSUME d \notin hidden, AutoSync(d), NEW e \in mine[d] \ Stored
        PROVE  Cover(session'[d], job'[d], dirty'[d], e)
    BY <1>4, <2>1, <2>4
  <2> QED BY <2>1, <2>3, <2>4, QuietOK
<1> QED BY <1>2, <1>7, <1>8

LEMMA CarryHolds ==
    ASSUME CarryInv, SyncInv', NEW d \in Devices, NEW i \in Slots, ConfirmHolds(d, i) PROVE CarryInv'
<1> DEFINE s == [session[d] EXCEPT !.confirm = NoConfirm]
           c == session[d].confirm
<1>1. /\ c.at \in Ats(store) /\ confirmed' = [confirmed EXCEPT ![d] = c.hash]
      /\ ReadBack(d, i, s) /\ UNCHANGED <<live, dirty, store, course, mine, hidden>>
  BY DEF ConfirmHolds, HeldBack, hist
<1>2. confirmed \in [Devices -> Hashes]
  BY DEF CarryInv, SyncInv, TypeOK
<1>3. c.hash[1] \subseteq Stored
  <2>1. PICK r \in store : r.at = c.at
    BY <1>1 DEF Ats
  <2>2. r.data.kept = c.hash[1]
    BY <2>1, Start DEF SessionShape
  <2> QED BY <2>2 DEF Stored
<1>4. confirmed'[d][1] \subseteq Stored /\ \A o \in Devices : o # d => confirmed'[o] = confirmed[o] /\ dirty'[o] = dirty[o]
  BY <1>1, <1>2, <1>3
<1>5. s.timer = session[d].timer /\ s.queued = session[d].queued /\ s.started = session[d].started
  BY Start DEF Sessions
<1> HIDE DEF s
<1>6. \A e \in mine[d] \ Stored : d \notin hidden /\ AutoSync(d) => Cover(s, job[d], dirty'[d], e)
  <2> SUFFICES ASSUME NEW e \in mine[d] \ Stored, d \notin hidden, AutoSync(d)
               PROVE  Cover(s, job[d], dirty'[d], e)
    OBVIOUS
  <2>1. Cover(session[d], job[d], dirty[d], e) /\ dirty'[d] = dirty[d] /\ e \notin c.hash[1]
    BY <1>1, <1>3, Start
  <2> QED BY <1>5, <2>1, Zenon DEF Cover
<1>7. course'.manual = course.manual /\ course'.left["cold"] = 0
  BY <1>1, Start
<1> QED BY <1>1, <1>4, <1>6, <1>7, ReadBackOK DEF s

LEMMA CarryFails ==
    ASSUME CarryInv, SyncInv', NEW d \in Devices, NEW i \in Slots, ConfirmFails(d, i) PROVE CarryInv'
<1> DEFINE s == [session[d] EXCEPT !.confirm = NoConfirm]
           c == session[d].confirm
<1>1. /\ ReadBack(d, i, s) /\ UNCHANGED <<live, confirmed, store, mine, hidden>>
      /\ dirty' = [dirty EXCEPT ![d] = TRUE] /\ (Spend("miss") \/ UNCHANGED course)
  BY DEF ConfirmFails, hist
<1>4. /\ confirmed'[d][1] \subseteq Stored /\ dirty'[d] = TRUE
      /\ \A o \in Devices : o # d => confirmed'[o] = confirmed[o] /\ dirty'[o] = dirty[o]
  BY <1>1, Start
<1>5. s.timer = session[d].timer /\ s.queued = session[d].queued /\ s.started = session[d].started
  BY Start DEF Sessions
<1> HIDE DEF s
<1>6. \A e \in mine[d] \ Stored : d \notin hidden /\ AutoSync(d) => Cover(s, job[d], dirty'[d], e)
  <2> SUFFICES ASSUME NEW e \in mine[d] \ Stored, d \notin hidden, AutoSync(d)
               PROVE  Cover(s, job[d], TRUE, e)
    BY <1>4
  <2>1. Cover(session[d], job[d], dirty[d], e)
    BY Start
  <2>2. CASE \A n \in Slots : job[d][n].at # "exported"
    BY <2>2 DEF Cover
  <2>3. CASE \E n \in Slots : job[d][n].at = "exported"
    <3>1. \A n \in Slots : JobShape(session[d], job[d][n], d \in hidden)
      BY Start
    <3>2. e \in c.hash[1] => \E n \in Slots : job[d][n].at = "exported" /\ e \in job[d][n].base.kept
      BY <2>3, <3>1 DEF JobShape
    <3> QED BY <1>5, <2>1, <3>2, Zenon DEF Cover
  <2> QED BY <2>2, <2>3
<1>7. course'.manual = course.manual /\ course'.left["cold"] = 0
  BY <1>1, Start, SpentWarm DEF Events
<1> QED BY <1>1, <1>4, <1>6, <1>7, ReadBackOK DEF s

\* an operation that held isSyncing ends, whatever awaits its read-back by then
LEMMA EndShape ==
    ASSUME CarryInv, NEW d \in Devices, NEW i \in Slots, Active(job[d][i]), NEW t,
           NEW k \in {Idle, Returned(job[d][i])}
    PROVE  /\ k \in Jobs
           /\ OneRuns(t, [job[d] EXCEPT ![i] = k])
           /\ \A n \in Slots : JobShape(t, [job[d] EXCEPT ![i] = k][n], d \in hidden)
<1> DEFINE j == job[d][i]
           h == d \in hidden
           jobs == job[d]
           s == session[d]
<1>1. j \in Jobs /\ j.todo # <<>> /\ j.by # "none" /\ JobShape(s, j, h) /\ jobs \in [Slots -> Jobs]
      /\ OneRuns(s, jobs) /\ \A n \in Slots : JobShape(s, jobs[n], h)
  BY Start DEF Active, Shapes
<1>2. clock \in Nat /\ pushed \in Nat
  BY DEF CarryInv, SyncInv, TypeOK
<1>3. /\ JobShape(t, Returned(j), h) /\ Returned(j).at \in {"idle", "between"} /\ ~Active(Returned(j))
      /\ Head(j.todo) = "pull" /\ Pushes(j) => Returned(j).by = j.by /\ PushAhead(Returned(j))
  <2>1. (j.by = "hide" => h) /\ (j.by = "pull" => ~Pushes(j))
    BY <1>1 DEF JobShape
  <2> HIDE DEF j, h
  <2> QED BY <1>1, <2>1, ReturnedShape
<1>4. JobShape(t, Idle, h) /\ Idle.at = "idle" /\ ~Active(Idle) /\ Idle \in Jobs
  <2>1. Idle \in Jobs
    BY <1>2, NothingTyped
  <2> QED BY <2>1 DEF JobShape, Active, Idle
<1>5. JobShape(t, k, h) /\ k.at \in {"idle", "between"} /\ ~Active(k) /\ k \in Jobs
  BY <1>1, <1>2, <1>3, <1>4, ReturnedTyped
<1>6. Active(jobs[i])
  OBVIOUS
<1> HIDE DEF j, jobs, s, h
<1>7. /\ OneRuns(t, [jobs EXCEPT ![i] = k])
      /\ \A n \in Slots : JobShape(t, [jobs EXCEPT ![i] = k][n], h)
  BY <1>1, <1>5, <1>6, Replaced
<1> QED BY <1>5, <1>7 DEF j, jobs, h

\* the push of a session that starts is still ahead when its pull ends
LEMMA EndAhead ==
    ASSUME CarryInv, NEW d \in Devices, NEW i \in Slots, job[d][i].at \in {"reading", "rereading", "merging"},
           PushAhead(job[d][i])
    PROVE  Returned(job[d][i]).by = job[d][i].by /\ PushAhead(Returned(job[d][i]))
<1> DEFINE j == job[d][i]
           h == d \in hidden
<1>1. j \in Jobs /\ j.todo # <<>> /\ j.by # "none" /\ JobShape(session[d], j, h)
  BY Start
<1>2. Head(j.todo) = "pull" /\ Pushes(j)
  BY <1>1, Todo DEF JobShape, Active, PushAhead, Pushes
<1>3. (j.by = "hide" => h) /\ (j.by = "pull" => ~Pushes(j))
  BY <1>1 DEF JobShape
<1> HIDE DEF j, h
<1>4. Returned(j).by = j.by /\ PushAhead(Returned(j))
  BY <1>1, <1>2, <1>3, ReturnedShape
<1> QED BY <1>4 DEF j

LEMMA EndJob == ASSUME CarryInv, NEW d \in Devices, NEW i \in Slots, Active(job[d][i]),
                       NEW k \in {Idle, Returned(job[d][i])}
                PROVE  k \in Jobs /\ k.at \in {"idle", "between"}
<1>1. job[d][i] \in Jobs /\ job[d][i].todo # <<>> /\ clock \in Nat /\ pushed \in Nat
  BY Start DEF Active, SyncInv, TypeOK
<1>2. Returned(job[d][i]) \in Jobs /\ Idle \in Jobs
  BY <1>1, ReturnedTyped, NothingTyped
<1>3. Returned(job[d][i]).at \in {"idle", "between"} /\ Idle.at \in {"idle", "between"}
  BY DEF Returned, Idle
<1> QED BY <1>2, <1>3

LEMMA CarrySkip ==
    ASSUME CarryInv, SyncInv', NEW d \in Devices, NEW i \in Slots, PushSkip(d, i) PROVE CarryInv'
<1> DEFINE j == job[d][i]
           s == session[d]
           t == Released(d, s)
           k == Returned(j)
<1>1. /\ j.at = "exported" /\ Hash(j.base) \in {confirmed[d], s.confirm.hash}
      /\ session'[d] = t /\ job'[d] = [job[d] EXCEPT ![i] = k] /\ dirty'[d] = DirtyAfter(d)
      /\ \A o \in Devices : o # d => session'[o] = session[o] /\ job'[o] = job[o] /\ dirty'[o] = dirty[o]
      /\ UNCHANGED <<live, confirmed, store, course, mine, hidden>>
  BY Start DEF PushSkip, hist
<1>2. Active(j)
  BY <1>1 DEF Active
<1>3. /\ AutoSync(d) => (t.timer <=> s.timer \/ s.queued)
      /\ t.started = s.started /\ t.confirm = s.confirm /\ t.probed = s.probed
  BY Start, ReleasedFields
<1>4. k \in Jobs /\ OneRuns(t, [job[d] EXCEPT ![i] = k])
      /\ \A n \in Slots : JobShape(t, [job[d] EXCEPT ![i] = k][n], d \in hidden)
  BY <1>2, EndShape
<1> HIDE DEF t, k
<1>5. Shapes(d, session'[d], job'[d], d \in hidden)
  <2>1. SessionShape(d, t)
    BY <1>3, Start DEF SessionShape
  <2> QED BY <1>1, <1>4, <2>1 DEF Shapes
<1>6. ASSUME d \notin hidden, AutoSync(d), NEW e \in mine[d] \ Stored
      PROVE  Cover(session'[d], job'[d], dirty'[d], e)
  <2>1. e \in j.base.kept => t.confirm.at # 0 /\ e \in t.confirm.hash[1]
    <3> SUFFICES ASSUME e \in j.base.kept PROVE t.confirm.at # 0 /\ e \in t.confirm.hash[1]
      OBVIOUS
    <3>1. Hash(j.base)[1] = j.base.kept /\ Hash(j.base)[3] = TRUE /\ NoHash[3] = FALSE
      BY DEF Hash, NoHash
    <3>2. Hash(j.base) # confirmed[d]
      BY <3>1, Start
    <3>3. Hash(j.base) = s.confirm.hash
      BY <1>1, <3>2
    <3>4. s.confirm.at = 0 => s.confirm.hash = NoHash
      BY Start DEF SessionShape
    <3> QED BY <1>3, <3>1, <3>3, <3>4
  <2>2. dirty'[d] <=> (s.timer \/ s.queued) /\ (dirty[d] \/ s.queued)
    BY <1>1 DEF DirtyAfter, ScheduledSince
  <2>3. Cover(s, job[d], dirty[d], e) /\ OneRuns(s, job[d]) /\ job[d] \in [Slots -> Jobs] /\ s \in Sessions
        /\ dirty[d] \in BOOLEAN
    BY <1>6, Start
  <2>4. Cover(t, [job[d] EXCEPT ![i] = k], dirty'[d], e)
    BY <1>1, <1>3, <1>4, <1>6, <2>1, <2>2, <2>3, PushEnds
  <2> QED BY <1>1, <2>4
<1>7. course'.manual = course.manual /\ course'.left["cold"] = 0 /\ confirmed'[d][1] \subseteq Stored
  BY <1>1, Start
<1> QED BY <1>1, <1>5, <1>6, <1>7, QuietOK

LEMMA CarryPushFail ==
    ASSUME CarryInv, SyncInv', NEW d \in Devices, NEW i \in Slots, PushFail(d, i) PROVE CarryInv'
<1> DEFINE j == job[d][i]
           s == session[d]
           r == Released(d, s)
           again == j.by \in {"timer", "start", "sync"}
           t == IF again THEN Scheduled(d, r) ELSE r
           k == Returned(j)
<1>1. /\ j.at = "exported" /\ Spend("fail")
      /\ session'[d] = t /\ job'[d] = [job[d] EXCEPT ![i] = k] /\ (again => dirty'[d] = TRUE)
      /\ \A o \in Devices : o # d => session'[o] = session[o] /\ job'[o] = job[o] /\ dirty'[o] = dirty[o]
      /\ UNCHANGED <<live, confirmed, store, mine, hidden>>
  BY Start DEF PushFail, hist
<1>2. Active(j)
  BY <1>1 DEF Active
<1>3. r \in Sessions /\ r.started = s.started /\ r.confirm = s.confirm /\ r.probed = s.probed
  BY Start, ReleasedFields, SessionTyped DEF SyncInv, TypeOK
<1>4. k \in Jobs /\ OneRuns(t, [job[d] EXCEPT ![i] = k])
      /\ \A n \in Slots : JobShape(t, [job[d] EXCEPT ![i] = k][n], d \in hidden)
  BY <1>2, EndShape
<1> HIDE DEF k, r
<1>5. t.confirm = s.confirm /\ t.probed = s.probed /\ (again /\ AutoSync(d) => t.timer = TRUE)
  BY <1>3 DEF Scheduled, Sessions
<1>6. d \notin hidden => again
  <2>1. JobShape(s, j, d \in hidden) /\ j \in Jobs /\ j.todo # <<>>
    BY <1>1, Start
  <2>2. Head(j.todo) = "push"
    BY <1>2, <1>1, <2>1 DEF JobShape
  <2>3. Pushes(j)
    BY <2>1, <2>2, Todo
  <2> QED BY <1>1, <2>1, <2>3 DEF JobShape, Jobs
<1> HIDE DEF t
<1>7. Shapes(d, session'[d], job'[d], d \in hidden)
  <2>1. SessionShape(d, t)
    BY <1>5, Start DEF SessionShape
  <2> QED BY <1>1, <1>4, <2>1 DEF Shapes
<1>8. ASSUME d \notin hidden, AutoSync(d), NEW e \in mine[d] \ Stored
      PROVE  Cover(session'[d], job'[d], dirty'[d], e)
  <2>1. session'[d].timer = TRUE /\ dirty'[d] = TRUE
    BY <1>1, <1>5, <1>6, <1>8
  <2> QED BY <2>1 DEF Cover
<1>9. course'.manual = course.manual /\ course'.left["cold"] = 0 /\ confirmed'[d][1] \subseteq Stored
  BY <1>1, Start, SpentWarm DEF Events
<1> QED BY <1>1, <1>7, <1>8, <1>9, QuietOK

LEMMA CarryPublish ==
    ASSUME CarryInv, SyncInv', NEW d \in Devices, NEW i \in Slots, NEW stays \in BOOLEAN, PushPublish(d, i, stays)
    PROVE  CarryInv'
<1> DEFINE j == job[d][i]
           s == session[d]
           n == pushed + 1
           c == [at |-> n, hash |-> Hash(j.base)]
           u == [s EXCEPT !.own = @ \cup {n}, !.confirm = c]
           t == Released(d, u)
           k == Returned(j)
           row == [at |-> n, data |-> j.base]
<1>1. /\ j.at = "exported" /\ (Spend("lost") \/ UNCHANGED course)
      /\ session'[d] = t /\ job'[d] = [job[d] EXCEPT ![i] = k] /\ dirty'[d] = DirtyAfter(d)
      /\ \A o \in Devices : o # d => session'[o] = session[o] /\ job'[o] = job[o] /\ dirty'[o] = dirty[o]
      /\ UNCHANGED <<live, confirmed, mine, hidden>>
      /\ store' \in {store, store \cup {row}}
  BY Start DEF PushPublish
<1>2. Active(j)
  BY <1>1 DEF Active
<1>3. s \in Sessions /\ pushed \in Nat /\ clock \in Nat /\ j \in Jobs /\ n # 0 /\ SyncInv /\ store \in SUBSET Rows
  BY Start DEF SyncInv, TypeOK
<1>4. /\ u.timer = s.timer /\ u.queued = s.queued /\ u.started = s.started /\ u.confirm = c /\ u.probed = s.probed
  BY <1>3 DEF Sessions
<1>5. /\ AutoSync(d) => (t.timer <=> s.timer \/ s.queued)
      /\ t.started = s.started /\ t.confirm = c /\ t.probed = s.probed
  <2> DEFINE r == [u EXCEPT !.syncing = FALSE, !.queued = FALSE]
  <2>1. /\ r.timer = s.timer /\ r.started = s.started /\ r.confirm = c /\ r.probed = s.probed
        /\ [r EXCEPT !.timer = TRUE].timer = TRUE /\ [r EXCEPT !.timer = TRUE].started = s.started
        /\ [r EXCEPT !.timer = TRUE].confirm = c /\ [r EXCEPT !.timer = TRUE].probed = s.probed
    <3> HIDE DEF c
    <3> QED BY <1>3 DEF Sessions
  <2>2. t = IF u.queued THEN Scheduled(d, r) ELSE r
    BY DEF Released
  <2>3. Scheduled(d, r) = IF AutoSync(d) THEN [r EXCEPT !.timer = TRUE] ELSE r
    BY DEF Scheduled
  <2> HIDE DEF t, r, u, c
  <2>4. CASE s.queued /\ AutoSync(d)
    BY <1>4, <2>1, <2>2, <2>3, <2>4
  <2>5. CASE s.queued /\ ~AutoSync(d)
    BY <1>4, <2>1, <2>2, <2>3, <2>5
  <2>6. CASE ~s.queued
    BY <1>4, <2>1, <2>2, <2>6
  <2> QED BY <2>4, <2>5, <2>6
<1>6. k \in Jobs /\ OneRuns(t, [job[d] EXCEPT ![i] = k])
      /\ \A m \in Slots : JobShape(t, [job[d] EXCEPT ![i] = k][m], d \in hidden)
  BY <1>2, EndShape
<1>7. c.at = n /\ c.hash[1] = j.base.kept
  BY DEF Hash
<1>8. j.base.kept \subseteq live[d].kept /\ s.confirm.hash[1] \subseteq j.base.kept
  <2>1. Held(d, j)
    BY <1>3 DEF SyncInv, JobsOK
  <2> QED BY <1>1, <2>1, Start DEF Held, JobShape
<1> HIDE DEF t, k, u, c
<1>9. SessionShape(d, session[d])'
  <2>1. \A r \in store' : r.at = n => r = row
    BY <1>1, <1>3 DEF Rows
  <2>2. \A r \in store' : r.at = session'[d].confirm.at => r.data.kept = session'[d].confirm.hash[1]
    BY <1>1, <1>5, <1>7, <2>1
  <2>3. session'[d].probed /\ session'[d].confirm.at # 0 /\ session'[d].confirm.hash[1] \subseteq live'[d].kept
    BY <1>1, <1>3, <1>5, <1>7, <1>8, Start
  <2> QED BY <2>2, <2>3 DEF SessionShape
<1>10. Shapes(d, session[d], job[d], d \in hidden)'
  <2>1. OneRuns(session[d], job[d])'
    BY <1>1, <1>6 DEF OneRuns
  <2>2. \A m \in Slots : JobShape(session[d], job[d][m], d \in hidden)'
    BY <1>1, <1>6 DEF JobShape
  <2> QED BY <1>9, <2>1, <2>2 DEF Shapes
<1>11. Stored \subseteq Stored'
  BY <1>1 DEF Stored
<1>12. course'.manual = course.manual /\ course'.left["cold"] = 0
  BY <1>1, Start, SpentWarm DEF Events
<1>13. Carried(d)'
  <2> SUFFICES ASSUME d \notin hidden' \cup course'.manual, NEW e \in mine'[d] \ Stored'
               PROVE  Cover(session'[d], job'[d], dirty'[d], e)
    BY DEF Carried
  <2>1. e \in mine[d] \ Stored /\ d \notin hidden /\ AutoSync(d)
    BY <1>1, <1>11, <1>12 DEF AutoSync
  <2>2. Cover(s, job[d], dirty[d], e) /\ OneRuns(s, job[d]) /\ job[d] \in [Slots -> Jobs]
    BY <2>1, Start
  <2>3. dirty'[d] <=> (s.timer \/ s.queued) /\ (dirty[d] \/ s.queued)
    BY <1>1 DEF DirtyAfter, ScheduledSince
  <2>4. /\ e \in j.base.kept => t.confirm.at # 0 /\ e \in t.confirm.hash[1]
        /\ e \in s.confirm.hash[1] => t.confirm.at # 0 /\ e \in t.confirm.hash[1]
    BY <1>3, <1>5, <1>7, <1>8
  <2>5. Cover(t, [job[d] EXCEPT ![i] = k], dirty'[d], e)
    BY <1>1, <1>3, <1>5, <1>6, <2>1, <2>2, <2>3, <2>4, PushEnds
  <2> QED BY <1>1, <2>5
<1>14. DeviceOK(d)'
  BY <1>1, <1>10, <1>11, <1>13, Start DEF DeviceOK
<1>15. ASSUME NEW o \in Devices, o # d PROVE DeviceOK(o)'
  BY <1>1, <1>12, <1>15, OthersOK DEF CarryInv
<1> QED BY <1>12, <1>14, <1>15 DEF CarryInv

\* a pull ends
LEMMA PullOver ==
    ASSUME CarryInv, NEW d \in Devices, NEW i \in Slots, job[d][i].at \in {"reading", "rereading", "merging"},
           AutoSync(d) => (session'[d].timer <=> session[d].timer \/ session[d].queued),
           session'[d].started => session[d].started,
           session'[d].confirm = session[d].confirm, session'[d].probed = session[d].probed,
           NEW k \in {Idle, Returned(job[d][i])},
           k = Returned(job[d][i]) \/ ~session'[d].started \/ job[d][i].by # "start",
           job'[d] = [job[d] EXCEPT ![i] = k],
           dirty'[d] <=> dirty[d] \/ session[d].queued, live[d].kept \subseteq live'[d].kept, UNCHANGED store
    PROVE  /\ OneRuns(session'[d], job'[d])
           /\ SessionShape(d, session'[d]) /\ SessionShape(d, session[d])'
           /\ \A n \in Slots : JobShape(session'[d], job'[d][n], d \in hidden)
           /\ \A e \in mine[d] \ Stored : d \notin hidden /\ AutoSync(d) => Cover(session'[d], job'[d], dirty'[d], e)
<1> DEFINE j == job[d][i]
           s == session[d]
           t == session'[d]
<1>1. Active(job[d][i]) /\ j.at # "exported"
  BY DEF Active
<1>2. /\ k \in Jobs /\ k.at \in {"idle", "between"} /\ OneRuns(session'[d], [job[d] EXCEPT ![i] = k])
      /\ \A n \in Slots : JobShape(session'[d], [job[d] EXCEPT ![i] = k][n], d \in hidden)
      /\ k = Returned(j) /\ j.by = "start" /\ PushAhead(j) => k.by = "start" /\ PushAhead(k)
  <2>1. k \in Jobs /\ k.at \in {"idle", "between"}
    BY <1>1, EndJob
  <2>2. OneRuns(session'[d], [job[d] EXCEPT ![i] = k])
    BY <1>1, EndShape
  <2>3. \A n \in Slots : JobShape(session'[d], [job[d] EXCEPT ![i] = k][n], d \in hidden)
    BY <1>1, EndShape
  <2>4. k = Returned(j) /\ j.by = "start" /\ PushAhead(j) => k.by = "start" /\ PushAhead(k)
    BY EndAhead
  <2> QED BY <2>1, <2>2, <2>3, <2>4
<1>3. SessionShape(d, session'[d]) /\ SessionShape(d, session[d])'
  BY Start DEF SessionShape
<1>4. ASSUME NEW e \in mine[d] \ Stored, d \notin hidden, AutoSync(d) PROVE Cover(session'[d], job'[d], dirty'[d], e)
  <2>1. Cover(s, job[d], dirty[d], e) /\ job[d] \in [Slots -> Jobs] /\ s \in Sessions
    BY <1>4, Start
  <2>2. ~t.started \/ (j.by = "start" /\ PushAhead(j) => k.by = "start" /\ PushAhead(k))
    BY <1>2
  <2>3. Cover(t, [job[d] EXCEPT ![i] = k], dirty'[d], e)
    BY <1>1, <1>2, <1>4, <2>1, <2>2, PullEnds
  <2> QED BY <2>3
<1> QED BY <1>2, <1>3, <1>4

LEMMA CarryPullFail ==
    ASSUME CarryInv, SyncInv', NEW d \in Devices, NEW i \in Slots, PullFail(d, i) PROVE CarryInv'
<1> DEFINE j == job[d][i]
           s == session[d]
           r == Released(d, s)
           t == [r EXCEPT !.started = @ /\ j.by # "start"]
           k == IF Len(j.todo) = 2 THEN Idle ELSE Returned(j)
<1>1. /\ j.at = "merging" /\ Spend("broken")
      /\ session'[d] = t /\ job'[d] = [job[d] EXCEPT ![i] = k] /\ dirty'[d] = (dirty[d] \/ s.queued)
      /\ \A o \in Devices : o # d => session'[o] = session[o] /\ job'[o] = job[o] /\ dirty'[o] = dirty[o]
      /\ UNCHANGED <<live, confirmed, store, mine, hidden>>
  BY Start DEF PullFail, hist
<1>2. r \in Sessions /\ r.started = s.started /\ r.confirm = s.confirm /\ r.probed = s.probed
      /\ (AutoSync(d) => (r.timer <=> s.timer \/ s.queued))
  BY Start, ReleasedFields, SessionTyped DEF SyncInv, TypeOK
<1>3. t.confirm = r.confirm /\ t.probed = r.probed /\ t.timer = r.timer /\ t.started = (r.started /\ j.by # "start")
  <2> HIDE DEF r
  <2> QED BY <1>2 DEF Sessions
<1>4. k \in {Idle, Returned(j)}
  OBVIOUS
<1> HIDE DEF t, k, r
<1>5. /\ OneRuns(session'[d], job'[d]) /\ SessionShape(d, session'[d])
      /\ \A n \in Slots : JobShape(session'[d], job'[d][n], d \in hidden)
      /\ \A e \in mine[d] \ Stored : d \notin hidden /\ AutoSync(d) => Cover(session'[d], job'[d], dirty'[d], e)
  <2>1. /\ AutoSync(d) => (session'[d].timer <=> s.timer \/ s.queued)
        /\ session'[d].started => s.started
        /\ ~session'[d].started \/ j.by # "start"
        /\ session'[d].confirm = s.confirm /\ session'[d].probed = s.probed
    BY <1>1, <1>2, <1>3
  <2>3. live[d].kept \subseteq live'[d].kept
    BY <1>1
  <2>2. dirty'[d] <=> dirty[d] \/ s.queued
    BY <1>1
  <2>4. k = Returned(job[d][i]) \/ ~session'[d].started \/ job[d][i].by # "start"
    BY <2>1
  <2>5. job'[d] = [job[d] EXCEPT ![i] = k] /\ UNCHANGED store /\ job[d][i].at \in {"reading", "rereading", "merging"}
        /\ k \in {Idle, Returned(job[d][i])}
    BY <1>1, <1>4
  <2> HIDE DEF j, s
  <2> QED BY <2>1, <2>2, <2>3, <2>4, <2>5, PullOver DEF s
<1>6. Shapes(d, session'[d], job'[d], d \in hidden)
  BY <1>1, <1>5 DEF Shapes
<1>7. course'.manual = course.manual /\ course'.left["cold"] = 0 /\ confirmed'[d][1] \subseteq Stored
  BY <1>1, Start, SpentWarm DEF Events
<1> QED BY <1>1, <1>5, <1>6, <1>7, QuietOK

LEMMA CarryImport ==
    ASSUME CarryInv, SyncInv', NEW d \in Devices, NEW i \in Slots, PullImport(d, i) PROVE CarryInv'
<1> DEFINE j == job[d][i]
           s == session[d]
           t == Released(d, s)
           k == Returned(j)
<1>1. /\ j.at = "merging" /\ UNCHANGED <<confirmed, store, course, mine, hidden>>
      /\ session'[d] = t /\ job'[d] = [job[d] EXCEPT ![i] = k] /\ dirty'[d] = (dirty[d] \/ s.queued)
      /\ \A o \in Devices : o # d => session'[o] = session[o] /\ job'[o] = job[o] /\ dirty'[o] = dirty[o] /\ live'[o] = live[o]
  <2>1. live \in [Devices -> States]
    BY DEF CarryInv, SyncInv, TypeOK
  <2> QED BY <2>1, Start DEF PullImport, hist
<1>2. t.started = s.started /\ t.confirm = s.confirm /\ t.probed = s.probed
      /\ (AutoSync(d) => (t.timer <=> s.timer \/ s.queued))
  BY Start, ReleasedFields
<1>3. live[d].kept \subseteq live'[d].kept
  BY Start, StepImport
<1>4. k \in {Idle, Returned(j)} /\ k = Returned(j)
  OBVIOUS
<1> HIDE DEF t, k
<1>5. /\ OneRuns(session'[d], job'[d]) /\ SessionShape(d, session[d])'
      /\ \A n \in Slots : JobShape(session'[d], job'[d][n], d \in hidden)
      /\ \A e \in mine[d] \ Stored : d \notin hidden /\ AutoSync(d) => Cover(session'[d], job'[d], dirty'[d], e)
  <2>1. dirty'[d] <=> dirty[d] \/ s.queued
    BY <1>1
  <2> QED BY <1>1, <1>2, <1>3, <1>4, <2>1, PullOver
<1>6. Shapes(d, session[d], job[d], d \in hidden)'
  <2>1. OneRuns(session[d], job[d])' /\ \A m \in Slots : JobShape(session[d], job[d][m], d \in hidden)'
    BY <1>1, <1>5 DEF OneRuns, JobShape
  <2> QED BY <1>5, <2>1 DEF Shapes
<1>7. course'.manual = course.manual /\ course'.left["cold"] = 0 /\ Stored' = Stored
  BY <1>1, Start DEF Stored
<1>8. Carried(d)'
  <2> SUFFICES ASSUME d \notin hidden' \cup course'.manual, NEW e \in mine'[d] \ Stored'
               PROVE  Cover(session'[d], job'[d], dirty'[d], e)
    BY DEF Carried
  <2> QED BY <1>1, <1>5, <1>7 DEF AutoSync
<1>9. DeviceOK(d)'
  BY <1>1, <1>3, <1>6, <1>7, <1>8, Start DEF DeviceOK
<1>10. ASSUME NEW o \in Devices, o # d PROVE DeviceOK(o)'
  BY <1>1, <1>7, <1>10, OthersOK DEF CarryInv
<1> QED BY <1>7, <1>9, <1>10 DEF CarryInv

\* a read goes on: what it read is merged, or read once more
LEMMA ReadsOn ==
    ASSUME CarryInv, NEW d \in Devices, NEW i \in Slots, job[d][i].at \in {"reading", "rereading"},
           NEW k \in Jobs, k.at \in {"rereading", "merging"}, k.todo = job[d][i].todo, k.by = job[d][i].by,
           session'[d].timer = session[d].timer, session'[d].queued = session[d].queued,
           session'[d].started = session[d].started, session'[d].syncing = session[d].syncing,
           session'[d].confirm = session[d].confirm, session'[d].probed = session[d].probed,
           job'[d] = [job[d] EXCEPT ![i] = k], dirty'[d] = dirty[d]
    PROVE  /\ Shapes(d, session'[d], job'[d], d \in hidden)
           /\ \A e \in mine[d] \ Stored : d \notin hidden /\ AutoSync(d) => Cover(session'[d], job'[d], dirty'[d], e)
<1> DEFINE j == job[d][i]
<1>1. job'[d][i] = k /\ \A n \in Slots : n # i => job'[d][n] = job[d][n]
  BY Start
<1>2. \A n \in Slots : Active(job'[d][n]) <=> Active(job[d][n])
  BY <1>1 DEF Active
<1>3. OneRuns(session'[d], job'[d])
  <2>1. OneRuns(session[d], job[d])
    BY Start
  <2> QED BY <1>2, <2>1 DEF OneRuns
<1>4. \A n \in Slots : JobShape(session'[d], job'[d][n], d \in hidden)
  <2>1. \A n \in Slots : JobShape(session[d], job[d][n], d \in hidden)
    BY Start
  <2>2. ASSUME NEW n \in Slots, n # i PROVE JobShape(session'[d], job'[d][n], d \in hidden)
    BY <1>1, <2>1, <2>2 DEF JobShape
  <2>3. JobShape(session'[d], k, d \in hidden)
    <3>1. JobShape(session[d], j, d \in hidden)
      BY <2>1
    <3> QED BY <3>1 DEF JobShape, Active, Pushes
  <2> QED BY <1>1, <2>2, <2>3
<1>5. SessionShape(d, session'[d])
  BY Start DEF SessionShape
<1>6. ASSUME NEW e \in mine[d] \ Stored, d \notin hidden, AutoSync(d) PROVE Cover(session'[d], job'[d], dirty'[d], e)
  <2>1. Cover(session[d], job[d], dirty[d], e)
    BY <1>6, Start
  <2>2. \A n \in Slots : job'[d][n].at = "exported" <=> job[d][n].at = "exported"
    BY <1>1
  <2>3. \A n \in Slots : job[d][n].at = "exported" => job'[d][n] = job[d][n]
    BY <1>1
  <2>4. \A n \in Slots : job[d][n].by = "start" /\ PushAhead(job[d][n])
                           => job'[d][n].by = "start" /\ PushAhead(job'[d][n])
    BY <1>1 DEF PushAhead
  <2> QED BY <2>1, <2>2, <2>3, <2>4, Zenon DEF Cover
<1> QED BY <1>3, <1>4, <1>5, <1>6 DEF Shapes

LEMMA CarryRead ==
    ASSUME CarryInv, SyncInv', NEW d \in Devices, NEW i \in Slots, PullRead(d, i) PROVE CarryInv'
<1> DEFINE j == job[d][i]
           s(read) == [session[d] EXCEPT !.seen = Latest({@} \cup Ats(read.rows))]
<1>1. j.at \in {"reading", "rereading"} /\ UNCHANGED <<live, confirmed, store, mine, hidden>>
  BY DEF PullRead, hist
<1>2. PICK read \in Reads :
        /\ IF read.fault = "none" THEN UNCHANGED course ELSE Spend(read.fault)
        /\ \/ /\ \E rows : job' = [job EXCEPT ![d][i].at = "merging", ![d][i].base = live[d], ![d][i].rows = rows]
              /\ session' = [session EXCEPT ![d] = s(read)]
              /\ UNCHANGED dirty
           \/ /\ job' = [job EXCEPT ![d][i].at = "rereading"]
              /\ session' = [session EXCEPT ![d] = s(read)]
              /\ UNCHANGED dirty
           \/ /\ job' = [job EXCEPT ![d][i] = Returned(@)]
              /\ session' = [session EXCEPT ![d] = Released(d, s(read))]
              /\ dirty' = [dirty EXCEPT ![d] = @ \/ session[d].queued]
  BY DEF PullRead
<1>3. course'.manual = course.manual /\ course'.left["cold"] = 0 /\ confirmed'[d][1] \subseteq Stored
  BY <1>1, <1>2, Start, SpentWarm, ReadsStored
<1> DEFINE t == s(read)
<1>4. /\ t.timer = session[d].timer /\ t.queued = session[d].queued /\ t.started = session[d].started
      /\ t.syncing = session[d].syncing /\ t.confirm = session[d].confirm /\ t.probed = session[d].probed
      /\ t = [session[d] EXCEPT !.seen = t.seen]
  BY Start DEF Sessions
<1> HIDE DEF s
<1>5. \A o \in Devices : o # d => /\ session'[o] = session[o] /\ job'[o] = job[o]
                                   /\ dirty'[o] = dirty[o] /\ confirmed'[o] = confirmed[o]
  BY <1>1, <1>2, Start
<1>6. job' \in [Devices -> [Slots -> Jobs']]
  BY DEF SyncInv, TypeOK
<1>7. /\ Shapes(d, session'[d], job'[d], d \in hidden)
      /\ \A e \in mine[d] \ Stored : d \notin hidden /\ AutoSync(d) => Cover(session'[d], job'[d], dirty'[d], e)
  <2>1. CASE /\ \/ \E rows : job' = [job EXCEPT ![d][i].at = "merging", ![d][i].base = live[d], ![d][i].rows = rows]
                \/ job' = [job EXCEPT ![d][i].at = "rereading"]
             /\ session' = [session EXCEPT ![d] = t] /\ UNCHANGED dirty
    <3>1. PICK rows : \/ job' = [job EXCEPT ![d][i].at = "merging", ![d][i].base = live[d], ![d][i].rows = rows]
                      \/ job' = [job EXCEPT ![d][i].at = "rereading"]
      BY <2>1
    <3> DEFINE merging == [j EXCEPT !.at = "merging", !.base = live[d], !.rows = rows]
               again == [j EXCEPT !.at = "rereading"]
    <3>2. /\ merging.at = "merging" /\ again.at = "rereading"
          /\ merging.todo = j.todo /\ again.todo = j.todo /\ merging.by = j.by /\ again.by = j.by
      BY Start DEF Jobs
    <3>3. \/ job'[d] = [job[d] EXCEPT ![i] = merging]
          \/ job'[d] = [job[d] EXCEPT ![i] = again]
      <4>1. /\ [job EXCEPT ![d][i].at = "merging", ![d][i].base = live[d], ![d][i].rows = rows]
                  = [job EXCEPT ![d][i] = merging]
            /\ [job EXCEPT ![d][i].at = "rereading"] = [job EXCEPT ![d][i] = again]
        BY Start
      <4> HIDE DEF merging, again
      <4> QED BY <3>1, <4>1, Start
    <3> HIDE DEF merging, again
    <3>4. PICK k \in {merging, again} : job'[d] = [job[d] EXCEPT ![i] = k]
      BY <3>3
    <3>5. k \in Jobs
      <4>1. Jobs' = Jobs
        <5>1. States' = States /\ Rows' = Rows
          <6>1. clock' = clock /\ pushed' = pushed
            BY DEF PullRead
          <6> QED BY <6>1 DEF States, Rows
        <5> QED BY <5>1 DEF Jobs
      <4>2. k = job'[d][i]
        BY <3>4, Start
      <4> QED BY <1>6, <4>1, <4>2
    <3>6. session'[d] = t /\ dirty'[d] = dirty[d]
      BY <2>1, Start
    <3>7. k.at \in {"rereading", "merging"} /\ k.todo = job[d][i].todo /\ k.by = job[d][i].by
      BY <3>2, <3>4
    <3> QED BY <1>1, <1>4, <3>4, <3>5, <3>6, <3>7, ReadsOn
  <2>2. CASE /\ job' = [job EXCEPT ![d][i] = Returned(@)]
             /\ session' = [session EXCEPT ![d] = Released(d, t)]
             /\ dirty' = [dirty EXCEPT ![d] = @ \/ session[d].queued]
    <3>1. t \in Sessions
      <4>1. session' \in [Devices -> Sessions'] /\ Sessions' = Sessions
        <5>1. clock' = clock /\ pushed' = pushed
          BY DEF PullRead
        <5>2. Hashes' = Hashes
          BY <5>1 DEF Hashes
        <5> QED BY <5>1, <5>2 DEF SyncInv, TypeOK, Sessions
      <4>2. t.seen = Released(d, t).seen
        <5>1. t = [session[d] EXCEPT !.seen = t.seen]
          BY <1>4
        <5> HIDE DEF t
        <5> QED BY <5>1, Start DEF Released, Scheduled, Sessions
      <4>3. Released(d, t) \in Sessions
        BY <2>2, <4>1, Start
      <4>4. t.seen \in 0..pushed
        BY <4>2, <4>3 DEF Sessions
      <4> QED BY <1>4, <4>4, Start DEF Sessions
    <3> DEFINE r == Released(d, t)
               k == Returned(j)
    <3>2. /\ AutoSync(d) => (r.timer <=> session[d].timer \/ session[d].queued)
          /\ r.started = session[d].started /\ r.confirm = session[d].confirm /\ r.probed = session[d].probed
      BY <1>4, <3>1, ReleasedFields
    <3>3. session'[d] = r /\ job'[d] = [job[d] EXCEPT ![i] = k] /\ (dirty'[d] <=> dirty[d] \/ session[d].queued)
      BY <2>2, Start
    <3>4. k \in {Idle, Returned(job[d][i])} /\ k = Returned(job[d][i]) /\ j.at \in {"reading", "rereading", "merging"}
          /\ live[d].kept \subseteq live'[d].kept /\ UNCHANGED store
      BY <1>1
    <3> HIDE DEF r, k
    <3>5. /\ OneRuns(session'[d], job'[d]) /\ SessionShape(d, session'[d])
          /\ \A n \in Slots : JobShape(session'[d], job'[d][n], d \in hidden)
          /\ \A e \in mine[d] \ Stored : d \notin hidden /\ AutoSync(d) => Cover(session'[d], job'[d], dirty'[d], e)
      BY <3>2, <3>3, <3>4, PullOver
    <3> QED BY <3>5 DEF Shapes
  <2> QED BY <1>2, <2>1, <2>2
<1> QED BY <1>1, <1>3, <1>5, <1>7, QuietOK

LEMMA FreshShape ==
    ASSUME SyncInv, NEW d \in Devices, NEW h
    PROVE  Shapes(d, NewSession(TRUE), [i \in Slots |-> Idle], h)
<1>1. /\ NewSession(TRUE).probed = TRUE /\ NewSession(TRUE).confirm = NoConfirm
      /\ NoConfirm.at = 0 /\ NoConfirm.hash = NoHash /\ NoConfirm.hash[1] = {}
  BY DEF NewSession, NoConfirm, NoHash
<1>2. \A r \in store : r.at # 0
  BY DEF SyncInv, TypeOK, Rows
<1>3. Idle.at = "idle" /\ Idle.by = "none"
  BY DEF Idle
<1> QED BY <1>1, <1>2, <1>3 DEF Shapes, SessionShape, OneRuns, JobShape, Active

LEMMA CarryRestart ==
    ASSUME CarryInv, SyncInv', NEW d \in Devices, Restart(d) PROVE CarryInv'
<1>1. SyncInv /\ course \in CourseStates /\ course.left["cold"] = 0 /\ DeviceOK(d) /\ session \in [Devices -> Sessions]
      /\ job \in [Devices -> [Slots -> Jobs]]
  BY DEF CarryInv, SyncInv, TypeOK
<1>2. Spend("crash") /\ session' = [session EXCEPT ![d] = NewSession(TRUE)]
  BY <1>1 DEF Restart, May
<1>3. job' = [job EXCEPT ![d] = [i \in Slots |-> Idle]] /\ UNCHANGED <<live, dirty, confirmed, store, mine, hidden>>
  BY DEF Restart, hist
<1>4. course'.manual = course.manual /\ course'.left["cold"] = 0
  BY <1>1, <1>2, SpentWarm DEF Events
<1>5. session'[d] = NewSession(TRUE) /\ job'[d] = [i \in Slots |-> Idle]
      /\ \A o \in Devices : o # d => session'[o] = session[o] /\ job'[o] = job[o]
  BY <1>1, <1>2, <1>3
<1>6. Shapes(d, session'[d], job'[d], d \in hidden)
  <2>1. Shapes(d, NewSession(TRUE), [i \in Slots |-> Idle], d \in hidden)
    BY <1>1, FreshShape
  <2> QED BY <1>5, <2>1
<1>7. ASSUME d \notin hidden, AutoSync(d), NEW e \in mine[d] \ Stored PROVE Cover(session'[d], job'[d], dirty'[d], e)
  <2>1. NewSession(TRUE).started = FALSE
    BY DEF NewSession
  <2> QED BY <1>5, <2>1 DEF Cover
<1>8. confirmed'[d][1] \subseteq Stored
  BY <1>1, <1>3 DEF DeviceOK
<1> QED BY <1>3, <1>4, <1>5, <1>6, <1>7, <1>8, QuietOK

LEMMA CarryNext == CarryInv /\ SyncInv' /\ [Next]_vars => CarryInv'
<1> SUFFICES ASSUME CarryInv, SyncInv', [Next]_vars PROVE CarryInv'
  OBVIOUS
<1>1. CASE UNCHANGED vars
  BY <1>1 DEF vars, CarryInv, DeviceOK, Shapes, SessionShape, OneRuns, JobShape, Carried, Stored
<1>2. CASE Next
  <2>1. PICK d \in course.devices : \/ Edit(d) \/ EditSlice(d) \/ Restart(d)
                                    \/ \E i \in course.slots : Step(d, i)
    BY <1>2 DEF Next
  <2>2. d \in Devices /\ course.slots \subseteq Slots
    BY DEF CarryInv, SyncInv, TypeOK, CourseStates
  <2>3. CASE Edit(d) \/ EditSlice(d)
    BY <2>2, <2>3, CarryEdit
  <2>4. CASE Restart(d)
    BY <2>2, <2>4, CarryRestart
  <2>5. CASE \E i \in course.slots : Step(d, i)
    <3>1. PICK i \in Slots : Step(d, i)
      BY <2>2, <2>5
    <3>2. ~InboxFound(d, i) /\ ~InboxMissing(d, i)
      BY <2>2, Start DEF InboxFound, InboxMissing
    <3>3. CASE TimerFires(d, i) \/ SmartSync(d, i) \/ Hide(d, i) \/ Watch(d, i) \/ NextPhase(d, i)
      BY <2>2, <3>3, CarryTimer, CarrySmart, CarryHide, CarryWatch, CarryPhase
    <3>4. CASE PushPublish(d, i, TRUE) \/ PushPublish(d, i, FALSE)
      BY <2>2, <3>4, CarryPublish
    <3>5. CASE PushSkip(d, i) \/ PushFail(d, i) \/ ConfirmHolds(d, i) \/ ConfirmFails(d, i)
      BY <2>2, <3>5, CarrySkip, CarryPushFail, CarryHolds, CarryFails
    <3>6. CASE PullRead(d, i) \/ PullImport(d, i) \/ PullFail(d, i)
      BY <2>2, <3>6, CarryRead, CarryImport, CarryPullFail
    <3> QED BY <3>1, <3>2, <3>3, <3>4, <3>5, <3>6 DEF Step
  <2> QED BY <2>1, <2>3, <2>4, <2>5
<1> QED BY <1>1, <1>2

LEMMA CarryInit == Init /\ Warm => CarryInv
<1> SUFFICES ASSUME Init, Warm PROVE CarryInv
  OBVIOUS
<1>1. SyncInv /\ course.left["cold"] = 0
  BY InitInv DEF Init, Warm
<1>2. ASSUME NEW d \in Devices PROVE DeviceOK(d)
  <2>1. session[d] = NewSession(TRUE)
    <3>1. ~May("cold")
      BY <1>1 DEF May
    <3>2. PICK cold \in {{}} : session = [o \in Devices |-> NewSession(o \notin cold)]
      BY <3>1 DEF Init
    <3> QED BY <3>2
  <2>2. job[d] = [i \in Slots |-> Idle] /\ mine[d] = {} /\ confirmed[d] = NoHash /\ live[d] = Nothing
    BY DEF Init
  <2>3. Shapes(d, session[d], job[d], d \in hidden)
    BY <1>1, <2>1, <2>2, FreshShape
  <2>4. NoHash[1] = {}
    BY DEF NoHash
  <2> QED BY <2>2, <2>3, <2>4 DEF DeviceOK, Carried
<1> QED BY <1>1, <1>2 DEF CarryInv

LEMMA CarryStrands == CarryInv => NothingStranded
<1> SUFFICES ASSUME CarryInv, NEW d \in Devices \ (hidden \cup course.manual),
                    mine[d] \ Stored # {}, ~dirty[d], ~session[d].queued, session[d].confirm.at = 0, session[d].started,
                    ~\E i \in Slots : PushAhead(job[d][i])
             PROVE  PushUnderWay(d, mine[d] \ Stored)
  BY DEF NothingStranded, Stored
<1>1. \A e \in mine[d] \ Stored : \E i \in Slots : job[d][i].at = "exported" /\ e \in job[d][i].base.kept
  <2> SUFFICES ASSUME NEW e \in mine[d] \ Stored
               PROVE  \E i \in Slots : job[d][i].at = "exported" /\ e \in job[d][i].base.kept
    OBVIOUS
  <2>1. Cover(session[d], job[d], dirty[d], e)
    BY DEF CarryInv, DeviceOK, Carried
  <2> QED BY <2>1, Zenon DEF Cover
<1>2. \A i, k \in Slots : job[d][i].at = "exported" /\ job[d][k].at = "exported" => i = k
  BY DEF CarryInv, DeviceOK, Shapes, OneRuns, Active
<1>3. PICK e \in mine[d] \ Stored : TRUE
  OBVIOUS
<1>4. PICK i \in Slots : job[d][i].at = "exported" /\ e \in job[d][i].base.kept
  BY <1>1
<1>5. mine[d] \ Stored \subseteq job[d][i].base.kept
  BY <1>1, <1>2, <1>4
<1> QED BY <1>4, <1>5 DEF PushUnderWay

LEMMA AlwaysCarried == Spec /\ Warm => []CarryInv
<1>1. Init /\ Warm => CarryInv
  BY CarryInit
<1>2. CarryInv /\ [Next]_vars => CarryInv'
  BY CarryNext, NextInv DEF CarryInv
<1> QED BY <1>1, <1>2, PTL DEF Spec

\* While every session connects with the probe of its inbox answered, a device that syncs by itself never
\* strands an entry added on it: whatever fails, gets lost, crashes or runs over something else, the entry is
\* in storage or something will still push it (scheduleAutoPush, pushSync, _confirmPush, smartSync). The
\* hypothesis is needed: with a cold start two pushes can run over each other, and the read-back of one is lost.
THEOREM NothingIsStranded == Spec /\ Warm => []NothingStranded
<1>1. CarryInv => NothingStranded
  BY CarryStrands
<1> QED BY <1>1, AlwaysCarried, PTL

\* Under the same hypothesis isSyncing does what it is for: of all the operations of a device, however many
\* triggers fire, one at a time is past its inbox (pushSync and pullSync set it before their first await).
OneSync == \A d \in Devices, i, k \in Slots : Active(job[d][i]) /\ Active(job[d][k]) => i = k

THEOREM OneSyncAtATime == Spec /\ Warm => []OneSync
<1>1. CarryInv => OneSync
  BY DEF CarryInv, DeviceOK, Shapes, OneRuns, OneSync
<1> QED BY <1>1, AlwaysCarried, PTL

-----------------------------------------------------------------------------
(* The merge of two states: SyncMerge                                       *)

LEMMA LaterNat == ASSUME NEW a \in Nat, NEW b \in Nat PROVE Later(a, b) \in Nat
  BY DEF Later

-----------------------------------------------------------------------------
(* Membership of a channel                                                  *)

\* a channel as the program stores it: a record has a join time (_storedRecord), not before its tombstone
Proper(c) == /\ c \in Channel
             /\ c.on => c.joined # 0 /\ c.left <= c.joined
             /\ ~c.on => c = Absent(c.left)

\* the time of the last action: of the join it is in by, or of the leave
Act(c) == IF c.on THEN c.joined ELSE c.left

SameMembership(c, d) == c.on = d.on /\ Act(c) = Act(d)

\* A record merged from two keeps the join time of the preferred one.
LEMMA RecordTyped ==
    ASSUME NEW p \in Channel, NEW o \in Channel
    PROVE  /\ MergeRecord(p, o) \in Channel
           /\ MergeRecord(p, o).on = p.on
           /\ MergeRecord(p, o).joined = p.joined
  <1> DEFINE val == [f \in Fields |-> IF o.ts[f] > p.ts[f] THEN o.val[f] ELSE p.val[f]]
             ts  == [f \in Fields |-> Later(p.ts[f], o.ts[f])]
  <1>1. val \in [Fields -> Values] /\ ts \in [Fields -> Nat]
    BY LaterNat DEF Channel
  <1>2. MergeRecord(p, o) = p \/ MergeRecord(p, o) = [p EXCEPT !.val = val, !.ts = ts]
    BY DEF MergeRecord
  <1> QED BY <1>1, <1>2 DEF Channel

LEMMA AbsentTyped == ASSUME NEW n \in Nat PROVE Absent(n) \in Channel /\ ~Absent(n).on /\ Absent(n).left = n
  BY SyncMergeAssumption DEF Absent, Channel

\* The membership of a channel is what the last action made it, wherever that action was taken, and a
\* join beats a leave of the same millisecond (mergeChannels, the rule its comment gives).
THEOREM MembershipIsLastAction ==
    ASSUME NEW a, NEW b, Proper(a), Proper(b)
    PROVE  LET m == MergeChannel(a, b)
           IN  /\ Proper(m)
               /\ Act(m) = Later(Act(a), Act(b))
               /\ m.on <=> (a.on /\ a.joined = Act(m)) \/ (b.on /\ b.joined = Act(m))
<1> DEFINE copy == Copy(a, b)
           left == Later(a.left, b.left)
           join == LatestJoin(a, b)
           m    == MergeChannel(a, b)
<1>1. a \in Channel /\ b \in Channel
  BY DEF Proper
<1>2. /\ a.on \in BOOLEAN /\ b.on \in BOOLEAN
      /\ a.joined \in Nat /\ b.joined \in Nat /\ a.left \in Nat /\ b.left \in Nat
      /\ left \in Nat
  BY <1>1, LaterNat DEF Channel
<1>3. /\ a.on => a.joined # 0 /\ a.left <= a.joined
      /\ b.on => b.joined # 0 /\ b.left <= b.joined
  BY DEF Proper
<1>4. join = Later(IF a.on THEN a.joined ELSE 0, IF b.on THEN b.joined ELSE 0)
  BY <1>3 DEF LatestJoin, JoinTs
<1>5. /\ copy \in Channel /\ copy.on = (a.on \/ b.on)
      /\ copy.on => copy.joined = join /\ copy.joined # 0
  <2>0. \A x, y \in Nat : Later(x, 0) = x /\ Later(0, y) = y
    BY DEF Later
  <2>1. CASE ~b.on
    <3>1. copy = a
      BY <2>1 DEF Copy
    <3>2. a.on => join = a.joined
      BY <2>0, <2>1, <1>2, <1>4
    <3> HIDE DEF copy, join
    <3> QED BY <2>1, <3>1, <3>2, <1>1, <1>2, <1>3
  <2>2. CASE b.on /\ ~a.on
    <3>1. copy = b
      BY <2>2 DEF Copy
    <3>2. join = b.joined
      BY <2>0, <2>2, <1>2, <1>4
    <3> HIDE DEF copy, join
    <3> QED BY <2>2, <3>1, <3>2, <1>1, <1>2, <1>3
  <2>3. CASE b.on /\ a.on
    <3>1. Replaces(b, a) <=> b.joined >= a.joined
      BY <2>3, <1>3 DEF Replaces, JoinTs
    <3>2. copy = IF b.joined >= a.joined THEN MergeRecord(b, a) ELSE MergeRecord(a, b)
      BY <2>3, <3>1 DEF Copy
    <3>3. copy \in Channel /\ copy.on
          /\ copy.joined = IF b.joined >= a.joined THEN b.joined ELSE a.joined
      BY <2>3, <3>2, <1>1, RecordTyped
    <3>4. copy.joined = join
      BY <2>3, <3>3, <1>2, <1>4 DEF Later
    <3> HIDE DEF copy, join
    <3> QED BY <2>3, <3>3, <3>4, <1>2, <1>3
  <2> QED BY <2>1, <2>2, <2>3
<1>6. CASE ~copy.on \/ left > join
  <2>1. m = Absent(left)
    BY <1>6 DEF MergeChannel
  <2>2. Proper(m) /\ ~m.on /\ m.left = left
    BY <2>1, <1>2, AbsentTyped DEF Proper
  <2> QED BY <2>2, <1>2, <1>3, <1>4, <1>5, <1>6 DEF Act, Later
<1>7. CASE copy.on /\ ~(left > join)
  <2>1. m = [copy EXCEPT !.left = 0]
    BY <1>7 DEF MergeChannel
  <2>2. m \in Channel /\ m.on /\ m.left = 0 /\ m.joined = join
    BY <2>1, <1>5, <1>7 DEF Channel
  <2>3. Proper(m)
    BY <2>2, <1>5, <1>7 DEF Proper, Channel
  <2> QED BY <2>2, <2>3, <1>2, <1>3, <1>4, <1>5, <1>7 DEF Act, Later
<1> QED BY <1>5, <1>6, <1>7 DEF Channel

\* Devices that fold the same snapshots in any order and grouping agree on membership.
THEOREM MembershipAnyOrder ==
    ASSUME NEW a, NEW b, NEW c, Proper(a), Proper(b), Proper(c)
    PROVE  /\ SameMembership(MergeChannel(a, b), MergeChannel(b, a))
           /\ SameMembership(MergeChannel(MergeChannel(a, b), c), MergeChannel(a, MergeChannel(b, c)))
           /\ SameMembership(MergeChannel(a, a), a)
<1> DEFINE ab == MergeChannel(a, b)
           bc == MergeChannel(b, c)
<1>1. \A x : Proper(x) => x.on \in BOOLEAN /\ Act(x) \in Nat /\ (x.on => x.joined = Act(x))
  BY DEF Proper, Channel, Act
<1>2. \A x, y : Proper(x) /\ Proper(y) =>
        LET m == MergeChannel(x, y)
        IN  /\ Proper(m) /\ m.on \in BOOLEAN
            /\ Act(m) = Later(Act(x), Act(y))
            /\ m.on <=> (x.on /\ Act(x) = Act(m)) \/ (y.on /\ Act(y) = Act(m))
  BY <1>1, MembershipIsLastAction DEF Act
<1>3. SameMembership(ab, MergeChannel(b, a))
  BY <1>1, <1>2 DEF SameMembership, Later
<1>4. SameMembership(MergeChannel(ab, c), MergeChannel(a, bc))
  <2>1. Proper(ab) /\ Proper(bc)
    BY <1>2
  <2>2. /\ Act(ab) = Later(Act(a), Act(b)) /\ Act(bc) = Later(Act(b), Act(c))
        /\ Act(MergeChannel(ab, c)) = Later(Act(ab), Act(c))
        /\ Act(MergeChannel(a, bc)) = Later(Act(a), Act(bc))
    BY <1>2, <2>1
  <2>3. /\ ab.on <=> (a.on /\ Act(a) = Act(ab)) \/ (b.on /\ Act(b) = Act(ab))
        /\ bc.on <=> (b.on /\ Act(b) = Act(bc)) \/ (c.on /\ Act(c) = Act(bc))
    BY <1>2
  <2>4. /\ MergeChannel(ab, c).on <=> (ab.on /\ Act(ab) = Act(MergeChannel(ab, c)))
                                      \/ (c.on /\ Act(c) = Act(MergeChannel(ab, c)))
        /\ MergeChannel(a, bc).on <=> (a.on /\ Act(a) = Act(MergeChannel(a, bc)))
                                      \/ (bc.on /\ Act(bc) = Act(MergeChannel(a, bc)))
        /\ MergeChannel(ab, c).on \in BOOLEAN /\ MergeChannel(a, bc).on \in BOOLEAN
    BY <1>2, <2>1
  <2>5. Act(a) \in Nat /\ Act(b) \in Nat /\ Act(c) \in Nat
    BY <1>1
  <2> HIDE DEF ab, bc
  <2> QED BY <2>2, <2>3, <2>4, <2>5 DEF SameMembership, Later
<1>5. SameMembership(MergeChannel(a, a), a)
  BY <1>1, <1>2 DEF SameMembership, Later
<1> QED BY <1>3, <1>4, <1>5

-----------------------------------------------------------------------------
(* The fields of a channel record                                           *)

\* of one field of two copies, equal stamps mean equal values: no two devices stamped it in one millisecond
NoTies(a, b) == \A f \in Fields : a.ts[f] = b.ts[f] => a.val[f] = b.val[f]

\* the early return for a preferred copy that nothing is taken into changes nothing
LEMMA RecordFields ==
    ASSUME NEW p \in Channel, NEW o \in Channel, NEW f \in Fields
    PROVE  /\ MergeRecord(p, o).ts[f] = Later(p.ts[f], o.ts[f])
           /\ MergeRecord(p, o).val[f] = IF o.ts[f] > p.ts[f] THEN o.val[f] ELSE p.val[f]
  <1> DEFINE val == [g \in Fields |-> IF o.ts[g] > p.ts[g] THEN o.val[g] ELSE p.val[g]]
             ts  == [g \in Fields |-> Later(p.ts[g], o.ts[g])]
  <1>1. p.ts[f] \in Nat /\ o.ts[f] \in Nat
    BY DEF Channel
  <1>2. CASE \A g \in Fields : ~(o.ts[g] > p.ts[g])
    BY <1>1, <1>2 DEF MergeRecord, Later
  <1>3. CASE ~ \A g \in Fields : ~(o.ts[g] > p.ts[g])
    <2>1. MergeRecord(p, o) = [p EXCEPT !.val = val, !.ts = ts]
      BY <1>3 DEF MergeRecord
    <2> QED BY <2>1 DEF Channel
  <1> QED BY <1>2, <1>3

\* Copies of a record that is never left between come to the same fields in any order and grouping:
\* the value that was stamped last, whichever copy the join time prefers (mergeChannelRecord).
THEOREM FieldsAnyOrder ==
    ASSUME NEW a \in Channel, NEW b \in Channel, NEW c \in Channel,
           NoTies(a, b), NoTies(b, c), NoTies(a, c), NEW f \in Fields
    PROVE  LET ab == MergeRecord(a, b)
               ba == MergeRecord(b, a)
               l  == MergeRecord(ab, c)
               r  == MergeRecord(a, MergeRecord(b, c))
           IN  /\ ab.ts[f] = ba.ts[f] /\ ab.val[f] = ba.val[f]
               /\ l.ts[f] = r.ts[f] /\ l.val[f] = r.val[f]
               /\ l.ts[f] >= a.ts[f] /\ l.ts[f] >= b.ts[f] /\ l.ts[f] >= c.ts[f]
<1> DEFINE ab == MergeRecord(a, b)
           bc == MergeRecord(b, c)
<1>1. a.ts[f] \in Nat /\ b.ts[f] \in Nat /\ c.ts[f] \in Nat
  BY DEF Channel
<1>2. ab \in Channel /\ bc \in Channel
  BY RecordTyped
<1>3. /\ ab.ts[f] = Later(a.ts[f], b.ts[f])
      /\ ab.val[f] = IF b.ts[f] > a.ts[f] THEN b.val[f] ELSE a.val[f]
      /\ bc.ts[f] = Later(b.ts[f], c.ts[f])
      /\ bc.val[f] = IF c.ts[f] > b.ts[f] THEN c.val[f] ELSE b.val[f]
      /\ MergeRecord(b, a).ts[f] = Later(b.ts[f], a.ts[f])
      /\ MergeRecord(b, a).val[f] = IF a.ts[f] > b.ts[f] THEN a.val[f] ELSE b.val[f]
  BY RecordFields
<1>4. /\ MergeRecord(ab, c).ts[f] = Later(ab.ts[f], c.ts[f])
      /\ MergeRecord(ab, c).val[f] = IF c.ts[f] > ab.ts[f] THEN c.val[f] ELSE ab.val[f]
      /\ MergeRecord(a, bc).ts[f] = Later(a.ts[f], bc.ts[f])
      /\ MergeRecord(a, bc).val[f] = IF bc.ts[f] > a.ts[f] THEN bc.val[f] ELSE a.val[f]
  BY <1>2, RecordFields
<1>5. /\ a.ts[f] = b.ts[f] => a.val[f] = b.val[f]
      /\ b.ts[f] = c.ts[f] => b.val[f] = c.val[f]
      /\ a.ts[f] = c.ts[f] => a.val[f] = c.val[f]
  BY DEF NoTies
<1> HIDE DEF ab, bc
<1>6. MergeRecord(ab, c).ts[f] = MergeRecord(a, bc).ts[f] /\ MergeRecord(ab, c).val[f] = MergeRecord(a, bc).val[f]
  BY <1>1, <1>3, <1>4, <1>5 DEF Later
<1>7. /\ MergeRecord(ab, c).ts[f] >= a.ts[f] /\ MergeRecord(ab, c).ts[f] >= b.ts[f]
      /\ MergeRecord(ab, c).ts[f] >= c.ts[f]
  BY <1>1, <1>3, <1>4 DEF Later
<1>8. ab.ts[f] = MergeRecord(b, a).ts[f] /\ ab.val[f] = MergeRecord(b, a).val[f]
  BY <1>1, <1>3, <1>5 DEF Later
<1> QED BY <1>6, <1>7, <1>8 DEF ab, bc

-----------------------------------------------------------------------------
(* Slices                                                                   *)

\* Slices that were exported (each value stamped, if only as older than any edit) and whose equal stamps
\* mean equal values come out the same in any order and grouping, and a value is replaced by an empty
\* slice only when that was an edit (pickSlice, stampedSliceTs).
THEOREM SliceAnyOrder ==
    ASSUME NEW a \in Slice, NEW b \in Slice, NEW c \in Slice,
           \A x, y \in {a, b, c} : Exported(x).ts = Exported(y).ts => Exported(x) = Exported(y)
    PROVE  LET x == Exported(a)
               y == Exported(b)
               z == Exported(c)
           IN  /\ PickSlice(x, y) = PickSlice(y, x)
               /\ PickSlice(PickSlice(x, y), z) = PickSlice(x, PickSlice(y, z))
               /\ PickSlice(x, y).val = Blank /\ x.val # Blank => y.ts > 0
<1> DEFINE x == Exported(a)
           y == Exported(b)
           z == Exported(c)
<1>1. /\ x.ts \in Nat /\ y.ts \in Nat /\ z.ts \in Nat
      /\ x.ts = 0 => x.val = Blank
      /\ y.ts = 0 => y.val = Blank
      /\ z.ts = 0 => z.val = Blank
  BY DEF Exported, Unstamped, Slice
<1>2. (x.ts = y.ts => x = y) /\ (y.ts = z.ts => y = z) /\ (x.ts = z.ts => x = z)
  OBVIOUS
<1> HIDE DEF x, y, z
<1>3. PickSlice(x, y) = PickSlice(y, x)
  BY <1>1, <1>2 DEF PickSlice
<1>4. PickSlice(PickSlice(x, y), z) = PickSlice(x, PickSlice(y, z))
  BY <1>1, <1>2 DEF PickSlice
<1>5. PickSlice(x, y).val = Blank /\ x.val # Blank => y.ts > 0
  BY <1>1 DEF PickSlice
<1> QED BY <1>3, <1>4, <1>5 DEF x, y, z

-----------------------------------------------------------------------------
(* The epoch keys of one channel                                            *)

\* the two sides hold no two announces of one epoch
NoFork(a, b) == \A e \in Epochs : a.announces[e] # {} /\ b.announces[e] # {} => a.announces[e] = b.announces[e]

\* The revisions of a shared key come out the same in any order and grouping, and a re-key that some
\* device still owes stays owed exactly until a key or an announce of its revision is there
\* (mergeEpochKeys, dropSettledPending).
THEOREM RevsAnyOrder ==
    ASSUME NEW a \in Revs, NEW b \in Revs, NEW c \in Revs
    PROVE  /\ MergeRevs(a, b) \in Revs
           /\ MergeRevs(a, b) = MergeRevs(b, a)
           /\ MergeRevs(MergeRevs(a, b), c) = MergeRevs(a, MergeRevs(b, c))
           /\ LET m == MergeRevs(a, b)
                  owed == Later(a.pending, b.pending)
              IN  /\ m.key >= a.key /\ m.announce >= a.announce
                  /\ m.pending = IF owed > m.key /\ owed > m.announce THEN owed ELSE 0
<1> DEFINE done(r) == Later(r.key, r.announce)
           owed(r, s) == Later(r.pending, s.pending)
<1>1. \A r, s \in Revs :
        /\ MergeRevs(r, s) \in Revs
        /\ MergeRevs(r, s).key = Later(r.key, s.key)
        /\ MergeRevs(r, s).announce = Later(r.announce, s.announce)
        /\ MergeRevs(r, s).pending = IF owed(r, s) <= Later(Later(r.key, s.key), Later(r.announce, s.announce))
                                     THEN 0 ELSE owed(r, s)
  BY LaterNat DEF MergeRevs, DropSettled, Revs
<1>2. \A r, s \in Revs : r.key = s.key /\ r.announce = s.announce /\ r.pending = s.pending => r = s
  BY DEF Revs
<1>3. \A r \in Revs : r.key \in Nat /\ r.announce \in Nat /\ r.pending \in Nat
  BY DEF Revs
<1>4. MergeRevs(a, b) = MergeRevs(b, a)
  <2>1. /\ Later(a.key, b.key) = Later(b.key, a.key) /\ Later(a.announce, b.announce) = Later(b.announce, a.announce)
        /\ owed(a, b) = owed(b, a)
    BY <1>3 DEF Later
  <2> QED BY <1>1, <1>2, <2>1
<1>5. MergeRevs(MergeRevs(a, b), c) = MergeRevs(a, MergeRevs(b, c))
  <2> DEFINE ab == MergeRevs(a, b)
             bc == MergeRevs(b, c)
             l  == MergeRevs(ab, c)
             r  == MergeRevs(a, bc)
  <2>1. ab \in Revs /\ bc \in Revs /\ l \in Revs /\ r \in Revs
    BY <1>1
  <2>2. /\ ab.key = Later(a.key, b.key) /\ bc.key = Later(b.key, c.key)
        /\ l.key = Later(ab.key, c.key) /\ r.key = Later(a.key, bc.key)
        /\ ab.announce = Later(a.announce, b.announce) /\ bc.announce = Later(b.announce, c.announce)
        /\ l.announce = Later(ab.announce, c.announce) /\ r.announce = Later(a.announce, bc.announce)
    BY <1>1, <2>1
  <2>3. /\ ab.pending = IF owed(a, b) <= Later(ab.key, ab.announce) THEN 0 ELSE owed(a, b)
        /\ bc.pending = IF owed(b, c) <= Later(bc.key, bc.announce) THEN 0 ELSE owed(b, c)
        /\ l.pending = IF owed(ab, c) <= Later(l.key, l.announce) THEN 0 ELSE owed(ab, c)
        /\ r.pending = IF owed(a, bc) <= Later(r.key, r.announce) THEN 0 ELSE owed(a, bc)
    BY <1>1, <2>1, <2>2
  <2> HIDE DEF ab, bc, l, r
  <2>4. l.key = r.key /\ l.announce = r.announce
    BY <1>3, <2>2 DEF Later
  <2>5. l.pending = r.pending
    BY <1>3, <2>1, <2>2, <2>3 DEF Later
  <2> QED BY <1>2, <2>1, <2>4, <2>5 DEF l, r, ab, bc
<1>6. LET m == MergeRevs(a, b)
      IN  /\ m.key >= a.key /\ m.announce >= a.announce
          /\ m.pending = IF owed(a, b) > m.key /\ owed(a, b) > m.announce THEN owed(a, b) ELSE 0
  BY <1>1, <1>3 DEF Later
<1> QED BY <1>1, <1>4, <1>5, <1>6

\* A merge takes no key from a device, nor an announce it holds, nor the epoch it encrypts under back;
\* and when no epoch was announced twice, the keys come out the same in any order and grouping.
THEOREM KeysAnyOrder ==
    ASSUME NEW a \in Keys, NEW b \in Keys, NEW c \in Keys,
           NoFork(a, b), NoFork(b, c), NoFork(a, c)
    PROVE  /\ MergeKeys(a, b) = MergeKeys(b, a)
           /\ MergeKeys(MergeKeys(a, b), c) = MergeKeys(a, MergeKeys(b, c))
           /\ a.epochs \subseteq MergeKeys(a, b).epochs
           /\ \A e \in Epochs : a.announces[e] # {} => MergeKeys(a, b).announces[e] = a.announces[e]
           /\ MergeKeys(a, b).current >= a.current
<1> DEFINE ab == MergeKeys(a, b)
           bc == MergeKeys(b, c)
           joined(f, g) == [e \in Epochs |-> IF f[e] # {} THEN f[e] ELSE g[e]]
<1>1. a.current \in Nat /\ b.current \in Nat /\ c.current \in Nat
      /\ a.shared \in Revs /\ b.shared \in Revs /\ c.shared \in Revs
  BY DEF Keys
<1>2. /\ Later(a.current, b.current) = Later(b.current, a.current)
      /\ Later(Later(a.current, b.current), c.current) = Later(a.current, Later(b.current, c.current))
      /\ Later(a.current, b.current) >= a.current
  BY <1>1 DEF Later
<1>3. MergeRevs(a.shared, b.shared) = MergeRevs(b.shared, a.shared)
      /\ MergeRevs(MergeRevs(a.shared, b.shared), c.shared) = MergeRevs(a.shared, MergeRevs(b.shared, c.shared))
  BY <1>1, RevsAnyOrder
<1>4. joined(a.announces, b.announces) = joined(b.announces, a.announces)
  BY DEF NoFork
<1>5. joined(joined(a.announces, b.announces), c.announces) = joined(a.announces, joined(b.announces, c.announces))
  OBVIOUS
<1>6. MergeKeys(a, b) = MergeKeys(b, a)
  <2>1. /\ a.epochs \cup b.epochs = b.epochs \cup a.epochs
        /\ a.requests \cup b.requests = b.requests \cup a.requests
        /\ a.helloed \cup b.helloed = b.helloed \cup a.helloed
    OBVIOUS
  <2> QED BY <1>2, <1>3, <1>4, <2>1 DEF MergeKeys
<1>7. MergeKeys(ab, c) = MergeKeys(a, bc)
  <2>1. /\ (a.epochs \cup b.epochs) \cup c.epochs = a.epochs \cup (b.epochs \cup c.epochs)
        /\ (a.requests \cup b.requests) \cup c.requests = a.requests \cup (b.requests \cup c.requests)
        /\ (a.helloed \cup b.helloed) \cup c.helloed = a.helloed \cup (b.helloed \cup c.helloed)
    OBVIOUS
  <2> QED BY <1>2, <1>3, <1>5, <2>1 DEF MergeKeys
<1>8. /\ a.epochs \subseteq ab.epochs
      /\ \A e \in Epochs : a.announces[e] # {} => ab.announces[e] = a.announces[e]
      /\ ab.current >= a.current
  BY <1>2 DEF MergeKeys
<1> QED BY <1>6, <1>7, <1>8

\* What the merge does not settle: two devices that hold different announces of one epoch each keep
\* their own, however often either pulls the other (syncMerge.js:279-280).
THEOREM ForkStays ==
    ASSUME NEW a \in Keys, NEW b \in Keys, NEW e \in Epochs,
           a.announces[e] # {}, b.announces[e] # {}, a.announces[e] # b.announces[e]
    PROVE  LET ab == MergeKeys(a, b)
               ba == MergeKeys(b, a)
           IN  /\ ab.announces[e] # ba.announces[e]
               /\ MergeKeys(ab, ba).announces[e] = a.announces[e]
               /\ MergeKeys(ba, ab).announces[e] = b.announces[e]
  BY DEF MergeKeys

-----------------------------------------------------------------------------
(* Sent messages and their deletions                                        *)

\* A message deleted on either device is held by neither after the merge, and its deletion is kept, so no
\* older snapshot brings it back (mergeSentDeletedAt, withoutDeleted).
THEOREM DeletedStays ==
    ASSUME NEW a \in Sent, NEW b \in Sent, NEW cap \in Nat
    PROVE  LET m == MergeSent(a, b, cap)
           IN  /\ Gone(a) \cup Gone(b) \subseteq Gone(m)
               /\ m.held \cap Gone(m) = {}
               /\ m.held \subseteq a.held \cup b.held
<1> DEFINE gone == [i \in Ids |-> Later(a.gone[i], b.gone[i])]
           m    == MergeSent(a, b, cap)
<1>1. m.gone = gone
  BY DEF MergeSent
<1>2. m.held = {i \in Newest(a.held \cup b.held, cap) : gone[i] = 0}
  BY DEF MergeSent
<1>3. \A i \in Ids : a.gone[i] \in Nat /\ b.gone[i] \in Nat
  BY DEF Sent
<1> HIDE DEF m
<1>4. Gone(a) \cup Gone(b) \subseteq Gone(m)
  BY <1>1, <1>3 DEF Gone, Later
<1>5. m.held \cap Gone(m) = {}
  BY <1>1, <1>2 DEF Gone
<1>6. m.held \subseteq a.held \cup b.held
  BY <1>2 DEF Newest
<1> QED BY <1>4, <1>5, <1>6 DEF m

\* fewer messages than are kept: the newest are all of them
LEMMA NewestAll ==
    ASSUME NEW S, IsFiniteSet(S), S \subseteq Nat, NEW cap \in Nat, Cardinality(S) <= cap
    PROVE  Newest(S, cap) = S
<1> SUFFICES ASSUME NEW m \in S PROVE Cardinality({n \in S : n > m}) < cap
  BY DEF Newest
<1> DEFINE T == {n \in S : n > m}
<1>1. T \subseteq S /\ m \notin T /\ m \in S
  OBVIOUS
<1>2. IsFiniteSet(T) /\ Cardinality(T) <= Cardinality(S) /\ (Cardinality(S) = Cardinality(T) => S = T)
  BY <1>1, FS_Subset
<1>3. Cardinality(T) # Cardinality(S)
  BY <1>1, <1>2
<1>4. Cardinality(T) \in Nat /\ Cardinality(S) \in Nat
  BY <1>2, FS_CardinalityType
<1> QED BY <1>2, <1>3, <1>4

\* of one message, equal edit times mean equal texts
NoEditTies(a, b) == \A m \in a.held \cap b.held : a.edited[m] = b.edited[m] => a.text[m] = b.text[m]

\* As long as both devices' messages together fit under the cap, the conversation comes out the same on
\* both, every message neither deleted is in it, with its latest edit (mergeSentMessages).
THEOREM SentBothWays ==
    ASSUME NEW a \in Sent, NEW b \in Sent, NEW cap \in Nat,
           IsFiniteSet(a.held \cup b.held), Cardinality(a.held \cup b.held) <= cap, NoEditTies(a, b)
    PROVE  LET m == MergeSent(a, b, cap)
           IN  /\ m = MergeSent(b, a, cap)
               /\ m.held = (a.held \cup b.held) \ Gone(m)
               /\ \A i \in m.held : /\ i \in a.held => m.edited[i] >= a.edited[i]
                                    /\ i \in b.held => m.edited[i] >= b.edited[i]
<1> DEFINE all == a.held \cup b.held
           gone == [i \in Ids |-> Later(a.gone[i], b.gone[i])]
           held == {i \in all : gone[i] = 0}
           newer(i) == i \in b.held /\ (i \in a.held => b.edited[i] > a.edited[i])
           older(i) == i \in a.held /\ (i \in b.held => a.edited[i] > b.edited[i])
           text == [i \in Ids |-> IF i \in held THEN (IF newer(i) THEN b ELSE a).text[i] ELSE Blank]
           edited == [i \in Ids |-> IF i \in held THEN (IF newer(i) THEN b ELSE a).edited[i] ELSE 0]
<1>1. all \subseteq Ids /\ all \subseteq Nat
  BY SyncMergeAssumption DEF Sent
<1>2. Newest(all, cap) = all
  BY <1>1, NewestAll
<1>3. \A i \in Ids : /\ a.gone[i] \in Nat /\ b.gone[i] \in Nat
                     /\ a.edited[i] \in Nat /\ b.edited[i] \in Nat
  BY DEF Sent
<1>4. MergeSent(a, b, cap) = [held |-> held, text |-> text, edited |-> edited, gone |-> gone]
  BY <1>2 DEF MergeSent
<1>5. MergeSent(b, a, cap) = [held |-> held, text |-> text, edited |-> edited, gone |-> gone]
  <2> DEFINE gone2 == [i \in Ids |-> Later(b.gone[i], a.gone[i])]
             held2 == {i \in b.held \cup a.held : gone2[i] = 0}
             text2 == [i \in Ids |-> IF i \in held2 THEN (IF older(i) THEN a ELSE b).text[i] ELSE Blank]
             edited2 == [i \in Ids |-> IF i \in held2 THEN (IF older(i) THEN a ELSE b).edited[i] ELSE 0]
  <2>1. gone2 = gone
    BY <1>3 DEF Later
  <2>2. held2 = held
    BY <2>1
  <2>3. b.held \cup a.held = all
    OBVIOUS
  <2>4. MergeSent(b, a, cap) = [held |-> held2, text |-> text2, edited |-> edited2, gone |-> gone2]
    BY <1>2, <2>3 DEF MergeSent
  <2>5. \A i \in held : /\ (IF older(i) THEN a ELSE b).text[i] = (IF newer(i) THEN b ELSE a).text[i]
                        /\ (IF older(i) THEN a ELSE b).edited[i] = (IF newer(i) THEN b ELSE a).edited[i]
    <3> SUFFICES ASSUME NEW i \in held
                 PROVE  /\ (IF older(i) THEN a ELSE b).text[i] = (IF newer(i) THEN b ELSE a).text[i]
                        /\ (IF older(i) THEN a ELSE b).edited[i] = (IF newer(i) THEN b ELSE a).edited[i]
      OBVIOUS
    <3>1. a.edited[i] \in Nat /\ b.edited[i] \in Nat
      BY <1>1, <1>3
    <3>2. i \in a.held /\ i \in b.held /\ a.edited[i] = b.edited[i] => a.text[i] = b.text[i]
      BY DEF NoEditTies
    <3> QED BY <3>1, <3>2
  <2>6. text2 = text /\ edited2 = edited
    BY <2>2, <2>5
  <2> HIDE DEF text, text2, edited, edited2, held, held2, gone, gone2
  <2> QED BY <2>1, <2>2, <2>4, <2>6
<1>6. held = all \ {i \in Ids : gone[i] # 0}
  BY <1>1
<1>7. \A i \in held : /\ i \in a.held => edited[i] >= a.edited[i]
                      /\ i \in b.held => edited[i] >= b.edited[i]
  BY <1>1, <1>3
<1> HIDE DEF held, text, edited, gone
<1>8. Gone(MergeSent(a, b, cap)) = {i \in Ids : gone[i] # 0}
  BY <1>4 DEF Gone
<1> QED BY <1>4, <1>5, <1>6, <1>7, <1>8
=============================================================================
