----------------------------- MODULE EpochKeys -----------------------------
(***************************************************************************)
(* The epoch-key protocol of a gated channel (src/js/epochKeyManager.js).   *)
(*                                                                         *)
(* The channel owner announces one key per epoch on the keys stream (-4);   *)
(* a device that lacks a key publishes a request, any device that holds it  *)
(* answers with a wrap, and the wrap is adopted only when it opens to the   *)
(* key the announce names.  An account may run several devices: the owner's *)
(* devices all announce, and every device of an account opens its wraps.    *)
(*                                                                         *)
(* Abstractions.  A key id, the key it stands for and the hash of that key  *)
(* are one model value of Keys; Junk is any material that is nobody's key.  *)
(* A wrap is addressed by request id (the v2 form: the account's static key *)
(* opens it).  `clock' numbers the announces in transport-timestamp order.  *)
(* currentEpoch is the highest announced epoch (CurrentEpoch below): the    *)
(* code raises the field at the same places where it adds an announce.      *)
(* The shared publish and interactions keys and the roster are not here.    *)
(***************************************************************************)
EXTENDS Integers, FiniteSets

CONSTANTS Devices,      \* running copies of the client, each with its own memory and disk
          Accounts, AccountOf, Owner,
          Keys, Junk,   \* epoch keys, and material that is none of them
          RequestIds,   \* ids for KEY_REQUESTs
          MaxEpoch,     \* bound: epochs
          Courses,      \* bounds of the behaviours: each starts on one of these
          ParkCap,      \* PARKED_WRAPS_PER_EPOCH
          None

Epochs  == 1..MaxEpoch
Self    == "self"                           \* SELF_WRAP_REQUEST_ID
Events  == {"lost", "junk", "crash", "rpc", "cut", "admit", "age", "live", "read"}

\* a course: the devices that run, the keys minted at most, the KEY_REQUESTs a device
\* sends at most, and how often each fault, gate change or live delivery may still happen
CourseStates == [devices : SUBSET Devices, keys : Nat, asks : Nat, left : [Events -> Nat]]

Announces == [type : {"announce"}, key : Keys, hash : Keys \cup {Junk},
              epoch : Epochs, by : Devices, ts : Nat]
Requests  == [type : {"request"}, id : RequestIds, dev : Devices, from : Epochs, ts : Nat]
Wraps     == [type : {"wrap"}, req : RequestIds \cup {Self}, key : Keys,
              epoch : Epochs, mat : Keys \cup {Junk}]
Messages  == Announces \cup Requests \cup Wraps

ASSUME EpochKeysAssumption ==
    /\ AccountOf \in [Devices -> Accounts]
    /\ Owner \in Accounts
    /\ MaxEpoch \in Nat \ {0}
    /\ ParkCap \in Nat
    /\ Courses \subseteq CourseStates
    /\ Junk \notin Keys
    /\ Self \notin RequestIds
    /\ None \notin RequestIds \cup Announces

IsOwner(d) == AccountOf[d] = Owner

VARIABLES
    keyEpoch,   \* the epoch a key was minted for, 0 while it is not minted
    clock,      \* transport timestamp of the next announce
    young,      \* the channel was created less than an hour ago
    access,     \* accounts the gate lets in
    sent,       \* every message published on the keys stream; live delivery draws on it
    store,      \* the messages the storage node retains
    mem,        \* a device's channel key state (`s' in the code)
    disk,       \* its persisted record (secureStorage)
    ens,        \* a device's ensureChannelKeys in flight
    rot,        \* a device's rotateEpoch or first mint in flight
    jobs,       \* answers scheduled and in flight
    course,     \* what is left of the course of this behaviour
    entitled    \* history: the accounts the gate let in at some time since a key was minted

vars == <<keyEpoch, clock, young, access, sent, store, mem, disk, ens, rot, jobs, course, entitled>>

(***************************************************************************)
(* Channel key state.                                                      *)
(***************************************************************************)
Anchors  == [Epochs -> Announces \cup {None}]
Holdings == SUBSET [key : Keys, mat : Keys \cup {Junk}, epoch : Epochs]

DiskStates == [anchor : Anchors, held : Holdings, pending : SUBSET RequestIds]
MemStates  == [anchor : Anchors, held : Holdings, pending : SUBSET RequestIds,
               last : RequestIds \cup {None}, own : SUBSET RequestIds,
               seen : SUBSET (RequestIds \X Keys),
               parked : SUBSET Wraps, todo : SUBSET Wraps, grants : SUBSET Accounts,
               retain : SUBSET Keys, due : BOOLEAN]

NoAnchors == [e \in Epochs |-> None]
Fresh == [anchor |-> NoAnchors, held |-> {}, pending |-> {}, last |-> None, own |-> {},
          seen |-> {}, parked |-> {}, todo |-> {}, grants |-> {}, retain |-> {}, due |-> FALSE]

\* mutant of Persisted
PersistedBare(s) == [anchor |-> s.anchor, held |-> {}, pending |-> s.pending]

\* what _persist writes, and what _loadPersisted rebuilds in a new session
Persisted(s) == [anchor |-> s.anchor, held |-> s.held, pending |-> s.pending]
Loaded(p)    == [Fresh EXCEPT !.anchor = p.anchor, !.held = p.held, !.pending = p.pending]

Announced(s) == {e \in Epochs : s.anchor[e] # None}
CurrentEpoch(s) == IF Announced(s) = {} THEN 0
                   ELSE CHOOSE e \in Announced(s) : \A f \in Announced(s) : f <= e
HeldKeys(s)  == {h.key : h \in s.held}
HasCurrentKey(s) == /\ Announced(s) # {}
                    /\ s.anchor[CurrentEpoch(s)].key \in HeldKeys(s)

\* announced-minus-adopted, by epoch number
Missing(s) == Announced(s) \ {h.epoch : h \in s.held}

(***************************************************************************)
(* Announces: the conflict rule.  Of the announces of one epoch the oldest  *)
(* stays, and one already held stays on a tie (every valid announce carries *)
(* the owner's address, so the publisher never breaks it).                  *)
(***************************************************************************)
Valid(m) == m.type = "announce" /\ IsOwner(m.by)

Latest(S) == {m \in S : \A n \in S : n.ts <= m.ts}         \* mutant of Oldest
Oldest(S) == {m \in S : \A n \in S : m.ts <= n.ts}

AnchorsAfter(a, batch, e) ==
    LET heard == {m \in batch : Valid(m) /\ m.epoch = e}
        best  == Oldest(heard \cup ({a[e]} \ {None}))
    IN  IF a[e] \in best \/ best = {} THEN {a[e]} ELSE best

\* what s becomes once its anchors are those of t: a new epoch voids the cached grants
KeepGrants(s, t)   == t                                     \* mutant of ForgetGrants
ForgetGrants(s, t) == IF CurrentEpoch(t) > CurrentEpoch(s) THEN [t EXCEPT !.grants = {}] ELSE t

\* every outcome of applying a batch of announces
ApplyAnnounces(s, batch) ==
    LET anchors == [Epochs -> UNION {AnchorsAfter(s.anchor, batch, e) : e \in Epochs}]
    IN  {ForgetGrants(s, [s EXCEPT !.anchor = a]) :
            a \in {f \in anchors : \A e \in Epochs : f[e] \in AnchorsAfter(s.anchor, batch, e)}}

(***************************************************************************)
(* Wraps.                                                                  *)
(***************************************************************************)
\* addressed to this device: one of its account's requests, or the owner's self wrap
Mine(d, s, w) == w.req \in s.pending \/ w.req = s.last \/ (w.req = Self /\ IsOwner(d))

Anchored(s, w) == s.anchor[w.epoch] # None /\ s.anchor[w.epoch].key = w.key

OpensAny(s, w) == TRUE                                      \* mutant of Opens
Opens(s, w)    == w.mat = s.anchor[w.epoch].hash

\* the request ids kept for late wraps go once no announced epoch is missing
Adopt(s, h) ==
    LET t == [s EXCEPT !.held = @ \cup {h}]
    IN  IF Missing(t) = {} THEN [t EXCEPT !.pending = {}] ELSE t

\* the requests a set of wraps answers, and with which keys (a self wrap answers none)
Covers(ws) == {<<w.req, w.key>> : w \in {v \in ws : v.req # Self}}

CanPark(s, w) == Cardinality({p \in s.parked : p.epoch = w.epoch}) < ParkCap

\* what the channel key state becomes when one wrap is handled
HandleWrap(d, s, w) ==
    LET t == [s EXCEPT !.seen = @ \cup Covers({w})]
    IN  IF w.key \in HeldKeys(s) \/ ~Mine(d, s, w) THEN t
        ELSE IF ~Anchored(s, w) THEN IF CanPark(t, w) THEN [t EXCEPT !.parked = @ \cup {w}] ELSE t
        ELSE IF ~Opens(s, w) THEN t
        ELSE Adopt(t, [key |-> w.key, mat |-> w.mat, epoch |-> w.epoch])

Adopts(s, t) == s.held # t.held

(***************************************************************************)
(* Requests.                                                               *)
(***************************************************************************)
RequestsIn(S) == {m \in S : m.type = "request"}

\* of the stored requests of an account, only the newest is worth an answer
Newest(S) == {m \in S : \A n \in S : AccountOf[n.dev] = AccountOf[m.dev] => n.ts <= m.ts}

Answerable(s, m) == m.id \notin s.own \cup {s.last}

JobStates == [dev : Devices, req : Requests, phase : {"queued", "wrapping"}, only : BOOLEAN,
              detached : BOOLEAN, done : SUBSET Keys, known : SUBSET Keys]

Job(d, m) == [dev |-> d, req |-> m, phase |-> "queued", only |-> FALSE,
              detached |-> FALSE, done |-> {}, known |-> {}]

Uncovered(s, m) == {h \in s.held : h.epoch >= m.from /\ <<m.id, h.key>> \notin s.seen}

\* what is left to wrap in an answer: `covered' is a live view of the wraps
\* seen for the request, unless there were none when the answer began
Left(s, j) ==
    {h \in s.held : /\ h.epoch >= j.req.from
                    /\ h.key \notin j.done
                    /\ j.detached \/ <<j.req.id, h.key>> \notin s.seen
                    /\ j.only => h.epoch = CurrentEpoch(s)}

Idle     == [pc |-> "idle", asked |-> {}]
NoRot    == [phase |-> "none", key |-> None, ts |-> 0]

May(f)   == course.left[f] > 0
Spend(f) == May(f) /\ course' = [course EXCEPT !.left[f] = @ - 1]

\* a publish reaches the topic, and the storage node unless it misses it
Publish(m) ==
    /\ sent' = sent \cup {m}
    /\ \/ store' = store \cup {m} /\ UNCHANGED course
       \/ store' = store /\ Spend("lost")

\* a resend returns what storage holds, or nothing at all when the node cannot be read
Resends == {store} \cup IF May("read") THEN {{}} ELSE {}
Resent(read) == IF read = store THEN UNCHANGED course ELSE Spend("read")

Announce(d, k, ts) == [type |-> "announce", key |-> k, hash |-> k,
                       epoch |-> keyEpoch[k], by |-> d, ts |-> ts]

SetMem(d, t)  == mem' = [mem EXCEPT ![d] = t]
Persist(d, t) == disk' = [disk EXCEPT ![d] = Persisted(t)]
Keep(d, s, t, changed) == /\ SetMem(d, t)
                          /\ IF changed THEN Persist(d, t) ELSE UNCHANGED disk

-----------------------------------------------------------------------------
Init ==
    /\ keyEpoch = [k \in Keys |-> 0]
    /\ clock = 1
    /\ young = TRUE
    /\ access = Accounts
    /\ sent = {} /\ store = {}
    /\ mem = [d \in Devices |-> Fresh]
    /\ disk = [d \in Devices |-> Persisted(Fresh)]
    /\ ens = [d \in Devices |-> Idle]
    /\ rot = [d \in Devices |-> NoRot]
    /\ jobs = {}
    /\ course \in Courses
    /\ entitled = [k \in Keys |-> {}]

(***************************************************************************)
(* ensureChannelKeys: read -4, apply what it holds, then settle the rest.   *)
(* Each stored wrap that may be ours is awaited on its own (TakeWrap).      *)
(***************************************************************************)
EnsureRead(d) ==
    LET s == mem[d]
    IN  /\ ens[d] = Idle
        /\ \E read \in Resends : \E t \in ApplyAnnounces(s, read) :
             LET wraps == {m \in read : m.type = "wrap"} IN
             /\ Keep(d, s, [t EXCEPT !.seen = @ \cup Covers(wraps),
                                     !.todo = @ \cup {w \in wraps : Mine(d, s, w) /\ w.key \notin HeldKeys(s)}],
                     t.anchor # s.anchor)
             /\ ens' = [ens EXCEPT ![d] = [pc |-> "read", asked |-> RequestsIn(read)]]
             /\ Resent(read)
        /\ UNCHANGED <<keyEpoch, clock, young, access, sent, store, rot, jobs, entitled>>

TakeWrap(d) ==
    \E w \in mem[d].todo :
        LET s == [mem[d] EXCEPT !.todo = @ \ {w}]
            t == HandleWrap(d, s, w)
        IN  /\ Keep(d, s, t, Adopts(s, t))
            /\ UNCHANGED <<keyEpoch, clock, young, access, sent, store, ens, rot, jobs, course, entitled>>

ScheduleNone(d) == jobs' = jobs                             \* mutant of ScheduleStored
ScheduleStored(d) ==
    jobs' = jobs \cup
        IF mem[d].held = {} THEN {}
        ELSE {Job(d, m) : m \in Newest({q \in ens[d].asked : Answerable(mem[d], q)})}

CanMint == Cardinality({k \in Keys : keyEpoch[k] # 0}) < course.keys

\* mutant of Mint: the announce is skipped
MintUnannounced(d, e) ==
    \E k \in Keys :
        /\ keyEpoch[k] = 0 /\ CanMint
        /\ keyEpoch' = [keyEpoch EXCEPT ![k] = e]
        /\ entitled' = [entitled EXCEPT ![k] = access]
        /\ rot' = [rot EXCEPT ![d] = [phase |-> "sent", key |-> k, ts |-> clock]]

\* mint the key of epoch e: the announce goes out in a later step
Mint(d, e) ==
    \E k \in Keys :
        /\ keyEpoch[k] = 0 /\ CanMint
        /\ keyEpoch' = [keyEpoch EXCEPT ![k] = e]
        /\ entitled' = [entitled EXCEPT ![k] = access]
        /\ rot' = [rot EXCEPT ![d] = [phase |-> "minted", key |-> k, ts |-> clock]]

\* the mint guard: createdAt is less than an hour ago
ChannelIsNew == young

\* an owner that sees no announce mints epoch 1 while the channel is young, else it asks
EnsureTail(d) ==
    LET s == mem[d]
        virgin == Announced(s) = {} /\ IsOwner(d) /\ s.held = {}
    IN  /\ ens[d].pc = "read" /\ s.todo = {}
        /\ ScheduleStored(d)
        /\ ens' = [ens EXCEPT ![d] = Idle]
        /\ \/ /\ virgin /\ ChannelIsNew /\ rot[d] = NoRot
              /\ Mint(d, 1)
              /\ UNCHANGED mem
           \/ /\ ~(virgin /\ ChannelIsNew)
              /\ SetMem(d, [s EXCEPT !.due = @ \/ virgin \/ Missing(s) # {}])
              /\ UNCHANGED <<keyEpoch, entitled, rot>>
        /\ UNCHANGED <<clock, young, access, sent, store, disk, course>>

\* createdAt travels with the channel: after an hour no device takes it for new
Age ==
    /\ young /\ Spend("age")
    /\ young' = FALSE
    /\ UNCHANGED <<keyEpoch, clock, access, sent, store, mem, disk, ens, rot, jobs, entitled>>

(***************************************************************************)
(* rotateEpoch: refresh the announces, mint, publish, adopt and persist.    *)
(***************************************************************************)
RotateMint(d) ==
    /\ IsOwner(d) /\ rot[d] = NoRot
    /\ \E read \in Resends : \E t \in ApplyAnnounces(mem[d], read) :
         /\ Resent(read)
         /\ \E e \in Epochs : e = CurrentEpoch(t) + 1 /\ Mint(d, e)
         /\ Keep(d, mem[d], t, t.anchor # mem[d].anchor)
    /\ UNCHANGED <<clock, young, access, sent, store, ens, jobs>>

RotatePublish(d) ==
    /\ rot[d].phase = "minted"
    /\ Publish(Announce(d, rot[d].key, clock))
    /\ clock' = clock + 1
    /\ rot' = [rot EXCEPT ![d].phase = "sent"]
    /\ UNCHANGED <<keyEpoch, young, access, mem, disk, ens, jobs, entitled>>

\* the own announce is applied with validFrom, the local clock at the mint
RotateAdopt(d) ==
    LET k == rot[d].key
    IN  /\ rot[d].phase = "sent"
        /\ \E a \in ApplyAnnounces(mem[d], {Announce(d, k, rot[d].ts)}) :
             LET t == [Adopt(a, [key |-> k, mat |-> k, epoch |-> keyEpoch[k]])
                         EXCEPT !.retain = @ \cup {k}]
             IN  SetMem(d, t) /\ Persist(d, t)
        /\ Publish([type |-> "wrap", req |-> Self, key |-> k, epoch |-> keyEpoch[k], mat |-> k])
        /\ rot' = [rot EXCEPT ![d] = NoRot]
        /\ UNCHANGED <<keyEpoch, clock, young, access, ens, jobs, entitled>>

\* _ensureAnnounceRetained: republish until a resend returns the key id
Retain(d) ==
    \E k \in mem[d].retain :
        /\ \/ /\ \E m \in store : m.type = "announce" /\ m.key = k
              /\ SetMem(d, [mem[d] EXCEPT !.retain = @ \ {k}])
              /\ UNCHANGED <<clock, sent, store, course>>
           \/ /\ ~\E m \in store : m.type = "announce" /\ m.key = k
              /\ Publish(Announce(d, k, clock))
              /\ clock' = clock + 1
              /\ UNCHANGED mem
        /\ UNCHANGED <<keyEpoch, young, access, disk, ens, rot, jobs, entitled>>

(***************************************************************************)
(* handleKeysMessage: live delivery, in any order, any number of times.     *)
(***************************************************************************)
DeliverAnnounce(d) ==
    LET s == mem[d]
    IN  /\ Spend("live")
        /\ \E m \in sent : m.type = "announce" /\ \E t \in ApplyAnnounces(s, {m}) :
             LET waiting == {w \in s.parked : w.epoch = m.epoch}
             IN  /\ t.anchor # s.anchor
                 /\ SetMem(d, [t EXCEPT !.parked = @ \ waiting, !.todo = @ \cup waiting, !.due = TRUE])
        /\ UNCHANGED <<keyEpoch, clock, young, access, sent, store, disk, ens, rot, jobs, entitled>>

DeliverWrap(d) ==
    /\ Spend("live")
    /\ \E w \in sent :
         LET t == HandleWrap(d, mem[d], w)
         IN  w.type = "wrap" /\ t # mem[d] /\ Keep(d, mem[d], t, Adopts(mem[d], t))
    /\ UNCHANGED <<keyEpoch, clock, young, access, sent, store, ens, rot, jobs, entitled>>

DeliverRequest(d) ==
    /\ Spend("live")
    /\ mem[d].held # {}
    /\ \E m \in RequestsIn(sent) : Answerable(mem[d], m) /\ jobs' = jobs \cup {Job(d, m)}
    /\ UNCHANGED <<keyEpoch, clock, young, access, sent, store, mem, disk, ens, rot, entitled>>

(***************************************************************************)
(* _sendKeyRequest, after the handler that owes it has replayed its wraps.  *)
(***************************************************************************)
Wanted(s) == IF Announced(s) = {} THEN {1} ELSE Missing(s)

Send(d, s) ==
    /\ Cardinality({q \in RequestsIn(sent) : q.dev = d}) < course.asks
    /\ \E r \in RequestIds : \E e \in Wanted(s) :
         LET t == [s EXCEPT !.due = FALSE, !.last = r, !.own = @ \cup {r}, !.pending = @ \cup {r}]
         IN  /\ \A m \in RequestsIn(sent) : m.id # r
             /\ \A f \in Wanted(s) : e <= f
             /\ SetMem(d, t) /\ Persist(d, t)
             /\ Publish([type |-> "request", id |-> r, dev |-> d, from |-> e, ts |-> clock])
    /\ UNCHANGED <<keyEpoch, clock, young, access, ens, rot, jobs, entitled>>

SendRequest(d) == mem[d].due /\ mem[d].todo = {} /\ Wanted(mem[d]) # {} /\ Send(d, mem[d])

\* nothing wanted any more, or the last request is too recent to follow with another
SkipRequest(d) ==
    /\ mem[d].due /\ mem[d].todo = {}
    /\ Wanted(mem[d]) = {} \/ mem[d].last # None
    /\ SetMem(d, [mem[d] EXCEPT !.due = FALSE])
    /\ UNCHANGED <<keyEpoch, clock, young, access, sent, store, disk, ens, rot, jobs, course, entitled>>

\* retryRequestIfWaiting: whether it finds anything to wait for, and the request it sends
Retries(s) == Missing(s) # {}

RetryRequest(d) == Retries(mem[d]) /\ ~mem[d].due /\ Send(d, mem[d])

(***************************************************************************)
(* _answerRequest: ask the gate, then wrap key after key.                   *)
(***************************************************************************)
Requester(j) == AccountOf[j.req.dev]

AnswerCheck(j) ==
    LET s == mem[j.dev]
        x == Requester(j)
        admit == [j EXCEPT !.phase = "wrapping", !.known = HeldKeys(s),
                           !.detached = \A k \in Keys : <<j.req.id, k>> \notin s.seen]
    IN  /\ j.phase = "queued"
        /\ \/ /\ Uncovered(s, j.req) # {} /\ x \in access \cup s.grants
              /\ \/ jobs' = (jobs \ {j}) \cup {admit} /\ UNCHANGED course
                 \/ /\ Spend("rpc")    \* gate info unreadable: current epoch only
                    /\ jobs' = (jobs \ {j}) \cup {[admit EXCEPT !.only = TRUE]}
              /\ SetMem(j.dev, [s EXCEPT !.grants = @ \cup {x}])
           \/ /\ Uncovered(s, j.req) = {} \/ x \notin access
              /\ jobs' = jobs \ {j}
              /\ UNCHANGED <<mem, course>>
           \/ /\ Spend("rpc")          \* no RPC verdict: refuse
              /\ jobs' = jobs \ {j}
              /\ UNCHANGED mem
        /\ UNCHANGED <<keyEpoch, clock, young, access, sent, store, disk, ens, rot, entitled>>

AnswerWrap(j) ==
    LET s == mem[j.dev]
    IN  /\ j.phase = "wrapping"
        /\ \E h \in Left(s, j) :
             /\ Publish([type |-> "wrap", req |-> j.req.id, key |-> h.key, epoch |-> h.epoch, mat |-> h.mat])
             /\ SetMem(j.dev, [s EXCEPT !.seen = @ \cup {<<j.req.id, h.key>>}])
             /\ jobs' = (jobs \ {j}) \cup {[j EXCEPT !.done = @ \cup {h.key}]}
        /\ UNCHANGED <<keyEpoch, clock, young, access, disk, ens, rot, entitled>>

AnswerDone(j) ==
    /\ j.phase = "wrapping" /\ Left(mem[j.dev], j) = {}
    /\ jobs' = jobs \ {j}
    /\ UNCHANGED <<keyEpoch, clock, young, access, sent, store, mem, disk, ens, rot, course, entitled>>

(***************************************************************************)
(* The gate, and what goes wrong.                                          *)
(***************************************************************************)
Cut(x) ==
    /\ x \in access \ {Owner} /\ Spend("cut")
    /\ access' = access \ {x}
    /\ UNCHANGED <<keyEpoch, clock, young, sent, store, mem, disk, ens, rot, jobs, entitled>>

Admit(x) ==
    /\ x \notin access /\ Spend("admit")
    /\ access' = access \cup {x}
    /\ entitled' = [k \in Keys |-> IF keyEpoch[k] = 0 THEN entitled[k] ELSE entitled[k] \cup {x}]
    /\ UNCHANGED <<keyEpoch, clock, young, sent, store, mem, disk, ens, rot, jobs>>

\* a session ends: memory, timers and calls in flight are gone, the disk is read back
Restart(d) ==
    /\ Spend("crash")
    /\ SetMem(d, Loaded(disk[d]))
    /\ ens' = [ens EXCEPT ![d] = Idle]
    /\ rot' = [rot EXCEPT ![d] = NoRot]
    /\ jobs' = {j \in jobs : j.dev # d}
    /\ UNCHANGED <<keyEpoch, clock, young, access, sent, store, disk, entitled>>

\* a wrap that does not open to the key it names, or an announce that is not the owner's
Garbage ==
    /\ Spend("junk")
    /\ \E k \in {j \in Keys : keyEpoch[j] # 0} : \E m \in
            {[type |-> "wrap", req |-> q.id, key |-> k, epoch |-> keyEpoch[k], mat |-> Junk] :
                 q \in RequestsIn(sent)}
            \cup {[type |-> "announce", key |-> k, hash |-> Junk, epoch |-> keyEpoch[k],
                   by |-> d, ts |-> 0] : d \in {e \in Devices : ~IsOwner(e)}} :
          sent' = sent \cup {m} /\ store' = store \cup {m}
    /\ UNCHANGED <<keyEpoch, clock, young, access, mem, disk, ens, rot, jobs, entitled>>

-----------------------------------------------------------------------------
Ensure(d)  == EnsureRead(d) \/ EnsureTail(d)
Rotate(d)  == RotateMint(d) \/ RotatePublish(d) \/ RotateAdopt(d)
Deliver(d) == DeliverAnnounce(d) \/ DeliverWrap(d) \/ DeliverRequest(d)
Request(d) == SendRequest(d) \/ SkipRequest(d) \/ RetryRequest(d)
Answer(j)  == AnswerCheck(j) \/ AnswerWrap(j) \/ AnswerDone(j)

Next ==
    \/ \E d \in course.devices : Ensure(d) \/ TakeWrap(d) \/ Rotate(d) \/ Retain(d)
                                 \/ Deliver(d) \/ Request(d) \/ Restart(d)
    \/ \E j \in jobs : Answer(j)
    \/ \E x \in Accounts : Cut(x) \/ Admit(x)
    \/ Age \/ Garbage

Spec == Init /\ [][Next]_vars

\* The timers, sweeps and retries of a running client keep firing; a rotation,
\* a change of the gate, a live delivery or a fault need never come.  (FairSpec is for
\* courses in which every device runs.)
Fairness ==
    /\ \A d \in Devices :
         /\ WF_vars(EnsureRead(d)) /\ WF_vars(EnsureTail(d)) /\ WF_vars(TakeWrap(d))
         /\ WF_vars(RotatePublish(d)) /\ WF_vars(RotateAdopt(d)) /\ WF_vars(Retain(d))
         /\ WF_vars(Request(d))
         /\ \A r \in RequestIds :
              /\ WF_vars(\E j \in jobs : j.dev = d /\ j.req.id = r /\ AnswerCheck(j))
              /\ WF_vars(\E j \in jobs : j.dev = d /\ j.req.id = r /\ (AnswerWrap(j) \/ AnswerDone(j)))

FairSpec == Spec /\ Fairness

(***************************************************************************)
(* What the protocol promises: KeyDistribution, over the persisted keys.   *)
(***************************************************************************)
Published == {m.key : m \in {n \in sent : Valid(n)}}
Promise == INSTANCE KeyDistribution
             WITH epochOf <- keyEpoch, announced <- Published,
                  holds <- [d \in Devices |-> disk[d].held]
Implements == Promise!Spec

-----------------------------------------------------------------------------
(***************************************************************************)
(* Properties.                                                             *)
(***************************************************************************)
TypeOK ==
    /\ keyEpoch \in [Keys -> 0..MaxEpoch]
    /\ clock \in Nat \ {0}
    /\ young \in BOOLEAN
    /\ access \subseteq Accounts
    /\ sent \subseteq Messages
    /\ store \subseteq sent
    /\ mem \in [Devices -> MemStates]
    /\ disk \in [Devices -> DiskStates]
    /\ ens \in [Devices -> [pc : {"idle", "read"}, asked : SUBSET Requests]]
    /\ rot \in [Devices -> [phase : {"none", "minted", "sent"}, key : Keys \cup {None}, ts : Nat]]
    /\ jobs \subseteq JobStates
    /\ course \in CourseStates
    /\ entitled \in [Keys -> SUBSET Accounts]

\* What is held under a key id, in memory or at rest, is the key the owner minted under
\* that id and for that epoch: no corrupted wrap and no announce that is not the owner's
\* ever poisons a key (the admin check of _applyAnnounce, the hash check of _handleWrapV2).
Genuine(h) == h.mat = h.key /\ h.epoch = keyEpoch[h.key]
KeyIntegrity == \A d \in Devices : \A h \in mem[d].held \cup disk[d].held : Genuine(h)

\* An adopted key survives a restart at any later moment (_adopt persists).
AdoptedStays == [][\A d \in Devices : mem[d].held \subseteq mem'[d].held]_vars

\* A wrap for a key the responder already held when it asked the gate goes only to an
\* account the gate let in at some time since that key was minted: a new epoch voids the
\* cached grants (_forgetGrants), so no one is served on an access read before it.
JudgedUnderEpoch ==
    \A j \in jobs : \A k \in j.done \cap j.known : Requester(j) \in entitled[k]

\* The announces storage retains for an epoch, all of those ever sent.
AllStored(e) == \A m \in sent : m.type = "announce" /\ m.epoch = e => m \in store
StoredOf(e)  == {m \in store : Valid(m) /\ m.epoch = e}

\* A device that has just read an epoch's announces is anchored to the oldest of them,
\* whatever it heard before and in whatever order.
ReadsOldest(d) ==
    ens[d] = Idle /\ ens'[d] # Idle /\ course'.left["read"] = course.left["read"] =>
        \A e \in Epochs : AllStored(e) /\ StoredOf(e) # {} =>
            \E m \in StoredOf(e) :
                (\A n \in StoredOf(e) : m.ts <= n.ts) /\ mem'[d].anchor[e].key = m.key

\* D13 for the members, who publish no announce of their own.
MembersFollowOldest == [][\A d \in Devices : IsOwner(d) \/ ReadsOldest(d)]_vars

\* Not upheld: D13 as the header of epochKeyManager.js states it, for every device.
AllFollowOldest == [][\A d \in Devices : ReadsOldest(d)]_vars

\* Not upheld where a read fails: an epoch minted by a rotation is numbered above every announce
\* storage holds, so that rotations one after the other never share an epoch, whichever device does them.
MintedAbove(k) ==
    keyEpoch[k] = 0 /\ keyEpoch'[k] # 0 => \A m \in store : Valid(m) => m.epoch < keyEpoch'[k]
NumberedAboveStorage ==
    [][(\E d \in Devices : rot[d] # rot'[d] /\ ens[d] = ens'[d]) => \A k \in Keys : MintedAbove(k)]_vars

\* Not upheld where a read fails: no second key is minted for epoch 1 once the channel is
\* established and storage holds its first announce (the mint guard).
NoLateFork ==
    [][~young /\ (\E m \in store : Valid(m) /\ m.epoch = 1) =>
         \A k \in Keys : keyEpoch[k] = 0 => keyEpoch'[k] # 1]_vars

\* Not upheld: an account cut before a key is minted never holds that key.
CutBeforeMint == \A d \in Devices : \A h \in mem[d].held : AccountOf[d] \in entitled[h.key]

\* Not upheld: a device shown as waiting for the key in force is one whose retry asks for it.
Waiting(s) == Announced(s) # {} /\ ~HasCurrentKey(s)
WaitingIsRetried == \A d \in Devices : Waiting(mem[d]) => Retries(mem[d])

\* Not upheld: the key an announce promises is held on some disk, or the session that minted it is
\* still about to store it.
NoOrphanEpoch ==
    \A m \in sent : Valid(m) =>
        \/ \E d \in Devices : m.key \in {h.key : h \in disk[d].held}
        \/ \E d \in Devices : rot[d].phase = "sent" /\ rot[d].key = m.key

\* A member the gate lets in gets the key in force as long as some device holds it.
InForce == {m.key : m \in {n \in sent : Valid(n) /\ n.epoch = MaxEpoch}}
MembersCatchUp ==
    \A d \in Devices : \A k \in Keys :
        k \in InForce /\ (\E c \in Devices : k \in HeldKeys(mem[c])) ~> HasCurrentKey(mem[d])
=============================================================================
