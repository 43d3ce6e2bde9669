-------------------------- MODULE EpochKeys_proofs --------------------------
(***************************************************************************)
(* Theorems about EpochKeys, for every set of devices, accounts and keys:   *)
(* type correctness, the integrity of held keys, that the protocol          *)
(* implements KeyDistribution, that members agree on announces, and that no *)
(* one is served on a grant older than the key, where mints ascend.         *)
(***************************************************************************)
EXTENDS EpochKeys, WellFoundedInduction, TLAPS

(***************************************************************************)
(* The inductive invariant: what the owner announces is the key it minted,  *)
(* every anchor is such an announce, so is every key held, and what is held *)
(* in memory is what is held on disk.  E is the                            *)
(* epoch of each key (keyEpoch) and P the keys announced (Published).       *)
(***************************************************************************)
Honest(a, E, P) == IsOwner(a.by) /\ a.hash = a.key /\ E[a.key] = a.epoch /\ a.key \in P

Sound(s, E, P) ==
    /\ \A e \in Epochs : s.anchor[e] # None => s.anchor[e].epoch = e /\ Honest(s.anchor[e], E, P)
    /\ \A h \in s.held : h.mat = h.key /\ h.epoch = E[h.key] /\ h.key \in P

SentOK   == \A m \in sent : Valid(m) => Honest(m, keyEpoch, Published)
RotOK    == \A d \in Devices : rot[d].phase # "none" =>
                /\ IsOwner(d)
                /\ rot[d].key \in Keys
                /\ keyEpoch[rot[d].key] # 0
                /\ rot[d].phase = "sent" => rot[d].key \in Published
MemOK    == \A d \in Devices : Sound(mem[d], keyEpoch, Published)
DiskOK   == \A d \in Devices : Sound(disk[d], keyEpoch, Published)
RetainOK == \A d \in Devices : \A k \in mem[d].retain : IsOwner(d) /\ keyEpoch[k] # 0

SameHeld == \A d \in Devices : disk[d].held = mem[d].held

IInv == TypeOK /\ SentOK /\ RotOK /\ MemOK /\ DiskOK /\ RetainOK /\ SameHeld

(***************************************************************************)
(* The helpers keep the type of a channel key state.                       *)
(***************************************************************************)
LEMMA MessageTypes ==
    ASSUME NEW m \in Messages
    PROVE  /\ m.type = "announce" => m \in Announces
           /\ m.type = "request" => m \in Requests
           /\ m.type = "wrap" => m \in Wraps
  BY DEF Messages, Announces, Requests, Wraps

\* the result of applying announces differs from s in the anchors and the cached grants only
LEMMA AppliedType ==
    ASSUME NEW s \in MemStates, NEW batch \in SUBSET Messages, NEW t \in ApplyAnnounces(s, batch)
    PROVE  /\ t \in MemStates
           /\ t.held = s.held /\ t.retain = s.retain
           /\ \A e \in Epochs : t.anchor[e] \in AnchorsAfter(s.anchor, batch, e)
  <1> DEFINE Dom == UNION {AnchorsAfter(s.anchor, batch, e) : e \in Epochs}
             Ok(f) == \A e \in Epochs : f[e] \in AnchorsAfter(s.anchor, batch, e)
             With(a) == [s EXCEPT !.anchor = a]
  <1>0. PICK a \in {f \in [Epochs -> Dom] : Ok(f)} : t = ForgetGrants(s, With(a))
    BY DEF ApplyAnnounces
  <1>1. /\ a \in [Epochs -> Dom] /\ Ok(a)
        /\ t = IF CurrentEpoch(With(a)) > CurrentEpoch(s)
               THEN [With(a) EXCEPT !.grants = {}] ELSE With(a)
    BY <1>0 DEF ForgetGrants
  <1>2. s.anchor \in [Epochs -> Announces \cup {None}]
    BY DEF MemStates, Anchors
  <1>3. Dom \subseteq Announces \cup {None}
    <2>1. ASSUME NEW e \in Epochs PROVE AnchorsAfter(s.anchor, batch, e) \subseteq Announces \cup {None}
      BY <1>2, MessageTypes DEF AnchorsAfter, Oldest, Valid
    <2> QED BY <2>1
  <1>4. a \in Anchors
    BY <1>1, <1>3 DEF Anchors
  <1>5. With(a) \in MemStates /\ With(a).held = s.held /\ With(a).retain = s.retain /\ With(a).anchor = a
    BY <1>4 DEF MemStates
  <1> HIDE DEF With
  <1>6. /\ [With(a) EXCEPT !.grants = {}] \in MemStates
        /\ [With(a) EXCEPT !.grants = {}].held = s.held
        /\ [With(a) EXCEPT !.grants = {}].retain = s.retain
        /\ [With(a) EXCEPT !.grants = {}].anchor = a
    BY <1>5 DEF MemStates
  <1> QED BY <1>1, <1>5, <1>6

LEMMA AnchorsAfterHonest ==
    ASSUME NEW f, NEW batch, NEW e \in Epochs, NEW a \in AnchorsAfter(f, batch, e), a # None
    PROVE  a = f[e] \/ (a \in batch /\ Valid(a) /\ a.epoch = e)
  BY DEF AnchorsAfter, Oldest

LEMMA AdoptType ==
    ASSUME NEW s \in MemStates, NEW k \in Keys, NEW x \in Keys \cup {Junk}, NEW e \in Epochs,
           NEW h, h = [key |-> k, mat |-> x, epoch |-> e]
    PROVE  /\ Adopt(s, h) \in MemStates
           /\ Adopt(s, h).held = s.held \cup {h}
           /\ Adopt(s, h).anchor = s.anchor /\ Adopt(s, h).retain = s.retain
  <1> DEFINE t == [s EXCEPT !.held = @ \cup {h}]
  <1>1. t \in MemStates /\ t.held = s.held \cup {h} /\ t.anchor = s.anchor /\ t.retain = s.retain
    BY DEF MemStates, Holdings
  <1> HIDE DEF t
  <1>2. /\ [t EXCEPT !.pending = {}] \in MemStates
        /\ [t EXCEPT !.pending = {}].held = t.held
        /\ [t EXCEPT !.pending = {}].anchor = t.anchor
        /\ [t EXCEPT !.pending = {}].retain = t.retain
    BY <1>1 DEF MemStates
  <1>3. Adopt(s, h) = IF Missing(t) = {} THEN [t EXCEPT !.pending = {}] ELSE t
    BY DEF Adopt, t
  <1> QED BY <1>1, <1>2, <1>3

\* a handled wrap is adopted only when it opens to the key its epoch is anchored to
LEMMA HandleWrapType ==
    ASSUME NEW d, NEW s \in MemStates, NEW w \in Wraps
    PROVE  /\ HandleWrap(d, s, w) \in MemStates
           /\ HandleWrap(d, s, w).anchor = s.anchor /\ HandleWrap(d, s, w).retain = s.retain
           /\ \/ HandleWrap(d, s, w).held = s.held
              \/ /\ HandleWrap(d, s, w).held =
                        s.held \cup {[key |-> w.key, mat |-> w.mat, epoch |-> w.epoch]}
                 /\ Anchored(s, w) /\ Opens(s, w)
  <1> DEFINE u == HandleWrap(d, s, w)
             h == [key |-> w.key, mat |-> w.mat, epoch |-> w.epoch]
  <1> SUFFICES /\ u \in MemStates
               /\ u.anchor = s.anchor /\ u.retain = s.retain
               /\ \/ u.held = s.held
                  \/ /\ u.held = s.held \cup {h}
                     /\ Anchored(s, w) /\ Opens(s, w)
    OBVIOUS
  <1> DEFINE t == [s EXCEPT !.seen = @ \cup Covers({w})]
             p == [t EXCEPT !.parked = @ \cup {w}]
  <1>1. Covers({w}) \subseteq RequestIds \X Keys
    BY DEF Covers, Wraps
  <1>2. t \in MemStates /\ t.held = s.held /\ t.anchor = s.anchor /\ t.retain = s.retain
    BY <1>1 DEF MemStates
  <1>3. u \in {t, p, Adopt(t, h)} /\ (u = Adopt(t, h) => u \in {t, p} \/ (Anchored(s, w) /\ Opens(s, w)))
    BY DEF HandleWrap
  <1> HIDE DEF t
  <1>4. p \in MemStates /\ p.held = t.held /\ p.anchor = t.anchor /\ p.retain = t.retain
    BY <1>2 DEF MemStates
  <1>5. w.key \in Keys /\ w.mat \in Keys \cup {Junk} /\ w.epoch \in Epochs
    BY DEF Wraps
  <1>6. /\ Adopt(t, h) \in MemStates /\ Adopt(t, h).held = s.held \cup {h}
        /\ Adopt(t, h).anchor = s.anchor /\ Adopt(t, h).retain = s.retain
    BY <1>2, <1>5, AdoptType
  <1> HIDE DEF p, u, h
  <1> QED BY <1>2, <1>3, <1>4, <1>6

(***************************************************************************)
(* Soundness of a state under its own operations.                          *)
(***************************************************************************)
\* minting and announcing never unsettle what is already held
LEMMA SoundStays ==
    ASSUME NEW E, NEW F, NEW P, NEW Q, P \subseteq Q,
           \A k \in Keys : E[k] # 0 => F[k] = E[k],
           NEW s, s.anchor \in Anchors, s.held \in Holdings, Sound(s, E, P)
    PROVE  Sound(s, F, Q)
  <1>1. ASSUME NEW e \in Epochs, s.anchor[e] # None
        PROVE  s.anchor[e].epoch = e /\ Honest(s.anchor[e], F, Q)
    <2>1. s.anchor[e] \in Announces
      BY <1>1 DEF Anchors
    <2>2. s.anchor[e].key \in Keys /\ e # 0
      BY <2>1 DEF Announces, Epochs
    <2> QED BY <1>1, <2>2 DEF Sound, Honest
  <1>2. ASSUME NEW h \in s.held
        PROVE  h.mat = h.key /\ h.epoch = F[h.key] /\ h.key \in Q
    <2>1. h.key \in Keys /\ h.epoch # 0
      BY DEF Holdings, Epochs
    <2> QED BY <2>1 DEF Sound
  <1> QED BY <1>1, <1>2 DEF Sound

LEMMA SoundApplied ==
    ASSUME NEW E, NEW P, NEW s \in MemStates, Sound(s, E, P), NEW batch \in SUBSET Messages,
           \A m \in batch : Valid(m) => Honest(m, E, P),
           NEW t \in ApplyAnnounces(s, batch)
    PROVE  Sound(t, E, P)
  <1>1. t.held = s.held /\ \A e \in Epochs : t.anchor[e] \in AnchorsAfter(s.anchor, batch, e)
    BY AppliedType
  <1>2. ASSUME NEW e \in Epochs, t.anchor[e] # None
        PROVE  t.anchor[e].epoch = e /\ Honest(t.anchor[e], E, P)
    <2>1. t.anchor[e] = s.anchor[e] \/ (t.anchor[e] \in batch /\ Valid(t.anchor[e]) /\ t.anchor[e].epoch = e)
      BY <1>1, <1>2, AnchorsAfterHonest
    <2> QED BY <1>2, <2>1 DEF Sound
  <1> QED BY <1>1, <1>2 DEF Sound

\* the hash named by the anchor is what makes an adopted wrap genuine
LEMMA SoundHandled ==
    ASSUME NEW E, NEW P, NEW d, NEW s \in MemStates, NEW w \in Wraps, Sound(s, E, P)
    PROVE  Sound(HandleWrap(d, s, w), E, P)
  <1> DEFINE u == HandleWrap(d, s, w)
             h == [key |-> w.key, mat |-> w.mat, epoch |-> w.epoch]
  <1>1. /\ u \in MemStates /\ u.anchor = s.anchor /\ u.retain = s.retain
        /\ \/ u.held = s.held
           \/ u.held = s.held \cup {h} /\ Anchored(s, w) /\ Opens(s, w)
    BY HandleWrapType
  <1>2. u.held = s.held \/ (u.held = s.held \cup {h} /\ Anchored(s, w) /\ Opens(s, w))
    BY <1>1
  <1>3. CASE u.held = s.held
    BY <1>1, <1>3 DEF Sound
  <1>4. CASE u.held = s.held \cup {h} /\ Anchored(s, w) /\ Opens(s, w)
    <2>1. w.epoch \in Epochs
      BY DEF Wraps
    <2>2. h.mat = h.key /\ h.epoch = E[h.key] /\ h.key \in P
      BY <1>4, <2>1 DEF Sound, Honest, Anchored, Opens
    <2> HIDE DEF u, h
    <2>3. \A x \in u.held : x.mat = x.key /\ x.epoch = E[x.key] /\ x.key \in P
      BY <1>4, <2>2 DEF Sound
    <2> QED BY <1>1, <2>3 DEF Sound, u
  <1> QED BY <1>2, <1>3, <1>4

LEMMA StateTypes ==
    /\ Fresh \in MemStates
    /\ \A s \in MemStates : Persisted(s) \in DiskStates /\ s.anchor \in Anchors /\ s.held \in Holdings
    /\ \A p \in DiskStates : Loaded(p) \in MemStates /\ p.anchor \in Anchors /\ p.held \in Holdings
  <1>1. Fresh \in MemStates
    BY DEF Fresh, MemStates, Anchors, NoAnchors, Holdings
  <1>2. ASSUME NEW s \in MemStates
        PROVE  Persisted(s) \in DiskStates /\ s.anchor \in Anchors /\ s.held \in Holdings
    BY DEF Persisted, MemStates, DiskStates
  <1>3. ASSUME NEW p \in DiskStates
        PROVE  Loaded(p) \in MemStates /\ p.anchor \in Anchors /\ p.held \in Holdings
    <2>1. p.anchor \in Anchors /\ p.held \in Holdings /\ p.pending \in SUBSET RequestIds
      BY DEF DiskStates
    <2> QED BY <2>1 DEF Loaded, Fresh, MemStates
  <1> QED BY <1>1, <1>2, <1>3

(***************************************************************************)
(* Every step keeps the invariant.                                         *)
(***************************************************************************)
\* spending an event leaves a course
LEMMA Spending ==
    ASSUME course \in CourseStates, NEW f \in Events, Spend(f)
    PROVE  course' \in CourseStates
  <1>1. course.left[f] \in Nat /\ course.left[f] > 0
    BY DEF Spend, May, CourseStates
  <1>2. [course.left EXCEPT ![f] = @ - 1] \in [Events -> Nat]
    BY <1>1 DEF CourseStates
  <1>3. course' = [course EXCEPT !.left = [course.left EXCEPT ![f] = @ - 1]]
    BY DEF Spend, CourseStates
  <1> QED BY <1>2, <1>3 DEF CourseStates

\* the events a step may spend
LEMMA EventNames ==
    /\ "lost" \in Events /\ "junk" \in Events /\ "crash" \in Events /\ "rpc" \in Events
    /\ "cut" \in Events /\ "admit" \in Events /\ "age" \in Events /\ "live" \in Events
    /\ "read" \in Events
  BY DEF Events

LEMMA PublishType ==
    ASSUME TypeOK, NEW m \in Messages, Publish(m)
    PROVE  /\ sent' = sent \cup {m} /\ sent' \subseteq Messages /\ store' \subseteq sent'
           /\ course' \in CourseStates
  BY Spending, EventNames DEF TypeOK, Publish

\* the obligations of a step, once what it leaves alone is set aside
LEMMA Preserved ==
    ASSUME IInv, TypeOK',
           sent \subseteq sent',
           \A k \in Keys : keyEpoch[k] # 0 => keyEpoch'[k] = keyEpoch[k],
           \A m \in sent' : m \in sent \/ (Valid(m) => Honest(m, keyEpoch', Published')),
           \A d \in Devices : mem'[d] = mem[d] \/ Sound(mem'[d], keyEpoch', Published'),
           \A d \in Devices : disk'[d] = disk[d] \/ Sound(disk'[d], keyEpoch', Published'),
           \A d \in Devices : rot'[d] = rot[d] \/ rot'[d].phase = "none" \/
               (/\ IsOwner(d) /\ rot'[d].key \in Keys /\ keyEpoch'[rot'[d].key] # 0
                /\ rot'[d].phase = "sent" => rot'[d].key \in Published'),
           \A d \in Devices : \A k \in mem'[d].retain \ mem[d].retain : IsOwner(d) /\ keyEpoch'[k] # 0,
           SameHeld'
    PROVE  IInv'
  <1>1. Published \subseteq Published'
    BY DEF Published
  <1>2. SentOK'
    <2>1. ASSUME NEW m \in sent, Valid(m) PROVE Honest(m, keyEpoch', Published')
      <3>1. m.key \in Keys /\ m.epoch # 0
        BY <2>1, MessageTypes DEF IInv, TypeOK, Valid, Announces, Epochs
      <3> QED BY <1>1, <2>1, <3>1 DEF IInv, SentOK, Honest
    <2> QED BY <2>1 DEF SentOK
  <1>3. RotOK'
    BY <1>1 DEF IInv, RotOK
  <1>4. MemOK'
    BY <1>1, SoundStays, StateTypes DEF IInv, TypeOK, MemOK
  <1>5. DiskOK'
    BY <1>1, SoundStays, StateTypes DEF IInv, TypeOK, DiskOK
  <1>6. RetainOK'
    <2>1. ASSUME NEW d \in Devices, NEW k \in mem'[d].retain PROVE IsOwner(d) /\ keyEpoch'[k] # 0
      <3>1. k \in Keys
        BY DEF TypeOK, MemStates
      <3> QED BY <3>1 DEF IInv, RetainOK
    <2> QED BY <2>1 DEF RetainOK
  <1> QED BY <1>2, <1>3, <1>4, <1>5, <1>6 DEF IInv

\* the part of TypeOK that is not about channel key states
RestOK ==
    /\ keyEpoch \in [Keys -> 0..MaxEpoch]
    /\ clock \in Nat \ {0}
    /\ young \in BOOLEAN
    /\ access \subseteq Accounts
    /\ sent \subseteq Messages
    /\ store \subseteq sent
    /\ ens \in [Devices -> [pc : {"idle", "read"}, asked : SUBSET Requests]]
    /\ rot \in [Devices -> [phase : {"none", "minted", "sent"}, key : Keys \cup {None}, ts : Nat]]
    /\ jobs \subseteq JobStates
    /\ course \in CourseStates
    /\ entitled \in [Keys -> SUBSET Accounts]

\* a step that leaves the keys minted and the announces sent as they were, or honest
HonestStep ==
    /\ sent \subseteq sent'
    /\ \A k \in Keys : keyEpoch[k] # 0 => keyEpoch'[k] = keyEpoch[k]
    /\ \A m \in sent' : m \in sent \/ (Valid(m) => Honest(m, keyEpoch', Published'))
    /\ \A d \in Devices : rot'[d] = rot[d] \/ rot'[d].phase = "none" \/
           (/\ IsOwner(d) /\ rot'[d].key \in Keys /\ keyEpoch'[rot'[d].key] # 0
            /\ rot'[d].phase = "sent" => rot'[d].key \in Published')

\* no device gains or loses a key
Kept == \A c \in Devices : mem'[c].held = mem[c].held /\ disk'[c].held = disk[c].held

Still == UNCHANGED keyEpoch /\ Published' = Published /\ Kept

Mints == /\ Kept /\ Published' = Published
         /\ \E k \in Keys : keyEpoch[k] = 0 /\ \E e \in Epochs : keyEpoch' = [keyEpoch EXCEPT ![k] = e]

AnnouncesOne == /\ Kept /\ UNCHANGED keyEpoch
                /\ \E k \in Keys : keyEpoch[k] # 0 /\ Published' = Published \cup {k}

\* device d gains the key h stands for
Gains(d, h) ==
    /\ UNCHANGED keyEpoch /\ Published' = Published
    /\ \E k \in Keys : k \in Published /\ h = [key |-> k, mat |-> k, epoch |-> keyEpoch[k]]
    /\ \A c \in Devices : disk'[c].held = IF c = d THEN disk[c].held \cup {h} ELSE disk[c].held
    /\ \A c \in Devices : mem[c].held \subseteq mem'[c].held

\* one device's state changes, and perhaps what it has on disk
LEMMA StepKeeps ==
    ASSUME IInv, RestOK', HonestStep,
           NEW d \in Devices, NEW t \in MemStates, Sound(t, keyEpoch, Published),
           mem' = [mem EXCEPT ![d] = t],
           disk' = [disk EXCEPT ![d] = Persisted(t)] \/ (disk' = disk /\ t.held = mem[d].held),
           \A k \in t.retain \ mem[d].retain : IsOwner(d) /\ keyEpoch'[k] # 0
    PROVE  /\ IInv'
           /\ t.held = mem[d].held => Kept
           /\ \A c \in Devices \ {d} : mem'[c] = mem[c] /\ disk'[c] = disk[c]
           /\ mem'[d].held = t.held /\ disk'[d].held = t.held
  <1>1. Published \subseteq Published'
    BY DEF Published, HonestStep
  <1>2. Persisted(t) \in DiskStates /\ t.anchor \in Anchors /\ t.held \in Holdings
    BY StateTypes
  <1>3. Sound(t, keyEpoch', Published')
    BY <1>1, <1>2, SoundStays DEF HonestStep
  <1>4. Sound(Persisted(t), keyEpoch', Published')
    BY <1>3 DEF Sound, Persisted
  <1>5. mem \in [Devices -> MemStates] /\ disk \in [Devices -> DiskStates]
    BY DEF IInv, TypeOK
  <1>6. TypeOK'
    BY <1>2, <1>5 DEF TypeOK, RestOK
  <1>7. \A c \in Devices : mem'[c] = mem[c] \/ (c = d /\ mem'[c] = t)
    BY <1>5
  <1>8. \A c \in Devices : disk'[c] = disk[c] \/ disk'[c] = Persisted(t)
    BY <1>5
  <1>9. \A c \in Devices : \A k \in mem'[c].retain \ mem[c].retain : IsOwner(c) /\ keyEpoch'[k] # 0
    BY <1>7
  <1>10. Persisted(t).held = t.held
    BY DEF Persisted
  <1>11. /\ \A c \in Devices \ {d} : mem'[c] = mem[c] /\ disk'[c] = disk[c]
         /\ mem'[d].held = t.held /\ disk'[d].held = t.held
    <2>1. disk[d].held = mem[d].held
      BY DEF IInv, SameHeld
    <2> QED BY <1>5, <1>10, <2>1
  <1>12. SameHeld'
    BY <1>11 DEF IInv, SameHeld
  <1>13. t.held = mem[d].held => Kept
    BY <1>11 DEF IInv, SameHeld, Kept
  <1> HIDE DEF Sound, IInv
  <1>14. IInv'
    BY <1>3, <1>4, <1>6, <1>7, <1>8, <1>9, <1>12, Preserved DEF HonestStep
  <1> QED BY <1>11, <1>13, <1>14

\* no device's state changes
LEMMA QuietKeeps ==
    ASSUME IInv, RestOK', HonestStep, UNCHANGED <<mem, disk>>
    PROVE  IInv' /\ Kept
  <1>1. TypeOK'
    BY DEF IInv, TypeOK, RestOK
  <1>2. SameHeld' /\ Kept
    BY DEF IInv, SameHeld, Kept
  <1> QED BY <1>1, <1>2, Preserved DEF HonestStep

\* what a publish adds to the announced keys
LEMMA PublishedGrows ==
    ASSUME NEW m, sent' = sent \cup {m}
    PROVE  Published' = IF Valid(m) THEN Published \cup {m.key} ELSE Published
  BY DEF Published, Valid

LEMMA ResendsHonest ==
    ASSUME IInv, NEW read \in Resends, Resent(read)
    PROVE  /\ read \in SUBSET Messages
           /\ \A m \in read : Valid(m) => Honest(m, keyEpoch, Published)
           /\ course' \in CourseStates
  <1>1. read = store \/ read = {}
    BY DEF Resends
  <1>2. course' \in CourseStates
    BY Spending, EventNames DEF Resent, IInv, TypeOK
  <1> QED BY <1>1, <1>2 DEF IInv, TypeOK, SentOK

LEMMA EnsureReadKeeps ==
    ASSUME IInv, NEW d \in Devices, EnsureRead(d)
    PROVE  IInv' /\ Still
  <1> DEFINE s == mem[d]
  <1>1. s \in MemStates /\ Sound(s, keyEpoch, Published)
    BY DEF IInv, TypeOK, MemOK
  <1>2. PICK read \in Resends : \E t \in ApplyAnnounces(s, read) :
             /\ Keep(d, s, [t EXCEPT !.seen = @ \cup Covers({m \in read : m.type = "wrap"}),
                                     !.todo = @ \cup {w \in {m \in read : m.type = "wrap"} : Mine(d, s, w) /\ w.key \notin HeldKeys(s)}],
                     t.anchor # s.anchor)
             /\ ens' = [ens EXCEPT ![d] = [pc |-> "read", asked |-> RequestsIn(read)]]
             /\ Resent(read)
    BY DEF EnsureRead
  <1>3. PICK t \in ApplyAnnounces(s, read) :
             /\ Keep(d, s, [t EXCEPT !.seen = @ \cup Covers({m \in read : m.type = "wrap"}),
                                     !.todo = @ \cup {w \in {m \in read : m.type = "wrap"} : Mine(d, s, w) /\ w.key \notin HeldKeys(s)}],
                     t.anchor # s.anchor)
             /\ ens' = [ens EXCEPT ![d] = [pc |-> "read", asked |-> RequestsIn(read)]]
             /\ Resent(read)
    BY <1>2
  <1> DEFINE wraps == {m \in read : m.type = "wrap"}
             u == [t EXCEPT !.seen = @ \cup Covers(wraps),
                            !.todo = @ \cup {w \in wraps : Mine(d, s, w) /\ w.key \notin HeldKeys(s)}]
  <1>4. /\ read \in SUBSET Messages
        /\ \A m \in read : Valid(m) => Honest(m, keyEpoch, Published)
        /\ course' \in CourseStates
    BY <1>3, ResendsHonest
  <1>5. t \in MemStates /\ t.held = s.held /\ t.retain = s.retain /\ Sound(t, keyEpoch, Published)
    BY <1>1, <1>4, AppliedType, SoundApplied
  <1>6. wraps \subseteq Wraps /\ Covers(wraps) \subseteq RequestIds \X Keys
    BY <1>4, MessageTypes DEF Covers, Wraps
  <1>7. u \in MemStates /\ u.held = t.held /\ u.retain = t.retain /\ u.anchor = t.anchor
    BY <1>5, <1>6 DEF MemStates
  <1>8. mem' = [mem EXCEPT ![d] = u] /\ (disk' = disk \/ disk' = [disk EXCEPT ![d] = Persisted(u)])
    BY <1>3 DEF Keep, SetMem, Persist
  <1> HIDE DEF u, s
  <1>9. Sound(u, keyEpoch, Published)
    BY <1>5, <1>7 DEF Sound
  <1>10. RequestsIn(read) \subseteq Requests
    BY <1>4, MessageTypes DEF RequestsIn
  <1>11. RestOK'
    BY <1>3, <1>4, <1>10 DEF EnsureRead, RestOK, IInv, TypeOK
  <1>12. HonestStep
    BY DEF EnsureRead, HonestStep
  <1>13. u.held = mem[d].held /\ \A k \in u.retain \ mem[d].retain : IsOwner(d) /\ keyEpoch'[k] # 0
    BY <1>5, <1>7 DEF s
  <1>14. IInv' /\ Kept
    BY <1>7, <1>8, <1>9, <1>11, <1>12, <1>13, StepKeeps
  <1> QED BY <1>14 DEF Still, EnsureRead, Published

LEMMA JobType ==
    ASSUME NEW d \in Devices, NEW m \in Requests
    PROVE  Job(d, m) \in JobStates
  BY DEF Job, JobStates

LEMMA EnsureTailKeeps ==
    ASSUME IInv, NEW d \in Devices, EnsureTail(d)
    PROVE  IInv' /\ (Still \/ Mints)
  <1> DEFINE s == mem[d]
             virgin == Announced(s) = {} /\ IsOwner(d) /\ s.held = {}
  <1>1. s \in MemStates /\ Sound(s, keyEpoch, Published)
    BY DEF IInv, TypeOK, MemOK
  <1>2. jobs' \subseteq JobStates
    <2>1. ens[d].asked \subseteq Requests
      BY DEF IInv, TypeOK
    <2> QED BY <2>1, JobType DEF EnsureTail, ScheduleStored, Newest, IInv, TypeOK
  <1>3. ens' \in [Devices -> [pc : {"idle", "read"}, asked : SUBSET Requests]]
    BY DEF EnsureTail, Idle, IInv, TypeOK
  <1>4. CASE virgin /\ ChannelIsNew /\ rot[d] = NoRot /\ Mint(d, 1) /\ UNCHANGED mem
    <2>1. PICK k \in Keys : /\ keyEpoch[k] = 0
                            /\ keyEpoch' = [keyEpoch EXCEPT ![k] = 1]
                            /\ entitled' = [entitled EXCEPT ![k] = access]
                            /\ rot' = [rot EXCEPT ![d] = [phase |-> "minted", key |-> k, ts |-> clock]]
      BY <1>4 DEF Mint
    <2>2. RestOK'
      BY EpochKeysAssumption, <1>2, <1>3, <2>1 DEF EnsureTail, RestOK, IInv, TypeOK
    <2>3. HonestStep
      BY <1>4, <2>1 DEF EnsureTail, HonestStep, IInv, TypeOK
    <2>4. IInv' /\ Kept
      BY <1>4, <2>2, <2>3, QuietKeeps DEF EnsureTail
    <2>5. 1 \in Epochs
      BY EpochKeysAssumption DEF Epochs
    <2>6. Published' = Published
      BY DEF EnsureTail, Published
    <2> QED BY <2>1, <2>4, <2>5, <2>6 DEF Mints
  <1>5. CASE /\ SetMem(d, [s EXCEPT !.due = @ \/ virgin \/ Missing(s) # {}])
             /\ UNCHANGED <<keyEpoch, entitled, rot>>
    <2> DEFINE u == [s EXCEPT !.due = @ \/ virgin \/ Missing(s) # {}]
    <2>1. u \in MemStates /\ u.held = s.held /\ u.retain = s.retain /\ u.anchor = s.anchor
      BY <1>1 DEF MemStates
    <2>2. mem' = [mem EXCEPT ![d] = u] /\ disk' = disk
      BY <1>5 DEF SetMem, EnsureTail
    <2> HIDE DEF u, s
    <2>3. Sound(u, keyEpoch, Published)
      BY <1>1, <2>1 DEF Sound
    <2>4. RestOK'
      BY <1>2, <1>3, <1>5 DEF EnsureTail, RestOK, IInv, TypeOK
    <2>5. HonestStep
      BY <1>5 DEF EnsureTail, HonestStep
    <2>6. u.held = mem[d].held /\ \A k \in u.retain \ mem[d].retain : IsOwner(d) /\ keyEpoch'[k] # 0
      BY <2>1 DEF s
    <2>7. IInv' /\ Kept
      BY <2>1, <2>2, <2>3, <2>4, <2>5, <2>6, StepKeeps
    <2> QED BY <1>5, <2>7 DEF Still, EnsureTail, Published
  <1> QED BY <1>4, <1>5 DEF EnsureTail

\* a handled wrap either changes no key or gains the device the key it carries
LEMMA WrapGains ==
    ASSUME IInv, RestOK', HonestStep, UNCHANGED <<keyEpoch, sent>>,
           NEW d \in Devices, NEW s \in MemStates, NEW w \in Wraps,
           Sound(s, keyEpoch, Published), s.held = mem[d].held, s.retain = mem[d].retain,
           Keep(d, s, HandleWrap(d, s, w), Adopts(s, HandleWrap(d, s, w)))
    PROVE  IInv' /\ (Still \/ \E h : Gains(d, h))
  <1> DEFINE u == HandleWrap(d, s, w)
             h == [key |-> w.key, mat |-> w.mat, epoch |-> w.epoch]
  <1>1. /\ u \in MemStates /\ u.retain = s.retain /\ Sound(u, keyEpoch, Published)
        /\ u.held = s.held \/ (/\ u.held = s.held \cup {h}
                               /\ Anchored(s, w) /\ Opens(s, w))
    BY HandleWrapType, SoundHandled
  <1>2. /\ mem' = [mem EXCEPT ![d] = u]
        /\ disk' = [disk EXCEPT ![d] = Persisted(u)] \/ (disk' = disk /\ u.held = mem[d].held)
    BY DEF Keep, SetMem, Persist, Adopts
  <1>3. Published' = Published
    BY DEF Published
  <1>4. w.key \in Keys /\ w.epoch \in Epochs
    BY DEF Wraps
  <1> HIDE DEF u
  <1>5. /\ IInv' /\ (u.held = mem[d].held => Kept)
        /\ \A c \in Devices \ {d} : mem'[c] = mem[c] /\ disk'[c] = disk[c]
        /\ mem'[d].held = u.held /\ disk'[d].held = u.held
    BY <1>1, <1>2, StepKeeps
  <1>6. CASE u.held = s.held
    BY <1>3, <1>5, <1>6 DEF Still
  <1>7. CASE u.held = s.held \cup {h} /\ Anchored(s, w) /\ Opens(s, w)
    <2>1. w.key \in Published /\ h = [key |-> w.key, mat |-> w.key, epoch |-> keyEpoch[w.key]]
      BY <1>4, <1>7 DEF Sound, Honest, Anchored, Opens
    <2>2. disk[d].held = mem[d].held
      BY DEF IInv, SameHeld
    <2>3. Gains(d, h)
      BY <1>3, <1>4, <1>5, <1>7, <2>1, <2>2 DEF Gains
    <2> QED BY <1>5, <2>3
  <1> QED BY <1>1, <1>6, <1>7

LEMMA TakeWrapKeeps ==
    ASSUME IInv, NEW d \in Devices, TakeWrap(d)
    PROVE  IInv' /\ (Still \/ \E h : Gains(d, h))
  <1>1. PICK w \in mem[d].todo :
            LET s == [mem[d] EXCEPT !.todo = @ \ {w}]
            IN  Keep(d, s, HandleWrap(d, s, w), Adopts(s, HandleWrap(d, s, w)))
    BY DEF TakeWrap
  <1> DEFINE s == [mem[d] EXCEPT !.todo = @ \ {w}]
  <1>2. mem[d] \in MemStates /\ Sound(mem[d], keyEpoch, Published)
    BY DEF IInv, TypeOK, MemOK
  <1>3. /\ s \in MemStates /\ w \in Wraps
        /\ s.held = mem[d].held /\ s.retain = mem[d].retain /\ s.anchor = mem[d].anchor
    BY <1>2 DEF MemStates
  <1>4. Keep(d, s, HandleWrap(d, s, w), Adopts(s, HandleWrap(d, s, w)))
    BY <1>1
  <1> HIDE DEF s
  <1>5. Sound(s, keyEpoch, Published)
    BY <1>2, <1>3 DEF Sound
  <1>6. RestOK' /\ HonestStep /\ UNCHANGED <<keyEpoch, sent>>
    BY DEF TakeWrap, RestOK, HonestStep, IInv, TypeOK
  <1> QED BY <1>3, <1>4, <1>5, <1>6, WrapGains

LEMMA DeliverWrapKeeps ==
    ASSUME IInv, NEW d \in Devices, DeliverWrap(d)
    PROVE  IInv' /\ (Still \/ \E h : Gains(d, h))
  <1> DEFINE s == mem[d]
  <1>1. PICK w \in sent : /\ w.type = "wrap"
                          /\ Keep(d, s, HandleWrap(d, s, w), Adopts(s, HandleWrap(d, s, w)))
    BY DEF DeliverWrap
  <1>2. s \in MemStates /\ Sound(s, keyEpoch, Published) /\ w \in Wraps
    BY <1>1, MessageTypes DEF IInv, TypeOK, MemOK
  <1>3. RestOK' /\ HonestStep /\ UNCHANGED <<keyEpoch, sent>>
    BY Spending, EventNames DEF DeliverWrap, RestOK, HonestStep, IInv, TypeOK
  <1> QED BY <1>1, <1>2, <1>3, WrapGains

LEMMA DeliverAnnounceKeeps ==
    ASSUME IInv, NEW d \in Devices, DeliverAnnounce(d)
    PROVE  IInv' /\ Still
  <1> DEFINE s == mem[d]
  <1>1. PICK m \in sent : /\ m.type = "announce"
                          /\ \E t \in ApplyAnnounces(s, {m}) :
                               LET waiting == {w \in s.parked : w.epoch = m.epoch}
                               IN  SetMem(d, [t EXCEPT !.parked = @ \ waiting, !.todo = @ \cup waiting, !.due = TRUE])
    BY DEF DeliverAnnounce
  <1> DEFINE waiting == {w \in s.parked : w.epoch = m.epoch}
  <1>2. PICK t \in ApplyAnnounces(s, {m}) :
               SetMem(d, [t EXCEPT !.parked = @ \ waiting, !.todo = @ \cup waiting, !.due = TRUE])
    BY <1>1
  <1> DEFINE u == [t EXCEPT !.parked = @ \ waiting, !.todo = @ \cup waiting, !.due = TRUE]
  <1>3. s \in MemStates /\ Sound(s, keyEpoch, Published)
    BY DEF IInv, TypeOK, MemOK
  <1>4. {m} \in SUBSET Messages /\ \A n \in {m} : Valid(n) => Honest(n, keyEpoch, Published)
    BY DEF IInv, TypeOK, SentOK
  <1>5. t \in MemStates /\ t.held = s.held /\ t.retain = s.retain /\ Sound(t, keyEpoch, Published)
    BY <1>3, <1>4, AppliedType, SoundApplied
  <1>6. waiting \subseteq Wraps
    BY <1>3 DEF MemStates
  <1> HIDE DEF waiting
  <1>7. u \in MemStates /\ u.held = t.held /\ u.retain = t.retain /\ u.anchor = t.anchor
    BY <1>5, <1>6 DEF MemStates
  <1>8. mem' = [mem EXCEPT ![d] = u] /\ disk' = disk
    BY <1>2 DEF SetMem, DeliverAnnounce
  <1> HIDE DEF u, s
  <1>9. Sound(u, keyEpoch, Published)
    BY <1>5, <1>7 DEF Sound
  <1>10. RestOK' /\ HonestStep
    BY Spending, EventNames DEF DeliverAnnounce, RestOK, HonestStep, IInv, TypeOK
  <1>11. u.held = mem[d].held /\ \A k \in u.retain \ mem[d].retain : IsOwner(d) /\ keyEpoch'[k] # 0
    BY <1>5, <1>7 DEF s
  <1>12. IInv' /\ Kept
    BY <1>7, <1>8, <1>9, <1>10, <1>11, StepKeeps
  <1> QED BY <1>12 DEF Still, DeliverAnnounce, Published

LEMMA DeliverRequestKeeps ==
    ASSUME IInv, NEW d \in Devices, DeliverRequest(d)
    PROVE  IInv' /\ Still
  <1>1. RequestsIn(sent) \subseteq Requests
    BY MessageTypes DEF RequestsIn, IInv, TypeOK
  <1>2. jobs' \subseteq JobStates
    BY <1>1, JobType DEF DeliverRequest, IInv, TypeOK
  <1>3. RestOK' /\ HonestStep
    BY <1>2, Spending, EventNames DEF DeliverRequest, RestOK, HonestStep, IInv, TypeOK
  <1>4. IInv' /\ Kept
    BY <1>3, QuietKeeps DEF DeliverRequest
  <1> QED BY <1>4 DEF Still, DeliverRequest, Published

LEMMA RotateMintKeeps ==
    ASSUME IInv, NEW d \in Devices, RotateMint(d)
    PROVE  IInv' /\ Mints
  <1> DEFINE s == mem[d]
  <1>0. PICK read \in Resends : \E t \in ApplyAnnounces(s, read) :
            /\ Resent(read)
            /\ \E e \in Epochs : Mint(d, e)
            /\ Keep(d, s, t, t.anchor # s.anchor)
    BY DEF RotateMint
  <1>1. PICK t \in ApplyAnnounces(s, read), e \in Epochs :
            Resent(read) /\ Mint(d, e) /\ Keep(d, s, t, t.anchor # s.anchor)
    BY <1>0
  <1>2. s \in MemStates /\ Sound(s, keyEpoch, Published)
    BY DEF IInv, TypeOK, MemOK
  <1>3. t \in MemStates /\ t.retain = s.retain /\ t.held = s.held /\ Sound(t, keyEpoch, Published) /\ course' \in CourseStates
    BY <1>1, <1>2, ResendsHonest, AppliedType, SoundApplied
  <1>4. PICK k \in Keys : /\ keyEpoch[k] = 0
                          /\ keyEpoch' = [keyEpoch EXCEPT ![k] = e]
                          /\ entitled' = [entitled EXCEPT ![k] = access]
                          /\ rot' = [rot EXCEPT ![d] = [phase |-> "minted", key |-> k, ts |-> clock]]
    BY <1>1 DEF Mint
  <1>5. e \in 0..MaxEpoch /\ e # 0
    BY EpochKeysAssumption DEF Epochs
  <1>6. RestOK'
    BY <1>3, <1>4, <1>5 DEF RotateMint, RestOK, IInv, TypeOK
  <1>7. HonestStep
    BY <1>4, <1>5 DEF RotateMint, HonestStep, IInv, TypeOK
  <1>8. mem' = [mem EXCEPT ![d] = t] /\ (disk' = disk \/ disk' = [disk EXCEPT ![d] = Persisted(t)])
    BY <1>1 DEF Keep, SetMem, Persist
  <1>9. \A c \in t.retain \ mem[d].retain : IsOwner(d) /\ keyEpoch'[c] # 0
    BY <1>3
  <1>10. IInv' /\ Kept
    BY <1>3, <1>6, <1>7, <1>8, <1>9, StepKeeps
  <1> QED BY <1>4, <1>10 DEF Mints, RotateMint, Published

\* an owner's announce of a minted key is honest once it is sent
LEMMA AnnounceHonest ==
    ASSUME IInv, NEW d \in Devices, IsOwner(d), NEW k \in Keys, keyEpoch[k] # 0,
           NEW ts \in Nat
    PROVE  /\ Announce(d, k, ts) \in Messages
           /\ Valid(Announce(d, k, ts))
           /\ \A P : k \in P => Honest(Announce(d, k, ts), keyEpoch, P)
  <1>1. keyEpoch[k] \in Epochs
    BY EpochKeysAssumption DEF IInv, TypeOK, Epochs
  <1> QED BY <1>1 DEF Announce, Messages, Announces, Valid, Honest, IsOwner

LEMMA RotatePublishKeeps ==
    ASSUME IInv, NEW d \in Devices, RotatePublish(d)
    PROVE  IInv' /\ AnnouncesOne
  <1> DEFINE m == Announce(d, rot[d].key, clock)
  <1>1. IsOwner(d) /\ rot[d].key \in Keys /\ keyEpoch[rot[d].key] # 0 /\ clock \in Nat
    BY DEF RotatePublish, IInv, RotOK, TypeOK
  <1>2. m \in Messages /\ Valid(m) /\ m.key = rot[d].key
        /\ \A P : rot[d].key \in P => Honest(m, keyEpoch, P)
    BY <1>1, AnnounceHonest DEF Announce
  <1> HIDE DEF m
  <1>3. /\ sent' = sent \cup {m} /\ sent' \subseteq Messages /\ store' \subseteq sent'
        /\ course' \in CourseStates
    BY <1>2, PublishType DEF RotatePublish, IInv, m
  <1>4. rot[d].key \in Published'
    BY <1>2, <1>3 DEF Published, Valid
  <1>5. RestOK'
    BY <1>1, <1>3 DEF RotatePublish, RestOK, IInv, TypeOK
  <1>6. \A c \in Devices : rot'[c] = rot[c] \/
           (c = d /\ rot'[c].phase = "sent" /\ rot'[c].key = rot[d].key)
    BY DEF RotatePublish, IInv, TypeOK
  <1>7. HonestStep
    BY <1>1, <1>2, <1>3, <1>4, <1>6 DEF RotatePublish, HonestStep
  <1>8. IInv' /\ Kept
    BY <1>5, <1>7, QuietKeeps DEF RotatePublish
  <1>9. Published' = Published \cup {rot[d].key}
    BY <1>2, <1>3, PublishedGrows
  <1> QED BY <1>1, <1>8, <1>9 DEF AnnouncesOne, RotatePublish

LEMMA RotateAdoptKeeps ==
    ASSUME IInv, NEW d \in Devices, RotateAdopt(d)
    PROVE  IInv' /\ (Still \/ \E h : Gains(d, h))
  <1> DEFINE k == rot[d].key
             m == Announce(d, k, rot[d].ts)
             h == [key |-> k, mat |-> k, epoch |-> keyEpoch[k]]
             w == [type |-> "wrap", req |-> Self, key |-> k, epoch |-> keyEpoch[k], mat |-> k]
  <1>1. IsOwner(d) /\ k \in Keys /\ keyEpoch[k] \in Epochs /\ k \in Published /\ rot[d].ts \in Nat
    BY EpochKeysAssumption DEF RotateAdopt, IInv, RotOK, TypeOK, Epochs
  <1>2. PICK a \in ApplyAnnounces(mem[d], {m}) :
            /\ SetMem(d, [Adopt(a, h) EXCEPT !.retain = @ \cup {k}])
            /\ Persist(d, [Adopt(a, h) EXCEPT !.retain = @ \cup {k}])
    BY DEF RotateAdopt
  <1> DEFINE b == Adopt(a, h)
             u == [b EXCEPT !.retain = @ \cup {k}]
  <1>3. {m} \in SUBSET Messages /\ \A n \in {m} : Valid(n) => Honest(n, keyEpoch, Published)
    BY <1>1, AnnounceHonest DEF Epochs
  <1>4. mem[d] \in MemStates /\ Sound(mem[d], keyEpoch, Published)
    BY DEF IInv, TypeOK, MemOK
  <1>5. a \in MemStates /\ a.retain = mem[d].retain /\ a.held = mem[d].held /\ Sound(a, keyEpoch, Published)
    BY <1>3, <1>4, AppliedType, SoundApplied
  <1>6. b \in MemStates /\ b.held = a.held \cup {h} /\ b.anchor = a.anchor /\ b.retain = a.retain
    BY <1>1, <1>5, AdoptType
  <1>7. mem' = [mem EXCEPT ![d] = u] /\ disk' = [disk EXCEPT ![d] = Persisted(u)]
    BY <1>2 DEF SetMem, Persist
  <1>8. w \in Messages /\ ~Valid(w)
    BY <1>1 DEF Messages, Wraps, Valid
  <1>9. /\ sent' = sent \cup {w} /\ sent' \subseteq Messages /\ store' \subseteq sent'
        /\ course' \in CourseStates
    BY <1>8, PublishType DEF RotateAdopt, IInv
  <1> HIDE DEF b, m, w
  <1>10. /\ u \in MemStates /\ u.held = b.held /\ u.anchor = b.anchor
         /\ u.retain = b.retain \cup {k}
    BY <1>1, <1>6 DEF MemStates
  <1>11. h.mat = h.key /\ h.epoch = keyEpoch[h.key] /\ h.key \in Published
    BY <1>1
  <1> HIDE DEF u, h
  <1>12. Sound(u, keyEpoch, Published)
    BY <1>5, <1>6, <1>10, <1>11 DEF Sound
  <1>13. RestOK'
    BY <1>9 DEF RotateAdopt, NoRot, RestOK, IInv, TypeOK
  <1>14. \A c \in Devices : rot'[c] = rot[c] \/ rot'[c].phase = "none"
    BY DEF RotateAdopt, NoRot, IInv, TypeOK
  <1>15. HonestStep
    BY <1>8, <1>9, <1>14 DEF RotateAdopt, HonestStep
  <1>16. \A c \in u.retain \ mem[d].retain : IsOwner(d) /\ keyEpoch'[c] # 0
    BY <1>1, <1>5, <1>6, <1>10 DEF RotateAdopt, Epochs
  <1>17. /\ IInv'
         /\ \A c \in Devices \ {d} : mem'[c] = mem[c] /\ disk'[c] = disk[c]
         /\ mem'[d].held = u.held /\ disk'[d].held = u.held
    BY <1>7, <1>10, <1>12, <1>13, <1>15, <1>16, StepKeeps
  <1>18. u.held = mem[d].held \cup {h}
    BY <1>4, <1>5, <1>6, <1>10
  <1>19. disk[d].held = mem[d].held
    BY DEF IInv, SameHeld
  <1>20. Published' = Published
    BY <1>8, <1>9, PublishedGrows
  <1>21. Gains(d, h)
    BY <1>1, <1>17, <1>18, <1>19, <1>20 DEF Gains, RotateAdopt, h
  <1> QED BY <1>17, <1>21

LEMMA RetainKeeps ==
    ASSUME IInv, NEW d \in Devices, Retain(d)
    PROVE  IInv' /\ (Still \/ AnnouncesOne)
  <1>1. mem[d] \in MemStates /\ Sound(mem[d], keyEpoch, Published)
    BY DEF IInv, TypeOK, MemOK
  <1>2. PICK k \in mem[d].retain :
            \/ SetMem(d, [mem[d] EXCEPT !.retain = @ \ {k}]) /\ UNCHANGED <<clock, sent, store, course>>
            \/ Publish(Announce(d, k, clock)) /\ clock' = clock + 1 /\ UNCHANGED mem
    BY DEF Retain
  <1>3. CASE SetMem(d, [mem[d] EXCEPT !.retain = @ \ {k}]) /\ UNCHANGED <<clock, sent, store, course>>
    <2> DEFINE u == [mem[d] EXCEPT !.retain = @ \ {k}]
    <2>1. u \in MemStates /\ u.held = mem[d].held /\ u.anchor = mem[d].anchor /\ u.retain \subseteq mem[d].retain
      BY <1>1 DEF MemStates
    <2>2. mem' = [mem EXCEPT ![d] = u] /\ disk' = disk
      BY <1>3 DEF SetMem, Retain
    <2> HIDE DEF u
    <2>3. Sound(u, keyEpoch, Published)
      BY <1>1, <2>1 DEF Sound
    <2>4. RestOK' /\ HonestStep
      BY <1>3 DEF Retain, RestOK, HonestStep, IInv, TypeOK
    <2>5. IInv' /\ Kept
      BY <2>1, <2>2, <2>3, <2>4, StepKeeps
    <2> QED BY <1>3, <2>5 DEF Still, Retain, Published
  <1>4. CASE Publish(Announce(d, k, clock)) /\ clock' = clock + 1 /\ UNCHANGED mem
    <2> DEFINE m == Announce(d, k, clock)
    <2>1. IsOwner(d) /\ k \in Keys /\ keyEpoch[k] # 0 /\ clock \in Nat
      BY <1>1 DEF IInv, RetainOK, TypeOK, MemStates
    <2>2. m \in Messages /\ Valid(m) /\ m.key = k /\ \A P : k \in P => Honest(m, keyEpoch, P)
      BY <2>1, AnnounceHonest DEF Announce
    <2> HIDE DEF m
    <2>3. /\ sent' = sent \cup {m} /\ sent' \subseteq Messages /\ store' \subseteq sent'
          /\ course' \in CourseStates
      BY <1>4, <2>2, PublishType DEF IInv, m
    <2>4. k \in Published'
      BY <2>2, <2>3 DEF Published, Valid
    <2>5. RestOK'
      BY <1>4, <2>1, <2>3 DEF Retain, RestOK, IInv, TypeOK
    <2>6. HonestStep
      BY <2>2, <2>3, <2>4 DEF Retain, HonestStep
    <2>7. IInv' /\ Kept
      BY <1>4, <2>5, <2>6, QuietKeeps DEF Retain
    <2>8. Published' = Published \cup {k}
      BY <2>2, <2>3, PublishedGrows
    <2> QED BY <2>1, <2>7, <2>8 DEF AnnouncesOne, Retain
  <1> QED BY <1>2, <1>3, <1>4

LEMMA SendKeeps ==
    ASSUME IInv, NEW d \in Devices, Send(d, mem[d])
    PROVE  IInv' /\ Still
  <1> DEFINE s == mem[d]
             T(r) == [s EXCEPT !.due = FALSE, !.last = r, !.own = @ \cup {r}, !.pending = @ \cup {r}]
             Q(r, e) == [type |-> "request", id |-> r, dev |-> d, from |-> e, ts |-> clock]
  <1>1. PICK r \in RequestIds, e \in Wanted(s) :
            /\ \A f \in Wanted(s) : e <= f
            /\ SetMem(d, T(r)) /\ Persist(d, T(r)) /\ Publish(Q(r, e))
    BY DEF Send
  <1>2. s \in MemStates /\ Sound(s, keyEpoch, Published)
    BY DEF IInv, TypeOK, MemOK
  <1>3. e \in Epochs
    BY EpochKeysAssumption DEF Wanted, Missing, Announced, Epochs
  <1>4. Q(r, e) \in Messages /\ ~Valid(Q(r, e))
    BY <1>3 DEF Messages, Requests, Valid, IInv, TypeOK
  <1>5. mem' = [mem EXCEPT ![d] = T(r)] /\ disk' = [disk EXCEPT ![d] = Persisted(T(r))]
    BY <1>1 DEF SetMem, Persist
  <1>6. T(r) \in MemStates /\ T(r).held = s.held /\ T(r).anchor = s.anchor /\ T(r).retain = s.retain
    BY <1>2 DEF MemStates
  <1> HIDE DEF T, Q, s
  <1>7. /\ sent' = sent \cup {Q(r, e)} /\ sent' \subseteq Messages /\ store' \subseteq sent'
        /\ course' \in CourseStates
    BY <1>1, <1>4, PublishType DEF IInv
  <1>8. Sound(T(r), keyEpoch, Published)
    BY <1>2, <1>6 DEF Sound
  <1>9. RestOK'
    BY <1>7 DEF Send, RestOK, IInv, TypeOK
  <1>10. HonestStep
    BY <1>4, <1>7 DEF Send, HonestStep
  <1>11. T(r).held = mem[d].held /\ \A k \in T(r).retain \ mem[d].retain : IsOwner(d) /\ keyEpoch'[k] # 0
    BY <1>6 DEF s
  <1>12. IInv' /\ Kept
    BY <1>5, <1>6, <1>8, <1>9, <1>10, <1>11, StepKeeps
  <1>13. Published' = Published
    BY <1>4, <1>7, PublishedGrows
  <1> QED BY <1>12, <1>13 DEF Still, Send

LEMMA SkipKeeps ==
    ASSUME IInv, NEW d \in Devices, SkipRequest(d)
    PROVE  IInv' /\ Still
  <1> DEFINE u == [mem[d] EXCEPT !.due = FALSE]
  <1>1. mem[d] \in MemStates /\ Sound(mem[d], keyEpoch, Published)
    BY DEF IInv, TypeOK, MemOK
  <1>2. u \in MemStates /\ u.held = mem[d].held /\ u.anchor = mem[d].anchor /\ u.retain = mem[d].retain
    BY <1>1 DEF MemStates
  <1>3. mem' = [mem EXCEPT ![d] = u] /\ disk' = disk
    BY DEF SkipRequest, SetMem
  <1> HIDE DEF u
  <1>4. Sound(u, keyEpoch, Published)
    BY <1>1, <1>2 DEF Sound
  <1>5. RestOK' /\ HonestStep
    BY DEF SkipRequest, RestOK, HonestStep, IInv, TypeOK
  <1>6. IInv' /\ Kept
    BY <1>2, <1>3, <1>4, <1>5, StepKeeps
  <1> QED BY <1>6 DEF Still, SkipRequest, Published

LEMMA AnswerCheckKeeps ==
    ASSUME IInv, NEW j \in jobs, AnswerCheck(j)
    PROVE  IInv' /\ Still
  <1> DEFINE s == mem[j.dev]
             admit == [j EXCEPT !.phase = "wrapping", !.known = HeldKeys(s),
                                !.detached = \A k \in Keys : <<j.req.id, k>> \notin s.seen]
             only == [admit EXCEPT !.only = TRUE]
             u == [s EXCEPT !.grants = @ \cup {Requester(j)}]
  <1>1. j \in JobStates /\ j.dev \in Devices /\ j.req \in Requests
    BY DEF IInv, TypeOK, JobStates
  <1>2. s \in MemStates /\ Sound(s, keyEpoch, Published)
    BY <1>1 DEF IInv, TypeOK, MemOK
  <1>3. Requester(j) \in Accounts
    BY <1>1, EpochKeysAssumption DEF Requester, Requests
  <1>4. admit \in JobStates /\ only \in JobStates
    <2>1. HeldKeys(s) \subseteq Keys
      BY <1>2 DEF HeldKeys, MemStates, Holdings
    <2>2. admit \in JobStates
      BY <1>1, <2>1 DEF JobStates
    <2> HIDE DEF admit
    <2> QED BY <2>2 DEF JobStates
  <1>5. /\ jobs' \subseteq jobs \cup {admit, only}
        /\ course' = course \/ (Spend("rpc"))
        /\ mem' = mem \/ mem' = [mem EXCEPT ![j.dev] = u]
    <2> DEFINE A == /\ \/ jobs' = (jobs \ {j}) \cup {admit} /\ UNCHANGED course
                       \/ /\ Spend("rpc")
                          /\ jobs' = (jobs \ {j}) \cup {only}
                    /\ mem' = [mem EXCEPT ![j.dev] = u]
               B == jobs' = jobs \ {j} /\ UNCHANGED <<mem, course>>
               C == Spend("rpc") /\ jobs' = jobs \ {j} /\ UNCHANGED mem
    <2>1. A \/ B \/ C
      BY DEF AnswerCheck, SetMem
    <2> HIDE DEF admit, only, u
    <2> QED BY <2>1
  <1>6. u \in MemStates /\ u.held = s.held /\ u.anchor = s.anchor /\ u.retain = s.retain
    BY <1>2, <1>3 DEF MemStates
  <1> HIDE DEF admit, only, u
  <1>7. course' \in CourseStates
    <2>1. course' = course \/ Spend("rpc")
      BY <1>5
    <2> QED BY <2>1, Spending, EventNames DEF IInv, TypeOK
  <1>8. RestOK' /\ HonestStep
    BY <1>4, <1>5, <1>7 DEF AnswerCheck, RestOK, HonestStep, IInv, TypeOK
  <1>9. CASE mem' = mem
    <2>1. IInv' /\ Kept
      BY <1>8, <1>9, QuietKeeps DEF AnswerCheck
    <2> QED BY <2>1 DEF Still, AnswerCheck, Published
  <1>10. CASE mem' = [mem EXCEPT ![j.dev] = u]
    <2>1. Sound(u, keyEpoch, Published)
      BY <1>2, <1>6 DEF Sound
    <2>2. disk' = disk
      BY DEF AnswerCheck
    <2>3. IInv' /\ Kept
      BY <1>1, <1>6, <1>8, <1>10, <2>1, <2>2, StepKeeps
    <2> QED BY <2>3 DEF Still, AnswerCheck, Published
  <1> QED BY <1>5, <1>9, <1>10

LEMMA AnswerWrapKeeps ==
    ASSUME IInv, NEW j \in jobs, AnswerWrap(j)
    PROVE  IInv' /\ Still
  <1> DEFINE s == mem[j.dev]
             W(h) == [type |-> "wrap", req |-> j.req.id, key |-> h.key, epoch |-> h.epoch, mat |-> h.mat]
             U(h) == [s EXCEPT !.seen = @ \cup {<<j.req.id, h.key>>}]
             J(h) == [j EXCEPT !.done = @ \cup {h.key}]
  <1>1. j \in JobStates /\ j.dev \in Devices /\ j.req \in Requests /\ j.req.id \in RequestIds
    BY DEF IInv, TypeOK, JobStates, Requests
  <1>2. s \in MemStates /\ Sound(s, keyEpoch, Published)
    BY <1>1 DEF IInv, TypeOK, MemOK
  <1>3. PICK h \in Left(s, j) : Publish(W(h)) /\ SetMem(j.dev, U(h)) /\ jobs' = (jobs \ {j}) \cup {J(h)}
    BY DEF AnswerWrap
  <1>4. h \in s.held /\ h.key \in Keys /\ h.mat \in Keys \cup {Junk} /\ h.epoch \in Epochs
    BY <1>2 DEF Left, MemStates, Holdings
  <1>5. W(h) \in Messages /\ ~Valid(W(h))
    BY <1>1, <1>4 DEF Messages, Wraps, Valid
  <1>6. U(h) \in MemStates /\ U(h).held = s.held /\ U(h).anchor = s.anchor /\ U(h).retain = s.retain
    BY <1>1, <1>2, <1>4 DEF MemStates
  <1>7. J(h) \in JobStates
    BY <1>1, <1>4 DEF JobStates
  <1>8. mem' = [mem EXCEPT ![j.dev] = U(h)] /\ disk' = disk
    BY <1>3 DEF SetMem, AnswerWrap
  <1> HIDE DEF W, U, J
  <1>9. /\ sent' = sent \cup {W(h)} /\ sent' \subseteq Messages /\ store' \subseteq sent'
        /\ course' \in CourseStates
    BY <1>3, <1>5, PublishType DEF IInv
  <1>10. Sound(U(h), keyEpoch, Published)
    BY <1>2, <1>6 DEF Sound
  <1>11. RestOK'
    BY <1>3, <1>7, <1>9 DEF AnswerWrap, RestOK, IInv, TypeOK
  <1>12. HonestStep
    BY <1>5, <1>9 DEF AnswerWrap, HonestStep
  <1>13. IInv' /\ Kept
    BY <1>1, <1>6, <1>8, <1>10, <1>11, <1>12, StepKeeps
  <1>14. Published' = Published
    BY <1>5, <1>9, PublishedGrows
  <1> QED BY <1>13, <1>14 DEF Still, AnswerWrap

LEMMA RestartKeeps ==
    ASSUME IInv, NEW d \in Devices, Restart(d)
    PROVE  IInv' /\ Still
  <1> DEFINE u == Loaded(disk[d])
  <1>1. disk[d] \in DiskStates /\ Sound(disk[d], keyEpoch, Published)
    BY DEF IInv, TypeOK, DiskOK
  <1>2. u \in MemStates /\ u.held = disk[d].held /\ u.anchor = disk[d].anchor /\ u.retain = {}
    BY <1>1, StateTypes DEF Loaded, Fresh
  <1>0. u.held = mem[d].held
    BY <1>2 DEF IInv, SameHeld
  <1>3. mem' = [mem EXCEPT ![d] = u] /\ disk' = disk
    BY DEF Restart, SetMem
  <1> HIDE DEF u
  <1>4. Sound(u, keyEpoch, Published)
    BY <1>1, <1>2 DEF Sound
  <1>5. RestOK'
    BY Spending, EventNames DEF Restart, Idle, NoRot, RestOK, IInv, TypeOK
  <1>6. \A c \in Devices : rot'[c] = rot[c] \/ rot'[c].phase = "none"
    BY DEF Restart, NoRot, IInv, TypeOK
  <1>7. HonestStep
    BY <1>6 DEF Restart, HonestStep
  <1>8. IInv' /\ Kept
    BY <1>0, <1>2, <1>3, <1>4, <1>5, <1>7, StepKeeps
  <1> QED BY <1>8 DEF Still, Restart, Published

LEMMA GarbageKeeps ==
    ASSUME IInv, Garbage
    PROVE  IInv' /\ Still
  <1> DEFINE Wrap(k, q) == [type |-> "wrap", req |-> q.id, key |-> k, epoch |-> keyEpoch[k], mat |-> Junk]
             Ann(k, d)  == [type |-> "announce", key |-> k, hash |-> Junk, epoch |-> keyEpoch[k],
                            by |-> d, ts |-> 0]
  <1>0. PICK k \in Keys :
            /\ keyEpoch[k] # 0
            /\ \E m \in {Wrap(k, q) : q \in RequestsIn(sent)} \cup {Ann(k, d) : d \in {e \in Devices : ~IsOwner(e)}} :
                   sent' = sent \cup {m} /\ store' = store \cup {m}
    BY DEF Garbage
  <1>1. PICK m \in {Wrap(k, q) : q \in RequestsIn(sent)} \cup {Ann(k, d) : d \in {e \in Devices : ~IsOwner(e)}} :
            sent' = sent \cup {m} /\ store' = store \cup {m}
    BY <1>0
  <1>2. keyEpoch[k] \in Epochs
    BY <1>0, EpochKeysAssumption DEF IInv, TypeOK, Epochs
  <1>3. RequestsIn(sent) \subseteq Requests
    BY MessageTypes DEF RequestsIn, IInv, TypeOK
  <1>4. m \in Messages /\ ~Valid(m)
    BY <1>1, <1>2, <1>3 DEF Messages, Wraps, Announces, Requests, Valid
  <1>5. RestOK' /\ HonestStep
    BY <1>1, <1>4, Spending, EventNames DEF Garbage, RestOK, HonestStep, IInv, TypeOK
  <1>6. IInv' /\ Kept
    BY <1>5, QuietKeeps DEF Garbage
  <1>7. Published' = Published
    BY <1>1, <1>4, PublishedGrows
  <1> QED BY <1>6, <1>7 DEF Still, Garbage

LEMMA GateKeeps ==
    ASSUME IInv, NEW x \in Accounts, Cut(x) \/ Admit(x)
    PROVE  IInv' /\ Still
  <1>1. RestOK' /\ HonestStep
    <2>1. course' \in CourseStates
      BY Spending, EventNames DEF Cut, Admit, IInv, TypeOK
    <2>2. access' \subseteq Accounts /\ entitled' \in [Keys -> SUBSET Accounts]
      <3>1. CASE Cut(x)
        BY <3>1 DEF Cut, IInv, TypeOK
      <3>2. CASE Admit(x)
        BY <3>2 DEF Admit, IInv, TypeOK
      <3> QED BY <3>1, <3>2
    <2>3. UNCHANGED <<keyEpoch, clock, young, sent, store, ens, rot, jobs>>
      BY DEF Cut, Admit
    <2> QED BY <2>1, <2>2, <2>3 DEF RestOK, HonestStep, IInv, TypeOK
  <1>2. IInv' /\ Kept
    BY <1>1, QuietKeeps DEF Cut, Admit
  <1> QED BY <1>2 DEF Still, Cut, Admit, Published

LEMMA OtherKeeps ==
    ASSUME IInv, Age \/ (\E j \in jobs : AnswerDone(j)) \/ UNCHANGED vars
    PROVE  IInv' /\ Still
  <1>1. CASE Age
    <2>0. young' \in BOOLEAN
      BY <1>1, Zenon DEF Age
    <2>1. RestOK' /\ HonestStep
      BY <1>1, <2>0, Spending, EventNames DEF Age, RestOK, HonestStep, IInv, TypeOK
    <2>2. IInv' /\ Kept
      BY <1>1, <2>1, QuietKeeps DEF Age
    <2> QED BY <1>1, <2>2 DEF Still, Age, Published
  <1>2. CASE \E j \in jobs : AnswerDone(j)
    <2>1. RestOK' /\ HonestStep
      BY <1>2 DEF AnswerDone, RestOK, HonestStep, IInv, TypeOK
    <2>2. IInv' /\ Kept
      BY <1>2, <2>1, QuietKeeps DEF AnswerDone
    <2> QED BY <1>2, <2>2 DEF Still, AnswerDone, Published
  <1>3. CASE UNCHANGED vars
    <2>1. RestOK' /\ HonestStep
      BY <1>3 DEF vars, RestOK, HonestStep, IInv, TypeOK
    <2>2. IInv' /\ Kept
      BY <1>3, <2>1, QuietKeeps DEF vars
    <2> QED BY <1>3, <2>2 DEF Still, vars, Published
  <1> QED BY <1>1, <1>2, <1>3

LEMMA InitHolds == Init => IInv
  <1> SUFFICES ASSUME Init PROVE IInv
    OBVIOUS
  <1>1. Fresh \in MemStates /\ Persisted(Fresh) \in DiskStates
    BY StateTypes
  <1>2. TypeOK
    BY <1>1, EpochKeysAssumption DEF Init, TypeOK, Idle, NoRot, Events
  <1>3. SentOK /\ RotOK
    BY DEF Init, SentOK, RotOK, NoRot
  <1>4. MemOK /\ DiskOK /\ RetainOK /\ SameHeld
    BY DEF Init, SameHeld, MemOK, DiskOK, RetainOK, Sound, Fresh, Persisted, NoAnchors
  <1> QED BY <1>2, <1>3, <1>4 DEF IInv

\* every step keeps the invariant and is, for the keys, one of four
LEMMA NextKeeps ==
    ASSUME IInv, [Next]_vars
    PROVE  IInv' /\ (Still \/ Mints \/ AnnouncesOne \/ \E d \in Devices : \E h : Gains(d, h))
  <1> DEFINE Moves == Still \/ Mints \/ AnnouncesOne \/ \E d \in Devices : \E h : Gains(d, h)
  <1>1. ASSUME NEW d \in Devices, Ensure(d) \/ TakeWrap(d) \/ Rotate(d) \/ Retain(d) PROVE IInv' /\ Moves
    BY <1>1, EnsureReadKeeps, EnsureTailKeeps, TakeWrapKeeps, RotateMintKeeps, RotatePublishKeeps,
       RotateAdoptKeeps, RetainKeeps DEF Ensure, Rotate
  <1>2. ASSUME NEW d \in Devices, Deliver(d) \/ Request(d) \/ Restart(d) PROVE IInv' /\ Moves
    BY <1>2, DeliverAnnounceKeeps, DeliverWrapKeeps, DeliverRequestKeeps, RestartKeeps, SendKeeps, SkipKeeps
       DEF Deliver, Request, SendRequest, RetryRequest
  <1>3. ASSUME NEW j \in jobs, Answer(j) PROVE IInv' /\ Moves
    BY <1>3, AnswerCheckKeeps, AnswerWrapKeeps, OtherKeeps DEF Answer
  <1>4. ASSUME NEW x \in Accounts, Cut(x) \/ Admit(x) PROVE IInv' /\ Moves
    BY <1>4, GateKeeps
  <1>5. CASE Age \/ Garbage \/ UNCHANGED vars
    BY <1>5, OtherKeeps, GarbageKeeps
  <1>6. CASE \E d \in course.devices : Ensure(d) \/ TakeWrap(d) \/ Rotate(d) \/ Retain(d)
                                       \/ Deliver(d) \/ Request(d) \/ Restart(d)
    <2>1. course.devices \subseteq Devices
      BY DEF IInv, TypeOK, CourseStates
    <2> QED BY <1>1, <1>2, <1>6, <2>1
  <1>7. IInv' /\ Moves
    BY <1>3, <1>4, <1>5, <1>6 DEF Next
  <1> QED BY <1>7

(***************************************************************************)
(* The theorems.                                                           *)
(***************************************************************************)
\* The inductive invariant holds in every reachable state.
THEOREM Invariance == Spec => []IInv
  <1>1. Init => IInv
    BY InitHolds
  <1>2. IInv /\ [Next]_vars => IInv'
    BY NextKeeps
  <1> QED BY <1>1, <1>2, PTL DEF Spec

\* Every variable keeps its type, for every number of devices, keys and requests.
THEOREM TypeCorrect == Spec => []TypeOK
  <1>1. IInv => TypeOK
    BY DEF IInv
  <1> QED BY <1>1, Invariance, PTL

\* No corrupted wrap, foreign announce, lost message, restart or delivery order ever puts
\* under a key id anything but the key the owner minted for it, in memory or on disk.
THEOREM HeldKeysGenuine == Spec => []KeyIntegrity
  <1>1. IInv => KeyIntegrity
    BY DEF IInv, MemOK, DiskOK, Sound, KeyIntegrity, Genuine
  <1> QED BY <1>1, Invariance, PTL

\* No step of any device, a restart included, loses an adopted key.
THEOREM AdoptedKeysStay == Spec => AdoptedStays
  <1> DEFINE Stays == \A d \in Devices : mem[d].held \subseteq mem'[d].held
  <1>1. IInv /\ [Next]_vars => [Stays]_vars
    <2> SUFFICES ASSUME IInv, [Next]_vars PROVE Stays
      OBVIOUS
    <2> QED BY NextKeeps DEF Still, Mints, AnnouncesOne, Kept, Gains
  <1> HIDE DEF Stays
  <1>2. Spec => [][Stays]_vars
    BY <1>1, Invariance, PTL DEF Spec
  <1> QED BY <1>2 DEF AdoptedStays, Stays

(***************************************************************************)
(* The protocol implements KeyDistribution.                                *)
(***************************************************************************)
Holds == [d \in Devices |-> disk[d].held]

LEMMA InitImplements == Init => Promise!Init
  <1> SUFFICES ASSUME Init PROVE Promise!Init
    OBVIOUS
  <1>1. keyEpoch = [k \in Keys |-> 0]
    BY DEF Init
  <1>2. Published = {}
    BY DEF Init, Published
  <1>3. Holds = [d \in Devices |-> {}]
    BY DEF Init, Holds, Persisted, Fresh
  <1> QED BY <1>1, <1>2, <1>3 DEF Promise!Init, Holds

LEMMA StepImplements ==
    ASSUME IInv, [Next]_vars
    PROVE  [Promise!Next]_(Promise!vars)
  <1>1. CASE Kept
    <2>1. Holds' = Holds
      BY <1>1 DEF Kept, Holds
    <2>2. CASE Still
      BY <2>1, <2>2 DEF Still, Promise!vars, Holds
    <2>3. CASE Mints
      <3>1. PICK k \in Keys, e \in 1..MaxEpoch : keyEpoch[k] = 0 /\ keyEpoch' = [keyEpoch EXCEPT ![k] = e]
        BY <2>3 DEF Mints, Epochs
      <3>2. Promise!Mint(k)
        BY <2>1, <2>3, <3>1 DEF Mints, Promise!Mint, Holds
      <3> QED BY <3>2 DEF Promise!Next
    <2>4. CASE AnnouncesOne
      <3>1. PICK k \in Keys : keyEpoch[k] # 0 /\ Published' = Published \cup {k}
        BY <2>4 DEF AnnouncesOne
      <3>2. Promise!Announce(k)
        BY <2>1, <2>4, <3>1 DEF AnnouncesOne, Promise!Announce, Holds
      <3> QED BY <3>2 DEF Promise!Next
    <2>5. CASE \E d \in Devices : \E h : Gains(d, h)
      BY <2>1, <2>5 DEF Gains, Promise!vars, Holds
    <2> QED BY <2>2, <2>3, <2>4, <2>5, NextKeeps
  <1>2. CASE \E d \in Devices : \E h : Gains(d, h)
    <2>1. PICK d \in Devices : \E h : Gains(d, h)
      BY <1>2
    <2>2. PICK h : Gains(d, h)
      BY <2>1
    <2>3. PICK k \in Keys : k \in Published /\ h = [key |-> k, mat |-> k, epoch |-> keyEpoch[k]]
      BY <2>2 DEF Gains
    <2>4. Holds' = [Holds EXCEPT ![d] = @ \cup {[key |-> k, mat |-> k, epoch |-> keyEpoch[k]]}]
      BY <2>2, <2>3 DEF Gains, Holds
    <2>5. Promise!Obtain(d, k)
      BY <2>2, <2>3, <2>4 DEF Gains, Promise!Obtain, Promise!Genuine, Holds
    <2> QED BY <2>5 DEF Promise!Next
  <1> QED BY <1>1, <1>2, NextKeeps DEF Still, Mints, AnnouncesOne

\* With messages lost, corrupted and reordered and devices restarting, what the devices
\* keep behaves as KeyDistribution promises.
THEOREM Implementation == Spec => Implements
  <1>1. IInv /\ [Next]_vars => [Promise!Next]_(Promise!vars)
    BY StepImplements
  <1> QED BY <1>1, InitImplements, Invariance, PTL DEF Spec, Implements, Promise!Spec

(***************************************************************************)
(* What a member is anchored to.  It publishes no announce, so each of its  *)
(* anchors is one that went over the stream, and a read of all the stream   *)
(* retains of an epoch compares it with the others.  (The owner's own       *)
(* announce is anchored under the local clock, and never was on the stream.) *)
(***************************************************************************)
FromStream(a) == \A e \in Epochs : a[e] # None => a[e] \in sent
MembersHeard  == \A d \in Devices : IsOwner(d) \/ (FromStream(mem[d].anchor) /\ FromStream(disk[d].anchor))

HeardInv == IInv /\ MembersHeard

\* a step that brings members no announce but from the stream or from their disk
Hears ==
    /\ sent \subseteq sent'
    /\ \A d \in Devices : IsOwner(d) \/
          \A e \in Epochs :
              /\ mem'[d].anchor[e] \in {mem[d].anchor[e], disk[d].anchor[e]} \cup sent
              /\ disk'[d].anchor[e] \in {disk[d].anchor[e], mem'[d].anchor[e]}

LEMMA AnchorsAfterFrom ==
    ASSUME NEW f, NEW batch, batch \subseteq sent, NEW e \in Epochs, NEW a \in AnchorsAfter(f, batch, e)
    PROVE  a \in {f[e]} \cup sent
  BY DEF AnchorsAfter, Oldest

LEMMA HearsKeeps ==
    ASSUME MembersHeard, Hears
    PROVE  MembersHeard'
  BY DEF MembersHeard, Hears, FromStream

LEMMA QuietHears ==
    ASSUME sent \subseteq sent', UNCHANGED <<mem, disk>>
    PROVE  Hears
  BY DEF Hears

\* one device's state changes, and perhaps what it has on disk
LEMMA StepHears ==
    ASSUME TypeOK, sent \subseteq sent', NEW d \in Devices, NEW t,
           mem' = [mem EXCEPT ![d] = t],
           disk' = disk \/ disk' = [disk EXCEPT ![d] = Persisted(t)],
           IsOwner(d) \/ \A e \in Epochs : t.anchor[e] \in {mem[d].anchor[e], disk[d].anchor[e]} \cup sent
    PROVE  Hears
  <1>1. \A c \in Devices : mem'[c] = IF c = d THEN t ELSE mem[c]
    BY DEF TypeOK
  <1>2. \A c \in Devices : disk'[c] = disk[c] \/ (c = d /\ disk'[c].anchor = mem'[c].anchor)
    BY DEF TypeOK, Persisted
  <1> QED BY <1>1, <1>2 DEF Hears

\* what a handled wrap leaves alone
LEMMA KeptHears ==
    ASSUME TypeOK, sent \subseteq sent', NEW d \in Devices, NEW t,
           mem' = [mem EXCEPT ![d] = t],
           disk' = disk \/ disk' = [disk EXCEPT ![d] = Persisted(t)],
           t.anchor = mem[d].anchor
    PROVE  Hears
  BY StepHears

LEMMA EnsureHears ==
    ASSUME IInv, NEW d \in Devices, Ensure(d)
    PROVE  Hears
  <1>1. CASE EnsureRead(d)
    <2> DEFINE U(read, t) ==
                 [t EXCEPT !.seen = @ \cup Covers({m \in read : m.type = "wrap"}),
                           !.todo = @ \cup {w \in {m \in read : m.type = "wrap"} :
                                               Mine(d, mem[d], w) /\ w.key \notin HeldKeys(mem[d])}]
    <2>1. PICK read \in Resends : \E t \in ApplyAnnounces(mem[d], read) :
              Keep(d, mem[d], U(read, t), t.anchor # mem[d].anchor)
      BY <1>1 DEF EnsureRead
    <2>2. PICK t \in ApplyAnnounces(mem[d], read) : Keep(d, mem[d], U(read, t), t.anchor # mem[d].anchor)
      BY <2>1
    <2>3. read \in SUBSET Messages /\ read \subseteq sent
      BY DEF Resends, IInv, TypeOK
    <2>4. mem[d] \in MemStates
      BY DEF IInv, TypeOK
    <2>5. t \in MemStates /\ \A e \in Epochs : t.anchor[e] \in {mem[d].anchor[e]} \cup sent
      BY <2>3, <2>4, AppliedType, AnchorsAfterFrom
    <2>6. U(read, t).anchor = t.anchor
      BY <2>5 DEF MemStates
    <2>7. /\ mem' = [mem EXCEPT ![d] = U(read, t)]
          /\ disk' = disk \/ disk' = [disk EXCEPT ![d] = Persisted(U(read, t))]
      BY <2>2 DEF Keep, SetMem, Persist
    <2> HIDE DEF U
    <2>8. \A e \in Epochs : U(read, t).anchor[e] \in {mem[d].anchor[e], disk[d].anchor[e]} \cup sent
      BY <2>5, <2>6
    <2>9. UNCHANGED sent
      BY <1>1 DEF EnsureRead
    <2> QED BY <2>7, <2>8, <2>9, StepHears DEF IInv
  <1>2. CASE EnsureTail(d)
    <2> DEFINE virgin == Announced(mem[d]) = {} /\ IsOwner(d) /\ mem[d].held = {}
               t == [mem[d] EXCEPT !.due = @ \/ virgin \/ Missing(mem[d]) # {}]
    <2>1. UNCHANGED mem \/ mem' = [mem EXCEPT ![d] = t]
      BY <1>2 DEF EnsureTail, SetMem
    <2>2. UNCHANGED <<sent, disk>>
      BY <1>2 DEF EnsureTail
    <2>3. t.anchor = mem[d].anchor
      BY DEF IInv, TypeOK, MemStates
    <2> HIDE DEF t
    <2> QED BY <2>1, <2>2, <2>3, QuietHears, KeptHears DEF IInv
  <1> QED BY <1>1, <1>2 DEF Ensure

LEMMA WrapHears ==
    ASSUME IInv, NEW d \in Devices, TakeWrap(d) \/ DeliverWrap(d)
    PROVE  Hears
  <1>1. mem[d] \in MemStates /\ UNCHANGED sent
    BY DEF IInv, TypeOK, TakeWrap, DeliverWrap
  <1>2. ASSUME NEW s \in MemStates, NEW w \in Wraps, s.anchor = mem[d].anchor,
               Keep(d, s, HandleWrap(d, s, w), Adopts(s, HandleWrap(d, s, w)))
        PROVE  Hears
    <2>1. HandleWrap(d, s, w).anchor = mem[d].anchor
      BY <1>2, HandleWrapType
    <2> QED BY <1>1, <1>2, <2>1, KeptHears DEF Keep, SetMem, Persist, IInv
  <1>3. CASE TakeWrap(d)
    <2>1. PICK w \in mem[d].todo :
              LET s == [mem[d] EXCEPT !.todo = @ \ {w}]
              IN  Keep(d, s, HandleWrap(d, s, w), Adopts(s, HandleWrap(d, s, w)))
      BY <1>3 DEF TakeWrap
    <2> DEFINE s == [mem[d] EXCEPT !.todo = @ \ {w}]
    <2>2. s \in MemStates /\ w \in Wraps /\ s.anchor = mem[d].anchor
      BY <1>1 DEF MemStates
    <2>3. Keep(d, s, HandleWrap(d, s, w), Adopts(s, HandleWrap(d, s, w)))
      BY <2>1
    <2> HIDE DEF s
    <2> QED BY <1>2, <2>2, <2>3
  <1>4. CASE DeliverWrap(d)
    <2>1. PICK w \in sent : /\ w.type = "wrap"
                            /\ Keep(d, mem[d], HandleWrap(d, mem[d], w), Adopts(mem[d], HandleWrap(d, mem[d], w)))
      BY <1>4 DEF DeliverWrap
    <2>2. w \in Wraps
      BY <2>1, MessageTypes DEF IInv, TypeOK
    <2> QED BY <1>1, <1>2, <2>1, <2>2
  <1> QED BY <1>3, <1>4

\* rotations and the retention check are the owner's
LEMMA RotateHears ==
    ASSUME IInv, NEW d \in Devices, Rotate(d) \/ Retain(d)
    PROVE  Hears
  <1>1. sent \subseteq sent'
    BY DEF Rotate, Retain, RotateMint, RotatePublish, RotateAdopt, Publish
  <1>2. CASE RotateMint(d)
    <2>1. PICK t : Keep(d, mem[d], t, t.anchor # mem[d].anchor)
      BY <1>2 DEF RotateMint
    <2> QED BY <1>1, <1>2, <2>1, StepHears DEF RotateMint, Keep, SetMem, Persist, IInv
  <1>3. CASE RotatePublish(d)
    BY <1>1, <1>3, QuietHears DEF RotatePublish
  <1>4. CASE RotateAdopt(d)
    <2>1. PICK t : SetMem(d, t) /\ Persist(d, t)
      BY <1>4 DEF RotateAdopt
    <2>2. IsOwner(d)
      BY <1>4 DEF RotateAdopt, IInv, RotOK
    <2> QED BY <1>1, <2>1, <2>2, StepHears DEF SetMem, Persist, IInv
  <1>5. CASE Retain(d)
    <2>1. PICK k \in mem[d].retain : SetMem(d, [mem[d] EXCEPT !.retain = @ \ {k}]) \/ UNCHANGED mem
      BY <1>5 DEF Retain
    <2> DEFINE t == [mem[d] EXCEPT !.retain = @ \ {k}]
    <2>2. t.anchor = mem[d].anchor
      BY DEF IInv, TypeOK, MemStates
    <2>3. mem' = [mem EXCEPT ![d] = t] \/ UNCHANGED mem
      BY <2>1 DEF SetMem
    <2> HIDE DEF t
    <2> QED BY <1>1, <1>5, <2>2, <2>3, KeptHears, QuietHears DEF Retain, IInv
  <1> QED BY <1>2, <1>3, <1>4, <1>5 DEF Rotate

LEMMA DeliverHears ==
    ASSUME IInv, NEW d \in Devices, DeliverAnnounce(d) \/ DeliverRequest(d)
    PROVE  Hears
  <1>1. CASE DeliverAnnounce(d)
    <2> DEFINE U(m, t) == [t EXCEPT !.parked = @ \ {w \in mem[d].parked : w.epoch = m.epoch},
                                    !.todo = @ \cup {w \in mem[d].parked : w.epoch = m.epoch}, !.due = TRUE]
    <2>1. PICK m \in sent : \E t \in ApplyAnnounces(mem[d], {m}) : SetMem(d, U(m, t))
      BY <1>1 DEF DeliverAnnounce
    <2>2. PICK t \in ApplyAnnounces(mem[d], {m}) : SetMem(d, U(m, t))
      BY <2>1
    <2>3. {m} \in SUBSET Messages /\ mem[d] \in MemStates
      BY DEF IInv, TypeOK
    <2>4. t \in MemStates /\ \A e \in Epochs : t.anchor[e] \in {mem[d].anchor[e]} \cup sent
      BY <2>3, AppliedType, AnchorsAfterFrom
    <2>5. U(m, t).anchor = t.anchor
      BY <2>4 DEF MemStates
    <2>6. mem' = [mem EXCEPT ![d] = U(m, t)] /\ UNCHANGED <<disk, sent>>
      BY <1>1, <2>2 DEF DeliverAnnounce, SetMem
    <2> HIDE DEF U
    <2>7. \A e \in Epochs : U(m, t).anchor[e] \in {mem[d].anchor[e], disk[d].anchor[e]} \cup sent
      BY <2>4, <2>5
    <2> QED BY <2>6, <2>7, StepHears DEF IInv
  <1>2. CASE DeliverRequest(d)
    BY <1>2, QuietHears DEF DeliverRequest
  <1> QED BY <1>1, <1>2

LEMMA RequestHears ==
    ASSUME IInv, NEW d \in Devices, Request(d)
    PROVE  Hears
  <1>1. CASE Send(d, mem[d])
    <2> DEFINE T(r) == [mem[d] EXCEPT !.due = FALSE, !.last = r, !.own = @ \cup {r}, !.pending = @ \cup {r}]
    <2>1. PICK r \in RequestIds : SetMem(d, T(r)) /\ Persist(d, T(r))
      BY <1>1 DEF Send
    <2>2. T(r).anchor = mem[d].anchor
      BY DEF IInv, TypeOK, MemStates
    <2>3. sent \subseteq sent'
      BY <1>1 DEF Send, Publish
    <2> HIDE DEF T
    <2> QED BY <2>1, <2>2, <2>3, KeptHears DEF SetMem, Persist, IInv
  <1>2. CASE SkipRequest(d)
    <2> DEFINE t == [mem[d] EXCEPT !.due = FALSE]
    <2>1. t.anchor = mem[d].anchor
      BY DEF IInv, TypeOK, MemStates
    <2>2. mem' = [mem EXCEPT ![d] = t] /\ UNCHANGED <<sent, disk>>
      BY <1>2 DEF SkipRequest, SetMem
    <2> HIDE DEF t
    <2> QED BY <2>1, <2>2, KeptHears DEF IInv
  <1> QED BY <1>1, <1>2 DEF Request, SendRequest, RetryRequest

LEMMA AnswerHears ==
    ASSUME IInv, NEW j \in jobs, Answer(j)
    PROVE  Hears
  <1>1. j.dev \in Devices /\ mem[j.dev] \in MemStates
    BY DEF IInv, TypeOK, JobStates
  <1>2. CASE AnswerCheck(j)
    <2> DEFINE t == [mem[j.dev] EXCEPT !.grants = @ \cup {Requester(j)}]
    <2>1. t.anchor = mem[j.dev].anchor
      BY <1>1 DEF MemStates
    <2>2. (mem' = [mem EXCEPT ![j.dev] = t] \/ UNCHANGED mem) /\ UNCHANGED <<sent, disk>>
      BY <1>2 DEF AnswerCheck, SetMem
    <2> HIDE DEF t
    <2> QED BY <1>1, <2>1, <2>2, KeptHears, QuietHears DEF IInv
  <1>3. CASE AnswerWrap(j)
    <2> DEFINE T(h) == [mem[j.dev] EXCEPT !.seen = @ \cup {<<j.req.id, h.key>>}]
    <2>1. PICK h \in Left(mem[j.dev], j) : SetMem(j.dev, T(h))
      BY <1>3 DEF AnswerWrap
    <2>2. T(h).anchor = mem[j.dev].anchor
      BY <1>1 DEF MemStates
    <2>3. sent \subseteq sent' /\ UNCHANGED disk
      BY <1>3 DEF AnswerWrap, Publish
    <2> HIDE DEF T
    <2> QED BY <1>1, <2>1, <2>2, <2>3, KeptHears DEF SetMem, IInv
  <1>4. CASE AnswerDone(j)
    BY <1>4, QuietHears DEF AnswerDone
  <1> QED BY <1>2, <1>3, <1>4 DEF Answer

LEMMA RestartHears ==
    ASSUME IInv, NEW d \in Devices, Restart(d)
    PROVE  Hears
  <1>1. Loaded(disk[d]).anchor = disk[d].anchor
    BY DEF Loaded, Fresh
  <1>2. mem' = [mem EXCEPT ![d] = Loaded(disk[d])] /\ UNCHANGED <<sent, disk>>
    BY DEF Restart, SetMem
  <1> QED BY <1>1, <1>2, StepHears DEF IInv

\* every step leaves members with announces of the stream
LEMMA NextHears ==
    ASSUME IInv, [Next]_vars
    PROVE  Hears
  <1>1. ASSUME NEW d \in Devices, Ensure(d) \/ TakeWrap(d) \/ Rotate(d) \/ Retain(d)
                                  \/ Deliver(d) \/ Request(d) \/ Restart(d)
        PROVE  Hears
    BY <1>1, EnsureHears, WrapHears, RotateHears, DeliverHears, RequestHears, RestartHears DEF Deliver
  <1>2. CASE \E x \in Accounts : Cut(x) \/ Admit(x)
    BY <1>2, QuietHears DEF Cut, Admit
  <1>3. CASE Age \/ Garbage \/ UNCHANGED vars
    BY <1>3, QuietHears DEF Age, Garbage, vars
  <1>4. CASE \E d \in course.devices : Ensure(d) \/ TakeWrap(d) \/ Rotate(d) \/ Retain(d)
                                       \/ Deliver(d) \/ Request(d) \/ Restart(d)
    <2>1. course.devices \subseteq Devices
      BY DEF IInv, TypeOK, CourseStates
    <2> QED BY <1>1, <1>4, <2>1
  <1> QED BY <1>2, <1>3, <1>4, AnswerHears DEF Next

\* Members are anchored to announces of the stream only, restarts included.
LEMMA Hearing == Spec => []HeardInv
  <1>1. Init => HeardInv
    <2>1. Init => MembersHeard
      BY DEF Init, MembersHeard, FromStream, Fresh, Persisted, NoAnchors
    <2> QED BY <2>1, InitHolds DEF HeardInv
  <1>2. HeardInv /\ [Next]_vars => HeardInv'
    BY NextKeeps, NextHears, HearsKeeps DEF HeardInv
  <1> QED BY <1>1, <1>2, PTL DEF Spec

\* of some announces one is the oldest
LEMMA OldestExists ==
    ASSUME NEW S, S # {}, \A m \in S : m.ts \in Nat
    PROVE  Oldest(S) # {}
  <1> DEFINE stamps == {m.ts : m \in S}
  <1>1. stamps \subseteq Nat /\ stamps # {}
    OBVIOUS
  <1>2. PICK n \in stamps : \A i \in stamps : ~(<<i, n>> \in OpToRel(<, Nat))
    <2> HIDE DEF stamps
    <2> QED BY <1>1, NatLessThanWellFounded, WFMin
  <1>3. PICK m \in S : m.ts = n
    OBVIOUS
  <1>4. \A i \in stamps : ~(i < n)
    BY <1>1, <1>2 DEF OpToRel
  <1>5. \A i \in S : m.ts <= i.ts
    BY <1>1, <1>3, <1>4
  <1> QED BY <1>5 DEF Oldest

\* a device that compares its anchor with all of an epoch's announces ends with the oldest
LEMMA OldestStays ==
    ASSUME IInv, NEW e \in Epochs, StoredOf(e) # {},
           NEW f, f[e] = None \/ f[e] \in StoredOf(e),
           NEW a \in AnchorsAfter(f, store, e)
    PROVE  a \in StoredOf(e) /\ \A n \in StoredOf(e) : a.ts <= n.ts
  <1> DEFINE heard == {m \in store : Valid(m) /\ m.epoch = e}
             all   == heard \cup ({f[e]} \ {None})
  <1>1. heard = StoredOf(e)
    BY DEF StoredOf
  <1>2. all = StoredOf(e)
    BY <1>1
  <1>3. \A m \in StoredOf(e) : m.ts \in Nat
    BY MessageTypes DEF StoredOf, Valid, IInv, TypeOK, Announces
  <1>4. Oldest(all) # {}
    BY <1>2, <1>3, OldestExists
  <1>5. a \in Oldest(all)
    BY <1>4 DEF AnchorsAfter
  <1> QED BY <1>2, <1>5 DEF Oldest

LEMMA ReadingFindsOldest ==
    ASSUME HeardInv, [Next]_vars, NEW d \in Devices, ~IsOwner(d)
    PROVE  ReadsOldest(d)
  <1> SUFFICES ASSUME ens[d] = Idle, ens'[d] # Idle, course'.left["read"] = course.left["read"],
                      NEW e \in Epochs, AllStored(e), StoredOf(e) # {}
               PROVE  \E m \in StoredOf(e) :
                          (\A n \in StoredOf(e) : m.ts <= n.ts) /\ mem'[d].anchor[e].key = m.key
    BY DEF ReadsOldest
  <1>1. EnsureRead(d)
    <2>1. ASSUME NEW c \in Devices, EnsureRead(c) PROVE c = d
      BY <2>1 DEF EnsureRead, HeardInv, IInv, TypeOK
    <2>2. ASSUME NEW c \in Devices, EnsureTail(c) \/ Restart(c) PROVE FALSE
      BY <2>2 DEF EnsureTail, Restart, HeardInv, IInv, TypeOK
    <2>3. ASSUME NEW c \in Devices, TakeWrap(c) \/ Rotate(c) \/ Retain(c) \/ Deliver(c) \/ Request(c) PROVE FALSE
      BY <2>3 DEF TakeWrap, Rotate, RotateMint, RotatePublish, RotateAdopt, Retain, Deliver, DeliverAnnounce,
                  DeliverWrap, DeliverRequest, Request, SendRequest, SkipRequest, RetryRequest, Send
    <2>4. ASSUME NEW j \in jobs, Answer(j) PROVE FALSE
      BY <2>4 DEF Answer, AnswerCheck, AnswerWrap, AnswerDone
    <2>5. ASSUME (\E x \in Accounts : Cut(x) \/ Admit(x)) \/ Age \/ Garbage \/ UNCHANGED vars PROVE FALSE
      BY <2>5 DEF Cut, Admit, Age, Garbage, vars
    <2>6. course.devices \subseteq Devices
      BY DEF HeardInv, IInv, TypeOK, CourseStates
    <2>7. Next
      BY <2>5
    <2> QED BY <2>1, <2>2, <2>3, <2>4, <2>5, <2>6, <2>7 DEF Next, Ensure
  <1> DEFINE U(read, t) ==
                 [t EXCEPT !.seen = @ \cup Covers({m \in read : m.type = "wrap"}),
                           !.todo = @ \cup {w \in {m \in read : m.type = "wrap"} :
                                               Mine(d, mem[d], w) /\ w.key \notin HeldKeys(mem[d])}]
  <1>2. PICK read \in Resends : /\ Resent(read)
                                /\ \E t \in ApplyAnnounces(mem[d], read) : mem' = [mem EXCEPT ![d] = U(read, t)]
    BY <1>1 DEF EnsureRead, Keep, SetMem
  <1>3. PICK t \in ApplyAnnounces(mem[d], read) : mem' = [mem EXCEPT ![d] = U(read, t)]
    BY <1>2
  <1>4. read = store
    <2>1. ASSUME Spend("read") PROVE FALSE
      <3>1. course.left["read"] \in Nat /\ course.left \in [Events -> Nat] /\ "read" \in Events
        BY EventNames DEF HeardInv, IInv, TypeOK, CourseStates
      <3>2. course'.left["read"] = course.left["read"] - 1
        BY <2>1, <3>1 DEF Spend, HeardInv, IInv, TypeOK, CourseStates
      <3> QED BY <3>1, <3>2
    <2> QED BY <1>2, <2>1 DEF Resent
  <1>5. mem[d] \in MemStates /\ store \in SUBSET Messages
    BY DEF HeardInv, IInv, TypeOK
  <1>6. t \in MemStates /\ t.anchor[e] \in AnchorsAfter(mem[d].anchor, store, e)
    BY <1>3, <1>4, <1>5, AppliedType
  <1>7. U(read, t).anchor = t.anchor
    BY <1>6 DEF MemStates
  <1> HIDE DEF U
  <1>8. mem'[d].anchor[e] = t.anchor[e]
    BY <1>3, <1>7 DEF HeardInv, IInv, TypeOK
  <1>9. mem[d].anchor[e] = None \/ mem[d].anchor[e] \in StoredOf(e)
    <2> SUFFICES ASSUME mem[d].anchor[e] # None PROVE mem[d].anchor[e] \in StoredOf(e)
      OBVIOUS
    <2>1. mem[d].anchor[e] \in sent /\ mem[d].anchor[e].epoch = e /\ IsOwner(mem[d].anchor[e].by)
      BY DEF HeardInv, MembersHeard, FromStream, IInv, MemOK, Sound, Honest
    <2>2. mem[d].anchor[e].type = "announce"
      BY <1>5 DEF MemStates, Anchors, Announces
    <2> QED BY <2>1, <2>2 DEF AllStored, StoredOf, Valid
  <1>10. t.anchor[e] \in StoredOf(e) /\ \A n \in StoredOf(e) : t.anchor[e].ts <= n.ts
    BY <1>6, <1>9, OldestStays DEF HeardInv
  <1> QED BY <1>8, <1>10

\* A member that has read an epoch's announces in full is anchored to the oldest, whatever it
\* heard before, in which order, and through however many restarts.
THEOREM MembersAgree == Spec => MembersFollowOldest
  <1> DEFINE Follow == \A d \in Devices : IsOwner(d) \/ ReadsOldest(d)
  <1>1. HeardInv /\ [Next]_vars => [Follow]_vars
    BY ReadingFindsOldest
  <1> HIDE DEF Follow
  <1>2. Spec => [][Follow]_vars
    BY <1>1, Hearing, PTL DEF Spec
  <1> QED BY <1>2 DEF MembersFollowOldest, Follow

(***************************************************************************)
(* Who is served on what the gate said.  The grants a device caches are     *)
(* judged under the highest epoch it has heard announced, and the key it    *)
(* wraps is of an announced epoch.  So where every mint is numbered above   *)
(* the announces on the stream, a cached grant was given after the key it   *)
(* is used for was minted.                                                  *)
(***************************************************************************)
\* the hypothesis: no key is minted at or below an epoch already announced
MintsAscend ==
    [][\A k \in Keys : keyEpoch[k] = 0 /\ keyEpoch'[k] # 0 =>
          \A m \in sent : Valid(m) => m.epoch < keyEpoch'[k]]_vars

Firm(s) == \A h \in s.held : s.anchor[h.epoch] # None

Firmness   == \A d \in Devices : Firm(mem[d]) /\ Firm(disk[d])
GateOK     == \A k \in Keys : keyEpoch[k] # 0 => access \subseteq entitled[k]
GrantsOK   == \A d \in Devices : \A k \in Keys : \A e \in Announced(mem[d]) :
                  keyEpoch[k] # 0 /\ keyEpoch[k] <= e => mem[d].grants \subseteq entitled[k]
JobsOK     == \A j \in jobs : \A k \in j.known : keyEpoch[k] # 0 /\ Requester(j) \in entitled[k]

JudgeInv == IInv /\ Firmness /\ GateOK /\ GrantsOK /\ JobsOK

\* what a handler may do to a channel key state: no announced epoch is lost, what is gained is
\* of an announced epoch, and grants survive only where no higher epoch came with the step
Grows(s, t) ==
    /\ \A e \in Epochs : s.anchor[e] # None => t.anchor[e] # None
    /\ \A h \in t.held \ s.held : t.anchor[h.epoch] # None
    /\ \A k \in t.retain \ s.retain : keyEpoch[k] # 0 /\ t.anchor[keyEpoch[k]] # None
    /\ t.grants = {} \/ (/\ t.grants \subseteq s.grants \cup access
                         /\ \A e \in Announced(t) : \E f \in Announced(s) : e <= f)

Moves ==
    \A d \in Devices :
        /\ Grows(mem[d], mem'[d]) \/ (Restart(d) /\ mem'[d] = Loaded(disk[d]))
        /\ disk'[d] \in {disk[d], Persisted(mem'[d])}

LEMMA HighestAnnounced ==
    ASSUME NEW s, Announced(s) # {}
    PROVE  CurrentEpoch(s) \in Announced(s) /\ \A f \in Announced(s) : f <= CurrentEpoch(s)
  <1> DEFINE S == Announced(s)
             T == {n \in 0..MaxEpoch : MaxEpoch - n \in S}
  <1>1. MaxEpoch \in Nat /\ \A n \in S : n \in 1..MaxEpoch
    BY EpochKeysAssumption DEF Announced, Epochs
  <1>2. PICK n \in S : TRUE
    OBVIOUS
  <1>3. n \in Nat /\ n <= MaxEpoch /\ MaxEpoch - n \in 0..MaxEpoch /\ MaxEpoch - (MaxEpoch - n) = n
    BY <1>1
  <1>4. T \subseteq Nat /\ T # {}
    <2>1. MaxEpoch - n \in T
      BY <1>2, <1>3
    <2>2. T \subseteq Nat
      OBVIOUS
    <2> QED BY <2>1, <2>2
  <1>5. \E x \in T : \A y \in T : <<y, x>> \notin OpToRel(<, Nat)
    <2> HIDE DEF T
    <2> QED BY <1>4, NatLessThanWellFounded, WFMin
  <1>6. PICK x \in T : \A y \in T : ~(y < x)
    BY <1>4, <1>5 DEF OpToRel
  <1>7. ASSUME NEW f \in S PROVE f <= MaxEpoch - x
    <2>1. f \in Nat /\ f <= MaxEpoch
      BY <1>1
    <2>2. MaxEpoch - f \in T
      BY <2>1, <1>1
    <2>3. ~(MaxEpoch - f < x)
      BY <2>2, <1>6
    <2>4. x \in Nat
      BY <1>4
    <2> HIDE DEF T
    <2> QED BY <2>1, <2>3, <2>4, <1>1
  <1>8. \E e \in S : \A f \in S : f <= e
    BY <1>6, <1>7
  <1> HIDE DEF T
  <1> QED BY <1>8 DEF CurrentEpoch

LEMMA StayingGrows ==
    ASSUME NEW s, NEW t, t.anchor = s.anchor, t.held = s.held, t.retain \subseteq s.retain,
           t.grants \subseteq s.grants \cup access
    PROVE  Grows(s, t)
  <1>1. Announced(t) = Announced(s)
    BY DEF Announced
  <1>2. \A e \in Announced(t) : e <= e
    BY EpochKeysAssumption DEF Announced, Epochs
  <1> QED BY <1>1, <1>2 DEF Grows

\* an anchor is replaced by another announce, never dropped
LEMMA AnchorStays ==
    ASSUME NEW f, NEW batch \in SUBSET Messages, NEW e \in Epochs, f[e] # None,
           NEW a \in AnchorsAfter(f, batch, e)
    PROVE  a # None
  <1>1. \A m \in batch : Valid(m) => m \in Announces
    BY MessageTypes DEF Valid
  <1> QED BY <1>1, EpochKeysAssumption DEF AnchorsAfter, Oldest

\* applying announces: no anchor is lost, and the grants outlive no higher epoch
LEMMA AppliedGrows ==
    ASSUME NEW s \in MemStates, NEW batch \in SUBSET Messages, NEW t \in ApplyAnnounces(s, batch)
    PROVE  Grows(s, t) /\ t.grants \subseteq s.grants
  <1>1. /\ t \in MemStates
        /\ t.held = s.held /\ t.retain = s.retain
        /\ \A e \in Epochs : t.anchor[e] \in AnchorsAfter(s.anchor, batch, e)
    BY AppliedType
  <1>2. \A e \in Epochs : s.anchor[e] # None => t.anchor[e] # None
    BY <1>1, AnchorStays
  <1> DEFINE With(a) == [s EXCEPT !.anchor = a]
  <1>3. PICK a : t = ForgetGrants(s, With(a))
    BY DEF ApplyAnnounces
  <1>4. With(a).grants = s.grants /\ With(a).anchor = a
    BY DEF MemStates
  <1>5. t = IF CurrentEpoch(With(a)) > CurrentEpoch(s) THEN [With(a) EXCEPT !.grants = {}] ELSE With(a)
    BY <1>3 DEF ForgetGrants
  <1>6. CASE CurrentEpoch(With(a)) > CurrentEpoch(s)
    <2>1. t.grants = {}
      BY <1>5, <1>6 DEF MemStates
    <2> QED BY <1>1, <1>2, <2>1 DEF Grows
  <1>7. CASE ~(CurrentEpoch(With(a)) > CurrentEpoch(s))
    <2>1. t = With(a)
      BY <1>5, <1>7
    <2>2. ASSUME NEW e \in Announced(t) PROVE \E f \in Announced(s) : e <= f
      <3>1. e <= CurrentEpoch(t) /\ CurrentEpoch(t) \in Epochs /\ e \in Epochs
        BY HighestAnnounced DEF Announced
      <3>2. ~(CurrentEpoch(t) > CurrentEpoch(s))
        BY <1>7, <2>1
      <3>3. CASE Announced(s) = {}
        <4>1. CurrentEpoch(s) = 0
          BY <3>3 DEF CurrentEpoch
        <4> QED BY <3>1, <3>2, <4>1, EpochKeysAssumption DEF Epochs
      <3>4. CASE Announced(s) # {}
        <4>1. CurrentEpoch(s) \in Announced(s) /\ CurrentEpoch(s) \in Epochs
          BY <3>4, HighestAnnounced DEF Announced
        <4> QED BY <3>1, <3>2, <4>1, EpochKeysAssumption DEF Epochs
      <3> QED BY <3>3, <3>4
    <2>3. t.grants = s.grants
      BY <1>4, <2>1
    <2> QED BY <1>1, <1>2, <2>2, <2>3 DEF Grows
  <1> QED BY <1>6, <1>7

LEMMA GrowsOn ==
    ASSUME NEW s, NEW t, NEW u, Grows(s, t), u.anchor = t.anchor, u.held = t.held,
           u.retain = t.retain, u.grants = t.grants
    PROVE  Grows(s, u)
  BY DEF Grows, Announced

\* one device's state changes, and perhaps what it has on disk
LEMMA StepMoves ==
    ASSUME TypeOK, NEW d \in Devices, NEW t, Grows(mem[d], t),
           mem' = [mem EXCEPT ![d] = t],
           disk' = disk \/ disk' = [disk EXCEPT ![d] = Persisted(t)]
    PROVE  Moves
  <1>1. \A c \in Devices : mem'[c] = IF c = d THEN t ELSE mem[c]
    BY DEF TypeOK
  <1>2. \A c \in Devices : Grows(mem[c], mem[c])
    BY StayingGrows
  <1>3. \A c \in Devices : disk'[c] \in {disk[c], Persisted(mem'[c])}
    BY <1>1 DEF TypeOK
  <1> QED BY <1>1, <1>2, <1>3 DEF Moves

LEMMA QuietMoves ==
    ASSUME UNCHANGED <<mem, disk>>
    PROVE  Moves
  BY StayingGrows DEF Moves

LEMMA EnsureMoves ==
    ASSUME IInv, NEW d \in Devices, Ensure(d)
    PROVE  Moves
  <1>1. mem[d] \in MemStates
    BY DEF IInv, TypeOK
  <1>2. CASE EnsureRead(d)
    <2> DEFINE U(read, t) ==
                 [t EXCEPT !.seen = @ \cup Covers({m \in read : m.type = "wrap"}),
                           !.todo = @ \cup {w \in {m \in read : m.type = "wrap"} :
                                               Mine(d, mem[d], w) /\ w.key \notin HeldKeys(mem[d])}]
    <2>1. PICK read \in Resends : \E t \in ApplyAnnounces(mem[d], read) :
              Keep(d, mem[d], U(read, t), t.anchor # mem[d].anchor)
      BY <1>2 DEF EnsureRead
    <2>2. PICK t \in ApplyAnnounces(mem[d], read) : Keep(d, mem[d], U(read, t), t.anchor # mem[d].anchor)
      BY <2>1
    <2>3. read \in SUBSET Messages
      BY DEF Resends, IInv, TypeOK
    <2>4. t \in MemStates /\ Grows(mem[d], t)
      BY <1>1, <2>3, AppliedType, AppliedGrows
    <2>5. /\ U(read, t).anchor = t.anchor /\ U(read, t).held = t.held
          /\ U(read, t).retain = t.retain /\ U(read, t).grants = t.grants
      BY <2>4 DEF MemStates
    <2>6. /\ mem' = [mem EXCEPT ![d] = U(read, t)]
          /\ disk' = disk \/ disk' = [disk EXCEPT ![d] = Persisted(U(read, t))]
      BY <2>2 DEF Keep, SetMem, Persist
    <2> HIDE DEF U
    <2> QED BY <2>4, <2>5, <2>6, GrowsOn, StepMoves DEF IInv
  <1>3. CASE EnsureTail(d)
    <2> DEFINE virgin == Announced(mem[d]) = {} /\ IsOwner(d) /\ mem[d].held = {}
               t == [mem[d] EXCEPT !.due = @ \/ virgin \/ Missing(mem[d]) # {}]
    <2>1. UNCHANGED mem \/ mem' = [mem EXCEPT ![d] = t]
      BY <1>3 DEF EnsureTail, SetMem
    <2>2. UNCHANGED disk
      BY <1>3 DEF EnsureTail
    <2>3. /\ t.anchor = mem[d].anchor /\ t.held = mem[d].held
          /\ t.retain = mem[d].retain /\ t.grants = mem[d].grants
      BY <1>1 DEF MemStates
    <2> HIDE DEF t
    <2>4. Grows(mem[d], t)
      BY <2>3, StayingGrows
    <2> QED BY <2>1, <2>2, <2>4, QuietMoves, StepMoves DEF IInv
  <1> QED BY <1>2, <1>3 DEF Ensure

\* a wrap is adopted only under the announce of its epoch
LEMMA WrapGrows ==
    ASSUME NEW d, NEW s \in MemStates, NEW w \in Wraps
    PROVE  Grows(s, HandleWrap(d, s, w))
  <1> DEFINE t == [s EXCEPT !.seen = @ \cup Covers({w})]
             p == [t EXCEPT !.parked = @ \cup {w}]
             h == [key |-> w.key, mat |-> w.mat, epoch |-> w.epoch]
             u == HandleWrap(d, s, w)
  <1>1. /\ u.anchor = s.anchor /\ u.retain = s.retain
        /\ u.held = s.held \/ (u.held = s.held \cup {h} /\ Anchored(s, w))
    BY HandleWrapType
  <1>2. t.grants = s.grants /\ p.grants = s.grants /\ Adopt(t, h).grants = s.grants
    BY DEF MemStates, Adopt
  <1>3. u \in {t, p, Adopt(t, h)}
    BY DEF HandleWrap
  <1>4. u.grants = s.grants
    <2> HIDE DEF t, p, h, u
    <2> QED BY <1>2, <1>3
  <1>5. Announced(u) = Announced(s) /\ \A e \in Announced(u) : e <= e
    BY <1>1, EpochKeysAssumption DEF Announced, Epochs
  <1>6. \A g \in u.held \ s.held : u.anchor[g.epoch] # None
    BY <1>1 DEF Anchored
  <1> HIDE DEF u
  <1> QED BY <1>1, <1>4, <1>5, <1>6 DEF Grows, u

LEMMA WrapMoves ==
    ASSUME IInv, NEW d \in Devices, TakeWrap(d) \/ DeliverWrap(d)
    PROVE  Moves
  <1>1. mem[d] \in MemStates
    BY DEF IInv, TypeOK
  <1>2. CASE TakeWrap(d)
    <2>1. PICK w \in mem[d].todo :
              LET s == [mem[d] EXCEPT !.todo = @ \ {w}]
              IN  Keep(d, s, HandleWrap(d, s, w), Adopts(s, HandleWrap(d, s, w)))
      BY <1>2 DEF TakeWrap
    <2> DEFINE s == [mem[d] EXCEPT !.todo = @ \ {w}]
    <2>2. /\ s \in MemStates /\ w \in Wraps
          /\ s.anchor = mem[d].anchor /\ s.held = mem[d].held
          /\ s.retain = mem[d].retain /\ s.grants = mem[d].grants
      BY <1>1 DEF MemStates
    <2>3. Keep(d, s, HandleWrap(d, s, w), Adopts(s, HandleWrap(d, s, w)))
      BY <2>1
    <2> HIDE DEF s
    <2>4. Grows(s, HandleWrap(d, s, w))
      BY <2>2, WrapGrows
    <2>5. Grows(mem[d], HandleWrap(d, s, w))
      BY <2>2, <2>4 DEF Grows, Announced
    <2> QED BY <2>3, <2>5, StepMoves DEF Keep, SetMem, Persist, IInv
  <1>3. CASE DeliverWrap(d)
    <2>1. PICK w \in sent : /\ w.type = "wrap"
                            /\ Keep(d, mem[d], HandleWrap(d, mem[d], w), Adopts(mem[d], HandleWrap(d, mem[d], w)))
      BY <1>3 DEF DeliverWrap
    <2>2. w \in Wraps
      BY <2>1, MessageTypes DEF IInv, TypeOK
    <2>3. Grows(mem[d], HandleWrap(d, mem[d], w))
      BY <1>1, <2>2, WrapGrows
    <2> QED BY <2>1, <2>3, StepMoves DEF Keep, SetMem, Persist, IInv
  <1> QED BY <1>2, <1>3

\* the announce a rotation applies anchors the epoch of the key it adopts and keeps announced
LEMMA OwnAnnounceAnchors ==
    ASSUME NEW s \in MemStates, NEW m \in Announces, Valid(m), NEW t \in ApplyAnnounces(s, {m})
    PROVE  t.anchor[m.epoch] # None
  <1> DEFINE e == m.epoch
             S == {m} \cup ({s.anchor[e]} \ {None})
  <1>1. e \in Epochs /\ m.ts \in Nat /\ s.anchor[e] \in Announces \cup {None}
    BY DEF Announces, MemStates, Anchors
  <1>2. {n \in {m} : Valid(n) /\ n.epoch = e} = {m}
    OBVIOUS
  <1>3. \A n \in S : n.ts \in Nat /\ n # None
    BY <1>1, EpochKeysAssumption DEF Announces
  <1>4. Oldest(S) # {} /\ Oldest(S) \subseteq S
    <2>1. S # {}
      OBVIOUS
    <2> HIDE DEF S
    <2> QED BY <1>3, <2>1, OldestExists DEF Oldest
  <1>5. {m} \in SUBSET Messages
    BY DEF Messages
  <1>6. t.anchor[e] \in AnchorsAfter(s.anchor, {m}, e)
    BY <1>1, <1>5, AppliedType
  <1>7. t.anchor[e] \in Oldest(S)
    BY <1>2, <1>4, <1>6 DEF AnchorsAfter
  <1> HIDE DEF S
  <1> QED BY <1>3, <1>4, <1>7

LEMMA RotateMintMoves ==
    ASSUME IInv, NEW d \in Devices, RotateMint(d)
    PROVE  Moves
  <1>1. mem[d] \in MemStates
    BY DEF IInv, TypeOK
  <1>2. PICK read \in Resends : \E t \in ApplyAnnounces(mem[d], read) :
            Keep(d, mem[d], t, t.anchor # mem[d].anchor)
    BY DEF RotateMint
  <1>3. read \in SUBSET Messages
    BY DEF Resends, IInv, TypeOK
  <1> QED BY <1>1, <1>2, <1>3, AppliedGrows, StepMoves DEF Keep, SetMem, Persist, IInv

LEMMA RotateAdoptMoves ==
    ASSUME IInv, NEW d \in Devices, RotateAdopt(d)
    PROVE  Moves /\ mem'[d].anchor[keyEpoch[rot[d].key]] # None
  <1> DEFINE k == rot[d].key
             m == Announce(d, k, rot[d].ts)
             h == [key |-> k, mat |-> k, epoch |-> keyEpoch[k]]
  <1>1. IsOwner(d) /\ k \in Keys /\ keyEpoch[k] \in Epochs /\ rot[d].ts \in Nat
    BY EpochKeysAssumption DEF RotateAdopt, IInv, RotOK, TypeOK, Epochs
  <1>2. PICK a \in ApplyAnnounces(mem[d], {m}) :
            /\ SetMem(d, [Adopt(a, h) EXCEPT !.retain = @ \cup {k}])
            /\ Persist(d, [Adopt(a, h) EXCEPT !.retain = @ \cup {k}])
    BY DEF RotateAdopt
  <1> DEFINE b == Adopt(a, h)
             u == [b EXCEPT !.retain = @ \cup {k}]
  <1>3. m \in Announces /\ Valid(m) /\ m.epoch = keyEpoch[k] /\ mem[d] \in MemStates
    BY <1>1 DEF Announce, Announces, Valid, IInv, TypeOK
  <1>4. {m} \in SUBSET Messages
    BY <1>3 DEF Messages
  <1> HIDE DEF m
  <1>5. a \in MemStates /\ Grows(mem[d], a) /\ a.anchor[keyEpoch[k]] # None
    BY <1>3, <1>4, AppliedType, AppliedGrows, OwnAnnounceAnchors
  <1>6. /\ b \in MemStates /\ b.held = a.held \cup {h} /\ b.anchor = a.anchor /\ b.retain = a.retain
    BY <1>1, <1>5, AdoptType
  <1>7. b.grants = a.grants
    BY <1>5 DEF Adopt, MemStates
  <1>8. mem' = [mem EXCEPT ![d] = u] /\ disk' = [disk EXCEPT ![d] = Persisted(u)]
    BY <1>2 DEF SetMem, Persist
  <1> HIDE DEF b
  <1>9. u.held = b.held /\ u.anchor = b.anchor /\ u.retain = b.retain \cup {k} /\ u.grants = b.grants
    BY <1>6 DEF MemStates
  <1>10. h.epoch = keyEpoch[k]
    OBVIOUS
  <1> HIDE DEF u, h, k
  <1>11. u.anchor = a.anchor /\ u.held = a.held \cup {h} /\ u.retain = a.retain \cup {k} /\ u.grants = a.grants
    BY <1>6, <1>7, <1>9
  <1>12. Grows(mem[d], u)
    <2>1. keyEpoch[k] # 0
      BY <1>1 DEF Epochs, k
    <2> QED BY <1>5, <1>10, <1>11, <2>1 DEF Grows, Announced
  <1>13. mem'[d] = u
    BY <1>8 DEF IInv, TypeOK
  <1>14. Moves
    BY <1>8, <1>12, StepMoves DEF IInv
  <1> QED BY <1>5, <1>11, <1>13, <1>14 DEF k

LEMMA RotateMoves ==
    ASSUME IInv, NEW d \in Devices, Rotate(d) \/ Retain(d)
    PROVE  Moves
  <1>1. CASE RotatePublish(d)
    BY <1>1, QuietMoves DEF RotatePublish
  <1>2. CASE Retain(d)
    <2>1. PICK k \in mem[d].retain : SetMem(d, [mem[d] EXCEPT !.retain = @ \ {k}]) \/ UNCHANGED mem
      BY <1>2 DEF Retain
    <2> DEFINE t == [mem[d] EXCEPT !.retain = @ \ {k}]
    <2>2. /\ t.anchor = mem[d].anchor /\ t.held = mem[d].held
          /\ t.retain \subseteq mem[d].retain /\ t.grants = mem[d].grants
      BY DEF IInv, TypeOK, MemStates
    <2>3. mem' = [mem EXCEPT ![d] = t] \/ UNCHANGED mem
      BY <2>1 DEF SetMem
    <2> HIDE DEF t
    <2>4. Grows(mem[d], t)
      BY <2>2, StayingGrows
    <2> QED BY <1>2, <2>3, <2>4, StepMoves, QuietMoves DEF Retain, IInv
  <1> QED BY <1>1, <1>2, RotateMintMoves, RotateAdoptMoves DEF Rotate

LEMMA DeliverMoves ==
    ASSUME IInv, NEW d \in Devices, DeliverAnnounce(d) \/ DeliverRequest(d)
    PROVE  Moves
  <1>1. CASE DeliverAnnounce(d)
    <2> DEFINE U(m, t) == [t EXCEPT !.parked = @ \ {w \in mem[d].parked : w.epoch = m.epoch},
                                    !.todo = @ \cup {w \in mem[d].parked : w.epoch = m.epoch}, !.due = TRUE]
    <2>1. PICK m \in sent : \E t \in ApplyAnnounces(mem[d], {m}) : SetMem(d, U(m, t))
      BY <1>1 DEF DeliverAnnounce
    <2>2. PICK t \in ApplyAnnounces(mem[d], {m}) : SetMem(d, U(m, t))
      BY <2>1
    <2>3. {m} \in SUBSET Messages /\ mem[d] \in MemStates
      BY DEF IInv, TypeOK
    <2>4. t \in MemStates /\ Grows(mem[d], t)
      BY <2>3, AppliedType, AppliedGrows
    <2>5. /\ U(m, t).anchor = t.anchor /\ U(m, t).held = t.held
          /\ U(m, t).retain = t.retain /\ U(m, t).grants = t.grants
      BY <2>4 DEF MemStates
    <2>6. mem' = [mem EXCEPT ![d] = U(m, t)] /\ UNCHANGED disk
      BY <1>1, <2>2 DEF DeliverAnnounce, SetMem
    <2> HIDE DEF U
    <2> QED BY <2>4, <2>5, <2>6, GrowsOn, StepMoves DEF IInv
  <1>2. CASE DeliverRequest(d)
    BY <1>2, QuietMoves DEF DeliverRequest
  <1> QED BY <1>1, <1>2

LEMMA RequestMoves ==
    ASSUME IInv, NEW d \in Devices, Request(d)
    PROVE  Moves
  <1>1. CASE Send(d, mem[d])
    <2> DEFINE T(r) == [mem[d] EXCEPT !.due = FALSE, !.last = r, !.own = @ \cup {r}, !.pending = @ \cup {r}]
    <2>1. PICK r \in RequestIds : SetMem(d, T(r)) /\ Persist(d, T(r))
      BY <1>1 DEF Send
    <2>2. /\ T(r).anchor = mem[d].anchor /\ T(r).held = mem[d].held
          /\ T(r).retain = mem[d].retain /\ T(r).grants = mem[d].grants
      BY DEF IInv, TypeOK, MemStates
    <2> HIDE DEF T
    <2>3. Grows(mem[d], T(r))
      BY <2>2, StayingGrows
    <2> QED BY <2>1, <2>3, StepMoves DEF SetMem, Persist, IInv
  <1>2. CASE SkipRequest(d)
    <2> DEFINE t == [mem[d] EXCEPT !.due = FALSE]
    <2>1. /\ t.anchor = mem[d].anchor /\ t.held = mem[d].held
          /\ t.retain = mem[d].retain /\ t.grants = mem[d].grants
      BY DEF IInv, TypeOK, MemStates
    <2>2. mem' = [mem EXCEPT ![d] = t] /\ UNCHANGED disk
      BY <1>2 DEF SkipRequest, SetMem
    <2> HIDE DEF t
    <2>3. Grows(mem[d], t)
      BY <2>1, StayingGrows
    <2> QED BY <2>2, <2>3, StepMoves DEF IInv
  <1> QED BY <1>1, <1>2 DEF Request, SendRequest, RetryRequest

\* an account is granted what the gate, or an earlier grant, lets it have
LEMMA AnswerMoves ==
    ASSUME IInv, NEW j \in jobs, Answer(j)
    PROVE  Moves
  <1>1. j.dev \in Devices /\ mem[j.dev] \in MemStates
    BY DEF IInv, TypeOK, JobStates
  <1>2. CASE AnswerCheck(j)
    <2> DEFINE t == [mem[j.dev] EXCEPT !.grants = @ \cup {Requester(j)}]
    <2>1. /\ t.anchor = mem[j.dev].anchor /\ t.held = mem[j.dev].held
          /\ t.retain = mem[j.dev].retain /\ t.grants = mem[j.dev].grants \cup {Requester(j)}
      BY <1>1 DEF MemStates
    <2>2. /\ \/ mem' = [mem EXCEPT ![j.dev] = t] /\ Requester(j) \in access \cup mem[j.dev].grants
             \/ UNCHANGED mem
          /\ UNCHANGED disk
      BY <1>2 DEF AnswerCheck, SetMem
    <2> HIDE DEF t
    <2>3. Requester(j) \in access \cup mem[j.dev].grants => Grows(mem[j.dev], t)
      BY <2>1, StayingGrows
    <2> QED BY <1>1, <2>2, <2>3, StepMoves, QuietMoves DEF IInv
  <1>3. CASE AnswerWrap(j)
    <2> DEFINE T(h) == [mem[j.dev] EXCEPT !.seen = @ \cup {<<j.req.id, h.key>>}]
    <2>1. PICK h \in Left(mem[j.dev], j) : SetMem(j.dev, T(h))
      BY <1>3 DEF AnswerWrap
    <2>2. /\ T(h).anchor = mem[j.dev].anchor /\ T(h).held = mem[j.dev].held
          /\ T(h).retain = mem[j.dev].retain /\ T(h).grants = mem[j.dev].grants
      BY <1>1 DEF MemStates
    <2>3. UNCHANGED disk
      BY <1>3 DEF AnswerWrap
    <2> HIDE DEF T
    <2>4. Grows(mem[j.dev], T(h))
      BY <2>2, StayingGrows
    <2> QED BY <1>1, <2>1, <2>3, <2>4, StepMoves DEF SetMem, IInv
  <1>4. CASE AnswerDone(j)
    BY <1>4, QuietMoves DEF AnswerDone
  <1> QED BY <1>2, <1>3, <1>4 DEF Answer

LEMMA RestartMoves ==
    ASSUME IInv, NEW d \in Devices, Restart(d)
    PROVE  Moves
  <1>1. \A c \in Devices : mem'[c] = IF c = d THEN Loaded(disk[d]) ELSE mem[c]
    BY DEF Restart, SetMem, IInv, TypeOK
  <1>2. \A c \in Devices : Grows(mem[c], mem[c])
    BY StayingGrows
  <1>3. UNCHANGED disk
    BY DEF Restart
  <1> QED BY <1>1, <1>2, <1>3 DEF Moves

\* every step but a restart only adds to what a device has heard
LEMMA NextMoves ==
    ASSUME IInv, [Next]_vars
    PROVE  Moves
  <1>1. ASSUME NEW d \in Devices, Ensure(d) \/ TakeWrap(d) \/ Rotate(d) \/ Retain(d)
                                  \/ Deliver(d) \/ Request(d) \/ Restart(d)
        PROVE  Moves
    BY <1>1, EnsureMoves, WrapMoves, RotateMoves, DeliverMoves, RequestMoves, RestartMoves DEF Deliver
  <1>2. CASE \E x \in Accounts : Cut(x) \/ Admit(x)
    BY <1>2, QuietMoves DEF Cut, Admit
  <1>3. CASE Age \/ Garbage \/ UNCHANGED vars
    BY <1>3, QuietMoves DEF Age, Garbage, vars
  <1>4. CASE \E d \in course.devices : Ensure(d) \/ TakeWrap(d) \/ Rotate(d) \/ Retain(d)
                                       \/ Deliver(d) \/ Request(d) \/ Restart(d)
    <2>1. course.devices \subseteq Devices
      BY DEF IInv, TypeOK, CourseStates
    <2> QED BY <1>1, <1>4, <2>1
  <1> QED BY <1>2, <1>3, <1>4, AnswerMoves DEF Next

(***************************************************************************)
(* The keys and the answers.                                               *)
(***************************************************************************)
\* a key is minted entitling those the gate lets in, and whoever is let in later is added
KeySteps ==
    \A k \in Keys :
        /\ keyEpoch[k] # 0 => keyEpoch'[k] = keyEpoch[k] /\ entitled[k] \subseteq entitled'[k]
        /\ keyEpoch[k] = 0 /\ keyEpoch'[k] # 0 => access' \subseteq entitled'[k] /\ sent' = sent
        /\ keyEpoch[k] # 0 => \A x \in access' \ access : x \in entitled'[k]

\* an answer learns which keys it judged when it asks the gate, and only then
JobSteps ==
    \A j \in jobs' :
        \/ j.known = {}
        \/ \E i \in jobs : i.known = j.known /\ Requester(i) = Requester(j)
        \/ /\ j.known = HeldKeys(mem[j.dev])
           /\ Requester(j) \in access \cup mem[j.dev].grants

LEMMA MintsKeys ==
    ASSUME IInv, UNCHANGED <<access, sent>>, NEW d, NEW e \in Epochs, Mint(d, e)
    PROVE  KeySteps
  <1>1. PICK k \in Keys : /\ keyEpoch[k] = 0
                          /\ keyEpoch' = [keyEpoch EXCEPT ![k] = e]
                          /\ entitled' = [entitled EXCEPT ![k] = access]
    BY DEF Mint
  <1> QED BY <1>1 DEF KeySteps, IInv, TypeOK

LEMMA NextKeys ==
    ASSUME IInv, [Next]_vars
    PROVE  KeySteps
  <1>1. CASE UNCHANGED <<keyEpoch, access, entitled>>
    BY <1>1 DEF KeySteps
  <1>2. ASSUME NEW d \in Devices, EnsureTail(d) PROVE KeySteps
    <2>1. UNCHANGED <<access, sent>> /\ (UNCHANGED <<keyEpoch, entitled>> \/ Mint(d, 1))
      BY <1>2 DEF EnsureTail
    <2>2. 1 \in Epochs
      BY EpochKeysAssumption DEF Epochs
    <2> QED BY <1>1, <2>1, <2>2, MintsKeys
  <1>3. ASSUME NEW d \in Devices, RotateMint(d) PROVE KeySteps
    <2>1. UNCHANGED <<access, sent>> /\ \E e \in Epochs : Mint(d, e)
      BY <1>3 DEF RotateMint
    <2> QED BY <2>1, MintsKeys
  <1>4. ASSUME NEW d \in Devices, \/ EnsureRead(d) \/ TakeWrap(d) \/ RotatePublish(d) \/ RotateAdopt(d)
                                  \/ Retain(d) \/ Deliver(d) \/ Request(d) \/ Restart(d)
        PROVE  KeySteps
    <2>1. UNCHANGED <<keyEpoch, access, entitled>>
      BY <1>4 DEF EnsureRead, TakeWrap, RotatePublish, RotateAdopt, Retain, Deliver, DeliverAnnounce, DeliverWrap,
                  DeliverRequest, Request, SendRequest, SkipRequest, RetryRequest, Send, Restart
    <2> QED BY <1>1, <2>1
  <1>5. ASSUME NEW x \in Accounts, Cut(x) PROVE KeySteps
    BY <1>5 DEF Cut, KeySteps
  <1>6. ASSUME NEW x \in Accounts, Admit(x) PROVE KeySteps
    BY <1>6 DEF Admit, KeySteps
  <1>7. ASSUME NEW j \in jobs, Answer(j) PROVE KeySteps
    BY <1>1, <1>7 DEF Answer, AnswerCheck, AnswerWrap, AnswerDone
  <1>8. CASE Age \/ Garbage \/ UNCHANGED vars
    BY <1>1, <1>8 DEF Age, Garbage, vars
  <1>9. course.devices \subseteq Devices
    BY DEF IInv, TypeOK, CourseStates
  <1> QED BY <1>2, <1>3, <1>4, <1>5, <1>6, <1>7, <1>8, <1>9 DEF Next, Ensure, Rotate

LEMMA QuietJobs ==
    ASSUME jobs' \subseteq jobs \cup {i \in jobs' : i.known = {}}
    PROVE  JobSteps
  BY DEF JobSteps

LEMMA AnswerJobs ==
    ASSUME IInv, NEW j \in jobs, Answer(j)
    PROVE  JobSteps
  <1> DEFINE s == mem[j.dev]
             admit == [j EXCEPT !.phase = "wrapping", !.known = HeldKeys(s),
                                !.detached = \A k \in Keys : <<j.req.id, k>> \notin s.seen]
             brief == [admit EXCEPT !.only = TRUE]
  <1>1. j \in JobStates
    BY DEF IInv, TypeOK
  <1>2. CASE AnswerCheck(j)
    <2>1. /\ admit.known = HeldKeys(s) /\ admit.req = j.req /\ admit.dev = j.dev
          /\ brief.known = HeldKeys(s) /\ brief.req = j.req /\ brief.dev = j.dev
      BY <1>1 DEF JobStates
    <2>2. \/ jobs' \subseteq jobs
          \/ jobs' \subseteq jobs \cup {admit, brief} /\ Requester(j) \in access \cup s.grants
      BY <1>2 DEF AnswerCheck
    <2> HIDE DEF admit, brief
    <2>3. CASE jobs' \subseteq jobs
      BY <2>3 DEF JobSteps
    <2>4. CASE jobs' \subseteq jobs \cup {admit, brief} /\ Requester(j) \in access \cup s.grants
      <3>1. Requester(admit) = Requester(j) /\ Requester(brief) = Requester(j)
        BY <2>1 DEF Requester
      <3> QED BY <2>1, <2>4, <3>1 DEF JobSteps
    <2> QED BY <2>2, <2>3, <2>4
  <1>3. CASE AnswerWrap(j)
    <2> DEFINE T(h) == [j EXCEPT !.done = @ \cup {h.key}]
    <2>1. PICK h \in Left(s, j) : jobs' = (jobs \ {j}) \cup {T(h)}
      BY <1>3 DEF AnswerWrap
    <2>2. T(h).known = j.known /\ T(h).req = j.req
      BY <1>1 DEF JobStates
    <2> HIDE DEF T
    <2>3. Requester(T(h)) = Requester(j)
      BY <2>2 DEF Requester
    <2> QED BY <2>1, <2>2, <2>3 DEF JobSteps
  <1>4. CASE AnswerDone(j)
    BY <1>4 DEF AnswerDone, JobSteps
  <1> QED BY <1>2, <1>3, <1>4 DEF Answer

LEMMA NextJobs ==
    ASSUME IInv, [Next]_vars
    PROVE  JobSteps
  <1>1. \A d, m : Job(d, m).known = {}
    BY DEF Job
  <1>2. ASSUME NEW d \in Devices, EnsureTail(d) \/ DeliverRequest(d) PROVE JobSteps
    <2>1. \A j \in jobs' : j \in jobs \/ \E m : j = Job(d, m)
      <3>1. ASSUME EnsureTail(d) PROVE \A j \in jobs' : j \in jobs \/ \E m : j = Job(d, m)
        <4>1. ScheduleStored(d)
          BY <3>1 DEF EnsureTail
        <4> QED BY <4>1, Zenon DEF ScheduleStored
      <3>2. ASSUME DeliverRequest(d) PROVE \A j \in jobs' : j \in jobs \/ \E m : j = Job(d, m)
        BY <3>2, Zenon DEF DeliverRequest
      <3> QED BY <1>2, <3>1, <3>2
    <2> QED BY <1>1, <2>1 DEF JobSteps
  <1>3. CASE jobs' \subseteq jobs
    BY <1>3 DEF JobSteps
  <1>4. ASSUME NEW d \in Devices, \/ EnsureRead(d) \/ TakeWrap(d) \/ Rotate(d) \/ Retain(d) \/ DeliverAnnounce(d)
                                  \/ DeliverWrap(d) \/ Request(d) \/ Restart(d)
        PROVE  JobSteps
    <2>1. jobs' \subseteq jobs
      BY <1>4 DEF EnsureRead, TakeWrap, Rotate, RotateMint, RotatePublish, RotateAdopt, Retain, DeliverAnnounce,
                  DeliverWrap, Request, SendRequest, SkipRequest, RetryRequest, Send, Restart
    <2> QED BY <1>3, <2>1
  <1>5. CASE (\E x \in Accounts : Cut(x) \/ Admit(x)) \/ Age \/ Garbage \/ UNCHANGED vars
    BY <1>3, <1>5 DEF Cut, Admit, Age, Garbage, vars
  <1>6. course.devices \subseteq Devices
    BY DEF IInv, TypeOK, CourseStates
  <1> QED BY <1>2, <1>4, <1>5, <1>6, AnswerJobs DEF Next, Ensure, Deliver

(***************************************************************************)
(* The invariant.                                                          *)
(***************************************************************************)
\* an epoch a device holds an announce for is the epoch of a key announced
LEMMA AnchorsPublished ==
    IInv => \A d \in Devices : \A e \in Announced(mem[d]) : \E m \in sent : Valid(m) /\ m.epoch = e
  <1> SUFFICES ASSUME IInv, NEW d \in Devices, NEW e \in Announced(mem[d])
               PROVE  \E m \in sent : Valid(m) /\ m.epoch = e
    OBVIOUS
  <1>1. /\ mem[d].anchor[e].epoch = e
        /\ keyEpoch[mem[d].anchor[e].key] = e /\ mem[d].anchor[e].key \in Published
    BY DEF Announced, IInv, MemOK, Sound, Honest
  <1>2. PICK m \in sent : Valid(m) /\ m.key = mem[d].anchor[e].key
    BY <1>1 DEF Published
  <1>3. keyEpoch[m.key] = m.epoch
    BY <1>2 DEF IInv, SentOK, Honest
  <1> QED BY <1>1, <1>2, <1>3

LEMMA AnchorsPublishedNext ==
    IInv' => \A d \in Devices : \A e \in Announced(mem'[d]) : \E m \in sent' : Valid(m) /\ m.epoch = e
  <1>1. IInv' => (\A d \in Devices : \A e \in Announced(mem[d]) : \E m \in sent : Valid(m) /\ m.epoch = e)'
    BY AnchorsPublished, PTL
  <1> QED BY <1>1 DEF Announced

LEMMA FirmStays ==
    ASSUME IInv, Firmness, Moves
    PROVE  Firmness'
  <1>1. ASSUME NEW d \in Devices PROVE Firm(mem'[d])
    <2>1. CASE Grows(mem[d], mem'[d])
      <3>1. ASSUME NEW h \in mem'[d].held PROVE mem'[d].anchor[h.epoch] # None
        <4>1. CASE h \in mem[d].held
          <5>1. mem[d].anchor[h.epoch] # None /\ h.epoch \in Epochs
            BY <4>1 DEF Firmness, Firm, IInv, TypeOK, MemStates, Holdings
          <5> QED BY <2>1, <5>1 DEF Grows
        <4>2. CASE h \notin mem[d].held
          BY <2>1, <4>2 DEF Grows
        <4> QED BY <4>1, <4>2
      <3> QED BY <3>1 DEF Firm
    <2>2. CASE mem'[d] = Loaded(disk[d])
      BY <2>2 DEF Firmness, Firm, Loaded, Fresh
    <2> QED BY <2>1, <2>2 DEF Moves
  <1>2. ASSUME NEW d \in Devices PROVE Firm(disk'[d])
    <2>1. CASE disk'[d] = disk[d]
      BY <2>1 DEF Firmness
    <2>2. CASE disk'[d] = Persisted(mem'[d])
      BY <1>1, <2>2 DEF Firm, Persisted
    <2> QED BY <2>1, <2>2 DEF Moves
  <1> QED BY <1>1, <1>2 DEF Firmness

LEMMA GateStays ==
    ASSUME GateOK, KeySteps
    PROVE  GateOK'
  BY DEF GateOK, KeySteps

\* what MintsAscend says of one step
Ascends == \A k \in Keys : keyEpoch[k] = 0 /\ keyEpoch'[k] # 0 =>
               \A m \in sent : Valid(m) => m.epoch < keyEpoch'[k]

LEMMA GrantsStay ==
    ASSUME IInv, IInv', GateOK, GrantsOK, Moves, KeySteps, Ascends
    PROVE  GrantsOK'
  <1> SUFFICES ASSUME NEW d \in Devices, NEW k \in Keys, NEW e \in Announced(mem'[d]),
                      keyEpoch'[k] # 0, keyEpoch'[k] <= e, NEW x \in mem'[d].grants
               PROVE  x \in entitled'[k]
    BY DEF GrantsOK
  <1>1. e \in Epochs /\ keyEpoch[k] \in Nat /\ keyEpoch'[k] \in Nat
    BY EpochKeysAssumption DEF Announced, IInv, TypeOK
  <1>2. CASE keyEpoch[k] = 0
    \* a key minted in this step is numbered above every epoch a device has heard of
    <2>1. sent' = sent
      BY <1>2 DEF KeySteps
    <2>2. PICK m \in sent' : Valid(m) /\ m.epoch = e
      BY AnchorsPublishedNext
    <2>3. e < keyEpoch'[k]
      BY <1>2, <2>1, <2>2 DEF Ascends
    <2> QED BY <1>1, <2>3, EpochKeysAssumption DEF Epochs
  <1>3. CASE keyEpoch[k] # 0
    <2>1. keyEpoch'[k] = keyEpoch[k] /\ entitled[k] \subseteq entitled'[k] /\ access \subseteq entitled[k]
      BY <1>3 DEF KeySteps, GateOK
    <2>2. Grows(mem[d], mem'[d])
      BY DEF Moves, Loaded, Fresh
    <2>3. x \in mem[d].grants \cup access /\ \E f \in Announced(mem[d]) : e <= f
      BY <2>2 DEF Grows
    <2>4. PICK f \in Announced(mem[d]) : e <= f
      BY <2>3
    <2>5. keyEpoch[k] <= f
      BY <1>1, <2>1, <2>4, EpochKeysAssumption DEF Epochs, Announced
    <2>6. mem[d].grants \subseteq entitled[k]
      BY <1>3, <2>4, <2>5 DEF GrantsOK
    <2> QED BY <2>1, <2>3, <2>6
  <1> QED BY <1>2, <1>3

LEMMA JobsStay ==
    ASSUME IInv, IInv', Firmness, GateOK, GrantsOK, JobsOK, KeySteps, JobSteps
    PROVE  JobsOK'
  <1> SUFFICES ASSUME NEW j \in jobs', NEW k \in j.known
               PROVE  keyEpoch'[k] # 0 /\ Requester(j) \in entitled'[k]
    BY DEF JobsOK
  <1>1. ASSUME NEW i \in jobs, i.known = j.known, Requester(i) = Requester(j)
        PROVE  keyEpoch'[k] # 0 /\ Requester(j) \in entitled'[k]
    <2>1. k \in Keys
      BY <1>1 DEF IInv, TypeOK, JobStates
    <2> QED BY <1>1, <2>1 DEF JobsOK, KeySteps
  <1>2. ASSUME j.known = HeldKeys(mem[j.dev]), Requester(j) \in access \cup mem[j.dev].grants, j.dev \in Devices
        PROVE  keyEpoch'[k] # 0 /\ Requester(j) \in entitled'[k]
    <2>1. PICK h \in mem[j.dev].held : h.key = k
      BY <1>2 DEF HeldKeys
    <2>2. k \in Keys /\ h.epoch \in Epochs
      BY <1>2, <2>1 DEF IInv, TypeOK, MemStates, Holdings
    <2>3. h.epoch = keyEpoch[k] /\ h.epoch \in Announced(mem[j.dev])
      BY <1>2, <2>1, <2>2 DEF IInv, MemOK, Sound, Firmness, Firm, Announced
    <2>4. keyEpoch[k] # 0 /\ keyEpoch[k] <= h.epoch
      BY <2>2, <2>3, EpochKeysAssumption DEF Epochs
    <2>5. mem[j.dev].grants \subseteq entitled[k] /\ access \subseteq entitled[k]
      BY <1>2, <2>2, <2>3, <2>4 DEF GrantsOK, GateOK
    <2> QED BY <1>2, <2>2, <2>4, <2>5 DEF KeySteps
  <1>3. j.known # {}
    OBVIOUS
  <1>4. \/ \E i \in jobs : i.known = j.known /\ Requester(i) = Requester(j)
        \/ j.known = HeldKeys(mem[j.dev]) /\ Requester(j) \in access \cup mem[j.dev].grants
    BY <1>3 DEF JobSteps
  <1>5. j.dev \in Devices
    BY DEF IInv, TypeOK, JobStates
  <1> QED BY <1>1, <1>2, <1>4, <1>5

\* Where every mint is numbered above the announces on the stream, no answer wraps a key for an
\* account on a grant older than that key.
THEOREM JudgedWhereMintsAscend == Spec /\ MintsAscend => []JudgedUnderEpoch
  <1>1. Init => JudgeInv
    <2>1. Init => IInv
      BY InitHolds
    <2>2. Init => Firmness
      BY DEF Init, Firmness, Firm, Fresh, Persisted
    <2>3. Init => GateOK /\ GrantsOK /\ JobsOK
      BY DEF Init, GateOK, GrantsOK, JobsOK
    <2> QED BY <2>1, <2>2, <2>3 DEF JudgeInv
  <1>2. JudgeInv /\ [Next]_vars /\ [Ascends]_vars => JudgeInv'
    <2> SUFFICES ASSUME JudgeInv, [Next]_vars, [Ascends]_vars PROVE JudgeInv'
      OBVIOUS
    <2>1. IInv'
      BY NextKeeps DEF JudgeInv
    <2>2. Moves /\ KeySteps /\ JobSteps
      BY NextMoves, NextKeys, NextJobs DEF JudgeInv
    <2>3. Ascends
      BY DEF Ascends, vars
    <2> QED BY <2>1, <2>2, <2>3, FirmStays, GateStays, GrantsStay, JobsStay DEF JudgeInv
  <1>3. JudgeInv => JudgedUnderEpoch
    BY DEF JudgeInv, JobsOK, JudgedUnderEpoch
  <1>4. MintsAscend => [][Ascends]_vars
    BY DEF MintsAscend, Ascends
  <1> QED BY <1>1, <1>2, <1>3, <1>4, PTL DEF Spec

(***************************************************************************)
(* Where mints ascend: an owner on one device numbers every mint above its  *)
(* own announces, as long as it does not forget one it has published.  It   *)
(* remembers them while its session lasts; after a restart it reads them    *)
(* back, if the storage node has them and answers.                          *)
(***************************************************************************)
SoleOwner == \A c, d \in course.devices : IsOwner(c) /\ IsOwner(d) => c = d
NoRestart == course.left["crash"] = 0
Faithful  == course.left["lost"] = 0 /\ course.left["read"] = 0

ByRunning      == \A m \in sent : Valid(m) => m.by \in course.devices
RetainAnchored == \A d \in Devices : \A k \in mem[d].retain : mem[d].anchor[keyEpoch[k]] # None

\* device d knows of the epoch m announces, or is about to
Leads(d, m) == \/ mem[d].anchor[m.epoch] # None
               \/ rot[d].phase = "sent" /\ keyEpoch[rot[d].key] = m.epoch

Steady   == NoRestart /\ \A m \in sent : Valid(m) => Leads(m.by, m)
Readable == /\ Faithful /\ store = sent
            /\ \A m \in sent : Valid(m) /\ ens[m.by].pc = "read" => Leads(m.by, m)

LeadInv == IInv /\ SoleOwner /\ ByRunning /\ RetainAnchored /\ (Steady \/ Readable)

\* every announce read leaves its epoch anchored
LEMMA ReadAnchors ==
    ASSUME NEW s \in MemStates, NEW batch \in SUBSET Messages, NEW m \in batch, Valid(m),
           NEW t \in ApplyAnnounces(s, batch)
    PROVE  m.epoch \in Epochs /\ t.anchor[m.epoch] # None
  <1> DEFINE e == m.epoch
             heard == {n \in batch : Valid(n) /\ n.epoch = e}
             S == heard \cup ({s.anchor[e]} \ {None})
  <1>1. m \in Announces /\ e \in Epochs
    BY MessageTypes DEF Valid, Announces
  <1>2. s.anchor[e] \in Announces \cup {None}
    BY <1>1 DEF MemStates, Anchors
  <1>3. \A n \in S : n \in Announces
    BY <1>2, MessageTypes DEF Valid
  <1>4. \A n \in S : n.ts \in Nat /\ n # None
    BY <1>3, EpochKeysAssumption DEF Announces
  <1>5. m \in S
    OBVIOUS
  <1>6. Oldest(S) # {} /\ Oldest(S) \subseteq S
    <2> HIDE DEF S
    <2> QED BY <1>4, <1>5, OldestExists DEF Oldest
  <1>7. t.anchor[e] \in AnchorsAfter(s.anchor, batch, e)
    BY <1>1, AppliedType
  <1>8. t.anchor[e] \in Oldest(S)
    BY <1>6, <1>7 DEF AnchorsAfter
  <1> HIDE DEF S
  <1> QED BY <1>1, <1>4, <1>6, <1>8

\* a course only runs down
CourseSteps == /\ course'.devices = course.devices
               /\ \A f \in Events : course'.left[f] <= course.left[f]

LEMMA QuietCourse ==
    ASSUME IInv, UNCHANGED course
    PROVE  CourseSteps
  <1>1. \A f \in Events : course.left[f] <= course.left[f]
    BY DEF IInv, TypeOK, CourseStates
  <1> QED BY <1>1 DEF CourseSteps

LEMMA SpentCourse ==
    ASSUME IInv, NEW g \in Events, Spend(g)
    PROVE  CourseSteps /\ course.left[g] # 0
  <1>1. course.left \in [Events -> Nat]
    BY DEF IInv, TypeOK, CourseStates
  <1>2. /\ course'.devices = course.devices
        /\ course'.left = [course.left EXCEPT ![g] = @ - 1]
    BY DEF Spend, IInv, TypeOK, CourseStates
  <1>3. \A f \in Events : course'.left[f] <= course.left[f]
    BY <1>1, <1>2
  <1>4. course.left[g] # 0
    BY <1>1 DEF Spend, May
  <1> QED BY <1>2, <1>3, <1>4 DEF CourseSteps

LEMMA NextCourse ==
    ASSUME IInv, [Next]_vars
    PROVE  CourseSteps
  <1>1. UNCHANGED course \/ \E g \in Events : Spend(g)
    <2> USE EventNames
    <2>1. ASSUME NEW d \in Devices, Ensure(d) \/ TakeWrap(d) \/ Rotate(d) \/ Retain(d)
          PROVE  UNCHANGED course \/ \E g \in Events : Spend(g)
      BY <2>1 DEF Ensure, EnsureRead, EnsureTail, TakeWrap, Rotate, RotateMint, RotatePublish, RotateAdopt,
                  Retain, Resent, Publish
    <2>2. ASSUME NEW d \in Devices, Deliver(d) \/ Request(d) \/ Restart(d)
          PROVE  UNCHANGED course \/ \E g \in Events : Spend(g)
      BY <2>2 DEF Deliver, DeliverAnnounce, DeliverWrap, DeliverRequest, Request, SendRequest, SkipRequest,
                  RetryRequest, Send, Publish, Restart
    <2>3. ASSUME NEW j \in jobs, Answer(j)
          PROVE  UNCHANGED course \/ \E g \in Events : Spend(g)
      BY <2>3 DEF Answer, AnswerCheck, AnswerWrap, AnswerDone, Publish
    <2>4. ASSUME (\E x \in Accounts : Cut(x) \/ Admit(x)) \/ Age \/ Garbage \/ UNCHANGED vars
          PROVE  UNCHANGED course \/ \E g \in Events : Spend(g)
      BY <2>4 DEF Cut, Admit, Age, Garbage, vars
    <2>5. course.devices \subseteq Devices
      BY DEF IInv, TypeOK, CourseStates
    <2> QED BY <2>1, <2>2, <2>3, <2>4, <2>5 DEF Next
  <1> QED BY <1>1, QuietCourse, SpentCourse

\* storage keeps all that is published where no message may be lost
LEMMA NextStores ==
    ASSUME IInv, Faithful, store = sent, [Next]_vars
    PROVE  store' = sent'
  <1>1. ~Spend("lost")
    BY SpentCourse, EventNames DEF Faithful
  <1>2. ASSUME NEW m, Publish(m) PROVE store' = sent'
    BY <1>1, <1>2 DEF Publish
  <1>3. ASSUME NEW d \in Devices, Ensure(d) \/ TakeWrap(d) \/ Rotate(d) \/ Retain(d)
        PROVE  store' = sent'
    BY <1>2, <1>3 DEF Ensure, EnsureRead, EnsureTail, TakeWrap, Rotate, RotateMint, RotatePublish, RotateAdopt, Retain
  <1>4. ASSUME NEW d \in Devices, Deliver(d) \/ Request(d) \/ Restart(d)
        PROVE  store' = sent'
    BY <1>2, <1>4 DEF Deliver, DeliverAnnounce, DeliverWrap, DeliverRequest, Request, SendRequest, SkipRequest,
                      RetryRequest, Send, Restart
  <1>5. ASSUME NEW j \in jobs, Answer(j) PROVE store' = sent'
    BY <1>2, <1>5 DEF Answer, AnswerCheck, AnswerWrap, AnswerDone
  <1>6. ASSUME (\E x \in Accounts : Cut(x) \/ Admit(x)) \/ Age \/ Garbage \/ UNCHANGED vars PROVE store' = sent'
    BY <1>6 DEF Cut, Admit, Age, Garbage, vars
  <1>7. course.devices \subseteq Devices
    BY DEF IInv, TypeOK, CourseStates
  <1> QED BY <1>3, <1>4, <1>5, <1>6, <1>7 DEF Next

\* a key once announced by a rotation is anchored when the rotation ends
RotSteps ==
    \A d \in Devices : rot[d].phase = "sent" =>
        \/ rot'[d] = rot[d]
        \/ mem'[d].anchor[keyEpoch[rot[d].key]] # None
        \/ Restart(d)

LEMMA NextRot ==
    ASSUME IInv, [Next]_vars
    PROVE  RotSteps
  <1>1. rot \in [Devices -> [phase : {"none", "minted", "sent"}, key : Keys \cup {None}, ts : Nat]]
    BY DEF IInv, TypeOK
  <1>2. CASE UNCHANGED rot
    BY <1>2 DEF RotSteps
  <1>3. ASSUME NEW d \in Devices, rot[d].phase # "sent", NEW r, rot' = [rot EXCEPT ![d] = r]
        PROVE  RotSteps
    BY <1>1, <1>3 DEF RotSteps
  <1>4. ASSUME NEW d \in Devices, EnsureTail(d) \/ RotateMint(d) PROVE RotSteps
    <2>1. UNCHANGED rot \/ (rot[d] = NoRot /\ \E r : rot' = [rot EXCEPT ![d] = r])
      BY <1>4 DEF EnsureTail, RotateMint, Mint
    <2> QED BY <1>2, <1>3, <2>1 DEF NoRot
  <1>5. ASSUME NEW d \in Devices, RotatePublish(d) PROVE RotSteps
    BY <1>1, <1>5 DEF RotatePublish, RotSteps
  <1>6. ASSUME NEW d \in Devices, RotateAdopt(d) PROVE RotSteps
    <2>1. mem'[d].anchor[keyEpoch[rot[d].key]] # None
      BY <1>6, RotateAdoptMoves
    <2> QED BY <1>1, <1>6, <2>1 DEF RotateAdopt, RotSteps
  <1>7. ASSUME NEW d \in Devices, Restart(d) PROVE RotSteps
    BY <1>1, <1>7 DEF Restart, RotSteps
  <1>8. ASSUME NEW d \in Devices, EnsureRead(d) \/ TakeWrap(d) \/ Retain(d) \/ Deliver(d) \/ Request(d)
        PROVE  RotSteps
    <2>1. UNCHANGED rot
      BY <1>8 DEF EnsureRead, TakeWrap, Retain, Deliver, DeliverAnnounce, DeliverWrap, DeliverRequest, Request,
                  SendRequest, SkipRequest, RetryRequest, Send
    <2> QED BY <1>2, <2>1
  <1>9. ASSUME NEW j \in jobs, Answer(j) PROVE RotSteps
    BY <1>2, <1>9 DEF Answer, AnswerCheck, AnswerWrap, AnswerDone
  <1>10. CASE (\E x \in Accounts : Cut(x) \/ Admit(x)) \/ Age \/ Garbage \/ UNCHANGED vars
    BY <1>2, <1>10 DEF Cut, Admit, Age, Garbage, vars
  <1>11. course.devices \subseteq Devices
    BY DEF IInv, TypeOK, CourseStates
  <1> QED BY <1>4, <1>5, <1>6, <1>7, <1>8, <1>9, <1>10, <1>11 DEF Next, Ensure, Rotate

\* an announce goes out from a running device that is about to anchor it, or has
NewLeads == \A m \in sent' \ sent : Valid(m) =>
                /\ m.by \in course.devices
                /\ \/ mem'[m.by].anchor[m.epoch] # None
                   \/ rot'[m.by].phase = "sent" /\ keyEpoch'[rot'[m.by].key] = m.epoch

LEMMA OtherLeads ==
    ASSUME NEW m, ~Valid(m), sent' \subseteq sent \cup {m}
    PROVE  NewLeads
  BY DEF NewLeads

LEMMA NextLeads ==
    ASSUME IInv, RetainAnchored, [Next]_vars
    PROVE  NewLeads
  <1>1. CASE UNCHANGED sent
    BY <1>1 DEF NewLeads
  <1>2. ASSUME NEW d \in Devices \cap course.devices, RotatePublish(d) PROVE NewLeads
    <2> DEFINE m == Announce(d, rot[d].key, clock)
    <2>1. sent' = sent \cup {m} /\ rot' = [rot EXCEPT ![d].phase = "sent"]
      BY <1>2 DEF RotatePublish, Publish
    <2>2. m.by = d /\ m.epoch = keyEpoch[rot[d].key]
      BY DEF Announce
    <2>3. rot'[d].phase = "sent" /\ rot'[d].key = rot[d].key /\ UNCHANGED keyEpoch
      BY <1>2, <2>1 DEF RotatePublish, IInv, TypeOK
    <2> HIDE DEF m
    <2> QED BY <2>1, <2>2, <2>3 DEF NewLeads
  <1>3. ASSUME NEW d \in Devices \cap course.devices, Retain(d) PROVE NewLeads
    <2>1. PICK k \in mem[d].retain : UNCHANGED sent \/ (Publish(Announce(d, k, clock)) /\ UNCHANGED mem)
      BY <1>3 DEF Retain
    <2> DEFINE m == Announce(d, k, clock)
    <2>2. UNCHANGED sent \/ (sent' = sent \cup {m} /\ UNCHANGED mem)
      BY <2>1 DEF Publish
    <2>3. m.by = d /\ m.epoch = keyEpoch[k]
      BY DEF Announce
    <2>4. mem[d].anchor[keyEpoch[k]] # None
      BY DEF RetainAnchored
    <2> HIDE DEF m
    <2> QED BY <2>2, <2>3, <2>4 DEF NewLeads
  <1>4. ASSUME NEW d \in Devices, RotateAdopt(d) \/ Request(d) PROVE NewLeads
    <2>1. CASE RotateAdopt(d)
      <3> DEFINE w == [type |-> "wrap", req |-> Self, key |-> rot[d].key,
                       epoch |-> keyEpoch[rot[d].key], mat |-> rot[d].key]
      <3>1. ~Valid(w) /\ sent' = sent \cup {w}
        BY <2>1 DEF RotateAdopt, Publish, Valid
      <3> QED BY <3>1, OtherLeads
    <2>2. CASE Send(d, mem[d])
      <3> DEFINE q(r, e) == [type |-> "request", id |-> r, dev |-> d, from |-> e, ts |-> clock]
      <3>1. PICK r \in RequestIds : \E e \in Wanted(mem[d]) : Publish(q(r, e))
        BY <2>2 DEF Send
      <3>2. PICK e \in Wanted(mem[d]) : Publish(q(r, e))
        BY <3>1
      <3>3. ~Valid(q(r, e)) /\ sent' = sent \cup {q(r, e)}
        BY <3>2 DEF Publish, Valid
      <3> QED BY <3>3, OtherLeads
    <2>3. CASE SkipRequest(d)
      BY <1>1, <2>3 DEF SkipRequest
    <2> QED BY <1>4, <2>1, <2>2, <2>3 DEF Request, SendRequest, RetryRequest
  <1>5. ASSUME NEW d \in Devices, Ensure(d) \/ TakeWrap(d) \/ RotateMint(d) \/ Deliver(d) \/ Restart(d)
        PROVE  NewLeads
    <2>1. UNCHANGED sent
      BY <1>5 DEF Ensure, EnsureRead, EnsureTail, TakeWrap, RotateMint, Deliver, DeliverAnnounce, DeliverWrap,
                  DeliverRequest, Restart
    <2> QED BY <1>1, <2>1
  <1>6. ASSUME NEW j \in jobs, Answer(j) PROVE NewLeads
    <2> DEFINE w(h) == [type |-> "wrap", req |-> j.req.id, key |-> h.key, epoch |-> h.epoch, mat |-> h.mat]
    <2>1. UNCHANGED sent \/ \E h \in Left(mem[j.dev], j) : Publish(w(h))
      BY <1>6 DEF Answer, AnswerCheck, AnswerWrap, AnswerDone
    <2>2. ASSUME NEW h, Publish(w(h)) PROVE NewLeads
      <3>1. ~Valid(w(h)) /\ sent' = sent \cup {w(h)}
        BY <2>2 DEF Publish, Valid
      <3> QED BY <3>1, OtherLeads
    <2> QED BY <1>1, <2>1, <2>2
  <1>7. ASSUME Garbage PROVE NewLeads
    <2>1. PICK m : sent' = sent \cup {m} /\ ~Valid(m)
      BY <1>7 DEF Garbage, Valid
    <2> QED BY <2>1, OtherLeads
  <1>8. CASE (\E x \in Accounts : Cut(x) \/ Admit(x)) \/ Age \/ UNCHANGED vars
    BY <1>1, <1>8 DEF Cut, Admit, Age, vars
  <1>9. course.devices \subseteq Devices
    BY DEF IInv, TypeOK, CourseStates
  <1> QED BY <1>2, <1>3, <1>4, <1>5, <1>6, <1>7, <1>8, <1>9 DEF Next, Rotate

\* a read that does not fail leaves every announce of the stream anchored
EnsSteps ==
    \A d \in Devices : ens'[d].pc = "read" =>
        \/ ens'[d] = ens[d] /\ ~Restart(d)
        \/ \A m \in store : Valid(m) => mem'[d].anchor[m.epoch] # None

LEMMA FaithfulReads ==
    ASSUME IInv, Faithful, NEW read \in Resends
    PROVE  read = store
  <1>1. ~May("read")
    BY DEF Faithful, May
  <1> QED BY <1>1 DEF Resends

LEMMA ReadEns ==
    ASSUME IInv, Faithful, NEW d \in Devices, EnsureRead(d)
    PROVE  \A m \in store : Valid(m) => mem'[d].anchor[m.epoch] # None
  <1> DEFINE U(read, t) ==
                 [t EXCEPT !.seen = @ \cup Covers({m \in read : m.type = "wrap"}),
                           !.todo = @ \cup {w \in {m \in read : m.type = "wrap"} :
                                               Mine(d, mem[d], w) /\ w.key \notin HeldKeys(mem[d])}]
  <1>1. PICK read \in Resends : \E t \in ApplyAnnounces(mem[d], read) : mem' = [mem EXCEPT ![d] = U(read, t)]
    BY DEF EnsureRead, Keep, SetMem
  <1>2. PICK t \in ApplyAnnounces(mem[d], read) : mem' = [mem EXCEPT ![d] = U(read, t)]
    BY <1>1
  <1>3. read = store /\ mem[d] \in MemStates /\ store \in SUBSET Messages
    BY FaithfulReads DEF IInv, TypeOK
  <1>4. t \in MemStates /\ \A m \in store : Valid(m) => t.anchor[m.epoch] # None
    BY <1>3, AppliedType, ReadAnchors
  <1>5. U(read, t).anchor = t.anchor
    BY <1>4 DEF MemStates
  <1> HIDE DEF U
  <1>6. mem'[d] = U(read, t)
    BY <1>2 DEF IInv, TypeOK
  <1> QED BY <1>4, <1>5, <1>6

LEMMA NextEns ==
    ASSUME IInv, Faithful, [Next]_vars
    PROVE  EnsSteps
  <1>1. ens \in [Devices -> [pc : {"idle", "read"}, asked : SUBSET Requests]]
    BY DEF IInv, TypeOK
  <1>2. ASSUME NEW d \in Devices, EnsureRead(d) PROVE EnsSteps
    <2>1. \A c \in Devices : c # d => ens'[c] = ens[c]
      BY <1>1, <1>2 DEF EnsureRead
    <2>2. \A c \in Devices : ~Restart(c)
      BY <1>1, <1>2 DEF EnsureRead, Restart, Idle
    <2> QED BY <1>2, <2>1, <2>2, ReadEns DEF EnsSteps
  <1>3. ASSUME NEW d \in Devices, ens' = [ens EXCEPT ![d] = Idle],
               \A c \in Devices : c # d => ~Restart(c) \/ ens'[c] = Idle
        PROVE  EnsSteps
    BY <1>1, <1>3 DEF EnsSteps, Idle
  <1>4. CASE UNCHANGED ens
    <2>1. \A c \in Devices : Restart(c) => ens'[c] = Idle
      BY <1>1 DEF Restart
    <2> QED BY <1>4, <2>1 DEF EnsSteps, Idle
  <1>5. ASSUME NEW d \in Devices, EnsureTail(d) \/ Restart(d) PROVE EnsSteps
    <2>1. ens' = [ens EXCEPT ![d] = Idle]
      BY <1>5 DEF EnsureTail, Restart
    <2>2. \A c \in Devices : Restart(c) => ens'[c] = Idle
      BY <1>1 DEF Restart
    <2> QED BY <1>3, <2>1, <2>2
  <1>6. ASSUME NEW d \in Devices, TakeWrap(d) \/ Rotate(d) \/ Retain(d) \/ Deliver(d) \/ Request(d)
        PROVE  EnsSteps
    <2>1. UNCHANGED ens
      BY <1>6 DEF TakeWrap, Rotate, RotateMint, RotatePublish, RotateAdopt, Retain, Deliver, DeliverAnnounce,
                  DeliverWrap, DeliverRequest, Request, SendRequest, SkipRequest, RetryRequest, Send
    <2> QED BY <1>4, <2>1
  <1>7. ASSUME NEW j \in jobs, Answer(j) PROVE EnsSteps
    BY <1>4, <1>7 DEF Answer, AnswerCheck, AnswerWrap, AnswerDone
  <1>8. CASE (\E x \in Accounts : Cut(x) \/ Admit(x)) \/ Age \/ Garbage \/ UNCHANGED vars
    BY <1>4, <1>8 DEF Cut, Admit, Age, Garbage, vars
  <1>9. course.devices \subseteq Devices
    BY DEF IInv, TypeOK, CourseStates
  <1> QED BY <1>2, <1>5, <1>6, <1>7, <1>8, <1>9 DEF Next, Ensure

LEMMA RetainStays ==
    ASSUME IInv, IInv', RetainAnchored, Moves, KeySteps
    PROVE  RetainAnchored'
  <1> SUFFICES ASSUME NEW d \in Devices, NEW k \in mem'[d].retain
               PROVE  mem'[d].anchor[keyEpoch'[k]] # None
    BY DEF RetainAnchored
  <1>1. Grows(mem[d], mem'[d])
    BY DEF Moves, Loaded, Fresh
  <1>2. CASE k \in mem[d].retain
    <2>1. k \in Keys /\ keyEpoch[k] # 0 /\ mem[d].anchor[keyEpoch[k]] # None
      BY <1>2 DEF IInv, TypeOK, MemStates, RetainOK, RetainAnchored
    <2>2. keyEpoch[k] \in Epochs /\ keyEpoch'[k] = keyEpoch[k]
      BY <2>1, EpochKeysAssumption DEF KeySteps, IInv, TypeOK, Epochs
    <2> QED BY <1>1, <2>1, <2>2 DEF Grows
  <1>3. CASE k \notin mem[d].retain
    <2>1. keyEpoch[k] # 0 /\ mem'[d].anchor[keyEpoch[k]] # None
      BY <1>1, <1>3 DEF Grows
    <2>2. k \in Keys
      BY DEF IInv, TypeOK, MemStates
    <2> QED BY <2>1, <2>2 DEF KeySteps
  <1> QED BY <1>2, <1>3

\* what a device leads it leads until it restarts
LEMMA LeadStays ==
    ASSUME IInv, Moves, RotSteps, KeySteps, NEW m \in sent, Valid(m), ~Restart(m.by), Leads(m.by, m)
    PROVE  Leads(m.by, m)'
  <1> DEFINE d == m.by
  <1>1. d \in Devices /\ m.epoch \in Epochs
    BY MessageTypes DEF Valid, IInv, TypeOK, Announces
  <1>2. Grows(mem[d], mem'[d])
    BY <1>1 DEF Moves
  <1>3. CASE mem[d].anchor[m.epoch] # None
    BY <1>1, <1>2, <1>3 DEF Grows, Leads
  <1>4. CASE rot[d].phase = "sent" /\ keyEpoch[rot[d].key] = m.epoch
    <2>1. rot'[d] = rot[d] \/ mem'[d].anchor[m.epoch] # None
      BY <1>1, <1>4 DEF RotSteps
    <2>2. rot[d].key \in Keys /\ keyEpoch'[rot[d].key] = keyEpoch[rot[d].key]
      BY <1>1, <1>4 DEF IInv, RotOK, KeySteps
    <2> QED BY <1>4, <2>1, <2>2 DEF Leads
  <1> QED BY <1>3, <1>4 DEF Leads

\* the sole owner's device that mints leads every announce on the stream
LEMMA SoleMinter ==
    ASSUME IInv, SoleOwner, ByRunning, NEW d \in course.devices, IsOwner(d), NEW m \in sent, Valid(m)
    PROVE  m.by = d /\ m.epoch \in Epochs
  BY MessageTypes DEF SoleOwner, ByRunning, Valid, IInv, TypeOK, Announces

LEMMA FirstMintAscends ==
    ASSUME LeadInv, NEW d \in course.devices, EnsureTail(d), keyEpoch' # keyEpoch
    PROVE  Ascends
  <1>1. Announced(mem[d]) = {} /\ IsOwner(d) /\ rot[d] = NoRot /\ ens[d].pc = "read"
    BY DEF EnsureTail
  <1>2. ASSUME NEW m \in sent, Valid(m) PROVE FALSE
    <2>1. m.by = d /\ m.epoch \in Epochs
      BY <1>1, <1>2, SoleMinter DEF LeadInv
    <2>2. Leads(d, m)
      BY <1>1, <1>2, <2>1 DEF LeadInv, Steady, Readable
    <2> QED BY <1>1, <2>1, <2>2 DEF Leads, Announced, NoRot
  <1> QED BY <1>2 DEF Ascends

LEMMA RotationAscends ==
    ASSUME LeadInv, NEW d \in course.devices, RotateMint(d)
    PROVE  Ascends
  <1>1. IsOwner(d) /\ rot[d] = NoRot /\ d \in Devices
    BY DEF RotateMint, LeadInv, IInv, TypeOK, CourseStates
  <1>2. PICK read \in Resends : \E t \in ApplyAnnounces(mem[d], read) : \E e \in Epochs :
            e = CurrentEpoch(t) + 1 /\ Mint(d, e)
    BY DEF RotateMint
  <1>3. PICK t \in ApplyAnnounces(mem[d], read), e \in Epochs : e = CurrentEpoch(t) + 1 /\ Mint(d, e)
    BY <1>2
  <1>4. mem[d] \in MemStates /\ read \in SUBSET Messages
    BY <1>1 DEF Resends, LeadInv, IInv, TypeOK
  <1>5. ASSUME NEW m \in sent, Valid(m) PROVE m.epoch < e
    <2>1. m.by = d /\ m.epoch \in Epochs
      BY <1>1, <1>5, SoleMinter DEF LeadInv
    <2>2. t.anchor[m.epoch] # None
      <3>1. CASE Steady
        <4>1. mem[d].anchor[m.epoch] # None
          BY <1>1, <1>5, <2>1, <3>1 DEF Steady, Leads, NoRot
        <4> QED BY <1>4, <2>1, <4>1, AppliedGrows DEF Grows
      <3>2. CASE Readable
        <4>1. m \in read
          BY <3>2, FaithfulReads DEF Readable, LeadInv
        <4> QED BY <1>4, <1>5, <4>1, ReadAnchors
      <3> QED BY <3>1, <3>2 DEF LeadInv
    <2>3. m.epoch \in Announced(t)
      BY <2>1, <2>2 DEF Announced
    <2>4. CurrentEpoch(t) \in Epochs /\ m.epoch <= CurrentEpoch(t)
      BY <2>3, HighestAnnounced DEF Announced
    <2> QED BY <1>3, <2>1, <2>4, EpochKeysAssumption DEF Epochs
  <1>6. PICK k \in Keys : keyEpoch[k] = 0 /\ keyEpoch' = [keyEpoch EXCEPT ![k] = e]
    BY <1>3 DEF Mint
  <1>7. \A j \in Keys : keyEpoch[j] = 0 /\ keyEpoch'[j] # 0 => keyEpoch'[j] = e
    BY <1>6 DEF LeadInv, IInv, TypeOK
  <1> QED BY <1>5, <1>7 DEF Ascends

LEMMA NextAscends ==
    ASSUME LeadInv, [Next]_vars
    PROVE  Ascends
  <1>1. CASE UNCHANGED keyEpoch
    BY <1>1 DEF Ascends
  <1>2. ASSUME NEW d \in course.devices, Ensure(d) \/ TakeWrap(d) \/ Rotate(d) \/ Retain(d)
        PROVE  Ascends
    <2>1. UNCHANGED keyEpoch \/ EnsureTail(d) \/ RotateMint(d)
      BY <1>2 DEF Ensure, EnsureRead, TakeWrap, Rotate, RotatePublish, RotateAdopt, Retain
    <2> QED BY <1>1, <2>1, FirstMintAscends, RotationAscends
  <1>3. ASSUME NEW d \in course.devices, Deliver(d) \/ Request(d) \/ Restart(d)
        PROVE  Ascends
    <2>1. UNCHANGED keyEpoch
      BY <1>3 DEF Deliver, DeliverAnnounce, DeliverWrap, DeliverRequest, Request, SendRequest, SkipRequest,
                  RetryRequest, Send, Restart
    <2> QED BY <1>1, <2>1
  <1>4. ASSUME NEW j \in jobs, Answer(j) PROVE Ascends
    BY <1>1, <1>4 DEF Answer, AnswerCheck, AnswerWrap, AnswerDone
  <1>5. CASE (\E x \in Accounts : Cut(x) \/ Admit(x)) \/ Age \/ Garbage \/ UNCHANGED vars
    BY <1>1, <1>5 DEF Cut, Admit, Age, Garbage, vars
  <1> QED BY <1>2, <1>3, <1>4, <1>5 DEF Next

LEMMA SteadyStays ==
    ASSUME LeadInv, IInv', Steady, Moves, RotSteps, KeySteps, CourseSteps, NewLeads
    PROVE  Steady'
  <1>1. course.left["crash"] = 0 /\ course'.left["crash"] \in Nat /\ course'.left["crash"] <= course.left["crash"]
    BY EventNames DEF Steady, NoRestart, CourseSteps, IInv, TypeOK, CourseStates
  <1>2. NoRestart'
    BY <1>1 DEF NoRestart
  <1>3. \A d : ~Restart(d)
    BY <1>1, SpentCourse, EventNames DEF Restart, LeadInv
  <1>4. ASSUME NEW m \in sent', Valid(m) PROVE Leads(m.by, m)'
    <2>1. CASE m \in sent
      BY <1>3, <1>4, <2>1, LeadStays DEF Steady, LeadInv
    <2>2. CASE m \notin sent
      BY <1>4, <2>2 DEF NewLeads, Leads
    <2> QED BY <2>1, <2>2
  <1> QED BY <1>2, <1>4 DEF Steady

LEMMA ReadableStays ==
    ASSUME LeadInv, IInv', Readable, Moves, RotSteps, KeySteps, CourseSteps, NewLeads, EnsSteps, store' = sent'
    PROVE  Readable'
  <1>1. Faithful'
    <2>1. \A f \in Events : course.left[f] = 0 => course'.left[f] = 0
      BY DEF CourseSteps, IInv, TypeOK, CourseStates
    <2> QED BY <2>1, EventNames DEF Readable, Faithful
  <1>2. ASSUME NEW m \in sent', Valid(m), ens'[m.by].pc = "read" PROVE Leads(m.by, m)'
    <2>1. CASE m \in sent
      <3>1. m.by \in Devices
        BY <1>2, <2>1, MessageTypes DEF Valid, LeadInv, IInv, TypeOK, Announces
      <3>2. CASE ens'[m.by] = ens[m.by] /\ ~Restart(m.by)
        BY <1>2, <2>1, <3>2, LeadStays DEF Readable, LeadInv
      <3>3. CASE \A n \in store : Valid(n) => mem'[m.by].anchor[n.epoch] # None
        BY <1>2, <2>1, <3>3 DEF Readable, Leads
      <3> QED BY <1>2, <3>1, <3>2, <3>3 DEF EnsSteps
    <2>2. CASE m \notin sent
      BY <1>2, <2>2 DEF NewLeads, Leads
    <2> QED BY <2>1, <2>2
  <1> QED BY <1>1, <1>2 DEF Readable

LEMMA LeadNext ==
    ASSUME LeadInv, [Next]_vars
    PROVE  LeadInv'
  <1>1. IInv /\ RetainAnchored
    BY DEF LeadInv
  <1>2. /\ IInv' /\ Moves /\ KeySteps /\ CourseSteps /\ RotSteps /\ NewLeads
    BY <1>1, NextKeeps, NextMoves, NextKeys, NextCourse, NextRot, NextLeads
  <1>3. RetainAnchored'
    BY <1>1, <1>2, RetainStays
  <1>4. SoleOwner' /\ ByRunning'
    BY <1>2 DEF CourseSteps, NewLeads, LeadInv, SoleOwner, ByRunning
  <1>5. CASE Steady
    BY <1>2, <1>3, <1>4, <1>5, SteadyStays DEF LeadInv
  <1>6. CASE Readable
    <2>1. EnsSteps /\ store' = sent'
      BY <1>1, <1>6, NextEns, NextStores DEF Readable
    <2> QED BY <1>2, <1>3, <1>4, <1>6, <2>1, ReadableStays DEF LeadInv
  <1> QED BY <1>5, <1>6 DEF LeadInv

\* An owner on one device mints in ascending order, in a session that is not restarted or over a
\* storage node that keeps and returns what is published.
THEOREM SoleOwnerAscends == Spec /\ SoleOwner /\ (NoRestart \/ Faithful) => MintsAscend
  <1>1. Init /\ SoleOwner /\ (NoRestart \/ Faithful) => LeadInv
    <2>1. Init => IInv
      BY InitHolds
    <2>2. Init => ByRunning /\ RetainAnchored
      BY DEF Init, ByRunning, RetainAnchored, Fresh
    <2>3. Init /\ NoRestart => Steady
      BY DEF Init, Steady
    <2>4. Init /\ Faithful => Readable
      BY DEF Init, Readable
    <2> QED BY <2>1, <2>2, <2>3, <2>4 DEF LeadInv
  <1>2. LeadInv /\ [Next]_vars => LeadInv' /\ [Ascends]_vars
    BY LeadNext, NextAscends
  <1>3. [][Ascends]_vars => MintsAscend
    BY DEF MintsAscend, Ascends
  <1> QED BY <1>1, <1>2, <1>3, PTL DEF Spec

\* So there no answer serves an account on a grant older than the key it wraps.
THEOREM SoleOwnerJudges == Spec /\ SoleOwner /\ (NoRestart \/ Faithful) => []JudgedUnderEpoch
  BY SoleOwnerAscends, JudgedWhereMintsAscend, PTL
=============================================================================
