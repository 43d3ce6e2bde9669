---------------------------- MODULE Delivery_proofs ----------------------------
(***************************************************************************)
(* Proofs about what reaches a member and what comes of it: the timelines    *)
(* (Messages), for any devices, courses and bounds, and the file transfers   *)
(* (Transfers), for any peers, pieces, courses and limits.                   *)
(*                                                                         *)
(* That a failed send is kept is inductive with the types.  That history is  *)
(* whole is not: a row that a read brings is dropped when it is being        *)
(* processed already, so the invariant also places every row with a lock.    *)
(*                                                                         *)
(* That the file is whole rests on every copy the downloader keeps, in       *)
(* memory, on its way into IndexedDB or in it, being one that was verified.  *)
(* That a sound peer is spared rests on every piece under way being what its *)
(* sender holds, and on the loop of manageDownload, a fold over the pieces,  *)
(* neither blaming nor excluding.                                            *)
(***************************************************************************)
EXTENDS Messages, Transfers, WellFoundedInduction, FiniteSetTheorems, TLAPS

-----------------------------------------------------------------------------
(* A fold over the pieces                                                   *)

InOrder == [p \in Pieces |-> p]

\* what a fold of Fill over the first k pieces is computed by
Partial(base, k, g) ==
    g = [s \in SUBSET (1..k) |-> IF s = {} THEN base ELSE Fill(g[s \ {Max(s)}], InOrder[Max(s)])]

\* Without induction over the pieces: of the numbers of pieces that one is missing for, a least one.
LEMMA LeastIn ==
    ASSUME NEW S \in SUBSET Nat, S # {}
    PROVE  \E n \in S : \A m \in S : ~(m < n)
<1>1. IsWellFoundedOn(OpToRel(<, Nat), Nat)
  BY NatLessThanWellFounded
<1>2. PICK n \in S : \A m \in S : ~(<<m, n>> \in OpToRel(<, Nat))
  BY <1>1, WFMin, Zenon
<1> QED BY <1>2 DEF OpToRel

LEMMA MaxIs ==
    ASSUME NEW k \in Nat, NEW s \in SUBSET (1..k), k \in s
    PROVE  Max(s) = k
<1>1. \A j \in s : j \in Nat /\ k >= j
  OBVIOUS
<1>2. \A j \in s : (\A i \in s : j >= i) => j = k
  BY <1>1
<1>3. \E j \in s : \A i \in s : j >= i
  BY <1>1
<1> QED BY <1>2, <1>3 DEF Max

LEMMA PartialExists ==
    ASSUME PieceCount \in Nat, NEW base
    PROVE  \E g : Partial(base, PieceCount, g)
<1> DEFINE Missing == {k \in 0..PieceCount : ~\E g : Partial(base, k, g)}
<1> SUFFICES ASSUME Missing # {} PROVE FALSE
  OBVIOUS
<1>1. PICK k \in Missing : \A m \in Missing : ~(m < k)
  <2>1. Missing \in SUBSET Nat
    OBVIOUS
  <2> HIDE DEF Missing
  <2> QED BY <2>1, LeastIn
<1>2. CASE k = 0
  <2> DEFINE g == [s \in SUBSET (1..0) |-> base]
  <2>1. \A s \in SUBSET (1..0) : s = {}
    OBVIOUS
  <2>2. Partial(base, 0, g)
    BY <2>1 DEF Partial
  <2> QED BY <1>1, <1>2, <2>2
<1>3. CASE k # 0
  <2>1. k - 1 \in 0..PieceCount /\ k \in Pieces /\ k - 1 < k /\ k \in Nat /\ k - 1 \in Nat
    BY <1>1, <1>3 DEF Pieces
  <2>2. PICK f : Partial(base, k - 1, f)
    BY <1>1, <2>1
  <2> DEFINE g == [s \in SUBSET (1..k) |-> IF k \in s THEN Fill(f[s \ {k}], k) ELSE f[s]]
  <2>3. ASSUME NEW s \in SUBSET (1..k), s # {}, k \in s
        PROVE  g[s] = Fill(g[s \ {Max(s)}], InOrder[Max(s)])
    <3>1. Max(s) = k
      BY <2>1, <2>3, MaxIs
    <3>2. s \ {k} \in SUBSET (1..k) /\ g[s \ {k}] = f[s \ {k}]
      OBVIOUS
    <3>3. InOrder[k] = k
      BY <2>1 DEF InOrder
    <3>4. g[s] = Fill(f[s \ {k}], k)
      BY <2>3
    <3> QED BY <3>1, <3>2, <3>3, <3>4
  <2>4. ASSUME NEW s \in SUBSET (1..k), s # {}, k \notin s
        PROVE  g[s] = Fill(g[s \ {Max(s)}], InOrder[Max(s)])
    <3>1. s \in SUBSET (1..(k - 1)) /\ s \ {Max(s)} \in SUBSET (1..k)
      <4>1. \A j \in s : j \in 1..k /\ j # k
        BY <2>4
      <4>2. \A j \in s : j \in 1..(k - 1)
        BY <2>1, <4>1
      <4> QED BY <4>1, <4>2
    <3>2. f[s] = Fill(f[s \ {Max(s)}], InOrder[Max(s)])
      BY <3>1, <2>2, <2>4 DEF Partial
    <3>3. g[s] = f[s] /\ g[s \ {Max(s)}] = f[s \ {Max(s)}]
      BY <2>4, <3>1
    <3> QED BY <3>2, <3>3
  <2>5. g[{}] = base
    <3>1. {} \in SUBSET (1..(k - 1)) /\ {} \in SUBSET (1..k)
      OBVIOUS
    <3>2. f[{}] = base
      BY <2>2, <3>1 DEF Partial
    <3> QED BY <3>1, <3>2
  <2>6. Partial(base, k, g)
    <3> HIDE DEF g
    <3>1. g = [s \in SUBSET (1..k) |-> g[s]]
      BY DEF g
    <3>2. \A s \in SUBSET (1..k) : g[s] = IF s = {} THEN base ELSE Fill(g[s \ {Max(s)}], InOrder[Max(s)])
      BY <2>3, <2>4, <2>5, Zenon
    <3> QED BY <3>1, <3>2, Zenon DEF Partial
  <2> QED BY <1>1, <2>6
<1> QED BY <1>2, <1>3

\* What the loop of manageDownload may do to one piece, it may do to all of them in turn.
LEMMA FoldIn ==
    ASSUME PieceCount \in Nat, NEW R, NEW base \in R,
           \A r \in R : \A p \in Pieces : Fill(r, p) \in R
    PROVE  FoldLeft(Fill, base, [p \in Pieces |-> p]) \in R
<1> DEFINE F == CHOOSE g : Partial(base, PieceCount, g)
           Unmet == {k \in 0..PieceCount : F[1..k] \notin R}
<1>1. Partial(base, PieceCount, F)
  BY PartialExists
<1>2. FoldLeft(Fill, base, InOrder) = F[1..PieceCount]
  <2>1. DOMAIN InOrder = 1..PieceCount
    BY DEF InOrder, Pieces
  <2>2. FoldLeft(Fill, base, InOrder)
          = (CHOOSE iter : iter = [s \in SUBSET (DOMAIN InOrder) |->
                IF s = {} THEN base ELSE Fill(iter[s \ {Max(s)}], InOrder[Max(s)])])[DOMAIN InOrder]
    BY DEF FoldLeft, MapThenFoldSet
  <2> QED BY <2>1, <2>2, Zenon DEF Partial
<1> HIDE DEF F
<1>3. \A k \in 0..PieceCount : k # 0 => F[1..k] = Fill(F[1..(k - 1)], k)
  <2> SUFFICES ASSUME NEW k \in 0..PieceCount, k # 0
               PROVE  F[1..k] = Fill(F[1..(k - 1)], k)
    OBVIOUS
  <2>1. 1..k \in SUBSET (1..PieceCount) /\ 1..k # {} /\ k \in 1..k /\ k \in Nat
    OBVIOUS
  <2>2. Max(1..k) = k
    BY <2>1, MaxIs
  <2>3. (1..k) \ {k} = 1..(k - 1)
    OBVIOUS
  <2>4. InOrder[k] = k
    BY DEF InOrder, Pieces
  <2>5. F[1..k] = Fill(F[(1..k) \ {Max(1..k)}], InOrder[Max(1..k)])
    BY <1>1, <2>1 DEF Partial
  <2> QED BY <2>2, <2>3, <2>4, <2>5
<1>4. F[1..0] = base
  <2>1. 1..0 = {} /\ {} \in SUBSET (1..PieceCount)
    OBVIOUS
  <2> QED BY <1>1, <2>1 DEF Partial
<1>5. Unmet = {}
  <2> SUFFICES ASSUME Unmet # {} PROVE FALSE
    OBVIOUS
  <2>1. PICK k \in Unmet : \A m \in Unmet : ~(m < k)
    <3>1. Unmet \in SUBSET Nat
      OBVIOUS
    <3> HIDE DEF Unmet
    <3> QED BY <3>1, LeastIn
  <2>2. k # 0
    BY <1>4, <2>1
  <2>3. k - 1 \in 0..PieceCount /\ k - 1 < k /\ k \in Pieces
    BY <2>1, <2>2 DEF Pieces
  <2>4. F[1..(k - 1)] \in R
    BY <2>1, <2>3
  <2> QED BY <1>3, <2>1, <2>2, <2>3, <2>4
<1>6. F[1..PieceCount] \in R
  BY <1>5
<1> QED BY <1>2, <1>6 DEF InOrder
\* a least and a larger number
LEMMA MinIn ==
    ASSUME NEW S \in SUBSET Nat, S # {}
    PROVE  Min(S) \in S
<1>1. PICK n \in S : \A m \in S : ~(m < n)
  BY LeastIn
<1>2. \A m \in S : n <= m
  BY <1>1
<1> QED BY <1>1, <1>2 DEF Min

LEMMA LargerNat ==
    ASSUME NEW a \in Int, NEW b \in Nat
    PROVE  Max({a, b}) \in Nat
<1>1. CASE a > b
  <2>1. \A m \in {a, b} : (\A n \in {a, b} : m >= n) <=> m = a
    BY <1>1
  <2> QED BY <1>1, <2>1 DEF Max
<1>2. CASE ~(a > b)
  <2>1. \A m \in {a, b} : (\A n \in {a, b} : m >= n) <=> m = b
    BY <1>2
  <2> QED BY <1>2, <2>1 DEF Max
<1> QED BY <1>1, <1>2

-----------------------------------------------------------------------------
(* The state                                                                *)

Transfer ==
    [on : BOOLEAN, paused : BOOLEAN, status : [Pieces -> Status], flight : [Pieces -> Seeders \cup {NoOne}],
     armed : SUBSET Pieces, stray : [Pieces -> Nat], failures : [Pieces -> Nat],
     excluded : [Pieces -> SUBSET Seeders], strikes : [Seeders -> Nat], known : Seq(Seeders),
     cursor : Nat, window : Nat, started : BOOLEAN, retry : BOOLEAN, requests : Nat, ticks : Nat]

\* the transfers in which nobody with a sound copy is blamed
Honest(spoiled) ==
    {t \in Transfer : \A s \in Seeders : spoiled[s] = {} =>
                          t.strikes[s] = 0 /\ \A p \in Pieces : s \notin t.excluded[p]}
Result(spoiled) == [t : Honest(spoiled), asks : SUBSET (Pieces \X Seeders), seek : BOOLEAN]

Sent   == [p : Pieces, by : Seeders, good : BOOLEAN]
Check  == [p : Pieces, by : Seeders, good : BOOLEAN, mine : BOOLEAN]
Saving == [p : Pieces, as : {"good"}]
Stored == [Pieces -> {"none", "good"}]

\* what is under way is what its sender holds
AsHeld == \A a \in answers \cup hashing : a.good = Sound(a.by, a.p)

Inv == /\ course \in CourseStates
       /\ x \in Honest(course.spoiled)
       /\ answers \subseteq Sent /\ hashing \subseteq Check /\ saving \subseteq Saving
       /\ held \in Stored /\ file \in {"none", "whole"}
       /\ AsHeld

\* the copies of the peers do not change
SameCopies == course' \in CourseStates /\ course'.spoiled = course.spoiled

LEMMA SpendKeeps ==
    ASSUME course \in CourseStates, NEW E, Spend(E)
    PROVE  SameCopies
<1>1. \A e \in Events : course.left[e] \in Nat /\ (e \in E => course.left[e] - 1 \in Nat)
  BY DEF Spend, CourseStates
<1>2. [e \in Events |-> IF e \in E THEN course.left[e] - 1 ELSE course.left[e]] \in [Events -> Nat]
  BY <1>1
<1> QED BY <1>2 DEF Spend, SameCopies, CourseStates

LEMMA NewIsHonest ==
    ASSUME NEW spoiled, NEW h \in Stored
    PROVE  NewTransfer(h) \in Honest(spoiled) /\ NoTransfer \in Honest(spoiled)
<1>1. ASSUME NEW g \in Stored PROVE NewTransfer(g) \in Honest(spoiled)
  <2>1. WindowStart \in Nat
    BY TransfersAssumption
  <2>2. NewTransfer(g) \in Transfer
    BY <2>1, <1>1 DEF NewTransfer, Transfer, Always, Stored, Status
  <2> QED BY <2>2 DEF Honest, NewTransfer, Always
<1>2. Always("none") \in Stored
  BY DEF Always, Stored
<1>3. NoTransfer \in Transfer
  BY <1>1, <1>2 DEF NoTransfer, Honest, Transfer
<1> QED BY <1>1, <1>2, <1>3 DEF NoTransfer, Honest, Transfer

-----------------------------------------------------------------------------
(* manageDownload                                                           *)

LEMMA MovedNat ==
    ASSUME NEW t \in Transfer, NEW k \in Nat
    PROVE  Moved(t, k) \in Nat
BY TransfersAssumption DEF Moved, Transfer

LEMMA TurnIsSeeder ==
    ASSUME NEW t \in Transfer, NEW k \in Nat, t.known # <<>>
    PROVE  Turn(t, k) \in Seeders
<1>1. t.known \in Seq(Seeders) /\ t.cursor + k \in Nat
  BY DEF Transfer
<1>2. Len(t.known) \in Nat \ {0}
  BY <1>1
<1>3. ((t.cursor + k) % Len(t.known)) + 1 \in 1..Len(t.known)
  BY <1>1, <1>2
<1> QED BY <1>1, <1>3 DEF Turn

\* Asking for a piece blames nobody.
LEMMA RequestedHonest ==
    ASSUME NEW spoiled, NEW t \in Honest(spoiled), NEW p \in Pieces, NEW k \in Nat, t.known # <<>>
    PROVE  Requested(t, p, k) \in Honest(spoiled)
<1>1. t \in Transfer /\ Turn(t, k) \in Seeders /\ Moved(t, k + 1) \in Nat
  BY TurnIsSeeder, MovedNat DEF Honest
<1>2. Requested(t, p, k) \in Transfer
  <2>1. /\ [t.status EXCEPT ![p] = "requested"] \in [Pieces -> Status]
        /\ [t.flight EXCEPT ![p] = Turn(t, k)] \in [Pieces -> Seeders \cup {NoOne}]
        /\ t.armed \cup {p} \in SUBSET Pieces
    BY <1>1 DEF Transfer, Status
  <2>2. [t.stray EXCEPT ![p] = IF p \in t.armed THEN @ + 1 ELSE @] \in [Pieces -> Nat]
    BY <1>1 DEF Transfer
  <2> QED BY <1>1, <2>1, <2>2 DEF Requested, Transfer
<1>3. Requested(t, p, k).strikes = t.strikes /\ Requested(t, p, k).excluded = t.excluded
  BY <1>1 DEF Requested, Transfer
<1> QED BY <1>2, <1>3 DEF Honest

\* Nor does the part of the loop for one piece: at most it forgives.
LEMMA FillHonest ==
    ASSUME NEW spoiled, NEW r \in Result(spoiled), NEW p \in Pieces, r.t.known # <<>>
    PROVE  Fill(r, p) \in Result(spoiled) /\ Fill(r, p).t.known # <<>>
<1>1. Fill(r, p) = Filled(r, p)
  BY DEF Fill
<1>2. r.t \in Honest(spoiled) /\ r.t \in Transfer
  BY DEF Result, Honest
<1>3. CASE Cardinality(InFlight(r.t)) >= r.t.window \/ r.t.status[p] # "pending"
  BY <1>1, <1>3 DEF Filled
<1>4. CASE ~(Cardinality(InFlight(r.t)) >= r.t.window \/ r.t.status[p] # "pending") /\ Eligible(r.t, p) = {}
  <2> DEFINE u == [r.t EXCEPT !.excluded[p] = {}, !.cursor = Moved(r.t, Len(r.t.known))]
  <2>1. Len(r.t.known) \in Nat
    BY <1>2 DEF Transfer
  <2>2. Moved(r.t, Len(r.t.known)) \in Nat
    BY <1>2, <2>1, MovedNat
  <2>3. u \in Transfer /\ u.strikes = r.t.strikes /\ u.known = r.t.known
        /\ \A q \in Pieces : u.excluded[q] = IF q = p THEN {} ELSE r.t.excluded[q]
    BY <1>2, <2>2 DEF Transfer
  <2>4. u \in Honest(spoiled)
    BY <1>2, <2>3 DEF Honest
  <2>5. Filled(r, p) = [r EXCEPT !.t = u, !.seek = TRUE]
    BY <1>4, <1>2 DEF Filled, Result, Transfer
  <2> HIDE DEF u
  <2> QED BY <1>1, <2>3, <2>4, <2>5 DEF Result
<1>5. CASE ~(Cardinality(InFlight(r.t)) >= r.t.window \/ r.t.status[p] # "pending") /\ Eligible(r.t, p) # {}
  <2> DEFINE k == Min(Eligible(r.t, p))
             u == Requested(r.t, p, k)
  <2>1. k \in Nat
    <3>1. Len(r.t.known) \in Nat
      BY <1>2 DEF Transfer
    <3>2. Eligible(r.t, p) \subseteq 0..(Len(r.t.known) - 1)
      BY DEF Eligible
    <3>3. Eligible(r.t, p) \in SUBSET Nat
      BY <3>1, <3>2
    <3> QED BY <1>5, <3>3, MinIn
  <2>2. u \in Honest(spoiled) /\ u.known = r.t.known
    <3>1. u \in Honest(spoiled)
      BY <1>2, <2>1, RequestedHonest
    <3> QED BY <3>1, <1>2 DEF Requested, Transfer
  <2>3. Turn(r.t, k) \in Seeders
    BY <1>2, <2>1, TurnIsSeeder
  <2>4. Filled(r, p) = [r EXCEPT !.t = u, !.asks = r.asks \cup {<<p, Turn(r.t, k)>>}]
    BY <1>5 DEF Filled, Result
  <2> HIDE DEF u, k
  <2>5. r.asks \cup {<<p, Turn(r.t, k)>>} \in SUBSET (Pieces \X Seeders)
    BY <2>3 DEF Result
  <2> QED BY <1>1, <2>2, <2>4, <2>5 DEF Result
<1> QED BY <1>3, <1>4, <1>5

LEMMA ManagedHonest ==
    ASSUME NEW spoiled, NEW t \in Honest(spoiled)
    PROVE  Managed(t) \in Result(spoiled)
<1> DEFINE base == [t |-> t, asks |-> {}, seek |-> FALSE]
           R == {r \in Result(spoiled) : r.t.known # <<>>}
<1>1. base \in Result(spoiled) /\ t \in Transfer
  BY DEF Result, Honest
<1>2. CASE ~t.on \/ t.paused
  BY <1>1, <1>2 DEF Managed
<1>3. CASE ~(~t.on \/ t.paused) /\ t.known = <<>>
  <2> DEFINE u == [t EXCEPT !.retry = TRUE]
  <2>1. u \in Transfer /\ u.strikes = t.strikes /\ u.excluded = t.excluded
    BY <1>1 DEF Transfer
  <2>2. u \in Honest(spoiled) /\ t.started \in BOOLEAN
    BY <1>1, <2>1 DEF Honest, Transfer
  <2>3. Managed(t) = [base EXCEPT !.t = u, !.seek = t.started]
    BY <1>3 DEF Managed
  <2> HIDE DEF u
  <2> QED BY <2>2, <2>3 DEF Result
<1>4. CASE ~(~t.on \/ t.paused) /\ t.known # <<>>
  <2>1. base \in R
    BY <1>1, <1>4
  <2>2. \A r \in R : \A p \in Pieces : Fill(r, p) \in R
    BY FillHonest
  <2>3. PieceCount \in Nat
    BY TransfersAssumption
  <2>4. Managed(t) = FoldLeft(Fill, base, [p \in Pieces |-> p])
    BY <1>4 DEF Managed
  <2> HIDE DEF base, R
  <2>5. FoldLeft(Fill, base, [p \in Pieces |-> p]) \in R
    BY <2>1, <2>2, <2>3, FoldIn
  <2> QED BY <2>4, <2>5 DEF R
<1> QED BY <1>2, <1>3, <1>4
\* manageDownload, on behalf of whatever called it
LEMMA RefillKeeps ==
    ASSUME course \in CourseStates, NEW t \in Honest(course.spoiled), NEW E, Refill(t, E)
    PROVE  x' \in Honest(course.spoiled) /\ SameCopies
<1>1. PICK r \in {Managed(u) : u \in {t}} :
          \/ x' = r.t /\ Spend(E)
          \/ x' = [r.t EXCEPT !.requests = @ + 1] /\ Spend(E \cup {"slow"})
  BY DEF Refill
<1>2. r.t \in Honest(course.spoiled)
  BY ManagedHonest, <1>1 DEF Result
<1>3. SameCopies
  BY <1>1, SpendKeeps
<1>4. [r.t EXCEPT !.requests = @ + 1] \in Honest(course.spoiled)
  <2> DEFINE v == r.t
             u == [v EXCEPT !.requests = v.requests + 1]
  <2>1. v \in Transfer
    BY <1>2 DEF Honest
  <2> HIDE DEF v
  <2>2. v.requests + 1 \in Nat
    BY <2>1 DEF Transfer
  <2>3. u \in Transfer /\ u.strikes = v.strikes /\ u.excluded = v.excluded
    BY <2>1, <2>2 DEF Transfer
  <2>4. u \in Honest(course.spoiled)
    BY <1>2, <2>3 DEF Honest, v
  <2> QED BY <2>4 DEF v
<1> QED BY <1>1, <1>2, <1>3, <1>4

-----------------------------------------------------------------------------
(* The steps                                                                *)

\* what a step may do to the pieces that are verified and stored
PiecesKept == /\ hashing' \subseteq Check /\ \A h \in hashing' : h.good = Sound(h.by, h.p)
         /\ saving' \subseteq Saving /\ held' \in Stored

\* The end of a transfer leaves the pieces under way as they are.
LEMMA GoneKeeps ==
    ASSUME Inv, NEW H \in SUBSET hashing, Gone(H)
    PROVE  x' \in Honest(course.spoiled) /\ PiecesKept
<1>1. Always("none") \in Stored
  BY DEF Always, Stored
<1>2. x' \in Honest(course.spoiled)
  BY <1>1, NewIsHonest DEF Gone
<1>3. \A h \in H : /\ [h EXCEPT !.mine = FALSE] \in Check
                   /\ [h EXCEPT !.mine = FALSE].good = Sound([h EXCEPT !.mine = FALSE].by, [h EXCEPT !.mine = FALSE].p)
  BY DEF Inv, AsHeld, Check, Sound
<1> QED BY <1>1, <1>2, <1>3 DEF Gone, PiecesKept

\* The file that is put together of sound pieces is whole.
LEMMA AssembleKeeps ==
    ASSUME Inv, NEW t \in Honest(course.spoiled), NEW h \in Stored, NEW H \in SUBSET hashing,
           NEW S \in SUBSET saving, Assemble(t, h, H, S)
    PROVE  x' \in Honest(course.spoiled) /\ PiecesKept /\ file' \in {"none", "whole"}
<1>1. CASE \E p \in Pieces : h[p] = "none"
  <2>1. Gone(H) /\ file' = file
    BY <1>1 DEF Assemble, seeding
  <2> QED BY <2>1, GoneKeeps DEF Inv
<1>2. CASE ~\E p \in Pieces : h[p] = "none"
  <2>1. \A p \in Pieces : h[p] = "good"
    BY <1>2 DEF Stored
  <2>2. x' = t /\ held' = h /\ hashing' = H /\ saving' = S /\ file' = "whole"
    BY <1>2, <2>1 DEF Assemble
  <2> QED BY <2>2 DEF Inv, AsHeld, PiecesKept
<1> QED BY <1>1, <1>2

LEMMA FinishedKeeps ==
    ASSUME Inv, NEW t \in Honest(course.spoiled), NEW h \in Stored, NEW p \in Pieces,
           NEW H \in SUBSET hashing, NEW S \in SUBSET saving, Finished(t, h, p, H, S)
    PROVE  x' \in Honest(course.spoiled) /\ PiecesKept /\ SameCopies /\ file' \in {"none", "whole"}
<1> DEFINE t1 == [t EXCEPT !.status[p] = "done"]
<1>1. t1 \in Honest(course.spoiled)
  <2>1. t1 \in Transfer /\ t1.strikes = t.strikes /\ t1.excluded = t.excluded
    BY DEF Honest, Transfer, Status
  <2> QED BY <2>1 DEF Honest
<1>2. CASE \A q \in Pieces : t1.status[q] = "done"
  <2>1. Assemble(t1, h, H, S) /\ course' = course
    BY <1>2 DEF Finished
  <2> HIDE DEF t1
  <2> QED BY <1>1, <2>1, AssembleKeeps DEF SameCopies, Inv
<1>3. CASE ~\A q \in Pieces : t1.status[q] = "done"
  <2> DEFINE grown == [t1 EXCEPT !.window = Min({@ + 1, WindowMax})]
             shrunk == [t1 EXCEPT !.window = Max({@ - 1, WindowMin})]
  <2>1. Manage(grown) \/ Manage(shrunk)
    BY <1>3 DEF Finished
  <2>2. held' = h /\ hashing' = H /\ saving' = S /\ file' = file
    BY <1>3 DEF Finished, seeding
  <2> HIDE DEF t1
  <2>3. WindowMax \in Nat /\ WindowMin \in Nat /\ t1.window \in Nat
    BY <1>1, TransfersAssumption DEF Honest, Transfer
  <2>4. Min({t1.window + 1, WindowMax}) \in Nat
    <3>1. {t1.window + 1, WindowMax} \in SUBSET Nat
      BY <2>3
    <3> QED BY <3>1, MinIn
  <2>5. Max({t1.window - 1, WindowMin}) \in Nat
    BY <2>3, LargerNat
  <2>6. grown \in Honest(course.spoiled) /\ shrunk \in Honest(course.spoiled)
    BY <1>1, <2>4, <2>5 DEF Honest, Transfer
  <2> HIDE DEF grown, shrunk
  <2>7. x' \in Honest(course.spoiled) /\ SameCopies
    BY <2>1, <2>6, RefillKeeps DEF Manage, Inv
  <2> QED BY <2>2, <2>7 DEF Inv, AsHeld, PiecesKept
<1> QED BY <1>2, <1>3
LEMMA RemoveFirstTyped ==
    ASSUME NEW S, NEW seq \in Seq(S), NEW s
    PROVE  RemoveFirst(seq, s) \in Seq(S)
<1> DEFINE I == {i \in 1..Len(seq) : seq[i] = s}
<1>1. CASE I = {}
  BY <1>1 DEF RemoveFirst
<1>2. CASE I # {}
  <2>1. Len(seq) \in Nat /\ I \in SUBSET Nat
    OBVIOUS
  <2>2. PICK i \in I : i = Min(I)
    <3> HIDE DEF I
    <3> QED BY <1>2, <2>1, MinIn
  <2>3. i \in 1..Len(seq)
    BY <2>2
  <2>4. RemoveFirst(seq, s) = SubSeq(seq, 1, i - 1) \o SubSeq(seq, i + 1, Len(seq))
    BY <1>2, <2>2 DEF RemoveFirst, RemoveAt, SelectInSeq
  <2>5. /\ SubSeq(seq, 1, i - 1) \in Seq(S)
        /\ SubSeq(seq, i + 1, Len(seq)) \in Seq(S)
    BY <2>1, <2>3
  <2> QED BY <2>4, <2>5
<1> QED BY <1>1, <1>2

\* Only who sent a corrupt piece is blamed for it (blameSeeder).
LEMMA BlamedHonest ==
    ASSUME NEW spoiled, NEW t \in Honest(spoiled), NEW p \in Pieces, NEW s \in Seeders, spoiled[s] # {}
    PROVE  Blamed(t, p, s) \in Honest(spoiled)
<1> DEFINE t1 == [t EXCEPT !.excluded[p] = @ \cup {s}, !.strikes[s] = @ + 1]
<1>1. t \in Transfer
  BY DEF Honest
<1>2. [t.excluded EXCEPT ![p] = @ \cup {s}] \in [Pieces -> SUBSET Seeders]
  BY <1>1 DEF Transfer
<1>3. [t.strikes EXCEPT ![s] = @ + 1] \in [Seeders -> Nat]
  BY <1>1 DEF Transfer
<1>4. t1 \in Transfer
  BY <1>1, <1>2, <1>3 DEF Transfer
<1>5. \A r \in Seeders : spoiled[r] = {} => t1.strikes[r] = 0 /\ \A q \in Pieces : r \notin t1.excluded[q]
  BY <1>1 DEF Honest, Transfer
<1> HIDE DEF t1
<1>6. t1.known \in Seq(Seeders)
  BY <1>4 DEF Transfer
<1>7. RemoveFirst(t1.known, s) \in Seq(Seeders)
  BY <1>6, RemoveFirstTyped
<1> DEFINE t2 == [t1 EXCEPT !.known = RemoveFirst(@, s)]
<1>8. t2 \in Transfer /\ t2.strikes = t1.strikes /\ t2.excluded = t1.excluded
  BY <1>4, <1>7 DEF Transfer
<1>9. Blamed(t, p, s) = IF t1.strikes[s] < MaxStrikes THEN t1 ELSE t2
  BY DEF Blamed, t1
<1> QED BY <1>4, <1>5, <1>8, <1>9 DEF Honest

LEMMA PieceFailsKeeps ==
    ASSUME Inv, NEW h \in hashing, ~h.good, PieceFails(h)
    PROVE  x' \in Honest(course.spoiled) /\ PiecesKept /\ SameCopies
<1> DEFINE p == h.p
           u == [x EXCEPT !.failures[p] = @ + 1]
           t == Blamed(u, p, Suspect(h))
<1>1. h \in Check /\ p \in Pieces /\ h.by \in Seeders /\ course.spoiled[h.by] # {}
  BY DEF Inv, AsHeld, Check, Sound
<1>2. u \in Honest(course.spoiled)
  <2>1. x \in Transfer
    BY DEF Inv, Honest
  <2>2. [x.failures EXCEPT ![p] = @ + 1] \in [Pieces -> Nat]
    BY <1>1, <2>1 DEF Transfer
  <2>3. u \in Transfer /\ u.strikes = x.strikes /\ u.excluded = x.excluded
    BY <2>1, <2>2 DEF Transfer
  <2> QED BY <2>3 DEF Inv, Honest
<1> HIDE DEF u
<1>3. t \in Honest(course.spoiled)
  BY <1>1, <1>2, BlamedHonest DEF Suspect
<1>4. CASE t.failures[p] >= MaxPieceFailures
  <2>1. Gone(hashing \ {h}) /\ course' = course
    BY <1>4 DEF PieceFails, u
  <2> QED BY <2>1, GoneKeeps DEF Inv, SameCopies
<1>5. CASE ~(t.failures[p] >= MaxPieceFailures)
  <2> DEFINE v == [t EXCEPT !.status[p] = "pending"]
  <2>1. Manage(v) /\ hashing' = hashing \ {h} /\ held' = held /\ saving' = saving
    BY <1>5 DEF PieceFails, u
  <2>2. v \in Honest(course.spoiled)
    <3> HIDE DEF t
    <3>1. v \in Transfer /\ v.strikes = t.strikes /\ v.excluded = t.excluded
      BY <1>1, <1>3 DEF Honest, Transfer, Status
    <3> QED BY <1>3, <3>1 DEF Honest
  <2> HIDE DEF v
  <2>3. x' \in Honest(course.spoiled) /\ SameCopies
    BY <2>1, <2>2, RefillKeeps DEF Manage, Inv
  <2> QED BY <2>1, <2>3 DEF Inv, AsHeld, PiecesKept
<1> QED BY <1>4, <1>5

\* what has been shown of x, the pieces and the file is all there is to show
LEMMA StepDone ==
    ASSUME Inv, x' \in Honest(course.spoiled), PiecesKept, SameCopies, file' \in {"none", "whole"},
           answers' \subseteq answers
    PROVE  Inv'
BY DEF Inv, AsHeld, PiecesKept, SameCopies, Sound

LEMMA HashedKeeps ==
    ASSUME Inv, NEW h \in hashing, Hashed(h)
    PROVE  Inv'
<1>1. h \in Check /\ h.p \in Pieces /\ answers' = answers
  BY DEF Inv, Check, Hashed
<1>2. [held EXCEPT ![h.p] = "good"] \in Stored
  BY <1>1 DEF Inv, Stored
<1>3. x \in Honest(course.spoiled) /\ course \in CourseStates
  BY DEF Inv
<1>4. CASE ~h.mine
  <2>1. /\ Manage(x) /\ hashing' = hashing \ {h} /\ saving' = saving /\ file' = file
        /\ held' = held \/ held' = [held EXCEPT ![h.p] = "good"]
    BY <1>4 DEF Hashed, seeding, Verified, Kept
  <2>2. x' \in Honest(course.spoiled) /\ SameCopies
    BY <1>3, <2>1, RefillKeeps DEF Manage
  <2>3. PiecesKept
    BY <1>2, <2>1 DEF Inv, AsHeld, PiecesKept
  <2> QED BY <1>1, <2>1, <2>2, <2>3, StepDone DEF Inv
<1>5. CASE h.mine /\ ~h.good
  <2>1. PieceFails(h) /\ file' = file
    BY <1>5 DEF Hashed, Verified, seeding
  <2> QED BY <1>1, <1>5, <2>1, PieceFailsKeeps, StepDone DEF Inv
<1>6. CASE h.mine /\ h.good
  <2> DEFINE t == [x EXCEPT !.flight[h.p] = NoOne, !.armed = @ \ {h.p}]
  <2>1. t \in Honest(course.spoiled)
    <3>1. t \in Transfer /\ t.strikes = x.strikes /\ t.excluded = x.excluded
      BY <1>1, <1>3 DEF Honest, Transfer
    <3> QED BY <1>3, <3>1 DEF Honest
  <2>2. CASE course.db
    <3>1. /\ saving' = saving \cup {[p |-> h.p, as |-> "good"]} /\ hashing' = hashing \ {h}
          /\ x' = t /\ held' = held /\ file' = file /\ course' = course
      BY <1>6, <2>2 DEF Hashed, Verified, Kept, seeding
    <3> HIDE DEF t
    <3>2. PiecesKept
      BY <1>1, <3>1 DEF Inv, AsHeld, PiecesKept, Saving
    <3> QED BY <1>1, <1>3, <2>1, <3>1, <3>2, StepDone DEF Inv, SameCopies
  <2>3. CASE ~course.db
    <3>1. Finished(t, [held EXCEPT ![h.p] = "good"], h.p, hashing \ {h}, saving)
      BY <1>6, <2>3 DEF Hashed, Verified, Kept
    <3> HIDE DEF t
    <3> QED BY <1>1, <1>2, <2>1, <3>1, FinishedKeeps, StepDone
  <2> QED BY <2>2, <2>3
<1> QED BY <1>4, <1>5, <1>6 DEF Inv, Check

LEMMA SavedKeeps ==
    ASSUME Inv, NEW v \in saving, Saved(v)
    PROVE  Inv'
<1>1. v.p \in Pieces /\ v.as = "good"
  BY DEF Inv, Saving
<1>2. [held EXCEPT ![v.p] = v.as] \in Stored
  BY <1>1 DEF Inv, Stored
<1>3. Finished(x, [held EXCEPT ![v.p] = v.as], v.p, hashing, saving \ {v}) /\ answers' = answers
  BY DEF Saved
<1> QED BY <1>1, <1>2, <1>3, FinishedKeeps, StepDone DEF Inv

LEMMA ArrivesKeeps ==
    ASSUME Inv, NEW a \in answers, PieceArrives(a)
    PROVE  Inv'
<1>1. a \in Sent /\ a.p \in Pieces /\ a.good = Sound(a.by, a.p)
  BY DEF Inv, Sent, AsHeld
<1>2. answers' \subseteq answers /\ held' = held /\ saving' = saving /\ file' = file /\ course' = course
  BY DEF PieceArrives, seeding
<1>3. x' \in Honest(course.spoiled)
  <2>1. [x EXCEPT !.status[a.p] = "processing"] \in Honest(course.spoiled)
    <3> DEFINE t == [x EXCEPT !.status[a.p] = "processing"]
    <3>1. t \in Transfer /\ t.strikes = x.strikes /\ t.excluded = x.excluded
      BY <1>1 DEF Inv, Honest, Transfer, Status
    <3> QED BY <3>1 DEF Inv, Honest
  <2> QED BY <2>1 DEF PieceArrives, Inv
<1>4. PiecesKept
  <2> DEFINE h == [p |-> a.p, by |-> a.by, good |-> a.good, mine |-> TRUE]
  <2>1. h \in Check /\ h.good = Sound(h.by, h.p)
    BY <1>1 DEF Sent, Check
  <2>2. hashing' \subseteq hashing \cup {h}
    BY DEF PieceArrives
  <2> HIDE DEF h
  <2> QED BY <1>2, <2>1, <2>2 DEF Inv, AsHeld, PiecesKept
<1> QED BY <1>2, <1>3, <1>4, StepDone DEF Inv, SameCopies

LEMMA ServeKeeps ==
    ASSUME Inv, NEW p \in Pieces, NEW s \in Seeders, Serve(p, s)
    PROVE  Inv'
<1> DEFINE a == [p |-> p, by |-> s, good |-> Sound(s, p)]
<1>1. a \in Sent /\ a.good = Sound(a.by, a.p)
  BY DEF Sent, Sound
<1>2. answers' = answers \cup {a}
  BY DEF Serve
<1>3. x' = x /\ held' = held /\ hashing' = hashing /\ saving' = saving /\ file' = file /\ course' = course
  BY DEF Serve, mine, seeding
<1> HIDE DEF a
<1> QED BY <1>1, <1>2, <1>3 DEF Inv, AsHeld, Sound
\* a transfer keeps sparing whom it spares when neither strikes nor exclusions change
LEMMA SameBlame ==
    ASSUME NEW spoiled, NEW t \in Honest(spoiled), NEW u \in Transfer,
           u.strikes = t.strikes, u.excluded = t.excluded
    PROVE  u \in Honest(spoiled)
BY DEF Honest

\* The steps that change at most the transfer, and not whom it blames.
LEMMA OnlyTransfer ==
    ASSUME Inv, x' \in Honest(course.spoiled), SameCopies,
           answers' \subseteq answers, UNCHANGED <<held, hashing, saving, file>>
    PROVE  Inv'
<1>1. PiecesKept
  BY DEF Inv, AsHeld, PiecesKept
<1> QED BY <1>1, StepDone DEF Inv

LEMMA DiscoverKeeps ==
    ASSUME Inv, NEW t \in Honest(course.spoiled), NEW E, Discover(t, E)
    PROVE  x' \in Honest(course.spoiled) /\ SameCopies
<1> DEFINE n == Min({t.requests + 1, MaxRequests})
           u == [t EXCEPT !.requests = n, !.ticks = Ticks]
<1>1. t \in Transfer /\ t.requests \in Nat
  BY DEF Honest, Transfer
<1>2. n \in Nat
  <2>1. {t.requests + 1, MaxRequests} \in SUBSET Nat
    BY <1>1, TransfersAssumption
  <2> QED BY <2>1, MinIn
<1> HIDE DEF n
<1>3. u \in Transfer /\ u.strikes = t.strikes /\ u.excluded = t.excluded
  BY <1>1, <1>2, TransfersAssumption DEF Transfer
<1>4. u \in Honest(course.spoiled)
  BY <1>3, SameBlame
<1>5. x' = u \/ x' = t
  BY DEF Discover, n
<1>6. SameCopies
  BY SpendKeeps DEF Discover, Inv
<1> QED BY <1>4, <1>5, <1>6

LEMMA StartKeeps ==
    ASSUME Inv, StartDownload
    PROVE  Inv'
<1> DEFINE h == IF course.db THEN held ELSE Always("none")
           t == NewTransfer(h)
<1>1. h \in Stored
  BY DEF Inv, Always, Stored
<1> HIDE DEF h
<1>2. t \in Honest(course.spoiled)
  BY <1>1, NewIsHonest
<1>3. answers' = answers
  BY DEF StartDownload
<1>4. CASE \A p \in Pieces : h[p] # "none"
  <2>1. Assemble(t, h, hashing, saving) /\ Spend({"start"})
    BY <1>4 DEF StartDownload, h
  <2>2. SameCopies
    BY <2>1, SpendKeeps DEF Inv
  <2> HIDE DEF t
  <2> QED BY <1>1, <1>2, <1>3, <2>1, <2>2, AssembleKeeps, StepDone
<1>5. CASE ~\A p \in Pieces : h[p] # "none"
  <2>1. Discover(t, {"start"}) /\ held' = h /\ UNCHANGED <<hashing, saving, file>>
    BY <1>5 DEF StartDownload, h, seeding
  <2> HIDE DEF t
  <2>2. x' \in Honest(course.spoiled) /\ SameCopies
    BY <1>2, <2>1, DiscoverKeeps
  <2>3. PiecesKept
    BY <1>1, <2>1 DEF Inv, AsHeld, PiecesKept
  <2> QED BY <1>3, <2>1, <2>2, <2>3, StepDone DEF Inv
<1> QED BY <1>4, <1>5

LEMMA PauseKeeps ==
    ASSUME Inv, PauseDownload
    PROVE  Inv'
<1>1. x \in Transfer /\ x \in Honest(course.spoiled)
  BY DEF Inv, Honest
<1>2. [p \in Pieces |-> IF p \in InFlight(x) THEN "pending" ELSE x.status[p]] \in [Pieces -> Status]
  BY <1>1 DEF Transfer, Status
<1>3. Always(NoOne) \in [Pieces -> Seeders \cup {NoOne}]
  BY DEF Always
<1>4. x' \in Transfer /\ x'.strikes = x.strikes /\ x'.excluded = x.excluded
  BY <1>1, <1>2, <1>3 DEF PauseDownload, Transfer
<1>5. x' \in Honest(course.spoiled)
  BY <1>1, <1>4, SameBlame
<1>6. SameCopies
  BY SpendKeeps DEF PauseDownload, Inv
<1> QED BY <1>5, <1>6, OnlyTransfer DEF PauseDownload, seeding

LEMMA ResumeKeeps ==
    ASSUME Inv, ResumeDownload
    PROVE  Inv'
<1> DEFINE t == [x EXCEPT !.paused = FALSE]
<1>1. t \in Transfer /\ t.strikes = x.strikes /\ t.excluded = x.excluded
  BY DEF Inv, Honest, Transfer
<1>2. t \in Honest(course.spoiled) /\ course \in CourseStates
  BY <1>1, SameBlame DEF Inv
<1>3. Manage(t) \/ Discover(t, {})
  BY DEF ResumeDownload
<1> HIDE DEF t
<1>4. x' \in Honest(course.spoiled) /\ SameCopies
  BY <1>2, <1>3, RefillKeeps, DiscoverKeeps DEF Manage
<1> QED BY <1>4, OnlyTransfer DEF ResumeDownload, seeding

LEMMA TickKeeps ==
    ASSUME Inv, DiscoveryTick
    PROVE  Inv'
<1>1. x \in Transfer /\ x \in Honest(course.spoiled) /\ x.ticks \in Nat /\ x.requests \in Nat
  BY DEF Inv, Honest, Transfer
<1> DEFINE Ticked(u) == \E n, m \in Nat : u = [x EXCEPT !.ticks = n, !.requests = m]
<1>2. Ticked(x')
  <2>1. CASE x' = [x EXCEPT !.ticks = 0]
    <3>1. x' = [x EXCEPT !.ticks = 0, !.requests = x.requests]
      BY <1>1, <2>1 DEF Transfer
    <3> QED BY <1>1, <3>1
  <2>2. CASE x' = [[x EXCEPT !.ticks = @ - 1] EXCEPT !.requests = IF x.requests < MaxRequests THEN @ + 1 ELSE @]
    <3> DEFINE m == IF x.requests < MaxRequests THEN x.requests + 1 ELSE x.requests
    <3>1. m \in Nat /\ x.ticks - 1 \in Nat
      BY <1>1 DEF DiscoveryTick
    <3>2. x' = [x EXCEPT !.ticks = x.ticks - 1, !.requests = m]
      BY <1>1, <2>2 DEF Transfer
    <3> QED BY <3>1, <3>2
  <2> QED BY <2>1, <2>2 DEF DiscoveryTick
<1>3. PICK n, m \in Nat : x' = [x EXCEPT !.ticks = n, !.requests = m]
  BY <1>2
<1>4. x' \in Transfer /\ x'.strikes = x.strikes /\ x'.excluded = x.excluded
  BY <1>1, <1>3 DEF Transfer
<1>5. x' \in Honest(course.spoiled)
  BY <1>1, <1>4, SameBlame
<1>6. SameCopies
  BY SpendKeeps DEF DiscoveryTick, Inv, SameCopies
<1> QED BY <1>5, <1>6, OnlyTransfer DEF DiscoveryTick, seeding

LEMMA AnnounceKeeps ==
    ASSUME Inv, NEW s \in Seeders, Announce(s)
    PROVE  Inv'
<1> DEFINE t == [x EXCEPT !.known = IF s \in ToSet(@) THEN @ ELSE Append(@, s)]
           u == [t EXCEPT !.started = TRUE, !.ticks = 0]
<1>1. x \in Transfer /\ x \in Honest(course.spoiled)
  BY DEF Inv, Honest
<1>2. (IF s \in ToSet(x.known) THEN x.known ELSE Append(x.known, s)) \in Seq(Seeders)
  BY <1>1 DEF Transfer
<1>3. t \in Transfer /\ t.strikes = x.strikes /\ t.excluded = x.excluded
  BY <1>1, <1>2 DEF Transfer
<1>4. u \in Transfer /\ u.strikes = x.strikes /\ u.excluded = x.excluded
  <2> HIDE DEF t
  <2> QED BY <1>3 DEF Transfer
<1>5. t \in Honest(course.spoiled) /\ u \in Honest(course.spoiled)
  BY <1>1, <1>3, <1>4, SameBlame
<1>6. x' = t \/ x' = x \/ x' = Managed(u).t
  BY DEF Announce
<1> HIDE DEF t, u
<1>7. Managed(u).t \in Honest(course.spoiled)
  BY <1>5, ManagedHonest DEF Result
<1>8. x' \in Honest(course.spoiled)
  BY <1>1, <1>5, <1>6, <1>7
<1>9. SameCopies
  BY DEF Announce, SameCopies, Inv
<1> QED BY <1>8, <1>9, OnlyTransfer DEF Announce, seeding

LEMMA TimeoutKeeps ==
    ASSUME Inv, NEW p \in Pieces, PieceTimeout(p)
    PROVE  Inv'
<1>1. x \in Transfer /\ x \in Honest(course.spoiled) /\ course \in CourseStates
  BY DEF Inv, Honest
<1>2. PICK own \in {b \in BOOLEAN : IF b THEN p \in x.armed ELSE x.stray[p] > 0} :
          LET fired == IF own THEN [x EXCEPT !.armed = @ \ {p}] ELSE [x EXCEPT !.stray[p] = @ - 1]
              back  == [fired EXCEPT !.status[p] = "pending", !.flight[p] = NoOne,
                                     !.armed = @ \ {p},
                                     !.stray[p] = IF p \in fired.armed THEN @ + 1 ELSE @]
              half  == Max({x.window \div 2, WindowMin})
          IN  IF x.status[p] \in {"requested", "processing"}
              THEN \E w \in {x.window, half} :
                       Refill([back EXCEPT !.window = w], IF Awaited(p) THEN {"early"} ELSE {})
              ELSE x' = fired /\ UNCHANGED <<asks, sought, course, hurt>>
  BY DEF PieceTimeout
<1> DEFINE fired == IF own THEN [x EXCEPT !.armed = @ \ {p}] ELSE [x EXCEPT !.stray[p] = @ - 1]
           back  == [fired EXCEPT !.status[p] = "pending", !.flight[p] = NoOne,
                                  !.armed = @ \ {p},
                                  !.stray[p] = IF p \in fired.armed THEN @ + 1 ELSE @]
           half  == Max({x.window \div 2, WindowMin})
<1>3. fired \in Transfer /\ fired.strikes = x.strikes /\ fired.excluded = x.excluded
  <2>1. CASE own
    BY <1>1, <2>1 DEF Transfer
  <2>2. CASE ~own
    <3>1. x.stray[p] > 0
      BY <1>2, <2>2
    <3>2. [x.stray EXCEPT ![p] = @ - 1] \in [Pieces -> Nat]
      BY <1>1, <3>1 DEF Transfer
    <3> QED BY <1>1, <2>2, <3>2 DEF Transfer
  <2> QED BY <2>1, <2>2
<1>4. ASSUME NEW w \in Nat
      PROVE  [back EXCEPT !.window = w] \in Honest(course.spoiled)
  <2> HIDE DEF fired
  <2>1. /\ [fired.status EXCEPT ![p] = "pending"] \in [Pieces -> Status]
        /\ [fired.flight EXCEPT ![p] = NoOne] \in [Pieces -> Seeders \cup {NoOne}]
        /\ fired.armed \ {p} \in SUBSET Pieces
    BY <1>3 DEF Transfer, Status
  <2>2. [fired.stray EXCEPT ![p] = IF p \in fired.armed THEN @ + 1 ELSE @] \in [Pieces -> Nat]
    BY <1>3 DEF Transfer
  <2>3. back \in Transfer /\ back.strikes = fired.strikes /\ back.excluded = fired.excluded
    BY <1>3, <2>1, <2>2 DEF Transfer
  <2> HIDE DEF back
  <2> DEFINE u == [back EXCEPT !.window = w]
  <2>4. u \in Transfer /\ u.strikes = back.strikes /\ u.excluded = back.excluded
    BY <2>3 DEF Transfer
  <2> QED BY <1>1, <1>3, <2>3, <2>4, SameBlame
<1>5. x.window \in Nat /\ half \in Nat
  <2>1. x.window \in Nat /\ WindowMin \in Nat /\ x.window \div 2 \in Int
    BY <1>1, TransfersAssumption DEF Transfer
  <2> QED BY <2>1, LargerNat
<1>6. CASE x.status[p] \in {"requested", "processing"}
  <2>1. PICK w \in {x.window, half} :
            Refill([back EXCEPT !.window = w], IF Awaited(p) THEN {"early"} ELSE {})
    BY <1>2, <1>6
  <2> HIDE DEF back, half
  <2>2. w \in Nat
    BY <1>5
  <2>3. x' \in Honest(course.spoiled) /\ SameCopies
    BY <1>1, <1>4, <2>1, <2>2, RefillKeeps
  <2> QED BY <2>3, OnlyTransfer DEF PieceTimeout, seeding
<1>7. CASE x.status[p] \notin {"requested", "processing"}
  <2>1. x' = fired /\ course' = course
    BY <1>2, <1>7
  <2>2. x' \in Honest(course.spoiled)
    BY <1>1, <1>3, <2>1, SameBlame
  <2> QED BY <1>1, <2>1, <2>2, OnlyTransfer DEF PieceTimeout, seeding, SameCopies
<1> QED BY <1>6, <1>7

LEMMA RetryKeeps ==
    ASSUME Inv, NoSeederRetry
    PROVE  Inv'
<1> DEFINE t == [x EXCEPT !.retry = FALSE]
<1>1. t \in Transfer /\ t.strikes = x.strikes /\ t.excluded = x.excluded
  BY DEF Inv, Honest, Transfer
<1>2. t \in Honest(course.spoiled) /\ course \in CourseStates
  BY <1>1, SameBlame DEF Inv
<1>3. Manage(t)
  BY DEF NoSeederRetry
<1> HIDE DEF t
<1>4. x' \in Honest(course.spoiled) /\ SameCopies
  BY <1>2, <1>3, RefillKeeps DEF Manage
<1> QED BY <1>4, OnlyTransfer DEF NoSeederRetry, seeding

\* The steps that end the transfer, or reload the page.
LEMMA EndKeeps ==
    ASSUME Inv, CancelDownload \/ Restart \/ Persisted
    PROVE  Inv'
<1>1. CASE CancelDownload
  <2>1. Gone(hashing) /\ SameCopies /\ file' = file /\ answers' = answers
    BY <1>1, SpendKeeps DEF CancelDownload, Inv, seeding
  <2> QED BY <2>1, GoneKeeps, StepDone DEF Inv
<1>2. CASE Persisted
  <2>1. Gone(hashing) /\ SameCopies /\ file' = file /\ answers' = answers
    BY <1>2, SpendKeeps DEF Persisted, Inv, SameCopies
  <2> QED BY <2>1, GoneKeeps, StepDone DEF Inv
<1>3. CASE Restart
  <2>1. Always("none") \in Stored
    BY DEF Always, Stored
  <2>2. x' \in Honest(course.spoiled) /\ SameCopies
    BY <1>3, <2>1, NewIsHonest, SpendKeeps DEF Restart, Inv
  <2>3. PiecesKept
    BY <1>3, <2>1 DEF Restart, PiecesKept, Inv
  <2> QED BY <1>3, <2>2, <2>3, StepDone DEF Restart, Inv
<1> QED BY <1>1, <1>2, <1>3

\* The steps of the network, of the seeding and of a full disk leave the transfer alone.
LEMMA OutsideKeeps ==
    ASSUME Inv, \/ \E s \in Seeders : PeerLeaves(s) \/ PeerJoins(s) \/ Mute(s)
                \/ Lose \/ Announced \/ StopRecorded \/ StopSeeding \/ ReseedFile \/ RemoveSeedFile
    PROVE  Inv'
<1>1. x' = x /\ answers' \subseteq answers /\ UNCHANGED <<held, hashing, saving, file>>
  BY DEF PeerLeaves, PeerJoins, Mute, Lose, Announced, StopRecorded, StopSeeding, ReseedFile,
         RemoveSeedFile, mine, seeding
<1>2. SameCopies
  BY SpendKeeps DEF PeerLeaves, PeerJoins, Mute, Lose, Announced, StopRecorded, StopSeeding, ReseedFile,
         RemoveSeedFile, Inv, SameCopies
<1> QED BY <1>1, <1>2, OnlyTransfer DEF Inv

LEMMA SaveFailsKeeps ==
    ASSUME Inv, NEW v \in saving, SaveFails(v)
    PROVE  Inv'
<1>1. SameCopies
  BY SpendKeeps DEF SaveFails, Inv
<1>2. PiecesKept
  BY DEF SaveFails, Inv, AsHeld, PiecesKept
<1> QED BY <1>1, <1>2, StepDone DEF SaveFails, Inv, seeding

LEMMA InitInv == Init => Inv
<1> SUFFICES ASSUME Init PROVE Inv
  OBVIOUS
<1>1. course \in CourseStates
  BY TransfersAssumption DEF Init
<1>2. Always("none") \in Stored
  BY DEF Always, Stored
<1>3. x \in Honest(course.spoiled)
  BY <1>2, NewIsHonest DEF Init
<1> QED BY <1>1, <1>2, <1>3 DEF Init, Inv, AsHeld

LEMMA StepInv == Inv /\ [Next]_vars => Inv'
<1> SUFFICES ASSUME Inv, [Next]_vars PROVE Inv'
  OBVIOUS
<1>1. CASE Work
  BY <1>1, AnnounceKeeps, ServeKeeps, ArrivesKeeps, HashedKeeps, SavedKeeps, OutsideKeeps, EndKeeps DEF Work
<1>2. CASE Timers
  BY <1>2, TickKeeps, RetryKeeps, TimeoutKeeps DEF Timers
<1>3. CASE User
  BY <1>3, StartKeeps, EndKeeps, PauseKeeps, ResumeKeeps, OutsideKeeps DEF User
<1>4. CASE Faults
  BY <1>4, EndKeeps, OutsideKeeps, SaveFailsKeeps DEF Faults
<1>5. CASE UNCHANGED vars
  BY <1>5, OnlyTransfer DEF vars, mine, seeding, Inv, SameCopies
<1> QED BY <1>1, <1>2, <1>3, <1>4, <1>5 DEF Next

-----------------------------------------------------------------------------

\* A download, its pieces and what is under way stay well formed, and only verified pieces are kept.
THEOREM TransferInvariant == Spec => []Inv
BY InitInv, StepInv, PTL DEF Spec

\* The user is handed the file as it was announced, whatever peers serve (handleFilePiece,
\* restorePiecesFromIndexedDB, assembleFile).
THEOREM AlwaysWhole == Spec => []DeliveredWhole
<1>1. Inv => DeliveredWhole
  BY DEF Inv, DeliveredWhole
<1> QED BY <1>1, TransferInvariant, PTL

\* Nobody with a sound copy is blamed, excluded or dropped for what another has sent (blameSeeder).
THEOREM HonestAreSpared == Spec => []HonestKept
<1>1. Inv => HonestKept
  BY DEF Inv, Honest, HonestKept
<1> QED BY <1>1, TransferInvariant, PTL

-----------------------------------------------------------------------------
(* Messages: bubbles and channel records                                    *)

Marks == {"theirs", "pending", "sent", "delivered", "failed", "undelivered"}

\* the rows that a channel record still has a place for
Placed(c) == {i \in Stamps : On(c, i)} \cup c.batch \cup c.live \cup c.gone

\* from c to n no row loses its place and no lock comes
Holds(c, n) == n \in Record /\ Placed(c) \subseteq Placed(n) /\ n.locks \subseteq c.locks

LEMMA BubbleIs == Bubble = [edit : 0..MaxStamp, is : Marks]
BY DEF Bubble, Failed, Marks

LEMMA ShownIs ==
    ASSUME NEW s \in Marks
    PROVE  Shown(s) \in Bubble /\ <<Shown(s)>> \in Seq(Bubble) /\ <<Shown(s)>> # <<>>
<1>1. Shown(s) \in Bubble
  BY MessagesAssumption, BubbleIs DEF Shown
<1> QED BY <1>1

\* the status of the first copy changes, or its text
LEMMA Marked ==
    ASSUME NEW u \in Seq(Bubble), u # <<>>, NEW s \in Marks
    PROVE  [u EXCEPT ![1].is = s] \in Seq(Bubble) /\ [u EXCEPT ![1].is = s] # <<>>
<1>1. u[1] \in Bubble /\ Len(u) \in Nat \ {0} /\ DOMAIN u = 1..Len(u)
  OBVIOUS
<1> DEFINE b == [u[1] EXCEPT !.is = s]
<1>2. b \in Bubble
  BY <1>1, BubbleIs
<1> HIDE DEF b
<1>3. [u EXCEPT ![1] = b] \in Seq(Bubble) /\ [u EXCEPT ![1] = b] # <<>>
  BY <1>1, <1>2
<1> QED BY <1>3 DEF b

LEMMA Edited ==
    ASSUME NEW u \in Seq(Bubble), u # <<>>, NEW e \in 0..MaxStamp
    PROVE  [u EXCEPT ![1].edit = e] \in Seq(Bubble) /\ [u EXCEPT ![1].edit = e] # <<>>
<1>1. u[1] \in Bubble /\ Len(u) \in Nat \ {0} /\ DOMAIN u = 1..Len(u)
  OBVIOUS
<1> DEFINE b == [u[1] EXCEPT !.edit = e]
<1>2. b \in Bubble
  BY <1>1, BubbleIs
<1> HIDE DEF b
<1>3. [u EXCEPT ![1] = b] \in Seq(Bubble) /\ [u EXCEPT ![1] = b] # <<>>
  BY <1>1, <1>2
<1> QED BY <1>3 DEF b

LEMMA Dropped ==
    ASSUME NEW u \in Seq(Bubble), u # <<>>
    PROVE  Tail(u) \in Seq(Bubble)
OBVIOUS

LEMMA NoneIs == ~(None.ts > 0) /\ None \in Override \cup {None}
BY DEF None

LEMMA BlankIs == Blank \in Record
<1>1. <<>> \in Seq(Bubble)
  OBVIOUS
<1> QED BY <1>1 DEF Blank, Record

LEMMA HoldsSelf ==
    ASSUME NEW c \in Record
    PROVE  Holds(c, c)
BY DEF Holds

LEMMA HoldsOn ==
    ASSUME NEW c, NEW m, NEW n, Holds(c, m), Holds(m, n)
    PROVE  Holds(c, n)
BY DEF Holds

LEMMA ChangedHolds ==
    ASSUME NEW c \in Record, NEW o \in Override, On(c, o.target)
    PROVE  Holds(c, Changed(c, o))
<1> DEFINE n == Changed(c, o)
           t == o.target
<1>1. t \in Stamps /\ o.ts \in 0..MaxStamp /\ o.del \in BOOLEAN
  BY MessagesAssumption DEF Override, Stamps
<1>2. c.line \in [Stamps -> Seq(Bubble)] /\ c.line[t] \in Seq(Bubble) /\ c.line[t] # <<>> /\ c.gone \in SUBSET Stamps
  BY <1>1 DEF Record, On
<1>3. CASE o.del
  <2>1. n = [c EXCEPT !.line = [c.line EXCEPT ![t] = Tail(c.line[t])], !.gone = c.gone \cup {t}]
    BY <1>3 DEF Changed
  <2>2. Tail(c.line[t]) \in Seq(Bubble)
    BY <1>2, Dropped
  <2>3. [c.line EXCEPT ![t] = Tail(c.line[t])] \in [Stamps -> Seq(Bubble)] /\ c.gone \cup {t} \in SUBSET Stamps
    BY <1>1, <1>2, <2>2
  <2> DEFINE l == [c.line EXCEPT ![t] = Tail(c.line[t])]
             g == c.gone \cup {t}
  <2>4. \A i \in Stamps : i # t => l[i] = c.line[i]
    BY <1>2
  <2> HIDE DEF l, g, n
  <2>5. n = [c EXCEPT !.line = l, !.gone = g]
    BY <2>1 DEF l, g
  <2>6. l \in [Stamps -> Seq(Bubble)] /\ g \in SUBSET Stamps
    BY <2>3 DEF l, g
  <2>7. n \in Record /\ n.line = l /\ n.gone = g /\ n.batch = c.batch /\ n.live = c.live /\ n.locks \subseteq c.locks
    BY <2>5, <2>6 DEF Record
  <2>8. Placed(c) \subseteq Placed(n)
    BY <2>4, <2>7 DEF Placed, On, g
  <2> QED BY <2>7, <2>8 DEF Holds, n
<1>4. CASE ~o.del
  <2> DEFINE e == [c.line[t] EXCEPT ![1].edit = o.ts]
             l == [c.line EXCEPT ![t] = e]
  <2>1. n = [c EXCEPT !.line = l]
    BY <1>4 DEF Changed
  <2>2. e \in Seq(Bubble) /\ e # <<>>
    BY <1>1, <1>2, Edited
  <2> HIDE DEF e
  <2>3. l \in [Stamps -> Seq(Bubble)] /\ \A i \in Stamps : c.line[i] # <<>> => l[i] # <<>>
    BY <1>1, <1>2, <2>2
  <2> HIDE DEF l, n
  <2>4. n \in Record /\ n.line = l /\ n.gone = c.gone /\ n.batch = c.batch /\ n.live = c.live /\ n.locks \subseteq c.locks
    BY <2>1, <2>3 DEF Record
  <2>5. Placed(c) \subseteq Placed(n)
    BY <2>3, <2>4 DEF Placed, On
  <2> QED BY <2>4, <2>5 DEF Holds, n
<1> QED BY <1>3, <1>4, <1>1

LEMMA ParkedHolds ==
    ASSUME NEW c \in Record, NEW o \in Override
    PROVE  Holds(c, Parked(c, o))
<1> DEFINE t == o.target
           q == IF o.ts > c.parked[t].ts THEN o ELSE c.parked[t]
           n == Parked(c, o)
           l == [c.parked EXCEPT ![t] = q]
<1>1. t \in Stamps /\ c.parked \in [Stamps -> Override \cup {None}]
  BY DEF Override, Record
<1>2. n = [c EXCEPT !.parked = l]
  BY DEF Parked
<1>3. l \in [Stamps -> Override \cup {None}]
  BY <1>1
<1> HIDE DEF l, n
<1>4. n \in Record /\ n.line = c.line /\ n.gone = c.gone /\ n.batch = c.batch /\ n.live = c.live /\ n.locks \subseteq c.locks
  BY <1>2, <1>3 DEF Record
<1> QED BY <1>4 DEF Holds, Placed, On, n

LEMMA OverriddenHolds ==
    ASSUME NEW c \in Record, NEW o \in Override
    PROVE  Holds(c, Overridden(c, o))
BY ChangedHolds, ParkedHolds DEF Overridden

\* what a fold of AtStamp over the first k entries of q is computed by
Passed(base, q, k, g) ==
    g = [s \in SUBSET (1..k) |-> IF s = {} THEN base ELSE AtStamp(g[s \ {Max(s)}], q[Max(s)])]

LEMMA PassedExists ==
    ASSUME NEW n \in Nat, NEW base, NEW q
    PROVE  \E g : Passed(base, q, n, g)
<1> DEFINE Missing == {k \in 0..n : ~\E g : Passed(base, q, k, g)}
<1> SUFFICES ASSUME Missing # {} PROVE FALSE
  OBVIOUS
<1>1. PICK k \in Missing : \A m \in Missing : ~(m < k)
  <2>1. Missing \in SUBSET Nat
    OBVIOUS
  <2> HIDE DEF Missing
  <2> QED BY <2>1, LeastIn
<1>2. CASE k = 0
  <2> DEFINE g == [s \in SUBSET (1..0) |-> base]
  <2>1. \A s \in SUBSET (1..0) : s = {}
    OBVIOUS
  <2>2. Passed(base, q, 0, g)
    BY <2>1 DEF Passed
  <2> QED BY <1>1, <1>2, <2>2
<1>3. CASE k # 0
  <2>1. k - 1 \in 0..n /\ k \in 1..n /\ k - 1 < k /\ k \in Nat /\ k - 1 \in Nat
    BY <1>1, <1>3
  <2>2. PICK f : Passed(base, q, k - 1, f)
    BY <1>1, <2>1
  <2> DEFINE g == [s \in SUBSET (1..k) |-> IF k \in s THEN AtStamp(f[s \ {k}], q[k]) ELSE f[s]]
  <2>3. ASSUME NEW s \in SUBSET (1..k), s # {}, k \in s
        PROVE  g[s] = AtStamp(g[s \ {Max(s)}], q[Max(s)])
    <3>1. Max(s) = k
      BY <2>1, <2>3, MaxIs
    <3>2. s \ {k} \in SUBSET (1..k) /\ g[s \ {k}] = f[s \ {k}]
      OBVIOUS
    <3>3. g[s] = AtStamp(f[s \ {k}], q[k])
      BY <2>3
    <3> QED BY <3>1, <3>2, <3>3
  <2>4. ASSUME NEW s \in SUBSET (1..k), s # {}, k \notin s
        PROVE  g[s] = AtStamp(g[s \ {Max(s)}], q[Max(s)])
    <3>1. s \in SUBSET (1..(k - 1)) /\ s \ {Max(s)} \in SUBSET (1..k)
      <4>1. \A j \in s : j \in 1..k /\ j # k
        BY <2>4
      <4>2. \A j \in s : j \in 1..(k - 1)
        BY <2>1, <4>1
      <4> QED BY <4>1, <4>2
    <3>2. f[s] = AtStamp(f[s \ {Max(s)}], q[Max(s)])
      BY <3>1, <2>2, <2>4 DEF Passed
    <3>3. g[s] = f[s] /\ g[s \ {Max(s)}] = f[s \ {Max(s)}]
      BY <2>4, <3>1
    <3> QED BY <3>2, <3>3
  <2>5. g[{}] = base
    <3>1. {} \in SUBSET (1..(k - 1)) /\ {} \in SUBSET (1..k)
      OBVIOUS
    <3>2. f[{}] = base
      BY <2>2, <3>1 DEF Passed
    <3> QED BY <3>1, <3>2
  <2>6. Passed(base, q, k, g)
    <3> HIDE DEF g
    <3>1. g = [s \in SUBSET (1..k) |-> g[s]]
      BY DEF g
    <3>2. \A s \in SUBSET (1..k) : g[s] = IF s = {} THEN base ELSE AtStamp(g[s \ {Max(s)}], q[Max(s)])
      BY <2>3, <2>4, <2>5, Zenon
    <3> QED BY <3>1, <3>2, Zenon DEF Passed
  <2> QED BY <1>1, <2>6
<1> QED BY <1>2, <1>3

\* What one override may do to a channel record, overrides may do to it in turn.
LEMMA PassesIn ==
    ASSUME NEW n \in Nat, NEW R, NEW base \in R, NEW q, DOMAIN q = 1..n,
           \A r \in R : \A k \in 1..n : AtStamp(r, q[k]) \in R
    PROVE  FoldLeft(AtStamp, base, q) \in R
<1> DEFINE F == CHOOSE g : Passed(base, q, n, g)
<1>1. Passed(base, q, n, F)
  BY PassedExists
<1>2. FoldLeft(AtStamp, base, q) = F[1..n]
  <2>1. FoldLeft(AtStamp, base, q)
          = (CHOOSE iter : iter = [s \in SUBSET (DOMAIN q) |->
                IF s = {} THEN base ELSE AtStamp(iter[s \ {Max(s)}], q[Max(s)])])[DOMAIN q]
    BY DEF FoldLeft, MapThenFoldSet
  <2> QED BY <2>1, Zenon DEF Passed
<1> HIDE DEF F
<1> DEFINE Outsider == {k \in 0..n : F[1..k] \notin R}
<1>3. \A k \in 0..n : k # 0 => F[1..k] = AtStamp(F[1..(k - 1)], q[k])
  <2> SUFFICES ASSUME NEW k \in 0..n, k # 0
               PROVE  F[1..k] = AtStamp(F[1..(k - 1)], q[k])
    OBVIOUS
  <2>1. 1..k \in SUBSET (1..n) /\ 1..k # {} /\ k \in 1..k /\ k \in Nat
    <3>1. k \in Nat /\ k >= 1 /\ k <= n
      OBVIOUS
    <3>2. \A j \in 1..k : j \in 1..n
      BY <3>1
    <3>3. k \in 1..k
      BY <3>1
    <3> QED BY <3>1, <3>2, <3>3
  <2>2. Max(1..k) = k
    BY <2>1, MaxIs
  <2>3. (1..k) \ {k} = 1..(k - 1)
    OBVIOUS
  <2>4. F[1..k] = AtStamp(F[(1..k) \ {Max(1..k)}], q[Max(1..k)])
    BY <1>1, <2>1 DEF Passed
  <2> QED BY <2>2, <2>3, <2>4
<1>4. F[1..0] = base
  <2>1. 1..0 = {} /\ {} \in SUBSET (1..n)
    OBVIOUS
  <2> QED BY <1>1, <2>1 DEF Passed
<1>5. Outsider = {}
  <2> SUFFICES ASSUME Outsider # {} PROVE FALSE
    OBVIOUS
  <2>1. PICK k \in Outsider : \A m \in Outsider : ~(m < k)
    <3>1. Outsider \in SUBSET Nat
      OBVIOUS
    <3> HIDE DEF Outsider
    <3> QED BY <3>1, LeastIn
  <2>2. k # 0
    BY <1>4, <2>1
  <2>3. k - 1 \in 0..n /\ k - 1 < k /\ k \in 1..n
    BY <2>1, <2>2
  <2>4. F[1..(k - 1)] \in R
    BY <2>1, <2>3
  <2> QED BY <1>3, <2>1, <2>2, <2>3, <2>4
<1>6. F[1..n] \in R
  BY <1>5
<1> QED BY <1>2, <1>6

LEMMA OverriddenAllHolds ==
    ASSUME NEW c \in Record, NEW O \in SUBSET Override
    PROVE  Holds(c, OverriddenAll(c, O))
<1> DEFINE R == {n \in Record : Holds(c, n)}
           q == [t \in Stamps |-> {o \in O : o.ts = t}]
<1>1. c \in R
  BY HoldsSelf
<1>2. ASSUME NEW r \in R, NEW k \in 1..MaxStamp
      PROVE  AtStamp(r, q[k]) \in R
  <2>1. CASE q[k] = {}
    BY <1>2, <2>1 DEF AtStamp
  <2>2. CASE q[k] # {}
    <3> DEFINE o == CHOOSE p \in q[k] : TRUE
    <3>1. o \in q[k] /\ o \in Override
      BY <2>2 DEF Stamps
    <3> HIDE DEF q
    <3>2. AtStamp(r, q[k]) = Overridden(r, o)
      BY <2>2 DEF AtStamp
    <3>3. r \in Record /\ Holds(c, r)
      BY <1>2
    <3> HIDE DEF o
    <3>4. Holds(r, Overridden(r, o))
      BY <3>1, <3>3, OverriddenHolds
    <3>5. Holds(c, Overridden(r, o))
      BY <3>3, <3>4, HoldsOn
    <3> QED BY <3>2, <3>5 DEF Holds
  <2> QED BY <2>1, <2>2
<1>3. DOMAIN q = 1..MaxStamp
  BY DEF Stamps
<1>4. FoldLeft(AtStamp, c, q) \in R
  <2> HIDE DEF R, q
  <2> QED BY <1>1, <1>2, <1>3, MessagesAssumption, PassesIn
<1> QED BY <1>4 DEF OverriddenAll

LEMMA SettledHolds ==
    ASSUME NEW c \in Record
    PROVE  Holds(c, Settled(c))
<1> DEFINE due == {i \in Stamps : c.parked[i].ts > 0 /\ On(c, i)}
           p == [i \in Stamps |-> IF i \in due THEN None ELSE c.parked[i]]
           g == c.gone \cup {i \in due : c.parked[i].del}
           l == [i \in Stamps |-> IF i \notin due THEN c.line[i]
                      ELSE IF c.parked[i].del THEN Tail(c.line[i]) ELSE [c.line[i] EXCEPT ![1].edit = c.parked[i].ts]]
           n == Settled(c)
<1>1. n = [c EXCEPT !.parked = p, !.gone = g, !.line = l]
  BY DEF Settled
<1>2. c.line \in [Stamps -> Seq(Bubble)] /\ c.parked \in [Stamps -> Override \cup {None}] /\ c.gone \in SUBSET Stamps
  BY DEF Record
<1>3. ASSUME NEW i \in due PROVE i \in Stamps /\ c.parked[i] \in Override /\ c.line[i] \in Seq(Bubble) /\ c.line[i] # <<>>
                                 /\ c.parked[i].ts \in 0..MaxStamp
  <2>1. i \in Stamps /\ c.parked[i] \in Override /\ c.line[i] \in Seq(Bubble) /\ c.line[i] # <<>>
    BY <1>2, NoneIs DEF On
  <2> QED BY <2>1, MessagesAssumption DEF Override, Stamps
<1>4. \A i \in due : c.parked[i].del => Tail(c.line[i]) \in Seq(Bubble)
  BY <1>3, Dropped
<1>5. \A i \in due : [c.line[i] EXCEPT ![1].edit = c.parked[i].ts] \in Seq(Bubble) /\ [c.line[i] EXCEPT ![1].edit = c.parked[i].ts] # <<>>
  BY <1>3, Edited
<1>6. \A i \in Stamps : l[i] \in Seq(Bubble) /\ (c.line[i] # <<>> => l[i] # <<>> \/ i \in g)
  BY <1>2, <1>4, <1>5
<1>7. p \in [Stamps -> Override \cup {None}] /\ g \in SUBSET Stamps /\ l \in [Stamps -> Seq(Bubble)]
  BY <1>2, <1>3, <1>6
<1>8. c.gone \subseteq g
  OBVIOUS
<1> HIDE DEF due, p, g, l, n
<1>9. n \in Record /\ n.line = l /\ n.gone = g /\ n.batch = c.batch /\ n.live = c.live /\ n.locks = c.locks
  BY <1>1, <1>7 DEF Record
<1>10. Placed(c) \subseteq Placed(n)
  BY <1>6, <1>8, <1>9 DEF Placed, On
<1> QED BY <1>9, <1>10 DEF Holds, n

LEMMA LandedHolds ==
    ASSUME NEW c \in Record, NEW I \in SUBSET Stamps
    PROVE  Holds(c, Landed(c, I)) /\ \A i \in I : On(Landed(c, I), i) \/ i \in Landed(c, I).gone
<1> DEFINE n == Landed(c, I)
           J == Joining(c, I)
           l == [i \in Stamps |-> IF i \in J THEN <<Shown("theirs")>> ELSE c.line[i]]
<1>1. n = [c EXCEPT !.line = l]
  BY DEF Landed
<1>2. <<Shown("theirs")>> \in Seq(Bubble) /\ <<Shown("theirs")>> # <<>>
  BY ShownIs DEF Marks
<1>3. c.line \in [Stamps -> Seq(Bubble)]
  BY DEF Record
<1>4. l \in [Stamps -> Seq(Bubble)] /\ \A i \in Stamps : c.line[i] # <<>> \/ i \in J => l[i] # <<>>
  BY <1>2, <1>3
<1>5. \A i \in I : i \in J \/ c.line[i] # <<>> \/ i \in c.gone
  BY DEF Joining, On
<1> HIDE DEF l, n, J
<1>6. n \in Record /\ n.line = l /\ n.gone = c.gone /\ n.batch = c.batch /\ n.live = c.live /\ n.locks = c.locks
  BY <1>1, <1>4 DEF Record
<1>7. Placed(c) \subseteq Placed(n)
  BY <1>4, <1>6 DEF Placed, On
<1>8. \A i \in I : On(n, i) \/ i \in n.gone
  BY <1>4, <1>5, <1>6 DEF On
<1> QED BY <1>6, <1>7, <1>8 DEF Holds, n

LEMMA FlushedHolds ==
    ASSUME NEW c \in Record
    PROVE  Holds(c, Flushed(c))
<1> DEFINE m == Landed(c, c.batch)
           e == [m EXCEPT !.batch = {}]
<1>1. Holds(c, m) /\ \A i \in c.batch : On(m, i) \/ i \in m.gone
  BY LandedHolds DEF Record
<1>2. m.batch = c.batch /\ m.live = c.live
  BY DEF Landed, Record
<1> HIDE DEF m
<1>3. e \in Record /\ e.line = m.line /\ e.gone = m.gone /\ e.batch = {} /\ e.live = m.live /\ e.locks = m.locks
  BY <1>1 DEF Record, Holds
<1> HIDE DEF e
<1>4. Placed(c) \subseteq Placed(e)
  <2>1. \A i \in Placed(m) : i \in Placed(e) \/ i \in c.batch
    BY <1>2, <1>3 DEF Placed, On
  <2>2. \A i \in c.batch : i \in Stamps
    BY DEF Record
  <2>3. \A i \in c.batch : i \in Placed(e)
    BY <1>1, <1>3, <2>2 DEF Placed, On
  <2> QED BY <1>1, <2>1, <2>3 DEF Holds
<1>5. Holds(c, e)
  BY <1>1, <1>3, <1>4 DEF Holds
<1>6. Holds(e, Settled(e))
  BY <1>3, SettledHolds
<1>7. Holds(c, Settled(e))
  BY <1>5, <1>6, HoldsOn
<1>8. Flushed(c) = IF Joining(c, c.batch) = {} THEN e ELSE Settled(e)
  BY DEF Flushed, e, m
<1> QED BY <1>5, <1>7, <1>8

LEMMA LineHolds ==
    ASSUME NEW c \in Record, NEW l \in [Stamps -> Seq(Bubble)], \A i \in Stamps : On(c, i) => l[i] # <<>>
    PROVE  Holds(c, [c EXCEPT !.line = l])
<1> DEFINE n == [c EXCEPT !.line = l]
<1>1. n \in Record /\ n.line = l /\ n.gone = c.gone /\ n.batch = c.batch /\ n.live = c.live /\ n.locks = c.locks
  BY DEF Record
<1> HIDE DEF n
<1>2. Placed(c) \subseteq Placed(n)
  BY <1>1 DEF Placed, On
<1> QED BY <1>1, <1>2 DEF Holds, n

\* handleTextMessage: every row it is given has its place, or is locked, or is taken for an echo
LEMMA TakenPlaces ==
    ASSUME NEW c \in Record, NEW d, NEW R \in SUBSET Row
    PROVE  /\ Taken(c, d, R) \in Record
           /\ Placed(c) \subseteq Placed(Taken(c, d, R))
           /\ Taken(c, d, R).locks = c.locks \cup Ids(R)
           /\ Ids(R) \subseteq c.locks \cup Ids(Skipped(c, d, R)) \cup Placed(Taken(c, d, R))
           /\ Ids(Skipped(c, d, R)) \in SUBSET Stamps
<1> DEFINE new == {r \in Fresh(c, R) : ~On(c, r.id)} \ Skipped(c, d, R)
           a == c.live \cup {r.id : r \in {q \in new : Young(q)}}
           b == c.batch \cup {r.id : r \in {q \in new : ~Young(q)}}
           k == c.locks \cup Ids(R)
           l == [i \in Stamps |-> IF i \in Cleared(c, R) THEN [c.line[i] EXCEPT ![1].is = "sent"] ELSE c.line[i]]
           n == Taken(c, d, R)
<1>1. n = [c EXCEPT !.locks = k, !.line = l, !.live = a, !.batch = b]
  BY DEF Taken
<1>2. \A r \in R : r.id \in Stamps
  BY DEF Row
<1>3. Ids(R) \in SUBSET Stamps /\ Ids(Skipped(c, d, R)) \in SUBSET Stamps
  BY <1>2 DEF Ids, Skipped, Fresh
<1>4. a \in SUBSET Stamps /\ b \in SUBSET Stamps /\ k \in SUBSET Stamps
  BY <1>2, <1>3 DEF Record, Fresh
<1>5. \A i \in Cleared(c, R) : i \in Stamps /\ c.line[i] # <<>>
  BY <1>2 DEF Cleared, Ids, Fresh, On
<1>6. c.line \in [Stamps -> Seq(Bubble)] /\ "sent" \in Marks
  BY DEF Record, Marks
<1>7. \A i \in Cleared(c, R) : [c.line[i] EXCEPT ![1].is = "sent"] \in Seq(Bubble) /\ [c.line[i] EXCEPT ![1].is = "sent"] # <<>>
  <2> TAKE i \in Cleared(c, R)
  <2>1. c.line[i] \in Seq(Bubble) /\ c.line[i] # <<>>
    BY <1>5, <1>6
  <2> DEFINE s == "sent"
  <2>2. s \in Marks
    BY <1>6
  <2> HIDE DEF s
  <2>3. [c.line[i] EXCEPT ![1].is = s] \in Seq(Bubble) /\ [c.line[i] EXCEPT ![1].is = s] # <<>>
    BY <2>1, <2>2, Marked
  <2> QED BY <2>3 DEF s
<1>8. l \in [Stamps -> Seq(Bubble)] /\ \A i \in Stamps : c.line[i] # <<>> => l[i] # <<>>
  BY <1>6, <1>7
<1>9. \A r \in R : r.id \in c.locks \/ r.id \in c.gone \/ On(c, r.id) \/ r \in Skipped(c, d, R) \/ r.id \in a \cup b
  BY DEF Fresh
<1>10. c.live \subseteq a /\ c.batch \subseteq b
  OBVIOUS
<1> HIDE DEF n, l, a, b, k, new
<1>11. n \in Record /\ n.line = l /\ n.gone = c.gone /\ n.batch = b /\ n.live = a /\ n.locks = k
  BY <1>1, <1>4, <1>8 DEF Record
<1>12. Placed(c) \subseteq Placed(n)
  BY <1>8, <1>10, <1>11 DEF Placed, On
<1>13. \A r \in R : r.id \in c.locks \/ r \in Skipped(c, d, R) \/ r.id \in Placed(n)
  BY <1>2, <1>9, <1>8, <1>11 DEF Placed, On
<1>14. Ids(R) \subseteq c.locks \cup Ids(Skipped(c, d, R)) \cup Placed(n)
  BY <1>13 DEF Ids
<1> QED BY <1>3, <1>11, <1>12, <1>14 DEF n, k

LEMMA RestoredPlaces ==
    ASSUME NEW c \in Record, NEW I \in SUBSET Stamps
    PROVE  /\ Restored(c, I) \in Record
           /\ Restored(c, I).locks = c.locks
           /\ c.live \subseteq Placed(Restored(c, I))
<1> DEFINE l == [i \in Stamps |-> IF i \in I /\ ~On(c, i) THEN <<Shown("failed")>> ELSE c.line[i]]
           n == Restored(c, I)
<1>1. n = [c EXCEPT !.gone = {}, !.line = l]
  BY DEF Restored
<1>2. <<Shown("failed")>> \in Seq(Bubble)
  BY ShownIs DEF Marks
<1>3. l \in [Stamps -> Seq(Bubble)]
  BY <1>2 DEF Record
<1> HIDE DEF l, n
<1>4. n \in Record /\ n.live = c.live /\ n.locks = c.locks
  BY <1>1, <1>3 DEF Record
<1> QED BY <1>4 DEF Placed, n

LEMMA PushedHolds ==
    ASSUME NEW c \in Record, NEW i \in Stamps
    PROVE  Holds(c, Settled(Pushed(c, i)))
<1> DEFINE u == Append(c.line[i], Shown("theirs"))
           l == [c.line EXCEPT ![i] = u]
           a == c.live \ {i}
           n == Pushed(c, i)
<1>1. n = [c EXCEPT !.live = a, !.line = l]
  BY DEF Pushed
<1>2. Shown("theirs") \in Bubble /\ c.line \in [Stamps -> Seq(Bubble)]
  BY ShownIs DEF Marks, Record
<1>3. u \in Seq(Bubble) /\ u # <<>>
  <2> DEFINE s == Shown("theirs")
             y == c.line[i]
  <2>1. s \in Bubble /\ y \in Seq(Bubble)
    BY <1>2
  <2> HIDE DEF s, y
  <2>2. Append(y, s) \in Seq(Bubble) /\ Len(Append(y, s)) = Len(y) + 1 /\ Len(y) \in Nat
    BY <2>1
  <2>3. Len(Append(y, s)) # 0
    BY <2>2
  <2>4. Append(y, s) # <<>>
    <3> DEFINE z == Append(y, s)
    <3>1. Len(z) # 0
      BY <2>3
    <3> HIDE DEF z
    <3>2. z # <<>>
      BY <3>1
    <3> QED BY <3>2 DEF z
  <2> QED BY <2>2, <2>4 DEF s, y
<1> HIDE DEF u
<1>4. l \in [Stamps -> Seq(Bubble)] /\ l[i] # <<>> /\ \A j \in Stamps : c.line[j] # <<>> => l[j] # <<>>
  BY <1>2, <1>3
<1>5. a \in SUBSET Stamps /\ \A j \in c.live : j \in a \/ j = i
  BY DEF Record
<1> HIDE DEF l, a, n
<1>6. n \in Record /\ n.line = l /\ n.gone = c.gone /\ n.batch = c.batch /\ n.live = a /\ n.locks = c.locks
  BY <1>1, <1>4, <1>5 DEF Record
<1>7. Placed(c) \subseteq Placed(n)
  BY <1>4, <1>5, <1>6 DEF Placed, On
<1>8. Holds(c, n)
  BY <1>6, <1>7 DEF Holds
<1>9. Holds(n, Settled(n))
  BY <1>6, SettledHolds
<1>10. Holds(c, Settled(n))
  BY <1>8, <1>9, HoldsOn
<1> QED BY <1>10 DEF n

LEMMA BatchDropped ==
    ASSUME NEW c \in Record
    PROVE  [c EXCEPT !.batch = {}] \in Record
BY DEF Record

LEMMA UnlockedHolds ==
    ASSUME NEW c \in Record, NEW i
    PROVE  Holds(c, [c EXCEPT !.locks = @ \ {i}])
<1> DEFINE n == [c EXCEPT !.locks = @ \ {i}]
<1>1. n \in Record /\ n.line = c.line /\ n.gone = c.gone /\ n.batch = c.batch /\ n.live = c.live /\ n.locks = c.locks \ {i}
  BY DEF Record
<1> HIDE DEF n
<1>2. Holds(c, n)
  BY <1>1 DEF Holds, Placed, On
<1> QED BY <1>2 DEF n

LEMMA MarkHolds ==
    ASSUME chan \in [Devices -> Record], NEW d \in Devices, NEW i \in Stamps, NEW s \in Marks
    PROVE  Mark(d, i, s) \in [Devices -> Record] /\ \A e \in Devices : Holds(chan[e], Mark(d, i, s)[e])
<1> DEFINE c == chan[d]
           u == IF c.line[i] = <<>> THEN c.line[i] ELSE [c.line[i] EXCEPT ![1].is = s]
           l == [c.line EXCEPT ![i] = u]
           n == [c EXCEPT !.line = l]
           m == Mark(d, i, s)
<1>1. m = [chan EXCEPT ![d] = n]
  BY DEF Mark
<1>2. c \in Record /\ c.line \in [Stamps -> Seq(Bubble)] /\ c.line[i] \in Seq(Bubble)
  BY DEF Record
<1>3. u \in Seq(Bubble) /\ (c.line[i] # <<>> => u # <<>>)
  BY <1>2, Marked
<1> HIDE DEF u
<1>4. l \in [Stamps -> Seq(Bubble)] /\ \A j \in Stamps : On(c, j) => l[j] # <<>>
  BY <1>2, <1>3 DEF On
<1> HIDE DEF l, c
<1>5. Holds(c, n)
  BY <1>2, <1>4, LineHolds
<1> HIDE DEF n, m
<1>6. n \in Record
  BY <1>5 DEF Holds
<1>7. m \in [Devices -> Record] /\ m[d] = n /\ \A e \in Devices : e # d => m[e] = chan[e]
  BY <1>1, <1>6
<1>8. \A e \in Devices : Holds(chan[e], m[e])
  BY <1>5, <1>7, HoldsSelf DEF c
<1> QED BY <1>7, <1>8 DEF m

-----------------------------------------------------------------------------
(* Messages: the steps                                                      *)

\* while no channel is opened again within five seconds, every row that the reads of an opening
\* brought, and every row being processed, has its place or was taken for an echo
HistoryInv ==
    /\ ahead.left["quick"] = 0
    /\ \A d \in Devices : Open(d) =>
          got[d].read \cup chan[d].locks \subseteq got[d].skipped \cup Placed(chan[d])

AheadKept == ahead' \in TimelineStates /\ (ahead.left["quick"] = 0 => ahead'.left["quick"] = 0)

\* no step opens a channel
NoneOpens == \A e \in Devices : read'[e].at # "closed" => read[e].at # "closed"

Onward == TimelineTypeOK' /\ FailedKept' /\ (HistoryInv => HistoryInv')

LEMMA UsesKeeps ==
    ASSUME ahead \in TimelineStates, NEW E, Uses(E)
    PROVE  AheadKept
<1>1. ahead.left \in [TimelineEvents -> Nat] /\ "quick" \in TimelineEvents
  BY DEF TimelineStates, TimelineEvents
<1> DEFINE l == [e \in TimelineEvents |-> IF e \in E THEN ahead.left[e] - 1 ELSE ahead.left[e]]
<1>2. ahead' = [ahead EXCEPT !.left = l] /\ \A e \in E : ahead.left[e] > 0
  BY DEF Uses
<1>3. l \in [TimelineEvents -> Nat]
  BY <1>1, <1>2
<1>4. ahead.left["quick"] = 0 => l["quick"] = 0
  BY <1>1, <1>2
<1> HIDE DEF l
<1>5. ahead' \in TimelineStates /\ ahead'.left = l
  BY <1>2, <1>3 DEF TimelineStates
<1> QED BY <1>4, <1>5 DEF AheadKept

LEMMA AheadStays ==
    ASSUME ahead \in TimelineStates, UNCHANGED ahead
    PROVE  AheadKept
BY DEF AheadKept

LEMMA CalmHistory ==
    ASSUME AheadKept, \A e \in Devices : Holds(chan[e], chan'[e]), got' = got, NoneOpens, HistoryInv
    PROVE  HistoryInv'
<1>1. ahead'.left["quick"] = 0
  BY DEF AheadKept, HistoryInv
<1>2. ASSUME NEW e \in Devices, read'[e].at # "closed"
      PROVE  got'[e].read \cup chan'[e].locks \subseteq got'[e].skipped \cup Placed(chan'[e])
  <2>1. got[e].read \cup chan[e].locks \subseteq got[e].skipped \cup Placed(chan[e])
    BY <1>2 DEF HistoryInv, NoneOpens, Open
  <2>2. Placed(chan[e]) \subseteq Placed(chan'[e]) /\ chan'[e].locks \subseteq chan[e].locks
    BY DEF Holds
  <2> QED BY <2>1, <2>2
<1>3. HistoryInv' = (/\ ahead'.left["quick"] = 0
                     /\ \A d \in Devices : read'[d].at # "closed" =>
                          got'[d].read \cup chan'[d].locks \subseteq got'[d].skipped \cup Placed(chan'[d]))
  BY DEF HistoryInv, Open, Placed, On
<1> QED BY <1>1, <1>2, <1>3

LEMMA CalmFailed ==
    ASSUME FailedKept, told' = told, \A e \in Devices : outbox[e] \subseteq outbox'[e], sent \subseteq sent'
    PROVE  FailedKept'
BY DEF FailedKept, Ids

\* one channel record changes
LEMMA OneHolds ==
    ASSUME chan \in [Devices -> Record], NEW d \in Devices, NEW n, Holds(chan[d], n), chan' = [chan EXCEPT ![d] = n]
    PROVE  chan' \in [Devices -> Record] /\ \A e \in Devices : Holds(chan[e], chan'[e])
<1>1. n \in Record
  BY DEF Holds
<1>2. chan' \in [Devices -> Record] /\ chan'[d] = n /\ \A e \in Devices : e # d => chan'[e] = chan[e]
  BY <1>1
<1> QED BY <1>2, HoldsSelf

LEMMA AllHold ==
    ASSUME chan \in [Devices -> Record], UNCHANGED chan
    PROVE  \A e \in Devices : Holds(chan[e], chan'[e])
BY HoldsSelf

LEMMA TakeKeeps ==
    ASSUME TimelineTypeOK, FailedKept, NEW d \in Devices, NEW R \in SUBSET sent, NEW B \in SUBSET R, Take(d, R, B),
           AheadKept, NoneOpens, told' = told, sent' = sent
    PROVE  /\ chan' \in [Devices -> Record] /\ outbox' \in [Devices -> SUBSET Stamps]
           /\ got' \in [Devices -> [read : SUBSET Stamps, skipped : SUBSET Stamps]]
           /\ FailedKept' /\ (HistoryInv => HistoryInv')
<1> DEFINE c == chan[d]
           n == Taken(c, d, R)
           k == Ids(Skipped(c, d, R))
           b == Ids(B)
           u == Cleared(c, R)
<1>1. chan' = [chan EXCEPT ![d] = n] /\ outbox' = [outbox EXCEPT ![d] = @ \ u]
      /\ got' = [got EXCEPT ![d].read = @ \cup b, ![d].skipped = @ \cup k]
  BY DEF Take
<1>2. c \in Record /\ R \in SUBSET Row /\ chan \in [Devices -> Record] /\ outbox \in [Devices -> SUBSET Stamps]
      /\ got \in [Devices -> [read : SUBSET Stamps, skipped : SUBSET Stamps]]
  BY DEF TimelineTypeOK
<1>3. n \in Record /\ Placed(c) \subseteq Placed(n) /\ n.locks = c.locks \cup Ids(R)
      /\ Ids(R) \subseteq c.locks \cup k \cup Placed(n) /\ k \in SUBSET Stamps
  BY <1>2, TakenPlaces
<1>4. b \subseteq Ids(R) /\ Ids(R) \in SUBSET Stamps /\ u \subseteq Ids(R) /\ Ids(R) \subseteq Ids(sent)
  BY <1>2 DEF Ids, Row, Cleared, Fresh
<1> HIDE DEF n, k, b, u
<1>5. chan' \in [Devices -> Record] /\ chan'[d] = n /\ \A e \in Devices : e # d => chan'[e] = chan[e]
  BY <1>1, <1>2, <1>3
<1>6. outbox' \in [Devices -> SUBSET Stamps] /\ outbox'[d] = outbox[d] \ u /\ \A e \in Devices : e # d => outbox'[e] = outbox[e]
  BY <1>1, <1>2
<1>7. /\ got' \in [Devices -> [read : SUBSET Stamps, skipped : SUBSET Stamps]]
      /\ got'[d].read = got[d].read \cup b /\ got'[d].skipped = got[d].skipped \cup k
      /\ \A e \in Devices : e # d => got'[e] = got[e]
  <2> DEFINE m == [got[d] EXCEPT !.read = @ \cup b, !.skipped = @ \cup k]
  <2>1. got[d] \in [read : SUBSET Stamps, skipped : SUBSET Stamps] /\ b \in SUBSET Stamps
    BY <1>2, <1>4
  <2>2. got' = [got EXCEPT ![d] = m]
    BY <1>1, <1>2, <2>1
  <2>3. m \in [read : SUBSET Stamps, skipped : SUBSET Stamps] /\ m.read = got[d].read \cup b /\ m.skipped = got[d].skipped \cup k
    BY <1>3, <2>1
  <2> HIDE DEF m
  <2> QED BY <1>2, <2>2, <2>3
<1>8. FailedKept'
  <2>1. \A e \in Devices : told[e] \subseteq outbox[e] \cup Ids(sent)
    BY DEF FailedKept
  <2>2. \A e \in Devices : told[e] \subseteq outbox'[e] \cup Ids(sent)
    BY <1>4, <1>6, <2>1
  <2> QED BY <2>2 DEF FailedKept, Ids
<1>9. ASSUME HistoryInv PROVE HistoryInv'
  <2>1. ahead'.left["quick"] = 0
    BY <1>9 DEF AheadKept, HistoryInv
  <2>2. ASSUME NEW e \in Devices, read'[e].at # "closed"
        PROVE  got'[e].read \cup chan'[e].locks \subseteq got'[e].skipped \cup Placed(chan'[e])
    <3>1. got[e].read \cup chan[e].locks \subseteq got[e].skipped \cup Placed(chan[e])
      BY <1>9, <2>2 DEF HistoryInv, NoneOpens, Open
    <3>2. CASE e # d
      BY <3>1, <3>2, <1>5, <1>7
    <3>3. CASE e = d
      <4>1. got[d].read \cup c.locks \subseteq got[d].skipped \cup Placed(c)
        BY <3>1, <3>3
      <4>2. got[d].read \cup b \cup n.locks \subseteq got[d].skipped \cup k \cup Placed(n)
        BY <4>1, <1>3, <1>4
      <4>3. got'[d].read \cup chan'[d].locks \subseteq got'[d].skipped \cup Placed(chan'[d])
        BY <4>2, <1>5, <1>7
      <4> QED BY <4>3, <3>3
    <3> QED BY <3>2, <3>3
  <2>3. HistoryInv' = (/\ ahead'.left["quick"] = 0
                       /\ \A e \in Devices : read'[e].at # "closed" =>
                            got'[e].read \cup chan'[e].locks \subseteq got'[e].skipped \cup Placed(chan'[e]))
    BY DEF HistoryInv, Open, Placed, On
  <2> QED BY <2>1, <2>2, <2>3
<1> QED BY <1>5, <1>6, <1>7, <1>8, <1>9

LEMMA LastRowsIn == \A S : LastRows(S) \subseteq S
BY DEF LastRows, Newest

LEMMA LastOvsIn == \A S : LastOvs(S) \subseteq S
BY DEF LastOvs, Newest

\* the reads of an opening
Openings == [at : {"closed", "opening", "open", "retry", "refresh"}, todo : SUBSET Parts,
             failed : SUBSET Parts, tries : 0..Retries,
             whole : BOOLEAN, owed : BOOLEAN, lost : BOOLEAN]

LEMMA OneRead ==
    ASSUME read \in [Devices -> Openings], NEW d \in Devices, NEW n \in Openings, read' = [read EXCEPT ![d] = n],
           n.at # "closed" => read[d].at # "closed"
    PROVE  read' \in [Devices -> Openings] /\ NoneOpens
BY DEF NoneOpens

LEMMA ReadStays ==
    ASSUME read \in [Devices -> Openings], UNCHANGED read
    PROVE  NoneOpens
BY DEF NoneOpens

\* a step that changes one channel record, and holds
LEMMA RecordStep ==
    ASSUME TimelineTypeOK, FailedKept, NEW d \in Devices, NEW n, Holds(chan[d], n), chan' = [chan EXCEPT ![d] = n],
           AheadKept, NoneOpens, got' = got, told' = told, outbox' = outbox, sent \subseteq sent'
    PROVE  chan' \in [Devices -> Record] /\ FailedKept' /\ (HistoryInv => HistoryInv')
<1>1. chan \in [Devices -> Record]
  BY DEF TimelineTypeOK
<1>2. chan' \in [Devices -> Record] /\ \A e \in Devices : Holds(chan[e], chan'[e])
  BY <1>1, OneHolds
<1>3. HistoryInv => HistoryInv'
  BY <1>2, CalmHistory
<1>4. FailedKept'
  BY CalmFailed
<1> QED BY <1>2, <1>3, <1>4

\* a step that changes no channel record
LEMMA OtherStep ==
    ASSUME TimelineTypeOK, FailedKept, UNCHANGED chan,
           AheadKept, NoneOpens, got' = got, told' = told, outbox' = outbox, sent \subseteq sent'
    PROVE  FailedKept' /\ (HistoryInv => HistoryInv')
<1>1. chan \in [Devices -> Record]
  BY DEF TimelineTypeOK
<1>2. \A e \in Devices : Holds(chan[e], chan'[e])
  BY <1>1, AllHold
<1>3. HistoryInv => HistoryInv'
  BY <1>2, CalmHistory
<1>4. FailedKept'
  BY CalmFailed
<1> QED BY <1>3, <1>4

LEMMA DeliverOnward ==
    ASSUME TimelineTypeOK, FailedKept, NEW d \in Devices, NEW r \in sent, Deliver(d, r)
    PROVE  Onward
<1>1. AheadKept
  BY UsesKeeps, AheadStays DEF Deliver, TimelineTypeOK
<1>2. NoneOpens
  BY DEF Deliver, NoneOpens
<1>3. Take(d, {r}, {}) /\ Open(d) /\ told' = told /\ sent' = sent
  BY DEF Deliver, netVars
<1> DEFINE R == {r}
           B == {}
<1>4. R \in SUBSET sent /\ B \in SUBSET R /\ Take(d, R, B)
  BY <1>3
<1> HIDE DEF R, B
<1>5. /\ chan' \in [Devices -> Record] /\ outbox' \in [Devices -> SUBSET Stamps]
      /\ got' \in [Devices -> [read : SUBSET Stamps, skipped : SUBSET Stamps]]
      /\ FailedKept' /\ (HistoryInv => HistoryInv')
  BY <1>1, <1>2, <1>3, <1>4, TakeKeeps
<1>6. UNCHANGED <<read, page, sending, track, netVars, seen, told>>
  BY DEF Deliver
<1>7. TimelineTypeOK'
  BY <1>1, <1>5, <1>6 DEF AheadKept, TimelineTypeOK, netVars
<1> QED BY <1>5, <1>7 DEF Onward

LEMMA DeliverOverrideOnward ==
    ASSUME TimelineTypeOK, FailedKept, NEW d \in Devices, NEW o \in ovs, DeliverOverride(d, o)
    PROVE  Onward
<1>1. AheadKept
  BY UsesKeeps, AheadStays DEF DeliverOverride, TimelineTypeOK
<1>2. NoneOpens
  BY DEF DeliverOverride, NoneOpens
<1>3. chan[d] \in Record /\ o \in Override
  BY DEF TimelineTypeOK
<1> DEFINE n == Overridden(chan[d], o)
<1>4. Holds(chan[d], n) /\ chan' = [chan EXCEPT ![d] = n]
  BY <1>3, OverriddenHolds DEF DeliverOverride
<1>5. UNCHANGED <<read, page, sending, track, outbox, netVars, got, told>> /\ seen' = [seen EXCEPT ![d] = @ \cup {o}]
  BY DEF DeliverOverride
<1> HIDE DEF n
<1>6. chan' \in [Devices -> Record] /\ FailedKept' /\ (HistoryInv => HistoryInv')
  BY <1>1, <1>2, <1>4, <1>5, RecordStep DEF netVars
<1>7. TimelineTypeOK'
  BY <1>1, <1>5, <1>6 DEF AheadKept, TimelineTypeOK, netVars
<1> QED BY <1>6, <1>7 DEF Onward

LEMMA LiveEndOnward ==
    ASSUME TimelineTypeOK, FailedKept, NEW d \in Devices, NEW i \in Stamps, LiveEnd(d, i)
    PROVE  Onward
<1>1. AheadKept /\ NoneOpens
  BY AheadStays DEF LiveEnd, TimelineTypeOK, NoneOpens
<1>2. chan[d] \in Record
  BY DEF TimelineTypeOK
<1> DEFINE n == Settled(Pushed(chan[d], i))
<1>3. Holds(chan[d], n) /\ chan' = [chan EXCEPT ![d] = n]
  BY <1>2, PushedHolds DEF LiveEnd
<1>4. UNCHANGED <<read, page, sending, track, outbox, netVars, ahead, hisVars>>
  BY DEF LiveEnd
<1> HIDE DEF n
<1>5. chan' \in [Devices -> Record] /\ FailedKept' /\ (HistoryInv => HistoryInv')
  BY <1>1, <1>3, <1>4, RecordStep DEF netVars, hisVars
<1>6. TimelineTypeOK'
  BY <1>1, <1>4, <1>5 DEF AheadKept, TimelineTypeOK, netVars, hisVars
<1> QED BY <1>5, <1>6 DEF Onward

LEMMA FlushOnward ==
    ASSUME TimelineTypeOK, FailedKept, NEW d \in Devices, Flush(d)
    PROVE  Onward
<1>1. AheadKept /\ NoneOpens
  BY AheadStays DEF Flush, TimelineTypeOK, NoneOpens
<1>2. chan[d] \in Record
  BY DEF TimelineTypeOK
<1> DEFINE n == Flushed(chan[d])
<1>3. Holds(chan[d], n) /\ chan' = [chan EXCEPT ![d] = n]
  BY <1>2, FlushedHolds DEF Flush
<1>4. UNCHANGED <<read, page, sending, track, outbox, netVars, ahead, hisVars>>
  BY DEF Flush
<1> HIDE DEF n
<1>5. chan' \in [Devices -> Record] /\ FailedKept' /\ (HistoryInv => HistoryInv')
  BY <1>1, <1>3, <1>4, RecordStep DEF netVars, hisVars
<1>6. TimelineTypeOK'
  BY <1>1, <1>4, <1>5 DEF AheadKept, TimelineTypeOK, netVars, hisVars
<1> QED BY <1>5, <1>6 DEF Onward

LEMMA UnlockOnward ==
    ASSUME TimelineTypeOK, FailedKept, NEW d \in Devices, NEW i \in Stamps, Unlock(d, i)
    PROVE  Onward
<1>1. AheadKept /\ NoneOpens
  BY AheadStays, UsesKeeps DEF Unlock, TimelineTypeOK, NoneOpens
<1>2. chan[d] \in Record
  BY DEF TimelineTypeOK
<1> DEFINE n == [chan[d] EXCEPT !.locks = @ \ {i}]
<1>3. Holds(chan[d], n) /\ chan' = [chan EXCEPT ![d] = n]
  BY <1>2, UnlockedHolds DEF Unlock
<1>4. UNCHANGED <<read, page, sending, track, outbox, netVars, hisVars>>
  BY DEF Unlock
<1> HIDE DEF n
<1>5. chan' \in [Devices -> Record] /\ FailedKept' /\ (HistoryInv => HistoryInv')
  BY <1>1, <1>3, <1>4, RecordStep DEF netVars, hisVars
<1>6. TimelineTypeOK'
  BY <1>1, <1>4, <1>5 DEF AheadKept, TimelineTypeOK, netVars, hisVars
<1> QED BY <1>5, <1>6 DEF Onward

LEMMA AgeOnward ==
    ASSUME TimelineTypeOK, FailedKept, Age
    PROVE  Onward
<1>1. AheadKept /\ NoneOpens
  BY AheadStays DEF Age, TimelineTypeOK, NoneOpens, devVars
<1>2. FailedKept' /\ (HistoryInv => HistoryInv')
  BY <1>1, OtherStep DEF Age, devVars, hisVars
<1>3. TimelineTypeOK'
  BY <1>1 DEF Age, AheadKept, TimelineTypeOK, devVars, hisVars
<1> QED BY <1>2, <1>3 DEF Onward

LEMMA StoreLateOnward ==
    ASSUME TimelineTypeOK, FailedKept, NEW r \in sent, StoreLate(r)
    PROVE  Onward
<1>1. AheadKept /\ NoneOpens
  BY UsesKeeps DEF StoreLate, TimelineTypeOK, NoneOpens, devVars
<1>2. FailedKept' /\ (HistoryInv => HistoryInv')
  BY <1>1, OtherStep DEF StoreLate, devVars, hisVars
<1>3. TimelineTypeOK'
  BY <1>1 DEF StoreLate, AheadKept, TimelineTypeOK, devVars, hisVars
<1> QED BY <1>2, <1>3 DEF Onward

LEMMA OpenChannelOnward ==
    ASSUME TimelineTypeOK, FailedKept, NEW d \in Devices, OpenChannel(d)
    PROVE  Onward
<1> DEFINE c == chan[d]
           n == Restored(c, outbox[d])
           m == [Closed EXCEPT !.at = "opening", !.todo = Parts]
           h == [read |-> {}, skipped |-> {}]
           E == IF chan[d].locks \subseteq chan[d].live THEN {"open"} ELSE {"open", "quick"}
<1>1. AheadKept
  <2>1. Uses(E) /\ ahead \in TimelineStates
    BY DEF OpenChannel, TimelineTypeOK
  <2> HIDE DEF E
  <2> QED BY <2>1, UsesKeeps
<1>2. chan' = [chan EXCEPT ![d] = n] /\ read' = [read EXCEPT ![d] = m] /\ got' = [got EXCEPT ![d] = h]
      /\ UNCHANGED <<page, sending, track, outbox, netVars, seen, told>>
  BY DEF OpenChannel
<1>3. c \in Record /\ outbox[d] \in SUBSET Stamps /\ chan \in [Devices -> Record] /\ read \in [Devices -> Openings]
  BY DEF TimelineTypeOK, Openings
<1>4. n \in Record /\ n.locks = c.locks /\ c.live \subseteq Placed(n)
  BY <1>3, RestoredPlaces
<1>5. m \in Openings
  <2>1. Closed \in Openings
    <3>1. 0 \in 0..Retries
      BY MessagesAssumption
    <3> QED BY <3>1 DEF Closed, Openings
  <2>2. Parts \in SUBSET Parts
    OBVIOUS
  <2> QED BY <2>1, <2>2 DEF Openings
<1>6. h \in [read : SUBSET Stamps, skipped : SUBSET Stamps] /\ h.read = {} /\ h.skipped = {}
  OBVIOUS
<1> HIDE DEF n, m, h, c
<1>7. chan' \in [Devices -> Record] /\ chan'[d] = n /\ \A e \in Devices : e # d => chan'[e] = chan[e]
  BY <1>2, <1>3, <1>4
<1>8. read' \in [Devices -> Openings] /\ \A e \in Devices : e # d => read'[e] = read[e]
  BY <1>2, <1>3, <1>5
<1>9. /\ got' \in [Devices -> [read : SUBSET Stamps, skipped : SUBSET Stamps]] /\ got'[d] = h
      /\ \A e \in Devices : e # d => got'[e] = got[e]
  BY <1>2, <1>6 DEF TimelineTypeOK
<1>10. FailedKept'
  BY <1>2, CalmFailed DEF netVars
<1>11. ASSUME HistoryInv PROVE HistoryInv'
  <2>1. ahead'.left["quick"] = 0
    BY <1>1, <1>11 DEF AheadKept, HistoryInv
  <2>2. c.locks \subseteq c.live
    <3>1. ahead.left["quick"] = 0
      BY <1>11 DEF HistoryInv
    <3>2. ~("quick" \in E /\ 0 > 0)
      OBVIOUS
    <3>3. Uses(E)
      BY DEF OpenChannel
    <3>4. "quick" \notin E
      BY <3>1, <3>3 DEF Uses
    <3> QED BY <3>4 DEF c
  <2>3. ASSUME NEW e \in Devices, read'[e].at # "closed"
        PROVE  got'[e].read \cup chan'[e].locks \subseteq got'[e].skipped \cup Placed(chan'[e])
    <3>1. CASE e # d
      BY <1>7, <1>8, <1>9, <1>11, <2>3, <3>1 DEF HistoryInv, Open
    <3>2. CASE e = d
      BY <1>4, <1>6, <1>7, <1>9, <2>2, <3>2
    <3> QED BY <3>1, <3>2
  <2>4. HistoryInv' = (/\ ahead'.left["quick"] = 0
                       /\ \A e \in Devices : read'[e].at # "closed" =>
                            got'[e].read \cup chan'[e].locks \subseteq got'[e].skipped \cup Placed(chan'[e]))
    BY DEF HistoryInv, Open, Placed, On
  <2> QED BY <2>1, <2>3, <2>4
<1>12. TimelineTypeOK'
  BY <1>1, <1>2, <1>7, <1>8, <1>9 DEF AheadKept, TimelineTypeOK, Openings, netVars
<1> QED BY <1>10, <1>11, <1>12 DEF Onward

LEMMA ReadsTyped == TimelineTypeOK => read \in [Devices -> Openings]
BY DEF TimelineTypeOK, Openings

LEMMA ReadContentOnward ==
    ASSUME TimelineTypeOK, FailedKept, NEW d \in Devices, ReadContent(d)
    PROVE  Onward
<1> DEFINE R == LastRows(store)
           n == [read[d] EXCEPT !.todo = @ \ {"content"}]
<1>1. AheadKept
  BY AheadStays DEF ReadContent, TimelineTypeOK
<1>2. read \in [Devices -> Openings] /\ read[d] \in Openings
  BY ReadsTyped
<1>3. n \in Openings /\ n.at = read[d].at
  BY <1>2 DEF Openings
<1>4. read' = [read EXCEPT ![d] = n] /\ Take(d, R, R) /\ UNCHANGED <<page, sending, track, netVars, ahead, seen, told>>
  BY DEF ReadContent
<1>5. R \in SUBSET sent /\ R \in SUBSET R
  BY LastRowsIn DEF TimelineTypeOK
<1> HIDE DEF n, R
<1>7. read' \in [Devices -> Openings] /\ NoneOpens
  BY <1>2, <1>3, <1>4, OneRead
<1>8. /\ chan' \in [Devices -> Record] /\ outbox' \in [Devices -> SUBSET Stamps]
      /\ got' \in [Devices -> [read : SUBSET Stamps, skipped : SUBSET Stamps]]
      /\ FailedKept' /\ (HistoryInv => HistoryInv')
  BY <1>1, <1>4, <1>5, <1>7, TakeKeeps DEF netVars
<1>9. TimelineTypeOK'
  BY <1>1, <1>4, <1>7, <1>8 DEF AheadKept, TimelineTypeOK, Openings, netVars
<1> QED BY <1>8, <1>9 DEF Onward

LEMMA ReadControlOnward ==
    ASSUME TimelineTypeOK, FailedKept, NEW d \in Devices, ReadControl(d)
    PROVE  Onward
<1> DEFINE O == LastOvs(ovs)
           n == [read[d] EXCEPT !.todo = @ \ {"control"}]
           c == OverriddenAll(chan[d], O)
<1>1. AheadKept
  BY AheadStays DEF ReadControl, TimelineTypeOK
<1>2. read \in [Devices -> Openings] /\ read[d] \in Openings
  BY ReadsTyped
<1>3. n \in Openings /\ n.at = read[d].at
  BY <1>2 DEF Openings
<1>4. read' = [read EXCEPT ![d] = n] /\ chan' = [chan EXCEPT ![d] = c] /\ seen' = [seen EXCEPT ![d] = @ \cup O]
      /\ UNCHANGED <<page, sending, track, outbox, netVars, ahead, got, told>>
  BY DEF ReadControl
<1>5. O \in SUBSET Override /\ O \subseteq ovs /\ chan[d] \in Record
  BY LastOvsIn DEF TimelineTypeOK
<1> HIDE DEF n, O
<1>6. Holds(chan[d], c)
  BY <1>5, OverriddenAllHolds
<1> HIDE DEF c
<1>7. read' \in [Devices -> Openings] /\ NoneOpens
  BY <1>2, <1>3, <1>4, OneRead
<1>8. chan' \in [Devices -> Record] /\ FailedKept' /\ (HistoryInv => HistoryInv')
  BY <1>1, <1>4, <1>6, <1>7, RecordStep DEF netVars
<1>9. TimelineTypeOK'
  BY <1>1, <1>4, <1>5, <1>7, <1>8 DEF AheadKept, TimelineTypeOK, Openings, netVars
<1> QED BY <1>8, <1>9 DEF Onward

LEMMA ReadFailsOnward ==
    ASSUME TimelineTypeOK, FailedKept, NEW d \in Devices, NEW p \in Parts, ReadFails(d, p)
    PROVE  Onward
<1> DEFINE n == [read[d] EXCEPT !.todo = @ \ {p}, !.failed = @ \cup {p}]
<1>1. AheadKept
  BY UsesKeeps DEF ReadFails, TimelineTypeOK
<1>2. read \in [Devices -> Openings] /\ read[d] \in Openings
  BY ReadsTyped
<1>3. n \in Openings /\ n.at = read[d].at
  BY <1>2 DEF Openings
<1>4. read' = [read EXCEPT ![d] = n] /\ UNCHANGED <<chan, page, sending, track, outbox, netVars, hisVars>>
  BY <1>2 DEF ReadFails
<1> HIDE DEF n
<1>5. read' \in [Devices -> Openings] /\ NoneOpens
  BY <1>2, <1>3, <1>4, OneRead
<1>6. FailedKept' /\ (HistoryInv => HistoryInv')
  BY <1>1, <1>4, <1>5, OtherStep DEF netVars, hisVars
<1>7. TimelineTypeOK'
  BY <1>1, <1>4, <1>5 DEF AheadKept, TimelineTypeOK, Openings, netVars, hisVars
<1> QED BY <1>6, <1>7 DEF Onward

\* the queue is flushed, then what was parked is applied
LEMMA FlushSettles ==
    ASSUME NEW c \in Record
    PROVE  Holds(c, Settled(Flushed(c)))
<1>1. Holds(c, Flushed(c)) /\ Flushed(c) \in Record
  BY FlushedHolds DEF Holds
<1>2. Holds(Flushed(c), Settled(Flushed(c)))
  BY <1>1, SettledHolds
<1> QED BY <1>1, <1>2, HoldsOn

LEMMA CompleteOnward ==
    ASSUME TimelineTypeOK, FailedKept, NEW d \in Devices, Complete(d)
    PROVE  Onward
<1> DEFINE c == Settled(Flushed(chan[d]))
           whole == read[d].failed = {}
           owed  == "control" \in read[d].failed
           tries == IF read[d].failed = {} THEN 0 ELSE Retries
           n == [read[d] EXCEPT !.at = "open", !.failed = {}, !.whole = whole, !.owed = owed, !.tries = tries]
<1>1. AheadKept
  BY AheadStays DEF Complete, TimelineTypeOK
<1>2. read \in [Devices -> Openings] /\ read[d] \in Openings /\ read[d].at = "opening"
  BY ReadsTyped DEF Complete
<1>3. n \in Openings
  <2>1. tries \in 0..Retries
    BY MessagesAssumption
  <2>2. whole \in BOOLEAN /\ owed \in BOOLEAN
    OBVIOUS
  <2> HIDE DEF whole, owed, tries
  <2> QED BY <1>2, <2>1, <2>2 DEF Openings
<1>4. read' = [read EXCEPT ![d] = n] /\ chan' = [chan EXCEPT ![d] = c]
      /\ UNCHANGED <<page, sending, track, outbox, netVars, ahead, hisVars>>
  <2>1. chan' = [chan EXCEPT ![d] = c] /\ UNCHANGED <<page, sending, track, outbox, netVars, ahead, hisVars>>
    BY DEF Complete
  <2>2. read' = [read EXCEPT ![d].at = "open", ![d].failed = {}, ![d].whole = whole, ![d].owed = owed, ![d].tries = tries]
    BY Zenon DEF Complete
  <2> HIDE DEF whole, owed, tries, c
  <2>3. read' = [read EXCEPT ![d] = n]
    BY <1>2, <2>2
  <2> QED BY <2>1, <2>3
<1>5. Holds(chan[d], c)
  BY FlushSettles DEF TimelineTypeOK
<1> HIDE DEF n, c
<1>6. read' \in [Devices -> Openings] /\ NoneOpens
  BY <1>2, <1>3, <1>4, OneRead
<1>7. chan' \in [Devices -> Record] /\ FailedKept' /\ (HistoryInv => HistoryInv')
  BY <1>1, <1>4, <1>5, <1>6, RecordStep DEF netVars, hisVars
<1>8. TimelineTypeOK'
  BY <1>1, <1>4, <1>6, <1>7 DEF AheadKept, TimelineTypeOK, Openings, netVars, hisVars
<1> QED BY <1>7, <1>8 DEF Onward

LEMMA ReadAgainOnward ==
    ASSUME TimelineTypeOK, FailedKept, NEW d \in Devices, NEW how \in {"retry", "refresh"}, ReadAgain(d, how)
    PROVE  Onward
<1> DEFINE n == [read[d] EXCEPT !.at = how, !.todo = Parts, !.tries = IF how = "retry" THEN @ - 1 ELSE @]
<1>1. AheadKept
  BY UsesKeeps, AheadStays DEF ReadAgain, TimelineTypeOK
<1>2. read \in [Devices -> Openings] /\ read[d] \in Openings /\ read[d].at = "open" /\ (how = "retry" => read[d].tries > 0)
  BY ReadsTyped DEF ReadAgain
<1>3. n \in Openings
  <2>1. (IF how = "retry" THEN read[d].tries - 1 ELSE read[d].tries) \in 0..Retries
    BY <1>2, MessagesAssumption DEF Openings
  <2>2. Parts \in SUBSET Parts /\ how \in {"closed", "opening", "open", "retry", "refresh"}
    OBVIOUS
  <2> QED BY <1>2, <2>1, <2>2 DEF Openings
<1>4. read' = [read EXCEPT ![d] = n] /\ UNCHANGED <<chan, page, sending, track, outbox, netVars, hisVars>>
  BY <1>2 DEF ReadAgain
<1> HIDE DEF n
<1>5. read' \in [Devices -> Openings] /\ NoneOpens
  BY <1>2, <1>3, <1>4, OneRead
<1>6. FailedKept' /\ (HistoryInv => HistoryInv')
  BY <1>1, <1>4, <1>5, OtherStep DEF netVars, hisVars
<1>7. TimelineTypeOK'
  BY <1>1, <1>4, <1>5 DEF AheadKept, TimelineTypeOK, Openings, netVars, hisVars
<1> QED BY <1>6, <1>7 DEF Onward

LEMMA RefreshedOnward ==
    ASSUME TimelineTypeOK, FailedKept, NEW d \in Devices, Refreshed(d)
    PROVE  Onward
<1> DEFINE c == Settled(Flushed(chan[d]))
           k     == read[d]
           all   == k.failed = {}
           owed  == "control" \in k.failed
           tries == CASE k.at = "retry" /\ all -> 0
                      [] k.at = "refresh" /\ owed /\ k.tries = 0 /\ ~k.lost -> Retries
                      [] OTHER -> k.tries
           lost  == k.lost \/ (k.at = "retry" /\ ~all /\ tries = 0)
           whole == k.whole \/ all
           n == [k EXCEPT !.at = "open", !.failed = {}, !.owed = owed, !.tries = tries, !.whole = whole, !.lost = lost]
<1>1. AheadKept
  BY AheadStays DEF Refreshed, TimelineTypeOK
<1>2. read \in [Devices -> Openings] /\ k \in Openings /\ k.at \in {"retry", "refresh"}
  BY ReadsTyped DEF Refreshed
<1>3. n \in Openings
  <2>1. tries \in 0..Retries
    BY <1>2, MessagesAssumption DEF Openings
  <2>2. owed \in BOOLEAN /\ whole \in BOOLEAN /\ lost \in BOOLEAN
    OBVIOUS
  <2> HIDE DEF tries, owed, whole, lost
  <2> QED BY <1>2, <2>1, <2>2 DEF Openings
<1>4. read' = [read EXCEPT ![d] = n] /\ chan' = [chan EXCEPT ![d] = c]
      /\ UNCHANGED <<page, sending, track, outbox, netVars, ahead, hisVars>>
  BY DEF Refreshed
<1>5. Holds(chan[d], c)
  BY FlushSettles DEF TimelineTypeOK
<1>6. n.at # "closed" => read[d].at # "closed"
  BY <1>2
<1> HIDE DEF n, c
<1>7. read' \in [Devices -> Openings] /\ NoneOpens
  BY <1>2, <1>3, <1>4, <1>6, OneRead
<1>8. chan' \in [Devices -> Record] /\ FailedKept' /\ (HistoryInv => HistoryInv')
  BY <1>1, <1>4, <1>5, <1>7, RecordStep DEF netVars, hisVars
<1>9. TimelineTypeOK'
  BY <1>1, <1>4, <1>7, <1>8 DEF AheadKept, TimelineTypeOK, Openings, netVars, hisVars
<1> QED BY <1>8, <1>9 DEF Onward

LEMMA CatchUpOnward ==
    ASSUME TimelineTypeOK, FailedKept, NEW d \in Devices, CatchUp(d)
    PROVE  Onward
<1> DEFINE R == LastRows(store)
           B == {}
<1>1. AheadKept /\ NoneOpens
  BY UsesKeeps DEF CatchUp, TimelineTypeOK, NoneOpens
<1>2. Take(d, R, B) /\ Open(d) /\ UNCHANGED <<read, page, sending, track, netVars, seen, told>>
  BY DEF CatchUp
<1>3. R \in SUBSET sent /\ B \in SUBSET R
  BY LastRowsIn DEF TimelineTypeOK
<1> HIDE DEF R, B
<1>4. /\ chan' \in [Devices -> Record] /\ outbox' \in [Devices -> SUBSET Stamps]
      /\ got' \in [Devices -> [read : SUBSET Stamps, skipped : SUBSET Stamps]]
      /\ FailedKept' /\ (HistoryInv => HistoryInv')
  BY <1>1, <1>2, <1>3, TakeKeeps DEF netVars
<1>5. TimelineTypeOK'
  BY <1>1, <1>2, <1>4 DEF AheadKept, TimelineTypeOK, netVars
<1> QED BY <1>4, <1>5 DEF Onward

LEMMA LeaveOnward ==
    ASSUME TimelineTypeOK, FailedKept, NEW d \in Devices, Leave(d)
    PROVE  Onward
<1> DEFINE n == [chan[d] EXCEPT !.batch = {}]
<1>1. AheadKept
  BY AheadStays DEF Leave, TimelineTypeOK
<1>2. /\ chan' = [chan EXCEPT ![d] = n] /\ read' = [read EXCEPT ![d] = Closed] /\ page' = [page EXCEPT ![d] = NoPage]
      /\ UNCHANGED <<sending, track, outbox, netVars, ahead, hisVars>>
  BY DEF Leave
<1>3. n \in Record /\ chan \in [Devices -> Record]
  BY BatchDropped DEF TimelineTypeOK
<1>4. Closed \in Openings /\ Closed.at = "closed" /\ read \in [Devices -> Openings]
  <2>1. 0 \in 0..Retries
    BY MessagesAssumption
  <2> QED BY <2>1, ReadsTyped DEF Closed, Openings
<1>5. NoPage \in [on : BOOLEAN, rows : SUBSET Stamps, ovs : SUBSET ovs]
  BY DEF NoPage
<1> HIDE DEF n
<1>6. chan' \in [Devices -> Record] /\ \A e \in Devices : e # d => chan'[e] = chan[e]
  BY <1>2, <1>3
<1>7. read' \in [Devices -> Openings] /\ read'[d].at = "closed" /\ \A e \in Devices : e # d => read'[e] = read[e]
  BY <1>2, <1>4
<1>8. FailedKept'
  BY <1>2, CalmFailed DEF netVars, hisVars
<1>9. ASSUME HistoryInv PROVE HistoryInv'
  <2>1. ahead'.left["quick"] = 0 /\ got' = got
    BY <1>1, <1>2, <1>9 DEF AheadKept, HistoryInv, hisVars
  <2>2. \A e \in Devices : read'[e].at # "closed" =>
            got'[e].read \cup chan'[e].locks \subseteq got'[e].skipped \cup Placed(chan'[e])
    BY <1>6, <1>7, <1>9, <2>1 DEF HistoryInv, Open
  <2>3. HistoryInv' = (/\ ahead'.left["quick"] = 0
                       /\ \A e \in Devices : read'[e].at # "closed" =>
                            got'[e].read \cup chan'[e].locks \subseteq got'[e].skipped \cup Placed(chan'[e]))
    BY DEF HistoryInv, Open, Placed, On
  <2> QED BY <2>1, <2>2, <2>3
<1>10. TimelineTypeOK'
  BY <1>1, <1>2, <1>5, <1>6, <1>7 DEF AheadKept, TimelineTypeOK, Openings, netVars, hisVars
<1> QED BY <1>8, <1>9, <1>10 DEF Onward

LEMMA PageBeginOnward ==
    ASSUME TimelineTypeOK, FailedKept, NEW d \in Devices, PageBegin(d)
    PROVE  Onward
<1> DEFINE before == {i \in Stamps : \A j \in Stamps : On(chan[d], j) => i <= j}
           n == [on |-> TRUE, rows |-> {i \in Ids(store) : i \in before /\ ~On(chan[d], i)},
                 ovs |-> {o \in ovs : o.ts \in before}]
<1>1. AheadKept /\ NoneOpens
  BY UsesKeeps DEF PageBegin, TimelineTypeOK, NoneOpens
<1>2. page' = [page EXCEPT ![d] = n] /\ UNCHANGED <<chan, read, sending, track, outbox, netVars, hisVars>>
  BY DEF PageBegin
<1>3. n \in [on : BOOLEAN, rows : SUBSET Stamps, ovs : SUBSET ovs]
  <2>1. n.rows \in SUBSET Stamps /\ n.ovs \in SUBSET ovs
    OBVIOUS
  <2> QED BY <2>1
<1> HIDE DEF n
<1>4. FailedKept' /\ (HistoryInv => HistoryInv')
  BY <1>1, <1>2, OtherStep DEF netVars, hisVars
<1>5. TimelineTypeOK'
  BY <1>1, <1>2, <1>3 DEF AheadKept, TimelineTypeOK, netVars, hisVars
<1> QED BY <1>4, <1>5 DEF Onward

LEMMA PageEndOnward ==
    ASSUME TimelineTypeOK, FailedKept, NEW d \in Devices, PageEnd(d)
    PROVE  Onward
<1> DEFINE c == chan[d]
           O == page[d].ovs
           I == page[d].rows
           m == Landed(c, I)
           k == OverriddenAll(m, O)
           n == Settled(k)
<1>1. AheadKept /\ NoneOpens
  BY AheadStays DEF PageEnd, TimelineTypeOK, NoneOpens
<1>2. /\ chan' = [chan EXCEPT ![d] = n] /\ seen' = [seen EXCEPT ![d] = @ \cup O] /\ page' = [page EXCEPT ![d] = NoPage]
      /\ UNCHANGED <<read, sending, track, outbox, netVars, ahead, got, told>>
  BY DEF PageEnd
<1>3. c \in Record /\ I \in SUBSET Stamps /\ O \in SUBSET Override /\ O \subseteq ovs
  BY DEF TimelineTypeOK
<1>4. NoPage \in [on : BOOLEAN, rows : SUBSET Stamps, ovs : SUBSET ovs]
  BY DEF NoPage
<1>5. Holds(c, n)
  <2> HIDE DEF c, O, I
  <2>1. Holds(c, m) /\ m \in Record
    BY <1>3, LandedHolds DEF Holds
  <2> HIDE DEF m
  <2>2. Holds(m, k) /\ k \in Record
    BY <1>3, <2>1, OverriddenAllHolds DEF Holds
  <2> HIDE DEF k
  <2>3. Holds(k, n)
    BY <2>2, SettledHolds
  <2> HIDE DEF n
  <2> QED BY <2>1, <2>2, <2>3, HoldsOn
<1> HIDE DEF n
<1>6. chan' \in [Devices -> Record] /\ FailedKept' /\ (HistoryInv => HistoryInv')
  BY <1>1, <1>2, <1>5, RecordStep DEF netVars
<1>7. TimelineTypeOK'
  BY <1>1, <1>2, <1>3, <1>4, <1>6 DEF AheadKept, TimelineTypeOK, netVars
<1> QED BY <1>6, <1>7 DEF Onward

\* what DeliveryConfirm keeps of a message
Waits == [on : BOOLEAN, reads : 0..(Reads - 1), verified : BOOLEAN]

LEMMA IdleIs == Idle \in Waits
<1>1. 0 \in 0..(Reads - 1)
  BY MessagesAssumption
<1> QED BY <1>1 DEF Idle, Waits

LEMMA ReloadOnward ==
    ASSUME TimelineTypeOK, FailedKept, NEW d \in Devices, Reload(d)
    PROVE  Onward
<1> DEFINE h == [read |-> {}, skipped |-> {}]
           w == [i \in Stamps |-> Idle]
           z == {}
<1>1. AheadKept
  BY UsesKeeps DEF Reload, TimelineTypeOK
<1>2. /\ chan' = [chan EXCEPT ![d] = Blank] /\ read' = [read EXCEPT ![d] = Closed] /\ page' = [page EXCEPT ![d] = NoPage]
      /\ sending' = [sending EXCEPT ![d] = z] /\ track' = [track EXCEPT ![d] = w] /\ seen' = [seen EXCEPT ![d] = z]
      /\ got' = [got EXCEPT ![d] = h] /\ UNCHANGED <<outbox, netVars, told>>
  BY DEF Reload
<1>3. Blank \in Record /\ chan \in [Devices -> Record]
  BY BlankIs DEF TimelineTypeOK
<1>4. Closed \in Openings /\ Closed.at = "closed" /\ read \in [Devices -> Openings]
  <2>1. 0 \in 0..Retries
    BY MessagesAssumption
  <2> QED BY <2>1, ReadsTyped DEF Closed, Openings
<1>5. NoPage \in [on : BOOLEAN, rows : SUBSET Stamps, ovs : SUBSET ovs]
  BY DEF NoPage
<1>6. h \in [read : SUBSET Stamps, skipped : SUBSET Stamps] /\ w \in [Stamps -> Waits] /\ z \in SUBSET Stamps /\ z \in SUBSET ovs
  BY IdleIs
<1> HIDE DEF h, w, z
<1>7. chan' \in [Devices -> Record] /\ \A e \in Devices : e # d => chan'[e] = chan[e]
  BY <1>2, <1>3
<1>8. read' \in [Devices -> Openings] /\ read'[d].at = "closed" /\ \A e \in Devices : e # d => read'[e] = read[e]
  BY <1>2, <1>4
<1>9. /\ got' \in [Devices -> [read : SUBSET Stamps, skipped : SUBSET Stamps]]
      /\ \A e \in Devices : e # d => got'[e] = got[e]
  BY <1>2, <1>6 DEF TimelineTypeOK
<1>10. FailedKept'
  BY <1>2, CalmFailed DEF netVars
<1>11. ASSUME HistoryInv PROVE HistoryInv'
  <2>1. ahead'.left["quick"] = 0
    BY <1>1, <1>11 DEF AheadKept, HistoryInv
  <2>2. \A e \in Devices : read'[e].at # "closed" =>
            got'[e].read \cup chan'[e].locks \subseteq got'[e].skipped \cup Placed(chan'[e])
    BY <1>7, <1>8, <1>9, <1>11 DEF HistoryInv, Open
  <2>3. HistoryInv' = (/\ ahead'.left["quick"] = 0
                       /\ \A e \in Devices : read'[e].at # "closed" =>
                            got'[e].read \cup chan'[e].locks \subseteq got'[e].skipped \cup Placed(chan'[e]))
    BY DEF HistoryInv, Open, Placed, On
  <2> QED BY <2>1, <2>2, <2>3
<1>12. TimelineTypeOK'
  <2>1. track \in [Devices -> [Stamps -> Waits]]
    BY DEF TimelineTypeOK, Waits
  <2>2. track' \in [Devices -> [Stamps -> Waits]]
    BY <2>1, <1>2, <1>6
  <2>3. seen' \in [Devices -> SUBSET ovs] /\ sending' \in [Devices -> SUBSET Stamps]
        /\ page' \in [Devices -> [on : BOOLEAN, rows : SUBSET Stamps, ovs : SUBSET ovs]]
    BY <1>2, <1>5, <1>6 DEF TimelineTypeOK
  <2> QED BY <1>1, <1>2, <1>7, <1>8, <1>9, <2>2, <2>3 DEF AheadKept, TimelineTypeOK, Openings, Waits, netVars
<1> QED BY <1>10, <1>11, <1>12 DEF Onward

LEMMA SendOnward ==
    ASSUME TimelineTypeOK, FailedKept, NEW d \in Devices, Send(d)
    PROVE  Onward
<1> DEFINE c == chan[d]
           i == clock + 1
           l == [c.line EXCEPT ![i] = <<Shown("pending")>>]
           n == [c EXCEPT !.line = l]
<1>1. AheadKept /\ NoneOpens
  BY UsesKeeps DEF Send, TimelineTypeOK, NoneOpens
<1>2. /\ chan' = [chan EXCEPT ![d] = n] /\ clock' = i /\ sending' = [sending EXCEPT ![d] = @ \cup {i}]
      /\ UNCHANGED <<read, page, track, outbox, sent, store, ovs, old, hisVars>>
  BY DEF Send
<1>3. i \in Stamps /\ i \in Nat /\ clock \in Nat /\ old \in 0..i
  BY MessagesAssumption DEF Send, TimelineTypeOK, Stamps
<1>4. c \in Record /\ c.line \in [Stamps -> Seq(Bubble)]
  BY DEF TimelineTypeOK, Record
<1>5. <<Shown("pending")>> \in Seq(Bubble) /\ <<Shown("pending")>> # <<>>
  BY ShownIs DEF Marks
<1>6. l \in [Stamps -> Seq(Bubble)] /\ \A j \in Stamps : On(c, j) => l[j] # <<>>
  BY <1>3, <1>4, <1>5 DEF On
<1> HIDE DEF l, i
<1>7. Holds(c, n)
  <2> HIDE DEF c
  <2> QED BY <1>4, <1>6, LineHolds
<1> HIDE DEF n
<1>8. chan' \in [Devices -> Record] /\ FailedKept' /\ (HistoryInv => HistoryInv')
  BY <1>1, <1>2, <1>7, RecordStep DEF hisVars
<1>9. TimelineTypeOK'
  BY <1>1, <1>2, <1>3, <1>8 DEF AheadKept, TimelineTypeOK, hisVars
<1> QED BY <1>8, <1>9 DEF Onward

LEMMA ResendOnward ==
    ASSUME TimelineTypeOK, FailedKept, NEW d \in Devices, NEW i \in Stamps, Resend(d, i)
    PROVE  Onward
<1> DEFINE s == "pending"
<1>1. AheadKept /\ NoneOpens
  BY UsesKeeps DEF Resend, TimelineTypeOK, NoneOpens
<1>2. chan' = Mark(d, i, s) /\ sending' = [sending EXCEPT ![d] = @ \cup {i}]
      /\ UNCHANGED <<read, page, track, outbox, netVars, hisVars>>
  BY DEF Resend
<1>3. s \in Marks /\ chan \in [Devices -> Record]
  BY DEF Marks, TimelineTypeOK
<1> HIDE DEF s
<1>4. chan' \in [Devices -> Record] /\ \A e \in Devices : Holds(chan[e], chan'[e])
  BY <1>2, <1>3, MarkHolds
<1>5. FailedKept' /\ (HistoryInv => HistoryInv')
  BY <1>1, <1>2, <1>4, CalmFailed, CalmHistory DEF netVars, hisVars
<1>6. TimelineTypeOK'
  BY <1>1, <1>2, <1>4 DEF AheadKept, TimelineTypeOK, netVars, hisVars
<1> QED BY <1>5, <1>6 DEF Onward

LEMMA PublishedOnward ==
    ASSUME TimelineTypeOK, FailedKept, NEW d \in Devices, NEW i \in Stamps, Published(d, i)
    PROVE  Onward
<1> DEFINE s == "sent"
           r == [id |-> i, by |-> d]
           w == [on |-> TRUE, reads |-> 0, verified |-> FALSE]
<1>1. AheadKept /\ NoneOpens
  BY UsesKeeps, AheadStays DEF Published, TimelineTypeOK, NoneOpens
<1>2. /\ chan' = Mark(d, i, s) /\ sending' = [sending EXCEPT ![d] = @ \ {i}] /\ sent' = sent \cup {r}
      /\ store' \in {store, store \cup {r}}
      /\ outbox' = [outbox EXCEPT ![d] = @ \ {i}] /\ track' = [track EXCEPT ![d][i] = w]
      /\ UNCHANGED <<read, page, ovs, old, clock, hisVars>>
  BY DEF Published
<1>3. s \in Marks /\ chan \in [Devices -> Record]
  BY DEF Marks, TimelineTypeOK
<1>4. r \in Row /\ r.id = i
  BY DEF Row
<1>5. w \in Waits
  <2>1. 0 \in 0..(Reads - 1)
    BY MessagesAssumption
  <2> QED BY <2>1 DEF Waits
<1> HIDE DEF s, r, w
<1>6. chan' \in [Devices -> Record] /\ \A e \in Devices : Holds(chan[e], chan'[e])
  BY <1>2, <1>3, MarkHolds
<1>7. HistoryInv => HistoryInv'
  BY <1>1, <1>2, <1>6, CalmHistory DEF hisVars
<1>8. outbox' \in [Devices -> SUBSET Stamps] /\ \A e \in Devices : outbox[e] \subseteq outbox'[e] \cup {i}
  BY <1>2 DEF TimelineTypeOK
<1>9. FailedKept'
  <2>1. \A e \in Devices : told[e] \subseteq outbox[e] \cup Ids(sent)
    BY DEF FailedKept
  <2>2. Ids(sent) \subseteq Ids(sent') /\ i \in Ids(sent')
    BY <1>2, <1>4 DEF Ids
  <2>3. \A e \in Devices : told'[e] \subseteq outbox'[e] \cup Ids(sent')
    BY <1>2, <1>8, <2>1, <2>2 DEF hisVars
  <2> QED BY <2>3 DEF FailedKept, Ids
<1>10. TimelineTypeOK'
  <2>1. track \in [Devices -> [Stamps -> Waits]]
    BY DEF TimelineTypeOK, Waits
  <2>2. track' \in [Devices -> [Stamps -> Waits]]
    BY <2>1, <1>2, <1>5
  <2>3. store' \subseteq sent' /\ sent' \subseteq Row /\ sending' \in [Devices -> SUBSET Stamps]
    BY <1>2, <1>4 DEF TimelineTypeOK
  <2> QED BY <1>1, <1>2, <1>6, <1>8, <2>2, <2>3 DEF AheadKept, TimelineTypeOK, Waits, hisVars
<1> QED BY <1>7, <1>9, <1>10 DEF Onward

LEMMA PublishFailsOnward ==
    ASSUME TimelineTypeOK, FailedKept, NEW d \in Devices, NEW i \in Stamps, PublishFails(d, i)
    PROVE  Onward
<1> DEFINE s == "failed"
           r == [id |-> i, by |-> d]
<1>1. AheadKept /\ NoneOpens
  BY UsesKeeps DEF PublishFails, TimelineTypeOK, NoneOpens
<1>2. /\ chan' = Mark(d, i, s) /\ sending' = [sending EXCEPT ![d] = @ \ {i}]
      /\ (sent' = sent /\ store' = store) \/ (sent' = sent \cup {r} /\ store' = store \cup {r})
      /\ outbox' = [outbox EXCEPT ![d] = @ \cup {i}] /\ told' = [told EXCEPT ![d] = @ \cup {i}]
      /\ UNCHANGED <<read, page, track, ovs, old, clock, seen, got>>
  BY DEF PublishFails
<1>3. s \in Marks /\ chan \in [Devices -> Record]
  BY DEF Marks, TimelineTypeOK
<1>4. r \in Row
  BY DEF Row
<1> HIDE DEF s, r
<1>5. chan' \in [Devices -> Record] /\ \A e \in Devices : Holds(chan[e], chan'[e])
  BY <1>2, <1>3, MarkHolds
<1>6. HistoryInv => HistoryInv'
  BY <1>1, <1>2, <1>5, CalmHistory
<1>7. /\ outbox' \in [Devices -> SUBSET Stamps] /\ told' \in [Devices -> SUBSET Stamps]
      /\ outbox'[d] = outbox[d] \cup {i} /\ told'[d] = told[d] \cup {i}
      /\ \A e \in Devices : e # d => outbox'[e] = outbox[e] /\ told'[e] = told[e]
  BY <1>2 DEF TimelineTypeOK
<1>8. FailedKept'
  <2>1. \A e \in Devices : told[e] \subseteq outbox[e] \cup Ids(sent)
    BY DEF FailedKept
  <2>2. Ids(sent) \subseteq Ids(sent')
    BY <1>2 DEF Ids
  <2>3. \A e \in Devices : told'[e] \subseteq outbox'[e] \cup Ids(sent')
    BY <1>7, <2>1, <2>2
  <2> QED BY <2>3 DEF FailedKept, Ids
<1>9. TimelineTypeOK'
  <2>1. store' \subseteq sent' /\ sent' \subseteq Row /\ sending' \in [Devices -> SUBSET Stamps]
    BY <1>2, <1>4 DEF TimelineTypeOK
  <2> QED BY <1>1, <1>2, <1>5, <1>7, <2>1 DEF AheadKept, TimelineTypeOK
<1> QED BY <1>6, <1>8, <1>9 DEF Onward

LEMMA ChangeOnward ==
    ASSUME TimelineTypeOK, FailedKept, NEW d \in Devices, NEW i \in Stamps, NEW del \in BOOLEAN, Change(d, i, del)
    PROVE  Onward
<1> DEFINE o == [ts |-> clock + 1, target |-> i, del |-> del]
           n == Changed(chan[d], o)
<1>1. AheadKept /\ NoneOpens
  <2>1. AheadKept
    <3> DEFINE act == IF del THEN "delete" ELSE "edit"
    <3>1. Uses({act}) \/ Uses({act, "fail"})
      BY DEF Change
    <3>2. ahead \in TimelineStates
      BY DEF TimelineTypeOK
    <3> HIDE DEF act
    <3> QED BY <3>1, <3>2, UsesKeeps
  <2> QED BY <2>1 DEF Change, NoneOpens
<1>2. /\ chan' = [chan EXCEPT ![d] = n] /\ clock' = clock + 1
      /\ (ovs' = ovs \cup {o} /\ seen' = [seen EXCEPT ![d] = @ \cup {o}]) \/ (ovs' = ovs /\ seen' = seen)
      /\ outbox' = IF del THEN [outbox EXCEPT ![d] = @ \ {i}] ELSE outbox
      /\ told' = IF del THEN [told EXCEPT ![d] = @ \ {i}] ELSE told
      /\ UNCHANGED <<read, page, sending, track, sent, store, old, got>>
  BY DEF Change
<1>3. clock + 1 \in Stamps /\ clock + 1 \in Nat /\ old \in 0..(clock + 1)
  BY MessagesAssumption DEF Change, TimelineTypeOK, Stamps
<1>4. o \in Override /\ o.target = i
  BY <1>3 DEF Override
<1>5. chan[d] \in Record /\ chan \in [Devices -> Record] /\ On(chan[d], i)
  BY DEF Change, TimelineTypeOK
<1> HIDE DEF o
<1>6. Holds(chan[d], n)
  BY <1>4, <1>5, ChangedHolds
<1> HIDE DEF n
<1>7. chan' \in [Devices -> Record] /\ \A e \in Devices : Holds(chan[e], chan'[e])
  BY <1>2, <1>5, <1>6, OneHolds
<1>8. HistoryInv => HistoryInv'
  BY <1>1, <1>2, <1>7, CalmHistory
<1>9. /\ outbox' \in [Devices -> SUBSET Stamps] /\ told' \in [Devices -> SUBSET Stamps]
      /\ (outbox'[d] = outbox[d] \ {i} /\ told'[d] = told[d] \ {i}) \/ (outbox'[d] = outbox[d] /\ told'[d] = told[d])
      /\ \A e \in Devices : e # d => outbox'[e] = outbox[e] /\ told'[e] = told[e]
  BY <1>2 DEF TimelineTypeOK
<1>10. FailedKept'
  <2>1. \A e \in Devices : told[e] \subseteq outbox[e] \cup Ids(sent)
    BY DEF FailedKept
  <2>2. \A e \in Devices : told'[e] \subseteq outbox'[e] \cup Ids(sent)
    BY <1>9, <2>1
  <2>3. sent' = sent
    BY <1>2
  <2> QED BY <2>2, <2>3 DEF FailedKept, Ids
<1>11. TimelineTypeOK'
  <2>1. ovs \subseteq ovs' /\ ovs' \subseteq Override
    BY <1>2, <1>4 DEF TimelineTypeOK
  <2>2. seen' \in [Devices -> SUBSET ovs']
    <3>1. seen \in [Devices -> SUBSET ovs]
      BY DEF TimelineTypeOK
    <3>2. seen \in [Devices -> SUBSET ovs']
      BY <2>1, <3>1
    <3>3. CASE ovs' = ovs \cup {o} /\ seen' = [seen EXCEPT ![d] = @ \cup {o}]
      <4>1. seen[d] \cup {o} \in SUBSET ovs'
        BY <3>2, <3>3
      <4> QED BY <3>2, <3>3, <4>1
    <3> QED BY <1>2, <3>2, <3>3
  <2>3. page' \in [Devices -> [on : BOOLEAN, rows : SUBSET Stamps, ovs : SUBSET ovs']]
    BY <1>2, <2>1 DEF TimelineTypeOK
  <2> QED BY <1>1, <1>2, <1>3, <1>7, <1>9, <2>1, <2>2, <2>3 DEF AheadKept, TimelineTypeOK
<1> QED BY <1>8, <1>10, <1>11 DEF Onward

LEMMA ConfirmReadOnward ==
    ASSUME TimelineTypeOK, FailedKept, NEW d \in Devices, ConfirmRead(d)
    PROVE  Onward
<1>1. PICK D \in SUBSET {i \in Stamps : track[d][i].on} \ {{}}, ok \in BOOLEAN :
        LET on    == {i \in Stamps : track[d][i].on}
            after == [i \in Stamps |-> IF i \notin on THEN Idle
                                       ELSE [on |-> TRUE, verified |-> ok \/ track[d][i].verified,
                                             reads |-> track[d][i].reads + (IF i \in D THEN 1 ELSE 0)]]
            there == IF ok THEN on \cap Ids(store) ELSE {}
            spent == {i \in D \ there : after[i].reads = Reads}
            never == {i \in spent : after[i].verified}
        IN  /\ IF ok THEN UNCHANGED ahead ELSE Uses({"readfail"})
            /\ track' = [track EXCEPT ![d] = [i \in Stamps |-> IF i \in there \cup spent THEN Idle ELSE after[i]]]
            /\ chan' = [chan EXCEPT ![d].line = [i \in Stamps |->
                            IF @[i] = <<>> THEN @[i]
                            ELSE IF i \in there THEN [@[i] EXCEPT ![1].is = "delivered"]
                            ELSE IF i \in never THEN [@[i] EXCEPT ![1].is = "undelivered"] ELSE @[i]]]
            /\ outbox' = [outbox EXCEPT ![d] = @ \cup never]
            /\ UNCHANGED <<read, page, sending, netVars, hisVars>>
  BY DEF ConfirmRead
<1> DEFINE c     == chan[d]
           on    == {i \in Stamps : track[d][i].on}
           after == [i \in Stamps |-> IF i \notin on THEN Idle
                                      ELSE [on |-> TRUE, verified |-> ok \/ track[d][i].verified,
                                            reads |-> track[d][i].reads + (IF i \in D THEN 1 ELSE 0)]]
           there == IF ok THEN on \cap Ids(store) ELSE {}
           spent == {i \in D \ there : after[i].reads = Reads}
           never == {i \in spent : after[i].verified}
           w == [i \in Stamps |-> IF i \in there \cup spent THEN Idle ELSE after[i]]
           l == [i \in Stamps |-> IF c.line[i] = <<>> THEN c.line[i]
                            ELSE IF i \in there THEN [c.line[i] EXCEPT ![1].is = "delivered"]
                            ELSE IF i \in never THEN [c.line[i] EXCEPT ![1].is = "undelivered"] ELSE c.line[i]]
           n == [c EXCEPT !.line = l]
<1>2. AheadKept /\ NoneOpens
  BY <1>1, UsesKeeps, AheadStays DEF TimelineTypeOK, NoneOpens
<1>3. /\ track' = [track EXCEPT ![d] = w] /\ chan' = [chan EXCEPT ![d] = n]
      /\ outbox' = [outbox EXCEPT ![d] = @ \cup never]
      /\ UNCHANGED <<read, page, sending, netVars, hisVars>>
  BY <1>1
<1>4. never \in SUBSET Stamps
  BY <1>1
<1>5. w \in [Stamps -> Waits]
  <2>1. track[d] \in [Stamps -> Waits]
    BY DEF TimelineTypeOK, Waits
  <2>2. ASSUME NEW i \in Stamps PROVE w[i] \in Waits
    <3>1. CASE i \in there \cup spent \/ i \notin on
      BY <3>1, IdleIs
    <3>2. CASE i \notin there \cup spent /\ i \in on
      <4> DEFINE v == ok \/ track[d][i].verified
                 k == track[d][i].reads + (IF i \in D THEN 1 ELSE 0)
      <4>1. w[i] = [on |-> TRUE, verified |-> v, reads |-> k] /\ after[i].reads = k
        BY <3>2
      <4>2. v \in BOOLEAN
        OBVIOUS
      <4>3. track[d][i].reads \in 0..(Reads - 1) /\ Reads \in Nat \ {0}
        BY <2>1, MessagesAssumption DEF Waits
      <4>4. i \in D => k # Reads
        BY <3>2, <4>1
      <4>5. k \in 0..(Reads - 1)
        <5>1. CASE i \in D
          BY <5>1, <4>3, <4>4
        <5>2. CASE i \notin D
          BY <5>2, <4>3
        <5> QED BY <5>1, <5>2
      <4> DEFINE t == TRUE
      <4>6. t \in BOOLEAN /\ w[i] = [on |-> t, verified |-> v, reads |-> k]
        BY <4>1
      <4> HIDE DEF v, k, t
      <4>7. [on |-> t, verified |-> v, reads |-> k] \in Waits
        BY <4>2, <4>5, <4>6 DEF Waits
      <4> QED BY <4>6, <4>7, Zenon
    <3> QED BY <3>1, <3>2
  <2> QED BY <2>2
<1>6. c \in Record /\ c.line \in [Stamps -> Seq(Bubble)]
  BY DEF TimelineTypeOK, Record
<1>7. l \in [Stamps -> Seq(Bubble)] /\ \A i \in Stamps : On(c, i) => l[i] # <<>>
  <2> DEFINE s1 == "delivered"
             s2 == "undelivered"
  <2>1. s1 \in Marks /\ s2 \in Marks
    BY DEF Marks
  <2>2. \A i \in Stamps : l[i] = IF c.line[i] = <<>> THEN c.line[i]
                            ELSE IF i \in there THEN [c.line[i] EXCEPT ![1].is = s1]
                            ELSE IF i \in never THEN [c.line[i] EXCEPT ![1].is = s2] ELSE c.line[i]
    OBVIOUS
  <2>3. l = [i \in Stamps |-> l[i]]
    OBVIOUS
  <2> HIDE DEF s1, s2, there, never, l, c
  <2>4. \A i \in Stamps : c.line[i] # <<>> =>
            /\ [c.line[i] EXCEPT ![1].is = s1] \in Seq(Bubble) /\ [c.line[i] EXCEPT ![1].is = s1] # <<>>
            /\ [c.line[i] EXCEPT ![1].is = s2] \in Seq(Bubble) /\ [c.line[i] EXCEPT ![1].is = s2] # <<>>
    BY <1>6, <2>1, Marked
  <2>5. \A i \in Stamps : l[i] \in Seq(Bubble) /\ (c.line[i] # <<>> => l[i] # <<>>)
    BY <1>6, <2>2, <2>4
  <2> QED BY <2>3, <2>5 DEF On
<1> HIDE DEF w, l, never
<1>8. Holds(c, n)
  <2> HIDE DEF c
  <2> QED BY <1>6, <1>7, LineHolds
<1> HIDE DEF n
<1>9. chan' \in [Devices -> Record] /\ \A e \in Devices : Holds(chan[e], chan'[e])
  <2>1. chan \in [Devices -> Record]
    BY DEF TimelineTypeOK
  <2> QED BY <1>3, <1>8, <2>1, OneHolds
<1>10. outbox' \in [Devices -> SUBSET Stamps] /\ \A e \in Devices : outbox[e] \subseteq outbox'[e]
  BY <1>3, <1>4 DEF TimelineTypeOK
<1>11. FailedKept' /\ (HistoryInv => HistoryInv')
  BY <1>2, <1>3, <1>9, <1>10, CalmFailed, CalmHistory DEF netVars, hisVars
<1>12. TimelineTypeOK'
  <2>1. track \in [Devices -> [Stamps -> Waits]]
    BY DEF TimelineTypeOK, Waits
  <2>2. track' \in [Devices -> [Stamps -> Waits]]
    BY <2>1, <1>3, <1>5
  <2> QED BY <1>2, <1>3, <1>9, <1>10, <2>2 DEF AheadKept, TimelineTypeOK, Waits, netVars, hisVars
<1> QED BY <1>11, <1>12 DEF Onward

LEMMA StandsStill ==
    ASSUME TimelineTypeOK, FailedKept, UNCHANGED timelineVars
    PROVE  Onward
<1>1. AheadKept /\ NoneOpens
  BY AheadStays DEF TimelineTypeOK, NoneOpens, timelineVars, devVars
<1>2. FailedKept' /\ (HistoryInv => HistoryInv')
  BY <1>1, OtherStep DEF timelineVars, devVars, netVars, hisVars
<1>3. TimelineTypeOK'
  BY DEF TimelineTypeOK, timelineVars, devVars, netVars, hisVars
<1> QED BY <1>2, <1>3 DEF Onward

LEMMA TimelineStep ==
    ASSUME TimelineTypeOK, FailedKept, [TimelineNext]_timelineVars
    PROVE  Onward
<1>1. CASE UNCHANGED timelineVars
  BY <1>1, StandsStill
<1>2. CASE Age
  BY <1>2, AgeOnward
<1>3. ASSUME NEW r \in sent, StoreLate(r) PROVE Onward
  BY <1>3, StoreLateOnward
<1>4. ASSUME NEW d \in Devices, Step(d) PROVE Onward
  <2>1. ASSUME NEW i \in Stamps, LiveEnd(d, i) PROVE Onward
    BY <2>1, LiveEndOnward
  <2>2. ASSUME NEW i \in Stamps, Published(d, i) PROVE Onward
    BY <2>2, PublishedOnward
  <2>3. ReadAgain(d, "retry") => Onward
    <3> DEFINE how == "retry"
    <3>1. how \in {"retry", "refresh"}
      OBVIOUS
    <3> HIDE DEF how
    <3>2. ReadAgain(d, how) => Onward
      BY <3>1, ReadAgainOnward
    <3> QED BY <3>2 DEF how
  <2> QED BY <1>4, <2>1, <2>2, <2>3, FlushOnward, ReadContentOnward, ReadControlOnward, CompleteOnward,
             RefreshedOnward, PageEndOnward, ConfirmReadOnward DEF Step
<1>5. ASSUME NEW d \in Devices, Outside(d) PROVE Onward
  <2>1. ASSUME NEW r \in sent, Deliver(d, r) PROVE Onward
    BY <2>1, DeliverOnward
  <2>2. ASSUME NEW o \in ovs, DeliverOverride(d, o) PROVE Onward
    BY <2>2, DeliverOverrideOnward
  <2>3. ASSUME NEW i \in Stamps, Unlock(d, i) PROVE Onward
    BY <2>3, UnlockOnward
  <2>4. ASSUME NEW i \in Stamps, PublishFails(d, i) PROVE Onward
    BY <2>4, PublishFailsOnward
  <2>5. ASSUME NEW p \in Parts, ReadFails(d, p) PROVE Onward
    BY <2>5, ReadFailsOnward
  <2>6. ReadAgain(d, "refresh") => Onward
    <3> DEFINE how == "refresh"
    <3>1. how \in {"retry", "refresh"}
      OBVIOUS
    <3> HIDE DEF how
    <3>2. ReadAgain(d, how) => Onward
      BY <3>1, ReadAgainOnward
    <3> QED BY <3>2 DEF how
  <2> QED BY <1>5, <2>1, <2>2, <2>3, <2>4, <2>5, <2>6, CatchUpOnward, ReloadOnward DEF Outside
<1>6. ASSUME NEW d \in Devices, Acts(d) PROVE Onward
  <2>1. ASSUME NEW i \in Stamps, Resend(d, i) PROVE Onward
    BY <2>1, ResendOnward
  <2>2. ASSUME NEW i \in Stamps, NEW del \in BOOLEAN, Change(d, i, del) PROVE Onward
    BY <2>2, ChangeOnward
  <2> QED BY <1>6, <2>1, <2>2, OpenChannelOnward, LeaveOnward, PageBeginOnward, SendOnward DEF Acts
<1> QED BY <1>1, <1>2, <1>3, <1>4, <1>5, <1>6 DEF TimelineNext

LEMMA TimelineStart ==
    ASSUME TimelineInit
    PROVE  TimelineTypeOK /\ FailedKept /\ (ahead.left["quick"] = 0 => HistoryInv)
<1> DEFINE h == [read |-> {}, skipped |-> {}]
           w == [i \in Stamps |-> Idle]
<1>1. ahead \in TimelineStates /\ ahead.past \in SUBSET Row /\ ahead.changes \in SUBSET Override
      /\ IsFiniteSet(ahead.past) /\ IsFiniteSet(ahead.changes)
  BY MessagesAssumption DEF TimelineInit, TimelineStates
<1>2. clock \in Nat
  <2>1. Cardinality(ahead.past) \in Nat /\ Cardinality(ahead.changes) \in Nat
    BY <1>1, FS_CardinalityType
  <2> QED BY <2>1 DEF TimelineInit
<1>3. old \in 0..clock
  BY <1>2 DEF TimelineInit
<1>4. Closed \in Openings
  <2>1. 0 \in 0..Retries
    BY MessagesAssumption
  <2> QED BY <2>1 DEF Closed, Openings
<1>5. NoPage \in [on : BOOLEAN, rows : SUBSET Stamps, ovs : SUBSET ovs]
  BY DEF NoPage
<1>6. h \in [read : SUBSET Stamps, skipped : SUBSET Stamps] /\ w \in [Stamps -> Waits] /\ Blank \in Record
  BY IdleIs, BlankIs
<1>7. /\ chan = [e \in Devices |-> Blank] /\ read = [e \in Devices |-> Closed] /\ page = [e \in Devices |-> NoPage]
      /\ sending = [e \in Devices |-> {}] /\ track = [e \in Devices |-> w] /\ outbox = [e \in Devices |-> {}]
      /\ sent = ahead.past /\ store = ahead.past /\ ovs = ahead.changes
      /\ seen = [e \in Devices |-> {}] /\ told = [e \in Devices |-> {}] /\ got = [e \in Devices |-> h]
  BY DEF TimelineInit
<1> HIDE DEF h, w
<1>8. TimelineTypeOK
  <2>1. /\ chan \in [Devices -> Record] /\ read \in [Devices -> Openings]
        /\ page \in [Devices -> [on : BOOLEAN, rows : SUBSET Stamps, ovs : SUBSET ovs]]
        /\ sending \in [Devices -> SUBSET Stamps] /\ outbox \in [Devices -> SUBSET Stamps]
        /\ track \in [Devices -> [Stamps -> Waits]]
    BY <1>4, <1>5, <1>6, <1>7
  <2>2. /\ store \subseteq sent /\ sent \subseteq Row /\ ovs \subseteq Override
        /\ seen \in [Devices -> SUBSET ovs] /\ told \in [Devices -> SUBSET Stamps]
        /\ got \in [Devices -> [read : SUBSET Stamps, skipped : SUBSET Stamps]]
    BY <1>1, <1>6, <1>7
  <2> QED BY <1>1, <1>2, <1>3, <2>1, <2>2 DEF TimelineTypeOK, Openings, Waits
<1>9. FailedKept
  BY <1>7 DEF FailedKept
<1>10. \A e \in Devices : ~Open(e)
  BY <1>7 DEF Open, Closed
<1> QED BY <1>8, <1>9, <1>10 DEF HistoryInv

\* Every variable of the timeline keeps its type, whatever the course, the devices and the bounds
\* are: in particular nothing is on storage that the network did not hear, no override was handed
\* to a device that nobody published, and no confirmation outlives its last read (_loop of
\* DeliveryConfirm).
THEOREM TimelineTypes == TimelineSpec => []TimelineTypeOK
<1>1. TimelineInit => TimelineTypeOK /\ FailedKept
  BY TimelineStart
<1>2. TimelineTypeOK /\ FailedKept /\ [TimelineNext]_timelineVars => (TimelineTypeOK /\ FailedKept)'
  BY TimelineStep DEF Onward
<1> QED BY <1>1, <1>2, PTL DEF TimelineSpec

\* A send whose failure its author saw is in the outbox, or went out, or was deleted on that device,
\* through every reload, reopening, retry and late echo (keepForRetry, restoreFailedOutbox,
\* _publishTracked).
THEOREM FailuresAreKept == TimelineSpec => []FailedKept
<1>1. TimelineInit => TimelineTypeOK /\ FailedKept
  BY TimelineStart
<1>2. TimelineTypeOK /\ FailedKept /\ [TimelineNext]_timelineVars => (TimelineTypeOK /\ FailedKept)'
  BY TimelineStep DEF Onward
<1> QED BY <1>1, <1>2, PTL DEF TimelineSpec

\* In a behaviour in which no channel is opened again within five seconds, what the reads of an
\* opening brought is shown, or deleted, or on its way (handleTextMessage, flushBatchVerification,
\* onHistoryComplete).
THEOREM HistoryIsWhole == TimelineSpec /\ ahead.left["quick"] = 0 => []HistoryWhole
<1> DEFINE All == TimelineTypeOK /\ FailedKept /\ HistoryInv
<1>1. TimelineInit /\ ahead.left["quick"] = 0 => All
  BY TimelineStart
<1>2. All /\ [TimelineNext]_timelineVars => All'
  BY TimelineStep DEF Onward
<1>3. All => HistoryWhole
  <2> SUFFICES ASSUME All, NEW d \in Devices, read[d].at = "open", NEW i \in got[d].read \ got[d].skipped
               PROVE  On(chan[d], i) \/ i \in chan[d].batch \cup chan[d].live \cup chan[d].gone
    BY DEF HistoryWhole
  <2>1. got[d].read \cup chan[d].locks \subseteq got[d].skipped \cup Placed(chan[d])
    BY DEF HistoryInv, Open
  <2> QED BY <2>1 DEF Placed
<1> QED BY <1>1, <1>2, <1>3, PTL DEF TimelineSpec
=============================================================================
