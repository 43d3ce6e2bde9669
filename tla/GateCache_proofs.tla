-------------------------- MODULE GateCache_proofs --------------------------
(***************************************************************************)
(* Proofs about GateCache, for any accounts, endpoints, calls and TTLs.      *)
(*                                                                         *)
(* CutGetsNoKey is not inductive: a grant rests on answers under way or in   *)
(* the cache.  OutOK: no endpoint grants whom all refused (until the access  *)
(* comes back); CallOK: nor does an answer to a call of this generation,     *)
(* and no call is of a later one; CacheOK: nor does an entry, batches aside. *)
(*                                                                         *)
(* Nor is RoundRight: an endpoint that does not lag reports the access of    *)
(* now (PromptOK), so what it answered was held since the call began         *)
(* (HeldOK), and of two yes one is of such an endpoint.                      *)
(***************************************************************************)
EXTENDS GateCache, FiniteSetTheorems, TLAPS

OutOK   == \A u \in out : u \notin access /\ \A e \in Urls : u \notin view[e]
CallOK  == \A c \in Calls : call[c] # None =>
              /\ call[c].since <= gen
              /\ call[c].asked # {}
              /\ call[c].since = gen => \A e \in call[c].replied : call[c].got[e] \cap out = {}
CacheOK == \A u \in out : cache[u] # None /\ cache[u].by # "members" => ~cache[u].value

PromptOK == \A e \in Urls \ course.slow : view[e] = access
HeldOK   == \A c \in Calls : call[c] # None =>
               /\ access \subseteq call[c].held
               /\ \A e \in call[c].replied \ course.slow : call[c].got[e] \subseteq call[c].held

RoundInv == PromptOK /\ HeldOK /\ RoundRight

CutInv == GrantFresh /\ OutOK /\ CallOK /\ CacheOK /\ CutGetsNoKey

\* an event spent leaves a course
LEMMA Spent == ASSUME course \in CourseStates, NEW e \in Events, Spend(e)
               PROVE  course' \in CourseStates
  <1>1. course.left[e] \in Nat /\ course.left[e] > 0
    BY DEF Spend, CourseStates
  <1>2. [course.left EXCEPT ![e] = @ - 1] \in [Events -> Nat]
    BY <1>1 DEF CourseStates
  <1>3. course' = [course EXCEPT !.left = [course.left EXCEPT ![e] = @ - 1]]
    BY DEF Spend, CourseStates
  <1> QED BY <1>2, <1>3 DEF CourseStates

\* the earliest of some endpoints is one of them, and so are the two a round begins with
LEMMA EarliestIn == ASSUME NEW S \in SUBSET Urls, S # {} PROVE Earliest(S) \in S
  BY GateCacheAssumption DEF Earliest

LEMMA PairIn == ASSUME NEW S \in SUBSET Urls, S # {}
                PROVE  Pair(S) \in SUBSET Urls /\ Pair(S) # {}
  <1> DEFINE rest == S \ {Earliest(S)}
  <1>1. Earliest(S) \in Urls
    BY EarliestIn
  <1>2. rest # {} => Earliest(rest) \in Urls
    BY EarliestIn
  <1> QED BY <1>1, <1>2 DEF Pair

\* a call that is not None is a call
LEMMA CallTyped == ASSUME call \in [Calls -> Call \cup {None}], NEW c \in Calls, call[c] # None
                   PROVE  call[c] \in Call
  OBVIOUS

LEMMA EntryTyped == ASSUME cache \in [Users -> Entry \cup {None}], NEW u \in Users, cache[u] # None
                    PROVE  cache[u] \in Entry
  OBVIOUS

\* what is put into the cache is an entry, of the generation and the kind of its call
LEMMA PutTyped ==
    ASSUME NEW u \in Users, NEW value \in BOOLEAN, NEW c \in Calls, call[c] \in Call,
           NEW by \in By, NEW heard \in Nat
    PROVE  /\ Put(u, value, c, by, heard) \in Entry
           /\ Put(u, value, c, by, heard).value = value
           /\ Put(u, value, c, by, heard).since = call[c].since
           /\ Put(u, value, c, by, heard).by = by
           /\ Put(u, value, c, by, heard) # None
  <1>1. call[c].since \in Nat /\ 0 \in 0..GrantTtl /\ (u \in call[c].held) \in BOOLEAN
    BY GateCacheAssumption DEF Call
  <1>2. Put(u, value, c, by, heard) \in Entry
    BY <1>1 DEF Put, Entry
  <1> QED BY <1>2, GateCacheAssumption DEF Put

\* the answers heard are so many
LEMMA HeardNat == ASSUME NEW c \in Calls, call[c] \in Call PROVE Heard(c) \in Nat
  <1>1. Yes(c) \subseteq Urls /\ No(c) \subseteq Urls
    BY DEF Yes, No, Call
  <1>2. IsFiniteSet(Yes(c)) /\ IsFiniteSet(No(c))
    BY <1>1, GateCacheAssumption, FS_Subset
  <1> QED BY <1>2, FS_CardinalityType DEF Heard

\* a grant of a round has a yes among its answers
LEMMA VerdictHasYes == ASSUME NEW c \in Calls, call[c] \in Call, Verdict(c)
                       PROVE  \E e \in call[c].replied : call[c].user \in call[c].got[e]
  <1>1. SUFFICES ASSUME Yes(c) = {} PROVE FALSE
    BY DEF Yes
  <1>2. IsFiniteSet(No(c)) /\ Cardinality(No(c)) \in Nat
    <2>1. No(c) \subseteq Urls
      BY DEF No, Call
    <2> QED BY <2>1, GateCacheAssumption, FS_Subset, FS_CardinalityType
  <1>3. Cardinality(Yes(c)) = 0
    BY <1>1, FS_EmptySet
  <1> QED BY <1>2, <1>3 DEF Verdict

\* what a call under way can become: it notes who has access, it gets an answer or an error
LEMMA CallSteps ==
    ASSUME NEW x \in Call, NEW A \in SUBSET Users, NEW e \in Urls
    PROVE  /\ [x EXCEPT !.held = @ \cup A] \in Call
           /\ [x EXCEPT !.got[e] = A, !.replied = @ \cup {e}] \in Call
           /\ [x EXCEPT !.failed = @ \cup {e}] \in Call
           /\ [x EXCEPT !.asked = @ \cup {e}] \in Call
           /\ [x EXCEPT !.asked = {e}, !.failed = {}, !.retry = TRUE] \in Call
  <1>1. [x.got EXCEPT ![e] = A] \in [Urls -> SUBSET Users]
    BY DEF Call
  <1> QED BY <1>1 DEF Call

-----------------------------------------------------------------------------
\* Type correctness: the initial state is well typed (Init).
LEMMA InitTyped == Init => TypeOK
<1> SUFFICES ASSUME Init PROVE TypeOK
  OBVIOUS
<1>2. course \in CourseStates
  BY GateCacheAssumption DEF Init
<1>1. course.urls \in (SUBSET Urls) \ {{}} /\ Earliest(course.urls) \in Urls
  BY <1>2, EarliestIn DEF CourseStates
<1>3. view \in [Urls -> SUBSET Users]
  BY DEF Init
<1> QED BY <1>1, <1>2, <1>3 DEF Init, TypeOK

\* Every step of the chain, the endpoints, the calls and the cache keeps the types (Next).
LEMMA StepTyped == TypeOK /\ [Next]_vars => TypeOK'
<1> SUFFICES ASSUME TypeOK, [Next]_vars PROVE TypeOK'
  OBVIOUS
<1>0. /\ "change" \in Events /\ "fail" \in Events /\ "probe" \in Events
      /\ "epoch" \in Events /\ "members" \in Events
  BY DEF Events
<1>a. "read" \in By /\ "round" \in By /\ "members" \in By
  BY DEF By
<1>b. /\ access \in SUBSET Users /\ view \in [Urls -> SUBSET Users]
      /\ usable \in (SUBSET Urls) \ {{}} /\ first \in Urls
      /\ cache \in [Users -> Entry \cup {None}] /\ gen \in Nat
      /\ call \in [Calls -> Call \cup {None}] /\ course \in CourseStates
      /\ out \in SUBSET Users /\ given \in SUBSET (Users \X By)
  BY DEF TypeOK
<1>c. ASSUME NEW x \in Call \cup {None}, NEW c \in Calls
      PROVE  [call EXCEPT ![c] = x] \in [Calls -> Call \cup {None}]
  BY <1>b
<1>1. ASSUME NEW u \in Users, Change(u) PROVE TypeOK'
  <2>1. PICK behind \in SUBSET course.slow :
          view' = [e \in Urls |-> IF e \in behind THEN view[e] ELSE access']
    BY <1>1 DEF Change
  <2>2. access' \in SUBSET Users
    BY <1>1, <1>b DEF Change
  <2>3. call' \in [Calls -> Call \cup {None}]
    <3>1. ASSUME NEW c \in Calls, call[c] # None
          PROVE  [call[c] EXCEPT !.held = @ \cup access'] \in Call
      BY <3>1, <1>b, <2>2, CallSteps, GateCacheAssumption
    <3> QED BY <3>1, <1>1 DEF Change, Noting
  <2>4. view' \in [Urls -> SUBSET Users]
    BY <2>1, <2>2, <1>b
  <2>5. course' \in CourseStates
    BY <1>0, <1>1, <1>b, Spent DEF Change
  <2> QED BY <1>1, <1>b, <2>2, <2>3, <2>4, <2>5 DEF Change, TypeOK
<1>2. ASSUME NEW S \in SUBSET Users, Invalidate(S) PROVE TypeOK'
  BY <1>2, <1>b DEF Invalidate, TypeOK
<1>3. CASE Probe
  <2>1. course' \in CourseStates
    BY <1>0, <1>3, <1>b, Spent DEF Probe
  <2>2. course.urls \in SUBSET Urls
    BY <1>b DEF CourseStates
  <2> QED BY <2>1, <2>2, <1>3, <1>b DEF Probe, TypeOK
<1>4. CASE Adopt
  <2>1. course' \in CourseStates
    BY <1>0, <1>4, <1>b, Spent DEF Adopt
  <2>2. cache' \in [Users -> Entry \cup {None}]
    BY <1>4, <1>b DEF Adopt, Forgotten
  <2> QED BY <2>1, <2>2, <1>4, <1>b DEF Adopt, TypeOK
<1>d. ASSUME NEW c \in Calls, NEW at \in By, NEW u \in Users, NEW asked \in SUBSET Urls,
             Begin(c, at, u, usable, asked)
      PROVE  call' \in [Calls -> Call \cup {None}]
  <2>1. [at |-> at, user |-> u, since |-> gen, urls |-> usable, asked |-> asked, replied |-> {},
         failed |-> {}, got |-> [e \in Urls |-> {}], retry |-> FALSE, held |-> access] \in Call
    BY <1>b DEF Call
  <2> QED BY <2>1, <1>c, <1>d DEF Begin
<1>5. ASSUME NEW c \in Calls, Members(c) PROVE TypeOK'
  <2>1. course' \in CourseStates
    BY <1>0, <1>5, <1>b, Spent DEF Members
  <2>2. call' \in [Calls -> Call \cup {None}]
    BY <1>5, <1>a, <1>b, <1>d, GateCacheAssumption DEF Members
  <2> QED BY <2>1, <2>2, <1>5, <1>b DEF Members, TypeOK
<1>6. ASSUME NEW c \in Calls, NEW u \in Users, Read(c, u) PROVE TypeOK'
  <2>1. call' \in [Calls -> Call \cup {None}]
    BY <1>6, <1>a, <1>b, <1>d DEF Read
  <2> QED BY <2>1, <1>6, <1>b DEF Read, TypeOK
<1>7. ASSUME NEW c \in Calls, NEW u \in Users, Round(c, u) PROVE TypeOK'
  <2>1. CASE Live(u)
    <3>1. cache[u] \in Entry
      BY <2>1, <1>b DEF Live
    <3>2. given' \in SUBSET (Users \X By)
      BY <2>1, <3>1, <1>7, <1>b DEF Round, Entry
    <3> QED BY <2>1, <3>2, <1>7, <1>b DEF Round, Hit, TypeOK
  <2>2. CASE ~Live(u)
    <3>1. Pair(usable) \in SUBSET Urls
      BY <1>b, PairIn
    <3>2. call' \in [Calls -> Call \cup {None}]
      BY <2>2, <3>1, <1>7, <1>a, <1>d DEF Round
    <3> QED BY <2>2, <3>2, <1>7, <1>b DEF Round, TypeOK
  <2> QED BY <2>1, <2>2
<1>8. ASSUME NEW c \in Calls, NEW e \in Urls, Reply(c, e) PROVE TypeOK'
  <2>1. call[c] \in Call /\ view[e] \in SUBSET Users
    BY <1>8, <1>b DEF Reply
  <2>2. call' \in [Calls -> Call \cup {None}]
    <3> DEFINE got == [call[c] EXCEPT !.got[e] = view[e], !.replied = @ \cup {e}]
               err == [call[c] EXCEPT !.failed = @ \cup {e}]
    <3>1. got \in Call /\ err \in Call
      BY <2>1, CallSteps
    <3>2. call' = [call EXCEPT ![c] = got] \/ call' = [call EXCEPT ![c] = err]
      BY <2>1, <1>8, <1>b DEF Reply, Call
    <3> QED BY <3>1, <3>2, <1>c
  <2>3. course' \in CourseStates
    BY <1>0, <1>8, <1>b, Spent DEF Reply
  <2> QED BY <2>2, <2>3, <1>8, <1>b DEF Reply, TypeOK
<1>9. ASSUME NEW c \in Calls, Rotate(c) PROVE TypeOK'
  <2>1. call[c] \in Call
    BY <1>9, <1>b DEF Rotate, Answered
  <2>2. first' \in Urls
    <3> DEFINE later == {e \in usable : e > first}
    <3>1. first' = IF later = {} THEN Earliest(usable) ELSE Earliest(later)
      BY <1>9 DEF Rotate
    <3>2. Earliest(usable) \in Urls /\ (later # {} => Earliest(later) \in Urls)
      BY <1>b, EarliestIn
    <3> QED BY <3>1, <3>2
  <2>3. call' \in [Calls -> Call \cup {None}]
    BY <2>1, <2>2, <1>9, <1>b, CallSteps DEF Rotate
  <2> QED BY <2>2, <2>3, <1>9, <1>b DEF Rotate, TypeOK
<1>10. ASSUME NEW c \in Calls, GiveUp(c) \/ RoundFails(c) PROVE TypeOK'
  BY <1>10, <1>b DEF GiveUp, RoundFails, Done, TypeOK
<1>e. ASSUME NEW c \in Calls, call[c] \in Call, NEW value \in BOOLEAN, NEW heard \in Nat
      PROVE  CachePut(c, value, heard) \in [Users -> Entry \cup {None}]
  <2>1. call[c].user \in Users /\ call[c].at \in By
    BY <1>e DEF Call
  <2>2. Put(call[c].user, value, c, call[c].at, heard) \in Entry
    BY <2>1, <1>e, PutTyped
  <2> QED BY <2>2, <1>b DEF CachePut
<1>11. ASSUME NEW c \in Calls, ReadEnd(c) PROVE TypeOK'
  <2>1. call[c] \in Call
    BY <1>11, <1>b DEF ReadEnd, Answered
  <2>2. cache' \in [Users -> Entry \cup {None}]
    <3>1. call[c].user \in Users /\ call[c].at \in By /\ call[c].since \in Nat
      BY <2>1 DEF Call
    <3>2. [value |-> call[c].user \in TheAnswer(c), age |-> 0, since |-> call[c].since,
           by |-> call[c].at, heard |-> 1, held |-> call[c].user \in call[c].held] \in Entry
      BY <3>1, GateCacheAssumption DEF Entry
    <3> QED BY <3>1, <3>2, <1>11, <1>b DEF ReadEnd, CachePut, Put
  <2> QED BY <2>2, <1>11, <1>b DEF ReadEnd, Done, TypeOK
<1>12. ASSUME NEW c \in Calls, MembersEnd(c) PROVE TypeOK'
  <2>1. call[c] \in Call
    BY <1>12, <1>b DEF MembersEnd, Answered
  <2>2. ASSUME NEW u \in Users PROVE Put(u, u \in TheAnswer(c), c, "members", 1) \in Entry
    BY <2>1, <1>a, GateCacheAssumption DEF Put, Entry, Call
  <2>3. cache' \in [Users -> Entry \cup {None}]
    BY <2>2, <1>12 DEF MembersEnd
  <2> QED BY <2>3, <1>12, <1>b DEF MembersEnd, Done, TypeOK
<1>13. ASSUME NEW c \in Calls, TieBreak(c) PROVE TypeOK'
  <2>1. call[c] \in Call
    BY <1>13, <1>b DEF TieBreak, Answered
  <2>2. Earliest(Unasked(c)) \in Urls
    BY <2>1, <1>13, EarliestIn DEF TieBreak, Unasked, Call
  <2>3. [call[c] EXCEPT !.asked = @ \cup {Earliest(Unasked(c))}] \in Call
    BY <2>1, <2>2, CallSteps
  <2>4. call' \in [Calls -> Call \cup {None}]
    BY <2>3, <1>13, <1>c DEF TieBreak
  <2> QED BY <2>4, <1>13, <1>b DEF TieBreak, TypeOK
<1>14. ASSUME NEW c \in Calls, RoundEnd(c) PROVE TypeOK'
  <2>1. call[c] \in Call
    BY <1>14, <1>b DEF RoundEnd, Answered
  <2>2. Verdict(c) \in BOOLEAN /\ Heard(c) \in Nat
    BY <2>1, HeardNat DEF Verdict
  <2>3. cache' \in [Users -> Entry \cup {None}]
    BY <2>1, <2>2, <1>14, <1>e DEF RoundEnd
  <2>4. given' \in SUBSET (Users \X By)
    BY <2>1, <1>14, <1>a, <1>b DEF RoundEnd, Call
  <2> QED BY <2>3, <2>4, <1>14, <1>b DEF RoundEnd, Done, TypeOK
<1>15. CASE Tick
  <2>1. ASSUME NEW u \in Users, Live(u) PROVE [cache[u] EXCEPT !.age = @ + 1] \in Entry
    BY <2>1, <1>b, GateCacheAssumption DEF Live, Ttl, Entry
  <2> QED BY <2>1, <1>15, <1>b DEF Tick, TypeOK
<1>16. ASSUME NEW e \in Urls, CatchUp(e) PROVE TypeOK'
  BY <1>16, <1>b DEF CatchUp, TypeOK
<1>17. CASE UNCHANGED vars
  BY <1>17 DEF vars, TypeOK
<1> QED BY <1>1, <1>2, <1>3, <1>4, <1>5, <1>6, <1>7, <1>8, <1>9, <1>10, <1>11, <1>12, <1>13,
           <1>14, <1>15, <1>16, <1>17 DEF Next, Outside, Program

-----------------------------------------------------------------------------
\* no step but these touches what OutOK speaks of
LEMMA ChainSteps ==
    [Next]_vars => \/ \E u \in Users : Change(u)
                   \/ Adopt
                   \/ \E e \in Urls : CatchUp(e)
                   \/ UNCHANGED <<access, view, out>>
  BY DEF Next, Outside, Program, Invalidate, Probe, Members, Read, Round, Reply, Rotate, GiveUp,
         RoundFails, ReadEnd, MembersEnd, TieBreak, RoundEnd, Tick, vars

\* whom every endpoint refused stays refused by all until access comes back
LEMMA StepOut == TypeOK /\ OutOK /\ [Next]_vars => OutOK'
<1> SUFFICES ASSUME TypeOK, OutOK, [Next]_vars PROVE OutOK'
  OBVIOUS
<1>1. ASSUME NEW u \in Users, Change(u) PROVE OutOK'
  <2>1. /\ out' = out \ access'
        /\ \A e \in Urls : view'[e] = view[e] \/ view'[e] = access'
    BY <1>1 DEF Change
  <2> QED BY <2>1 DEF OutOK
<1>2. CASE Adopt
  BY <1>2 DEF Adopt, OutOK
<1>3. ASSUME NEW e \in Urls, CatchUp(e) PROVE OutOK'
  BY <1>3 DEF CatchUp, OutOK, TypeOK
<1>4. CASE UNCHANGED <<access, view, out>>
  BY <1>4 DEF OutOK
<1> QED BY <1>1, <1>2, <1>3, <1>4, ChainSteps

-----------------------------------------------------------------------------
\* what each step makes of a call
LEMMA CallKept == CallOK /\ call' = call /\ gen' = gen /\ out' \subseteq out => CallOK'
  BY DEF CallOK

LEMMA CallEnded == ASSUME TypeOK, CallOK, NEW c \in Calls, Done(c), gen' = gen, out' = out
                   PROVE  CallOK'
  BY DEF CallOK, Done, TypeOK

LEMMA CallBegun == ASSUME TypeOK, CallOK, NEW c \in Calls, NEW at \in By, NEW u \in Users,
                          NEW asked \in SUBSET Urls, asked # {}, Begin(c, at, u, usable, asked),
                          gen' = gen, out' = out
                   PROVE  CallOK'
  <1>1. /\ call'[c].since = gen /\ call'[c].asked = asked /\ call'[c].replied = {}
        /\ \A d \in Calls \ {c} : call'[d] = call[d]
    BY DEF Begin, TypeOK
  <1>2. gen \in Nat
    BY DEF TypeOK
  <1> QED BY <1>1, <1>2 DEF CallOK

\* an answer to a call of this generation grants nobody whom all had refused
LEMMA StepCall == TypeOK /\ OutOK /\ CallOK /\ [Next]_vars => CallOK'
<1> SUFFICES ASSUME TypeOK, OutOK, CallOK, [Next]_vars PROVE CallOK'
  OBVIOUS
<1>0. /\ "read" \in By /\ "round" \in By /\ "members" \in By
      /\ usable \in (SUBSET Urls) \ {{}} /\ first \in Urls /\ gen \in Nat
      /\ call \in [Calls -> Call \cup {None}]
  BY DEF By, TypeOK
<1>1. ASSUME NEW u \in Users, Change(u) PROVE CallOK'
  <2>1. ASSUME NEW c \in Calls, call'[c] # None
        PROVE  /\ call[c] # None /\ call[c] \in Call
               /\ call'[c] = [call[c] EXCEPT !.held = @ \cup access']
    BY <2>1, <1>0, <1>1 DEF Change, Noting
  <2>2. ASSUME NEW c \in Calls, call'[c] # None
        PROVE  /\ call[c] # None
               /\ call'[c].since = call[c].since /\ call'[c].asked = call[c].asked
               /\ call'[c].replied = call[c].replied /\ call'[c].got = call[c].got
    BY <2>1, <2>2 DEF Call
  <2>3. out' \subseteq out /\ gen' = gen
    BY <1>1 DEF Change
  <2> QED BY <2>2, <2>3 DEF CallOK
<1>2. CASE Adopt
  BY <1>0, <1>2 DEF Adopt, CallOK, Call
<1>3. ASSUME NEW c \in Calls, Members(c) PROVE CallOK'
  <2>1. {first} \in SUBSET Urls /\ {first} # {} /\ (CHOOSE u \in Users : TRUE) \in Users
    BY <1>0, GateCacheAssumption
  <2> QED BY <2>1, <1>0, <1>3, CallBegun DEF Members
<1>4. ASSUME NEW c \in Calls, NEW u \in Users, Read(c, u) PROVE CallOK'
  <2>1. {first} \in SUBSET Urls /\ {first} # {}
    BY <1>0
  <2> QED BY <2>1, <1>0, <1>4, CallBegun DEF Read
<1>5. ASSUME NEW c \in Calls, NEW u \in Users, Round(c, u) PROVE CallOK'
  <2>1. Pair(usable) \in SUBSET Urls /\ Pair(usable) # {}
    BY <1>0, PairIn
  <2> QED BY <2>1, <1>0, <1>5, CallBegun, CallKept DEF Round
<1>6. ASSUME NEW c \in Calls, NEW e \in Urls, Reply(c, e) PROVE CallOK'
  <2>1. call[c] \in Call /\ call[c] # None
    BY <1>0, <1>6 DEF Reply
  <2>2. view[e] \cap out = {}
    BY DEF OutOK
  <2>3. \A d \in Calls \ {c} : call'[d] = call[d]
    BY <1>0, <1>6 DEF Reply
  <2>4. \/ call'[c] = [call[c] EXCEPT !.got[e] = view[e], !.replied = @ \cup {e}]
        \/ call'[c] = [call[c] EXCEPT !.failed = @ \cup {e}]
    BY <1>0, <1>6, <2>1 DEF Reply, Call
  <2>5. /\ call'[c].since = call[c].since /\ call'[c].asked = call[c].asked
        /\ \A f \in call'[c].replied : \/ f \in call[c].replied /\ call'[c].got[f] = call[c].got[f]
                                       \/ call'[c].got[f] = view[e]
    <3>1. CASE call'[c] = [call[c] EXCEPT !.got[e] = view[e], !.replied = @ \cup {e}]
      <4>1. /\ call'[c].since = call[c].since /\ call'[c].asked = call[c].asked
            /\ call'[c].replied = call[c].replied \cup {e}
            /\ call'[c].got = [call[c].got EXCEPT ![e] = view[e]]
        BY <2>1, <3>1 DEF Call
      <4>2. call[c].got \in [Urls -> SUBSET Users] /\ call[c].replied \subseteq Urls
        BY <2>1 DEF Call
      <4> QED BY <4>1, <4>2
    <3>2. CASE call'[c] = [call[c] EXCEPT !.failed = @ \cup {e}]
      BY <2>1, <3>2 DEF Call
    <3> QED BY <2>4, <3>1, <3>2
  <2>6. gen' = gen /\ out' = out
    BY <1>6 DEF Reply
  <2> QED BY <2>1, <2>2, <2>3, <2>5, <2>6 DEF CallOK
<1>7. ASSUME NEW c \in Calls, Rotate(c) PROVE CallOK'
  <2>1. call[c] \in Call /\ call[c] # None
    BY <1>0, <1>7 DEF Rotate, Answered
  <2>2. call' = [call EXCEPT ![c] = [call[c] EXCEPT !.asked = {first'}, !.failed = {}, !.retry = TRUE]]
    BY <2>1, <1>7, <1>0 DEF Rotate, Call
  <2>3. /\ call'[c].since = call[c].since /\ call'[c].asked = {first'}
        /\ call'[c].replied = call[c].replied /\ call'[c].got = call[c].got
        /\ \A d \in Calls \ {c} : call'[d] = call[d]
    BY <2>1, <2>2, <1>0 DEF Call
  <2>4. gen' = gen /\ out' = out
    BY <1>7 DEF Rotate
  <2> QED BY <2>1, <2>3, <2>4 DEF CallOK
<1>8. ASSUME NEW c \in Calls, TieBreak(c) PROVE CallOK'
  <2>1. call[c] \in Call /\ call[c] # None
    BY <1>0, <1>8 DEF TieBreak, Answered
  <2>2. call' = [call EXCEPT ![c] = [call[c] EXCEPT !.asked = @ \cup {Earliest(Unasked(c))}]]
    BY <2>1, <1>8, <1>0 DEF TieBreak, Call
  <2>3. /\ call'[c].since = call[c].since /\ call'[c].asked # {}
        /\ call'[c].replied = call[c].replied /\ call'[c].got = call[c].got
        /\ \A d \in Calls \ {c} : call'[d] = call[d]
    BY <2>1, <2>2, <1>0 DEF Call
  <2>4. gen' = gen /\ out' = out
    BY <1>8 DEF TieBreak
  <2> QED BY <2>1, <2>3, <2>4 DEF CallOK
<1>9. ASSUME NEW c \in Calls, GiveUp(c) \/ RoundFails(c) \/ ReadEnd(c) \/ MembersEnd(c) \/ RoundEnd(c)
      PROVE CallOK'
  BY <1>9, CallEnded DEF GiveUp, RoundFails, ReadEnd, MembersEnd, RoundEnd
<1>10. CASE Probe \/ Tick \/ UNCHANGED vars \/ (\E e \in Urls : CatchUp(e))
            \/ (\E u \in Users : Invalidate({u})) \/ Invalidate(Users)
  BY <1>10, CallKept DEF Probe, Tick, vars, CatchUp, Invalidate
<1> QED BY <1>1, <1>2, <1>3, <1>4, <1>5, <1>6, <1>7, <1>8, <1>9, <1>10 DEF Next, Outside, Program

-----------------------------------------------------------------------------
\* an entry that a step leaves, or only ages or drops, is as sound as it was
Lesser == \A u \in Users : \/ cache'[u] = None
                          \/ /\ cache'[u] # None /\ cache[u] # None
                             /\ cache'[u].value = cache[u].value
                             /\ cache'[u].since = cache[u].since
                             /\ cache'[u].by = cache[u].by

LEMMA LesserSound ==
    TypeOK /\ GrantFresh /\ CacheOK /\ Lesser /\ gen' = gen /\ out' \subseteq out
        => GrantFresh' /\ CacheOK'
  BY DEF TypeOK, GrantFresh, CacheOK, Lesser

\* _cacheAccess: an answer that is kept is of this generation, and grants nobody whom all refused
LEMMA KeptSound ==
    ASSUME TypeOK, GrantFresh, CacheOK, NEW c \in Calls, call[c] \in Call, NEW heard \in Nat,
           NEW value, cache' = CachePut(c, value, heard), gen' = gen, out' = out,
           call[c].since = gen /\ value => call[c].user \notin out
    PROVE  GrantFresh' /\ CacheOK'
  <1>1. CASE call[c].since # gen
    BY <1>1, LesserSound DEF CachePut, Lesser, TypeOK
  <1>2. CASE call[c].since = gen
    <2>1. /\ cache'[call[c].user].value = value /\ cache'[call[c].user].since = gen
          /\ \A u \in Users \ {call[c].user} : cache'[u] = cache[u]
      BY <1>2 DEF CachePut, Put, TypeOK, Call
    <2>2. out \subseteq Users /\ gen' = gen /\ out' = out
      BY DEF TypeOK
    <2> QED BY <1>2, <2>1, <2>2 DEF GrantFresh, CacheOK
  <1> QED BY <1>1, <1>2

\* the single answer of a read, and the majority of a round, are among the replies
LEMMA ReadSound ==
    ASSUME TypeOK, CallOK, NEW c \in Calls, call[c] \in Call, Answered(c), ~Errs(c),
           call[c].since = gen, call[c].user \in TheAnswer(c)
    PROVE  call[c].user \notin out
  <1>1. call[c] # None /\ call[c].asked # {} /\ call[c].asked = call[c].replied
    BY DEF Answered, Errs, CallOK
  <1>2. (CHOOSE e \in call[c].asked : TRUE) \in call[c].replied
    BY <1>1
  <1> QED BY <1>1, <1>2 DEF TheAnswer, CallOK

LEMMA RoundSound ==
    ASSUME TypeOK, CallOK, NEW c \in Calls, call[c] \in Call, call[c] # None,
           call[c].since = gen, Verdict(c)
    PROVE  call[c].user \notin out
  BY VerdictHasYes DEF CallOK

\* Each step keeps the cache sound (GrantFresh, CacheOK).
LEMMA StepCache ==
    TypeOK /\ CallOK /\ GrantFresh /\ CacheOK /\ [Next]_vars => GrantFresh' /\ CacheOK'
<1> SUFFICES ASSUME TypeOK, CallOK, GrantFresh, CacheOK, [Next]_vars
             PROVE  GrantFresh' /\ CacheOK'
  OBVIOUS
<1>0. /\ cache \in [Users -> Entry \cup {None}] /\ call \in [Calls -> Call \cup {None}]
      /\ out \subseteq Users /\ None \notin Entry
  BY GateCacheAssumption DEF TypeOK
<1>1. CASE Adopt
  <2>1. \A u \in Users : cache'[u] # None => ~cache'[u].value
    BY <1>1 DEF Adopt, Forgotten
  <2>2. out' \subseteq Users
    BY <1>1 DEF Adopt
  <2> QED BY <2>1, <2>2 DEF GrantFresh, CacheOK
<1>2. ASSUME NEW c \in Calls, ReadEnd(c) PROVE GrantFresh' /\ CacheOK'
  <2>1. call[c] \in Call /\ Answered(c) /\ ~Errs(c)
    BY <1>0, <1>2 DEF ReadEnd, Answered
  <2>2. PICK value : value = (call[c].user \in TheAnswer(c))
    OBVIOUS
  <2>3. cache' = CachePut(c, value, 1) /\ gen' = gen /\ out' = out
    BY <2>2, <1>2 DEF ReadEnd
  <2>4. call[c].since = gen /\ value => call[c].user \notin out
    BY <2>1, <2>2, ReadSound
  <2> QED BY <2>1, <2>3, <2>4, KeptSound
<1>3. ASSUME NEW c \in Calls, RoundEnd(c) PROVE GrantFresh' /\ CacheOK'
  <2>1. call[c] \in Call /\ call[c] # None
    BY <1>0, <1>3 DEF RoundEnd, Answered
  <2>2. Heard(c) \in Nat
    BY <2>1, HeardNat
  <2>3. cache' = CachePut(c, Verdict(c), Heard(c)) /\ gen' = gen /\ out' = out
    BY <1>3 DEF RoundEnd
  <2>4. call[c].since = gen /\ Verdict(c) => call[c].user \notin out
    BY <2>1, RoundSound
  <2> QED BY <2>1, <2>2, <2>3, <2>4, KeptSound
<1>4. ASSUME NEW c \in Calls, MembersEnd(c) PROVE GrantFresh' /\ CacheOK'
  <2>1. \A u \in Users : cache'[u].by = "members"
    BY <1>4 DEF MembersEnd, Put
  <2>2. out' \subseteq Users
    BY <1>0, <1>4 DEF MembersEnd
  <2> QED BY <2>1, <2>2 DEF GrantFresh, CacheOK
<1>5. CASE Tick
  <2>1. Lesser
    <3>1. ASSUME NEW u \in Users, Live(u)
          PROVE  /\ cache'[u] = [cache[u] EXCEPT !.age = @ + 1] /\ cache[u] \in Entry
                 /\ cache'[u] \in Entry
      BY <3>1, <1>0, <1>5, GateCacheAssumption DEF Tick, Live, Ttl, Entry
    <3>2. ASSUME NEW u \in Users, ~Live(u) PROVE cache'[u] = None
      BY <3>2, <1>5 DEF Tick
    <3> QED BY <3>1, <3>2, <1>0 DEF Lesser, Entry
  <2> QED BY <2>1, <1>5, LesserSound DEF Tick
<1>6. ASSUME NEW S \in SUBSET Users, Invalidate(S) PROVE GrantFresh' /\ CacheOK'
  <2>1. Lesser
    BY <1>6 DEF Invalidate, Lesser
  <2> QED BY <2>1, <1>6, LesserSound DEF Invalidate
<1>7. CASE cache' = cache /\ gen' = gen /\ out' \subseteq out
  <2>1. Lesser
    BY <1>7 DEF Lesser
  <2> QED BY <2>1, <1>7, LesserSound
<1>8. \/ Adopt \/ Tick \/ (\E S \in SUBSET Users : Invalidate(S))
      \/ (\E c \in Calls : ReadEnd(c) \/ RoundEnd(c) \/ MembersEnd(c))
      \/ (cache' = cache /\ gen' = gen /\ out' \subseteq out)
  BY DEF Next, Outside, Program, Change, Probe, Members, Read, Round, Hit, Reply, Rotate, GiveUp,
         RoundFails, TieBreak, CatchUp, vars
<1> QED BY <1>1, <1>2, <1>3, <1>4, <1>5, <1>6, <1>7, <1>8

\* Each grant to the responder is sound when it is given, and stays so (CutGetsNoKey).
LEMMA StepGiven ==
    TypeOK /\ CallOK /\ CacheOK /\ CutGetsNoKey /\ [Next]_vars => CutGetsNoKey'
<1> SUFFICES ASSUME TypeOK, CallOK, CacheOK, CutGetsNoKey, [Next]_vars PROVE CutGetsNoKey'
  OBVIOUS
<1>1. ASSUME NEW c \in Calls, NEW u \in Users, Round(c, u) PROVE CutGetsNoKey'
  <2>1. out' = out
    BY <1>1 DEF Round
  <2>2. CASE Live(u) /\ cache[u].value
    <3>1. given' = given \cup {<<u, cache[u].by>>}
      BY <1>1, <2>2 DEF Round
    <3>2. cache[u].by # "members" => u \notin out
      BY <2>2 DEF CacheOK, Live
    <3> QED BY <2>1, <3>1, <3>2 DEF CutGetsNoKey
  <2>3. CASE ~(Live(u) /\ cache[u].value)
    BY <1>1, <2>1, <2>3 DEF Round, CutGetsNoKey
  <2> QED BY <2>2, <2>3
<1>2. ASSUME NEW c \in Calls, RoundEnd(c) PROVE CutGetsNoKey'
  <2>1. call[c] \in Call /\ call[c] # None /\ out' = out
    BY <1>2 DEF RoundEnd, Answered, TypeOK
  <2>2. CASE Verdict(c) /\ call[c].since = gen
    <3>1. call[c].user \notin out
      BY <2>1, <2>2, RoundSound
    <3>2. given' = given \cup {<<call[c].user, "round">>}
      BY <1>2, <2>2 DEF RoundEnd
    <3> QED BY <2>1, <3>1, <3>2 DEF CutGetsNoKey
  <2>3. CASE ~(Verdict(c) /\ call[c].since = gen)
    BY <1>2, <2>1, <2>3 DEF RoundEnd, CutGetsNoKey
  <2> QED BY <2>2, <2>3
<1>3. CASE given' = {} \/ (given' = given /\ out' \subseteq out)
  BY <1>3 DEF CutGetsNoKey
<1>4. \/ (\E c \in Calls, u \in Users : Round(c, u)) \/ (\E c \in Calls : RoundEnd(c))
      \/ given' = {} \/ (given' = given /\ out' \subseteq out)
  BY DEF Next, Outside, Program, Adopt, Change, Probe, Members, Read, Reply, Rotate, GiveUp, ReadEnd,
         MembersEnd, RoundFails, TieBreak, CatchUp, Tick, Invalidate, vars
<1> QED BY <1>1, <1>2, <1>3, <1>4

-----------------------------------------------------------------------------
\* which endpoints may lag is of the course
LEMMA SlowKept == TypeOK /\ [Next]_vars => course'.slow = course.slow
<1>1. ASSUME course \in CourseStates, NEW e \in Events, Spend(e) PROVE course'.slow = course.slow
  BY <1>1 DEF Spend, CourseStates
<1> QED BY <1>1 DEF TypeOK, Events, Next, Outside, Program, Change, Probe, Adopt, Members, Read, Round,
       Invalidate, Reply, Rotate, GiveUp, ReadEnd, MembersEnd, TieBreak, RoundFails, RoundEnd, CatchUp,
       Tick, vars

\* an endpoint that does not lag sees each change at once
LEMMA StepPrompt == TypeOK /\ PromptOK /\ [Next]_vars => PromptOK'
<1> SUFFICES ASSUME TypeOK, PromptOK, [Next]_vars PROVE PromptOK'
  OBVIOUS
<1>0. course'.slow = course.slow
  BY SlowKept
<1>1. ASSUME NEW u \in Users, Change(u) PROVE PromptOK'
  <2>1. PICK behind \in SUBSET course.slow :
          view' = [e \in Urls |-> IF e \in behind THEN view[e] ELSE access']
    BY <1>1 DEF Change
  <2> QED BY <1>0, <2>1 DEF PromptOK
<1>2. ASSUME NEW e \in Urls, CatchUp(e) PROVE PromptOK'
  BY <1>0, <1>2 DEF CatchUp, PromptOK, TypeOK
<1>3. CASE UNCHANGED <<access, view>>
  BY <1>0, <1>3 DEF PromptOK
<1> QED BY <1>1, <1>2, <1>3, ChainSteps DEF Adopt

LEMMA HeldKept == HeldOK /\ call' = call /\ access' = access /\ course'.slow = course.slow => HeldOK'
  BY DEF HeldOK

LEMMA HeldEnded ==
    ASSUME TypeOK, HeldOK, NEW c \in Calls, Done(c), access' = access, course'.slow = course.slow
    PROVE  HeldOK'
  BY DEF HeldOK, Done, TypeOK

\* a call begins when access is what it is, and has no answer
LEMMA HeldBegun ==
    ASSUME TypeOK, HeldOK, NEW c \in Calls, NEW at, NEW u, NEW asked, Begin(c, at, u, usable, asked),
           access' = access, course'.slow = course.slow
    PROVE  HeldOK'
  <1>1. /\ call'[c].held = access /\ call'[c].replied = {}
        /\ \A d \in Calls \ {c} : call'[d] = call[d]
    BY DEF Begin, TypeOK
  <1> QED BY <1>1 DEF HeldOK

\* a call that asks elsewhere keeps what it has heard
LEMMA HeldAsks ==
    ASSUME TypeOK, HeldOK, NEW c \in Calls, call[c] # None, access' = access, course'.slow = course.slow,
           call'[c].held = call[c].held, call'[c].replied = call[c].replied, call'[c].got = call[c].got,
           \A d \in Calls \ {c} : call'[d] = call[d]
    PROVE  HeldOK'
  BY DEF HeldOK

\* what an endpoint that does not lag answers was held while the call was under way
LEMMA StepHeld == TypeOK /\ PromptOK /\ HeldOK /\ [Next]_vars => HeldOK'
<1> SUFFICES ASSUME TypeOK, PromptOK, HeldOK, [Next]_vars PROVE HeldOK'
  OBVIOUS
<1>0. call \in [Calls -> Call \cup {None}] /\ None \notin Call /\ course'.slow = course.slow
  BY SlowKept, GateCacheAssumption DEF TypeOK
<1>1. ASSUME NEW u \in Users, Change(u) PROVE HeldOK'
  <2>1. ASSUME NEW c \in Calls, call'[c] # None
        PROVE  /\ call[c] # None /\ call[c] \in Call
               /\ call'[c] = [call[c] EXCEPT !.held = @ \cup access']
    BY <2>1, <1>0, <1>1 DEF Change, Noting
  <2>2. ASSUME NEW c \in Calls, call'[c] # None
        PROVE  /\ call[c] # None /\ call'[c].held = call[c].held \cup access'
               /\ call'[c].replied = call[c].replied /\ call'[c].got = call[c].got
    BY <2>1, <2>2 DEF Call
  <2> QED BY <1>0, <2>2 DEF HeldOK
<1>2. ASSUME NEW c \in Calls, Members(c) PROVE HeldOK'
  BY <1>0, <1>2, HeldBegun DEF Members
<1>3. ASSUME NEW c \in Calls, NEW u \in Users, Read(c, u) PROVE HeldOK'
  BY <1>0, <1>3, HeldBegun DEF Read
<1>4. ASSUME NEW c \in Calls, NEW u \in Users, Round(c, u) PROVE HeldOK'
  BY <1>0, <1>4, HeldBegun, HeldKept DEF Round
<1>5. ASSUME NEW c \in Calls, NEW e \in Urls, Reply(c, e) PROVE HeldOK'
  <2>1. call[c] \in Call /\ call[c] # None
    BY <1>0, <1>5 DEF Reply
  <2>2. \A d \in Calls \ {c} : call'[d] = call[d]
    BY <1>0, <1>5 DEF Reply
  <2>3. CASE call' = [call EXCEPT ![c].got[e] = view[e], ![c].replied = @ \cup {e}]
    <3>1. /\ call'[c].held = call[c].held /\ call'[c].replied = call[c].replied \cup {e}
          /\ call'[c].got = [call[c].got EXCEPT ![e] = view[e]]
      BY <1>0, <2>1, <2>3 DEF Call
    <3>2. call[c].got \in [Urls -> SUBSET Users] /\ call[c].replied \subseteq Urls
      BY <2>1 DEF Call
    <3>3. e \notin course.slow => view[e] \subseteq call[c].held
      BY <2>1 DEF PromptOK, HeldOK
    <3>4. access' = access
      BY <1>5 DEF Reply
    <3> QED BY <1>0, <2>1, <2>2, <3>1, <3>2, <3>3, <3>4 DEF HeldOK
  <2>4. CASE call' = [call EXCEPT ![c].failed = @ \cup {e}]
    <3>1. /\ call'[c].held = call[c].held /\ call'[c].replied = call[c].replied
          /\ call'[c].got = call[c].got
      BY <1>0, <2>1, <2>4 DEF Call
    <3> QED BY <1>0, <1>5, <2>1, <2>2, <3>1, HeldAsks DEF Reply
  <2> QED BY <1>5, <2>3, <2>4 DEF Reply
<1>6. ASSUME NEW c \in Calls, Rotate(c) PROVE HeldOK'
  <2>1. call[c] \in Call /\ call[c] # None
    BY <1>0, <1>6 DEF Rotate, Answered
  <2>2. /\ call'[c].held = call[c].held /\ call'[c].replied = call[c].replied /\ call'[c].got = call[c].got
        /\ \A d \in Calls \ {c} : call'[d] = call[d]
    BY <1>0, <1>6, <2>1 DEF Rotate, Call
  <2> QED BY <1>0, <1>6, <2>1, <2>2, HeldAsks DEF Rotate
<1>7. ASSUME NEW c \in Calls, TieBreak(c) PROVE HeldOK'
  <2>1. call[c] \in Call /\ call[c] # None
    BY <1>0, <1>7 DEF TieBreak, Answered
  <2>2. /\ call'[c].held = call[c].held /\ call'[c].replied = call[c].replied /\ call'[c].got = call[c].got
        /\ \A d \in Calls \ {c} : call'[d] = call[d]
    BY <1>0, <1>7, <2>1 DEF TieBreak, Call
  <2> QED BY <1>0, <1>7, <2>1, <2>2, HeldAsks DEF TieBreak
<1>8. ASSUME NEW c \in Calls, GiveUp(c) \/ RoundFails(c) \/ ReadEnd(c) \/ MembersEnd(c) \/ RoundEnd(c)
      PROVE HeldOK'
  BY <1>0, <1>8, HeldEnded DEF GiveUp, RoundFails, ReadEnd, MembersEnd, RoundEnd
<1>9. CASE Probe \/ Adopt \/ Tick \/ UNCHANGED vars \/ (\E e \in Urls : CatchUp(e))
           \/ (\E u \in Users : Invalidate({u})) \/ Invalidate(Users)
  BY <1>0, <1>9, HeldKept DEF Probe, Adopt, Tick, vars, CatchUp, Invalidate
<1> QED BY <1>1, <1>2, <1>3, <1>4, <1>5, <1>6, <1>7, <1>8, <1>9 DEF Next, Outside, Program

\* of two yes or more, with one endpoint at most that lags, one is of an endpoint that does not
LEMMA YesOfPrompt ==
    ASSUME TypeOK, NEW c \in Calls, call[c] \in Call, Verdict(c), Heard(c) >= 2,
           Cardinality(course.slow) <= 1
    PROVE  \E e \in call[c].replied \ course.slow : call[c].user \in call[c].got[e]
<1>1. Yes(c) \subseteq Urls /\ No(c) \subseteq Urls /\ course.slow \subseteq Urls
  BY DEF Yes, No, Call, TypeOK, CourseStates
<1>2. IsFiniteSet(Yes(c)) /\ IsFiniteSet(No(c)) /\ IsFiniteSet(course.slow)
  BY <1>1, GateCacheAssumption, FS_Subset
<1>3. Cardinality(Yes(c)) \in Nat /\ Cardinality(No(c)) \in Nat /\ Cardinality(course.slow) \in Nat
  BY <1>2, FS_CardinalityType
<1>4. Cardinality(Yes(c)) >= 2
  BY <1>3 DEF Verdict, Heard
<1>5. SUFFICES ASSUME Yes(c) \subseteq course.slow PROVE FALSE
  BY DEF Yes
<1>6. Cardinality(Yes(c)) <= Cardinality(course.slow)
  BY <1>2, <1>5, FS_Subset
<1> QED BY <1>3, <1>4, <1>6

\* Each step keeps what the grants of rounds rest on (RoundRight).
LEMMA StepRound == TypeOK /\ HeldOK /\ RoundRight /\ [Next]_vars => RoundRight'
<1> SUFFICES ASSUME TypeOK, HeldOK, RoundRight, [Next]_vars PROVE RoundRight'
  OBVIOUS
<1>0. /\ cache \in [Users -> Entry \cup {None}] /\ call \in [Calls -> Call \cup {None}]
      /\ course'.slow = course.slow /\ None \notin Entry \cup Call
  BY SlowKept, GateCacheAssumption DEF TypeOK
\* an entry kept as it was, or only older, or dropped
<1>1. ASSUME \A u \in Users : \/ cache'[u] = None
                             \/ /\ cache[u] # None
                                /\ cache'[u].by = cache[u].by /\ cache'[u].value = cache[u].value
                                /\ cache'[u].heard = cache[u].heard /\ cache'[u].held = cache[u].held
      PROVE  RoundRight'
  BY <1>0, <1>1 DEF RoundRight
<1>2. ASSUME NEW c \in Calls, ReadEnd(c) PROVE RoundRight'
  <2>1. call[c].at = "read" /\ \E value : cache' = CachePut(c, value, 1)
    BY <1>2 DEF ReadEnd
  <2>2. \A u \in Users : cache'[u] = cache[u] \/ cache'[u].by = "read"
    BY <1>0, <2>1 DEF CachePut, Put
  <2> QED BY <1>0, <2>2 DEF RoundRight
<1>3. ASSUME NEW c \in Calls, MembersEnd(c) PROVE RoundRight'
  <2>1. \A u \in Users : cache'[u].by = "members"
    BY <1>3 DEF MembersEnd, Put
  <2> QED BY <2>1 DEF RoundRight
<1>4. ASSUME NEW c \in Calls, RoundEnd(c) PROVE RoundRight'
  <2>1. call[c] \in Call /\ call[c] # None /\ call[c].user \in Users
    BY <1>0, <1>4 DEF RoundEnd, Answered, Call
  <2>2. cache' = CachePut(c, Verdict(c), Heard(c))
    BY <1>4 DEF RoundEnd
  <2>3. Verdict(c) /\ Heard(c) >= 2 /\ Cardinality(course.slow) <= 1 => call[c].user \in call[c].held
    BY <2>1, YesOfPrompt DEF HeldOK
  <2>4. ASSUME NEW u \in Users, cache'[u] # cache[u]
        PROVE  /\ u = call[c].user /\ cache'[u].value = Verdict(c) /\ cache'[u].heard = Heard(c)
               /\ cache'[u].held = (u \in call[c].held)
    BY <1>0, <2>1, <2>2, <2>4 DEF CachePut, Put
  <2> QED BY <1>0, <2>3, <2>4 DEF RoundRight
<1>5. CASE Tick
  <2>1. ASSUME NEW u \in Users, Live(u)
        PROVE  cache'[u] = [cache[u] EXCEPT !.age = @ + 1] /\ cache[u] \in Entry /\ cache[u] # None
    BY <2>1, <1>0, <1>5 DEF Tick, Live
  <2>2. ASSUME NEW u \in Users, ~Live(u) PROVE cache'[u] = None
    BY <2>2, <1>5 DEF Tick
  <2>3. ASSUME NEW u \in Users, Live(u)
        PROVE  /\ cache'[u].by = cache[u].by /\ cache'[u].value = cache[u].value
               /\ cache'[u].heard = cache[u].heard /\ cache'[u].held = cache[u].held
    BY <2>1, <2>3 DEF Entry
  <2> QED BY <1>1, <2>1, <2>2, <2>3
<1>6. CASE Adopt
  BY <1>1, <1>6 DEF Adopt, Forgotten
<1>7. ASSUME NEW S \in SUBSET Users, Invalidate(S) PROVE RoundRight'
  BY <1>1, <1>7 DEF Invalidate
<1>8. CASE cache' = cache
  BY <1>1, <1>8
<1>9. \/ Adopt \/ Tick \/ (\E S \in SUBSET Users : Invalidate(S))
      \/ (\E c \in Calls : ReadEnd(c) \/ RoundEnd(c) \/ MembersEnd(c))
      \/ cache' = cache
  BY DEF Next, Outside, Program, Change, Probe, Members, Read, Round, Hit, Reply, Rotate, GiveUp,
         RoundFails, TieBreak, CatchUp, vars
<1> QED BY <1>2, <1>3, <1>4, <1>5, <1>6, <1>7, <1>8, <1>9

-----------------------------------------------------------------------------
\* The state of the gate's cache is always well typed (gate.js, rpcHealth.js).
THEOREM CacheTyped == Spec => []TypeOK
  BY InitTyped, StepTyped, PTL DEF Spec

LEMMA InitCut == Init => CutInv
  BY DEF Init, CutInv, GrantFresh, OutOK, CallOK, CacheOK, CutGetsNoKey

\* The inductive invariant behind the two theorems below (gate.js: _cacheAccess, invalidateGrants).
THEOREM CutInvariant == Spec => []CutInv
<1>1. TypeOK /\ CutInv /\ [Next]_vars => CutInv'
  BY StepOut, StepCall, StepCache, StepGiven DEF CutInv
<1> QED BY <1>1, InitCut, CacheTyped, PTL DEF Spec

\* No read or round that began under an older epoch leaves a grant in the cache (gate.js:156-157).
THEOREM GrantsAreOfThisEpoch == Spec => []GrantFresh
<1>1. CutInv => GrantFresh
  BY DEF CutInv
<1> QED BY <1>1, CutInvariant, PTL

\* Whoever was cut everywhere before an epoch was adopted is granted its key by no later call,
\* batches aside (invalidateGrants, for _answerRequest).
THEOREM TheCutGetNoKey == Spec => []CutGetsNoKey
<1>1. CutInv => CutGetsNoKey
  BY DEF CutInv
<1> QED BY <1>1, CutInvariant, PTL

\* With one endpoint at most that lags, a grant of a round that heard two answers or more is of an
\* account that had access while it ran, for any endpoints and tie-breaks (checkAccessQuorum).
THEOREM RoundsAreRight == Spec => []RoundRight
<1>1. Init => RoundInv
  BY DEF Init, RoundInv, PromptOK, HeldOK, RoundRight
<1>2. TypeOK /\ RoundInv /\ [Next]_vars => RoundInv'
  BY StepPrompt, StepHeld, StepRound DEF RoundInv
<1>3. RoundInv => RoundRight
  BY DEF RoundInv
<1> QED BY <1>1, <1>2, <1>3, CacheTyped, PTL DEF Spec
=============================================================================
