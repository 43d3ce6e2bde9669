----------------------------- MODULE GateCache ------------------------------
(***************************************************************************)
(* The answers one device keeps about the gate of a channel (gate.js), the  *)
(* endpoints they come from (rpcHealth.js) and those who ask: the key       *)
(* responder and the adoption of an epoch (epochKeyManager.js), ingest and   *)
(* the entry of a channel (checkAccess), the sweep and the member lists      *)
(* (getGateMembers), and the owner's own transactions.                       *)
(*                                                                         *)
(* One gate: keys of the cache begin with its address and no answer of one   *)
(* gate touches another's.  Time is the age of an entry, in units of the     *)
(* TTL of a refusal.  The eviction at 2000 entries is left out, and so is    *)
(* the rate of the warning when the endpoints disagree.  A reply that never  *)
(* comes is one that fails: the read has a deadline (READ_TIMEOUT_MS).       *)
(***************************************************************************)
EXTENDS Naturals, FiniteSets

CONSTANTS Users,        \* accounts the gate is asked about
          Urls,         \* endpoints, numbers in the user's order
          Calls,        \* places for calls under way
          GrantTtl,     \* checkAccessCacheMs
          DenialTtl,    \* accessDenialCacheMs
          None,         \* no entry, or no call
          Courses       \* bounds of the behaviours: each starts on one of these

Events == {"change", "fail", "probe", "epoch", "members"}

\* a course: the endpoints the user chose, those that may lag behind the chain, the calls that may be
\* under way at once, and how often each event may still happen
CourseStates == [urls : (SUBSET Urls) \ {{}}, slow : SUBSET Urls, calls : SUBSET Calls,
                 left : [Events -> Nat]]

By      == {"read", "round", "members"}
Entry   == [value : BOOLEAN, age : 0..GrantTtl, since : Nat, by : By, heard : Nat, held : BOOLEAN]
\* the endpoints asked so far, those of them that answered or failed, and their answers
Call    == [at : By, user : Users, since : Nat, urls : SUBSET Urls, asked : SUBSET Urls,
            replied : SUBSET Urls, failed : SUBSET Urls, got : [Urls -> SUBSET Users],
            retry : BOOLEAN, held : SUBSET Users]

ASSUME GateCacheAssumption ==
    /\ Courses \subseteq CourseStates
    /\ Users # {}
    /\ Urls \subseteq Nat /\ Urls # {} /\ IsFiniteSet(Urls)
    /\ \A S \in (SUBSET Urls) \ {{}} : \E e \in S : \A f \in S : e <= f      \* the user's order
    /\ GrantTtl \in Nat \ {0} /\ DenialTtl \in Nat \ {0} /\ DenialTtl <= GrantTtl
    /\ None \notin Entry \cup Call

VARIABLES
    access,     \* the accounts that have access on chain
    view,       \* those each endpoint would report
    usable,     \* the endpoints that passed the last probe (rpcHealth.usable)
    first,      \* the endpoint single reads go to (_rpcIndex)
    cache,      \* _accessCache
    gen,        \* _accessGen
    call,       \* calls under way
    course,     \* what is left of the course of this behaviour
    out,        \* history: accounts that every endpoint refused when the epoch in force was adopted
    given       \* history: grants to the responder in calls begun since, and what each rests on

vars == <<access, view, usable, first, cache, gen, call, course, out, given>>

Spend(e) == /\ course.left[e] > 0
            /\ course' = [course EXCEPT !.left[e] = @ - 1]

-----------------------------------------------------------------------------
(* The chain and the endpoints                                              *)

\* the calls under way note who has had access since they began
Noting(A) == [c \in Calls |-> IF call[c] = None THEN None ELSE [call[c] EXCEPT !.held = @ \cup A]]

\* the access of u changes: a transaction of anybody, a token that moved, a subscription that ends;
\* every endpoint that does not lag sees it at once, and no cache is told
Change(u) ==
    LET now == IF u \in access THEN access \ {u} ELSE access \cup {u}
    IN  /\ Spend("change")
        /\ access' = now
        /\ \E behind \in SUBSET course.slow :
             view' = [e \in Urls |-> IF e \in behind THEN view[e] ELSE now]
        /\ call' = Noting(now)
        /\ out' = out \ now
        /\ UNCHANGED <<usable, first, cache, gen, given>>

CatchUp(e) ==
    /\ view[e] # access
    /\ view' = [view EXCEPT ![e] = access]
    /\ UNCHANGED <<access, usable, first, cache, gen, call, course, out, given>>

\* a probe finds some endpoints failing or behind; never none is left (usableUrls)
Probe ==
    /\ Spend("probe")
    /\ usable' \in (SUBSET course.urls) \ {{}}
    /\ first' \in usable'
    /\ UNCHANGED <<access, view, cache, gen, call, out, given>>

-----------------------------------------------------------------------------
(* The cache                                                                *)

Ttl(value) == IF value THEN GrantTtl ELSE DenialTtl
Live(u)    == cache[u] # None /\ cache[u].age < Ttl(cache[u].value)

\* the clock of the cache: entries age, and one past its TTL is never used again
Tick ==
    /\ \E u \in Users : Live(u)
    /\ cache' = [u \in Users |-> IF Live(u) THEN [cache[u] EXCEPT !.age = @ + 1] ELSE None]
    /\ UNCHANGED <<access, view, usable, first, gen, call, course, out, given>>

Put(u, value, c, by, heard) ==
    [value |-> value, age |-> 0, since |-> call[c].since, by |-> by, heard |-> heard,
     held |-> u \in call[c].held]

PutAny(c, value, heard) ==                                          \* mutant of CachePut
    [cache EXCEPT ![call[c].user] = Put(call[c].user, value, c, call[c].at, heard)]

\* _cacheAccess: an answer of an older generation is not kept
CachePut(c, value, heard) ==
    IF call[c].since # gen THEN cache
    ELSE [cache EXCEPT ![call[c].user] = Put(call[c].user, value, c, call[c].at, heard)]

ForgottenNone == cache                                              \* mutant of Forgotten
Forgotten == [u \in Users |-> IF cache[u] # None /\ cache[u].value THEN None ELSE cache[u]]

\* invalidateAccess of one user or of everybody: the end of an own transaction (_ownerCall,
\* _memberCall), or a screen that asks again
Invalidate(S) ==
    /\ \E u \in S : cache[u] # None
    /\ cache' = [u \in Users |-> IF u \in S THEN None ELSE cache[u]]
    /\ UNCHANGED <<access, view, usable, first, gen, call, course, out, given>>

\* invalidateGrants, when an announce of a later epoch is adopted
Adopt ==
    /\ Spend("epoch")
    /\ gen' = gen + 1
    /\ cache' = Forgotten
    /\ out' = {u \in Users \ access : \A e \in Urls : u \notin view[e]}
    /\ given' = {}
    /\ UNCHANGED <<access, view, usable, first, call>>

-----------------------------------------------------------------------------
(* Asking                                                                   *)

Free(c) == c \in course.calls /\ call[c] = None

Begin(c, at, u, urls, asked) ==
    call' = [call EXCEPT ![c] =
        [at |-> at, user |-> u, since |-> gen, urls |-> urls, asked |-> asked,
         replied |-> {}, failed |-> {}, got |-> [e \in Urls |-> {}], retry |-> FALSE, held |-> access]]

Earliest(S) == CHOOSE e \in S : \A f \in S : e <= f

\* the two endpoints a round asks at once, or the only one
Pair(urls) == LET rest == urls \ {Earliest(urls)}
              IN  {Earliest(urls)} \cup (IF rest = {} THEN {} ELSE {Earliest(rest)})

\* checkAccess and checkAccessOrNull
Read(c, u) ==
    /\ Free(c) /\ ~Live(u)
    /\ Begin(c, "read", u, usable, {first})
    /\ UNCHANGED <<access, view, usable, first, cache, gen, course, out, given>>

HitRenewed(u) == [cache EXCEPT ![u].age = 0]                        \* mutant of Hit
Hit(u) == cache

\* checkAccessQuorum for the requester u, answered from the cache or by a round
Round(c, u) ==
    /\ Free(c)
    /\ IF Live(u)
       THEN /\ given' = IF cache[u].value THEN given \cup {<<u, cache[u].by>>} ELSE given
            /\ cache' = Hit(u)
            /\ UNCHANGED call
       ELSE /\ Begin(c, "round", u, usable, Pair(usable))
            /\ UNCHANGED <<cache, given>>
    /\ UNCHANGED <<access, view, usable, first, gen, course, out>>

\* getGateMembers, the states() of everyone at once
Members(c) ==
    /\ Free(c)
    /\ Spend("members")
    /\ Begin(c, "members", CHOOSE u \in Users : TRUE, usable, {first})
    /\ UNCHANGED <<access, view, usable, first, cache, gen, out, given>>

\* the endpoint e works out its answer; the code gets it later
Reply(c, e) ==
    /\ call[c] # None
    /\ e \in call[c].asked \ (call[c].replied \cup call[c].failed)
    /\ \/ /\ call' = [call EXCEPT ![c].got[e] = view[e], ![c].replied = @ \cup {e}]
          /\ UNCHANGED course
       \/ /\ call' = [call EXCEPT ![c].failed = @ \cup {e}]
          /\ Spend("fail")
    /\ UNCHANGED <<access, view, usable, first, cache, gen, out, given>>

Answered(c) == call[c] # None /\ call[c].asked = call[c].replied \cup call[c].failed
Errs(c)     == call[c].failed # {}
Done(c)     == call' = [call EXCEPT ![c] = None]

\* _withProvider: a failure moves on to the next endpoint, once
Rotate(c) ==
    /\ Answered(c) /\ call[c].at # "round"
    /\ Errs(c) /\ ~call[c].retry
    /\ first' = LET later == {e \in usable : e > first}
                IN  IF later = {} THEN Earliest(usable) ELSE Earliest(later)
    /\ call' = [call EXCEPT ![c].asked = {first'}, ![c].failed = {}, ![c].retry = TRUE]
    /\ UNCHANGED <<access, view, usable, cache, gen, course, out, given>>

\* the second failure: no answer, and nothing is kept
GiveUp(c) ==
    /\ Answered(c) /\ call[c].at # "round"
    /\ Errs(c) /\ call[c].retry
    /\ Done(c)
    /\ UNCHANGED <<access, view, usable, first, cache, gen, course, out, given>>

TheAnswer(c) == call[c].got[CHOOSE e \in call[c].asked : TRUE]

\* the end of checkAccessOrNull
ReadEnd(c) ==
    /\ Answered(c) /\ call[c].at = "read" /\ ~Errs(c)
    /\ cache' = CachePut(c, call[c].user \in TheAnswer(c), 1)
    /\ Done(c)
    /\ UNCHANGED <<access, view, usable, first, gen, course, out, given>>

\* the end of getGateMembers: noteAccess for everyone, whatever the generation
MembersEnd(c) ==
    /\ Answered(c) /\ call[c].at = "members" /\ ~Errs(c)
    /\ cache' = [u \in Users |-> Put(u, u \in TheAnswer(c), c, "members", 1)]
    /\ Done(c)
    /\ UNCHANGED <<access, view, usable, first, gen, course, out, given>>

-----------------------------------------------------------------------------
(* A round                                                                  *)

Yes(c)   == {e \in call[c].replied : call[c].user \in call[c].got[e]}
No(c)    == call[c].replied \ Yes(c)
Heard(c) == Cardinality(Yes(c)) + Cardinality(No(c))
Unasked(c) == call[c].urls \ call[c].asked
Tied(c)  == Heard(c) > 0 /\ Cardinality(Yes(c)) = Cardinality(No(c))

\* a disagreement goes to the endpoints not asked yet, one after the other
TieBreak(c) ==
    /\ Answered(c) /\ call[c].at = "round"
    /\ Tied(c) /\ Unasked(c) # {}
    /\ call' = [call EXCEPT ![c].asked = @ \cup {Earliest(Unasked(c))}]
    /\ UNCHANGED <<access, view, usable, first, cache, gen, course, out, given>>

\* nobody answered, or a tie that nobody breaks: refused this once, and nothing is kept
RoundFails(c) ==
    /\ Answered(c) /\ call[c].at = "round"
    /\ Heard(c) = 0 \/ (Tied(c) /\ Unasked(c) = {})
    /\ Done(c)
    /\ UNCHANGED <<access, view, usable, first, cache, gen, course, out, given>>

AnyYes(c) == Yes(c) # {}                                            \* mutant of Verdict
Verdict(c) == Cardinality(Yes(c)) > Cardinality(No(c))

RoundEnd(c) ==
    /\ Answered(c) /\ call[c].at = "round"
    /\ Heard(c) > 0 /\ ~Tied(c)
    /\ cache' = CachePut(c, Verdict(c), Heard(c))
    /\ given' = IF Verdict(c) /\ call[c].since = gen
                THEN given \cup {<<call[c].user, "round">>} ELSE given
    /\ Done(c)
    /\ UNCHANGED <<access, view, usable, first, gen, course, out>>

-----------------------------------------------------------------------------
Init ==
    /\ course \in Courses
    /\ access \in SUBSET Users
    /\ view = [e \in Urls |-> access]
    /\ usable = course.urls
    /\ first = Earliest(course.urls)
    /\ cache = [u \in Users |-> None]
    /\ gen = 0
    /\ call = [c \in Calls |-> None]
    /\ out = {}
    /\ given = {}

Outside == \/ \E u \in Users : Change(u) \/ Invalidate({u})
           \/ Invalidate(Users)
           \/ Probe \/ Adopt
           \/ \E c \in Calls : Members(c) \/ \E u \in Users : Read(c, u) \/ Round(c, u)

Program == \E c \in Calls : \/ \E e \in Urls : Reply(c, e)
                            \/ Rotate(c) \/ GiveUp(c) \/ ReadEnd(c) \/ MembersEnd(c)
                            \/ TieBreak(c) \/ RoundFails(c) \/ RoundEnd(c)

Next == Outside \/ Program \/ Tick \/ \E e \in Urls : CatchUp(e)

Spec == Init /\ [][Next]_vars

\* time passes, and an endpoint that is behind comes to the head of the chain; nothing says that
\* anyone asks, or that an answer comes
FairSpec == Spec /\ WF_vars(Tick) /\ \A e \in Urls : WF_vars(CatchUp(e))

-----------------------------------------------------------------------------
TypeOK ==
    /\ access \in SUBSET Users
    /\ view \in [Urls -> SUBSET Users]
    /\ usable \in (SUBSET Urls) \ {{}} /\ first \in Urls
    /\ cache \in [Users -> Entry \cup {None}]
    /\ gen \in Nat
    /\ call \in [Calls -> Call \cup {None}]
    /\ course \in CourseStates
    /\ out \in SUBSET Users
    /\ given \in SUBSET (Users \X By)

(* A grant that a read or a round left in the cache was asked for since the epoch in force was      *)
(* adopted, however long the answer was under way (gate.js:156-157, _cacheAccess).                   *)
GrantFresh == \A u \in Users :
    cache[u] # None /\ cache[u].value /\ cache[u].by # "members" => cache[u].since = gen

(* Whoever every endpoint refused when the epoch in force was adopted, and who has not had access    *)
(* since, is granted its key by no call begun since (invalidateGrants, for _answerRequest). Grants   *)
(* that rest on a batch are excepted: noteAccess looks at no generation (RefusedAtOnce).               *)
CutGetsNoKey == \A g \in given : g[2] # "members" => g[1] \notin out

(* While one endpoint at most lags, a round that heard two answers or more grants only who had       *)
(* access at some moment of it, although its answers are of different moments (checkAccessQuorum).   *)
RoundRight == \A u \in Users :
    /\ cache[u] # None /\ cache[u].by = "round"
    /\ cache[u].value /\ cache[u].heard >= 2
    /\ Cardinality(course.slow) <= 1
    => cache[u].held

(* When the access of an account stays as it is, the cache comes to agree with it and stays so:      *)
(* a hit renews nothing, and a late answer is the last of its kind (checkAccessCacheMs).             *)
AnswersCatchUp == \A u \in Users :
    /\ <>[](u \in access) => <>[](Live(u) => cache[u].value)
    /\ <>[](u \notin access) => <>[](Live(u) => ~cache[u].value)

(* Not upheld: what gate.js:156-157 and 488-493 say without exception, that the member a rotation is *)
(* for is refused at once and no read from before it writes a grant back; a batch read does.         *)
RefusedAtOnce == \A g \in given : g[1] \notin out

(* Not upheld: what gate.js:420-421 says, that with two endpoints or more, all of them answering, no *)
(* grant to the key responder rests on the word of one; a grant in the cache may.                    *)
TwoVoices ==
    usable = course.urls /\ Cardinality(usable) > 1 => \A g \in given : g[2] = "round"
=============================================================================
