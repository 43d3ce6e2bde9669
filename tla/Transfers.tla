------------------------------ MODULE Transfers ------------------------------
(***************************************************************************)
(* The download of one file from the peers that hold it, and its seeding    *)
(* afterwards (media.js: startDownload to assembleFile, the pieces and the  *)
(* seed records in IndexedDB).                                              *)
(*                                                                         *)
(* The downloader asks known seeders for pieces, as many at a time as its   *)
(* window lets it, and verifies what arrives from whom it may. A seeder     *)
(* answers what reaches it, with its copy of the piece. Requests, pieces    *)
(* and announces are lost, late and out of order; a request is its piece    *)
(* and its seeder, and asking twice is one request.                         *)
(* Left out: rates, the send queue of a seeder, the round-trip estimate (a  *)
(* timer may fire at any time, and the path be congested at any delivery),  *)
(* and what the failures counted by a cancelled download do to its          *)
(* successor.                                                               *)
(***************************************************************************)
EXTENDS Naturals, SequencesExt

CONSTANTS Seeders, NoOne,
          PieceCount,
          WindowStart, WindowMin, WindowMax,    \* PIECE_WINDOW_*
          MaxPieceFailures, MaxStrikes,
          MaxRequests,                          \* MAX_SEEDER_REQUESTS
          Ticks,                                \* of the discovery loop until its timeout
          CursorPeriod,                         \* a multiple of every number of seeders
          Courses                               \* bounds of the behaviours

Events == {"start", "pause", "cancel", "restart", "slow", "early", "lose", "mute", "leave", "join",
           "askfail", "tellfail", "diskfull", "stop", "reseed", "remove"}

Pieces == 1..PieceCount

\* a course: whether the file is large enough for IndexedDB, the pieces that each seeder's copy
\* has wrong, who serves at first, and how often each act, fault or outside event may happen
CourseStates == [db : BOOLEAN, spoiled : [Seeders -> SUBSET Pieces],
                 online : SUBSET Seeders, left : [Events -> Nat]]

ASSUME TransfersAssumption ==
    /\ Courses \subseteq CourseStates
    /\ PieceCount \in Nat \ {0} /\ NoOne \notin Seeders
    /\ WindowMin \in Nat \ {0} /\ WindowStart \in WindowMin..WindowMax /\ WindowMax \in Nat
    /\ CursorPeriod \in Nat \ {0} /\ \A n \in 1..Cardinality(Seeders) : CursorPeriod % n = 0
    /\ MaxRequests \in Nat /\ Ticks \in Nat

VARIABLES
    x,          \* the transfer: incomingFiles and fileSeeders (memory)
    held,       \* the bytes of each piece: transfer.pieces, or the pieces store (IndexedDB)
    hashing,    \* pieces being verified
    saving,     \* verified pieces on their way into IndexedDB
    assembly,   \* assemblies that wait for their announce or for their seed record
    file,       \* what was handed to the user
    served,     \* the file is in localFiles
    seed,       \* its seed record (IndexedDB)
    stopping,   \* stopSeeding is between memory and its record
    asks, answers,      \* requests and pieces on the network
    sought,             \* seeders that a source request has reached
    online,             \* seeders that serve
    course,             \* what is left of the course of this behaviour
    stopped,            \* history: the user has stopped the seeding of it
    hurt                \* history: a source request, or a store in IndexedDB, has thrown

mine == <<x, held, hashing, saving, assembly>>
seeding == <<file, served, seed, stopping, stopped>>
vars == <<mine, seeding, asks, answers, sought, online, course, hurt>>

Status == {"pending", "requested", "processing", "done"}
Bytes  == {"none", "good", "bad"}
Sound(s, p) == p \notin course.spoiled[s]

\* each event of E happens once more
Spend(E) ==
    /\ hurt' = (hurt \/ E \cap {"askfail", "diskfull"} # {})
    /\ \A e \in E : course.left[e] > 0
    /\ course' = [course EXCEPT !.left = [e \in Events |-> IF e \in E THEN @[e] - 1 ELSE @[e]]]

Always(v) == [p \in Pieces |-> v]

NewTransfer(h) ==
    [on       |-> TRUE,
     paused   |-> FALSE,
     status   |-> [p \in Pieces |-> IF h[p] = "none" THEN "pending" ELSE "done"],
     flight   |-> Always(NoOne),        \* requestsInFlight: who was asked
     armed    |-> {},                   \* entries of it whose timer has not fired
     stray    |-> Always(0),            \* timers that no entry holds any more
     failures |-> Always(0),            \* pieceFailures
     excluded |-> Always({}),           \* pieceExclusions
     strikes  |-> [s \in Seeders |-> 0],
     known    |-> <<>>,                 \* fileSeeders, in the order of their announces
     cursor   |-> 0,
     window   |-> WindowStart,
     started  |-> FALSE,                \* downloadStarted
     retry    |-> FALSE,                \* noSeederRetryTimer
     requests |-> 0,                    \* seederRequestCount
     ticks    |-> 0]                    \* of the discovery timer, while it is armed

NoTransfer == [NewTransfer(Always("none")) EXCEPT !.on = FALSE]

-----------------------------------------------------------------------------
(***************************************************************************)
(* manageDownload                                                           *)
(***************************************************************************)
InFlight(t) == {p \in Pieces : t.flight[p] # NoOne}

\* pickSeederFor: the next seeder from the cursor on that has not served this piece corrupt
Turn(t, k) == t.known[((t.cursor + k) % Len(t.known)) + 1]
Eligible(t, p) == {k \in 0..(Len(t.known) - 1) : Turn(t, k) \notin t.excluded[p]}
MovedNot(t, k) == 0                                     \* mutant of Moved
Moved(t, k) == (t.cursor + k) % CursorPeriod

\* requestPiece; an entry that is overwritten leaves its timer behind
Requested(t, p, k) ==
    [t EXCEPT !.status[p] = "requested", !.flight[p] = Turn(t, k), !.cursor = Moved(t, k + 1),
              !.armed = @ \cup {p}, !.stray[p] = IF p \in t.armed THEN @ + 1 ELSE @]

\* the part of the loop for piece p: r is the transfer, and what it asks for
Filled(r, p) ==
    IF Cardinality(InFlight(r.t)) >= r.t.window \/ r.t.status[p] # "pending" THEN r
    ELSE IF Eligible(r.t, p) = {}
         THEN [r EXCEPT !.t.excluded[p] = {}, !.t.cursor = Moved(r.t, Len(r.t.known)), !.seek = TRUE]
    ELSE LET k == Min(Eligible(r.t, p))
         IN  [r EXCEPT !.t = Requested(@, p, k), !.asks = @ \cup {<<p, Turn(r.t, k)>>}]

\* (the singletons make TLC compute a value once where it decides ENABLED)
Fill(r, p) == CHOOSE v \in {Filled(q, p) : q \in {r}} : TRUE

Managed(t) ==
    LET r == [t |-> t, asks |-> {}, seek |-> FALSE]
    IN  IF ~t.on \/ t.paused THEN r
        ELSE IF t.known = <<>> THEN [r EXCEPT !.t.retry = TRUE, !.seek = t.started]
        ELSE FoldLeft(Fill, r, [p \in Pieces |-> p])

\* a source request reaches who serves; what a known seeder would announce is known
Seek(yes) == sought' = IF yes THEN sought \cup (online \ ToSet(x.known)) ELSE sought

\* t, after manageDownload, on behalf of E; a slow download asks for more seeders, too
Refill(t, E) ==
    \E r \in {Managed(u) : u \in {t}} :
        /\ asks' = asks \cup r.asks
        /\ \/ x' = r.t /\ Seek(r.seek) /\ Spend(E)
           \/ /\ r.t.on /\ ~r.t.paused /\ r.t.known # <<>> /\ r.t.requests < MaxRequests
              /\ Spend(E \cup {"slow"})
              /\ x' = [r.t EXCEPT !.requests = @ + 1] /\ Seek(TRUE)

Manage(t) == Refill(t, {})

-----------------------------------------------------------------------------
(***************************************************************************)
(* The transfer as a whole                                                  *)
(***************************************************************************)
\* cancelDownload: handlers that are at work find no transfer of theirs afterwards
Gone(H) ==
    /\ x' = NoTransfer
    /\ held' = Always("none")
    /\ hashing' = {[h EXCEPT !.mine = FALSE] : h \in H}
    /\ saving' = {}

\* assembleFile up to its announce; the bytes h are read before anything can clear them. H and S
\* are the pieces that are still being verified and stored
Assemble(t, h, H, S) ==
    IF \E p \in Pieces : h[p] = "none" THEN Gone(H) /\ UNCHANGED <<assembly, seeding, asks, sought>>
    ELSE /\ x' = t /\ held' = h /\ hashing' = H /\ saving' = S
         /\ file' = IF \A p \in Pieces : h[p] = "good" THEN "whole" ELSE "broken"
         /\ served' = TRUE /\ stopped' = FALSE
         /\ assembly' = assembly \cup {"announce"}
         /\ UNCHANGED <<seed, stopping, asks, sought>>

\* the end of handleFilePiece: piece p of t is in h
Finished(t, h, p, H, S) ==
    LET t1 == [t EXCEPT !.status[p] = "done"]
    IN  IF \A q \in Pieces : t1.status[q] = "done" THEN Assemble(t1, h, H, S) /\ UNCHANGED <<course, hurt>>
        ELSE /\ \/ Manage([t1 EXCEPT !.window = Min({@ + 1, WindowMax})])           \* growWindow
                \/ /\ course.left["slow"] > 0                                     \* isCongested
                   /\ Manage([t1 EXCEPT !.window = Max({@ - 1, WindowMin})])
             /\ held' = h /\ hashing' = H /\ saving' = S
             /\ UNCHANGED <<assembly, seeding>>

\* startSeederDiscovery, on behalf of E; a request that cannot be published leaves no timer
Discover(t, E) ==
    \/ /\ Spend(E) /\ Seek(TRUE)
       /\ x' = [t EXCEPT !.requests = Min({@ + 1, MaxRequests}), !.ticks = Ticks]
    \/ /\ Spend(E \cup {"askfail"})
       /\ x' = t /\ UNCHANGED sought

\* startDownload: what IndexedDB holds is not asked for again
StartDownload ==
    /\ ~x.on /\ ~served
    /\ LET h == IF course.db THEN held ELSE Always("none")
           t == NewTransfer(h)
       IN  IF \A p \in Pieces : h[p] # "none"
           THEN Assemble(t, h, hashing, saving) /\ Spend({"start"})
           ELSE /\ Discover(t, {"start"})
                /\ held' = h
                /\ UNCHANGED <<hashing, saving, assembly, seeding, asks>>
    /\ UNCHANGED <<answers, online>>

CancelDownload ==
    /\ x.on /\ Spend({"cancel"})
    /\ Gone(hashing)
    /\ UNCHANGED <<assembly, seeding, asks, answers, sought, online>>

\* pauseDownload: what was asked for is pending again, whatever has become of it
PauseDownload ==
    /\ x.on /\ ~x.paused /\ Spend({"pause"})
    /\ x' = [x EXCEPT !.paused = TRUE, !.ticks = 0, !.retry = FALSE,
                      !.status = [p \in Pieces |-> IF p \in InFlight(x) THEN "pending" ELSE @[p]],
                      !.flight = Always(NoOne), !.armed = {}]
    /\ UNCHANGED <<held, hashing, saving, assembly, seeding, asks, answers, sought, online>>

ResumeDownload ==
    /\ x.on /\ x.paused
    /\ LET t == [x EXCEPT !.paused = FALSE]
       IN  IF x.known # <<>> THEN Manage(t)
           ELSE Discover(t, {}) /\ UNCHANGED asks
    /\ UNCHANGED <<held, hashing, saving, assembly, seeding, answers, online>>

\* the page is loaded again: IndexedDB survives, and a seed of this account that was not
\* stopped is served again (reset, loadPersistedSeedFiles)
Restart ==
    /\ Spend({"restart"})
    /\ x' = NoTransfer
    /\ held' = IF course.db THEN held ELSE Always("none")
    /\ hashing' = {} /\ saving' = {} /\ assembly' = {} /\ stopping' = FALSE
    /\ served' = (seed = "active")
    /\ UNCHANGED <<file, seed, stopped, asks, answers, sought, online>>

-----------------------------------------------------------------------------
(***************************************************************************)
(* Seeders                                                                  *)
(***************************************************************************)
\* the loop of startSeederDiscovery
DiscoveryTick ==
    /\ x.ticks > 0
    /\ LET t    == [x EXCEPT !.ticks = @ - 1]
           more == x.requests < MaxRequests
           last == t.ticks = 0 /\ x.known = <<>>
       IN  IF x.started THEN x' = [x EXCEPT !.ticks = 0] /\ UNCHANGED <<sought, course, hurt>>
           ELSE \/ /\ x' = [t EXCEPT !.requests = IF more THEN @ + 1 ELSE @]
                   /\ Seek(more \/ last)
                   /\ UNCHANGED <<course, hurt>>
                \/ /\ more \/ last
                   /\ Spend({"askfail"})
                   /\ x' = [x EXCEPT !.ticks = 0] /\ UNCHANGED sought
    /\ UNCHANGED <<held, hashing, saving, assembly, seeding, asks, answers, online>>

\* handleSourceAnnounce: only the first seeder starts the download
Announce(s) ==
    /\ s \in sought
    /\ LET t == [x EXCEPT !.known = IF s \in ToSet(@) THEN @ ELSE Append(@, s)]
       IN  IF x.on /\ ~x.started
           THEN \E r \in {Managed([t EXCEPT !.started = TRUE, !.ticks = 0])} :
                    /\ x' = r.t /\ asks' = asks \cup r.asks
                    /\ sought' = sought \ {s}
           ELSE /\ x' = IF x.on THEN t ELSE x
                /\ sought' = sought \ {s} /\ UNCHANGED asks
    /\ UNCHANGED <<held, hashing, saving, assembly, seeding, answers, online, course, hurt>>

\* handlePieceRequest and the piece it sends
Serve(p, s) ==
    /\ <<p, s>> \in asks /\ s \in online
    /\ asks' = asks \ {<<p, s>>}
    /\ answers' = answers \cup {[p |-> p, by |-> s, good |-> Sound(s, p)]}
    /\ UNCHANGED <<mine, seeding, sought, online, course, hurt>>

\* a peer closes its page, or comes back and announces itself (reannounceForChannel)
PeerLeaves(s) ==
    /\ s \in online /\ Spend({"leave"})
    /\ online' = online \ {s} /\ sought' = sought \ {s}
    /\ UNCHANGED <<mine, seeding, asks, answers>>

PeerJoins(s) ==
    /\ s \notin online /\ Spend({"join"})
    /\ online' = online \cup {s} /\ sought' = sought \cup {s}
    /\ UNCHANGED <<mine, seeding, asks, answers>>

Lose ==
    /\ Spend({"lose"})
    /\ \/ \E a \in asks : asks' = asks \ {a} /\ UNCHANGED answers
       \/ \E a \in answers : answers' = answers \ {a} /\ UNCHANGED asks
    /\ UNCHANGED <<mine, seeding, sought, online>>

\* an announce is lost as long as the discovery asks again
Mute(s) ==
    /\ s \in sought /\ x.ticks > 0 /\ Spend({"mute"})
    /\ sought' = sought \ {s}
    /\ UNCHANGED <<mine, seeding, asks, answers, online>>

-----------------------------------------------------------------------------
(***************************************************************************)
(* Pieces                                                                   *)
(***************************************************************************)
\* handleFilePiece up to the hash: a piece is taken from anyone, asked for or not
PieceArrives(a) ==
    /\ a \in answers
    /\ answers' = answers \ {a}
    /\ IF x.on /\ x.status[a.p] # "done"
       THEN /\ x' = [x EXCEPT !.status[a.p] = "processing"]
            /\ hashing' = hashing \cup {[p |-> a.p, by |-> a.by, good |-> a.good, mine |-> TRUE]}
       ELSE UNCHANGED <<x, hashing>>
    /\ UNCHANGED <<held, saving, assembly, seeding, asks, sought, online, course, hurt>>

\* blameSeeder: the publisher of the bytes, not whoever was asked
Blamed(t, p, s) ==
    LET t1 == [t EXCEPT !.excluded[p] = @ \cup {s}, !.strikes[s] = @ + 1]
    IN  IF t1.strikes[s] < MaxStrikes THEN t1
        ELSE [t1 EXCEPT !.known = RemoveFirst(@, s)]

SuspectAsked(h) == IF x.flight[h.p] = NoOne THEN h.by ELSE x.flight[h.p]    \* mutant of Suspect
Suspect(h) == h.by

\* registerPieceFailure
PieceFails(h) ==
    LET p == h.p
        t == Blamed([x EXCEPT !.failures[p] = @ + 1], p, Suspect(h))
    IN  IF t.failures[p] >= MaxPieceFailures                        \* failDownload
        THEN Gone(hashing \ {h}) /\ UNCHANGED <<asks, sought, course, hurt>>
        ELSE /\ Manage([t EXCEPT !.status[p] = "pending"])
             /\ hashing' = hashing \ {h} /\ UNCHANGED <<held, saving>>

VerifiedAll(h) == TRUE                                  \* mutant of Verified
Verified(h) == h.good
Kept(h) == IF h.good THEN "good" ELSE "bad"

\* the rest of handleFilePiece, up to the store in IndexedDB for a large file
Hashed(h) ==
    /\ h \in hashing
    /\ IF ~h.mine
       THEN /\ Manage(x) /\ hashing' = hashing \ {h}
            /\ held' = IF course.db /\ Verified(h) THEN [held EXCEPT ![h.p] = Kept(h)] ELSE held
            /\ UNCHANGED <<saving, assembly, seeding>>
       ELSE IF ~Verified(h) THEN PieceFails(h) /\ UNCHANGED <<assembly, seeding>>
       ELSE LET t == [x EXCEPT !.flight[h.p] = NoOne, !.armed = @ \ {h.p}]
            IN  IF course.db
                THEN /\ saving' = saving \cup {[p |-> h.p, as |-> Kept(h)]} /\ hashing' = hashing \ {h}
                     /\ x' = t /\ UNCHANGED <<held, assembly, seeding, asks, sought, course, hurt>>
                ELSE Finished(t, [held EXCEPT ![h.p] = Kept(h)], h.p, hashing \ {h}, saving)
    /\ UNCHANGED <<answers, online>>

Saved(v) ==
    /\ v \in saving
    /\ Finished(x, [held EXCEPT ![v.p] = v.as], v.p, hashing, saving \ {v})
    /\ UNCHANGED <<answers, online>>

\* IndexedDB refuses the piece: the handler throws
SaveFails(v) ==
    /\ v \in saving /\ Spend({"diskfull"})
    /\ saving' = saving \ {v}
    /\ UNCHANGED <<x, held, hashing, assembly, seeding, asks, answers, sought, online>>

\* an answer for p is still to come
Awaited(p) ==
    \/ \E s \in online : <<p, s>> \in asks
    \/ \E a \in answers \cup hashing \cup saving : a.p = p

\* the timer of a request for p, or one that a failed piece has left behind, fires: as an answer
\* will not come, or too early
PieceTimeout(p) ==
    /\ \E own \in {b \in BOOLEAN : IF b THEN p \in x.armed ELSE x.stray[p] > 0} :
          LET fired == IF own THEN [x EXCEPT !.armed = @ \ {p}] ELSE [x EXCEPT !.stray[p] = @ - 1]
              back  == [fired EXCEPT !.status[p] = "pending", !.flight[p] = NoOne,
                                     !.armed = @ \ {p},
                                     !.stray[p] = IF p \in fired.armed THEN @ + 1 ELSE @]
              half  == Max({x.window \div 2, WindowMin})
          IN  IF x.status[p] \in {"requested", "processing"}
              THEN \E w \in {x.window, half} :                                       \* shrinkWindow
                       Refill([back EXCEPT !.window = w], IF Awaited(p) THEN {"early"} ELSE {})
              ELSE x' = fired /\ UNCHANGED <<asks, sought, course, hurt>>
    /\ UNCHANGED <<held, hashing, saving, assembly, seeding, answers, online>>

\* manageDownload again, a second after it found no seeder
NoSeederRetry ==
    /\ x.retry
    /\ Manage([x EXCEPT !.retry = FALSE])
    /\ UNCHANGED <<held, hashing, saving, assembly, seeding, answers, online>>

-----------------------------------------------------------------------------
(***************************************************************************)
(* The file that was assembled, and its seeding                             *)
(***************************************************************************)
\* announceFileSource; when it throws, the transfer is not cleaned up
Announced ==
    /\ "announce" \in assembly
    /\ \/ UNCHANGED <<course, hurt>> /\ assembly' = (assembly \ {"announce"}) \cup {"persist"}
       \/ Spend({"tellfail"}) /\ assembly' = assembly \ {"announce"}
    /\ UNCHANGED <<x, held, hashing, saving, seeding, asks, answers, sought, online>>

\* persistSeedFile, unless there is no room, and the end of assembleFile
Persisted ==
    /\ "persist" \in assembly
    /\ \/ UNCHANGED <<course, hurt>> /\ seed' = "active"
       \/ Spend({"diskfull"}) /\ UNCHANGED seed
    /\ assembly' = assembly \ {"persist"}
    /\ Gone(hashing)
    /\ UNCHANGED <<file, served, stopping, stopped, asks, answers, sought, online>>

StopSeeding ==
    /\ served /\ ~stopping /\ Spend({"stop"})
    /\ served' = FALSE /\ stopped' = TRUE /\ stopping' = TRUE
    /\ UNCHANGED <<mine, file, seed, asks, answers, sought, online>>

\* the rest of stopSeeding: the record stays, and says so
StopRecorded ==
    /\ stopping /\ stopping' = FALSE
    /\ seed' = IF seed = "none" THEN "none" ELSE "stopped"
    /\ UNCHANGED <<mine, file, served, stopped, asks, answers, sought, online, course, hurt>>

ReseedFile ==
    /\ ~served /\ ~stopping /\ seed # "none" /\ Spend({"reseed"})
    /\ seed' = "active" /\ served' = TRUE /\ stopped' = FALSE
    /\ UNCHANGED <<mine, file, stopping, asks, answers, sought, online>>

RemoveSeedFile ==
    /\ ~stopping /\ seed # "none" /\ Spend({"remove"})
    /\ seed' = "none" /\ served' = FALSE
    /\ UNCHANGED <<mine, file, stopping, stopped, asks, answers, sought, online>>

-----------------------------------------------------------------------------
Init ==
    /\ course \in Courses
    /\ x = NoTransfer /\ held = Always("none") /\ hashing = {} /\ saving = {} /\ assembly = {}
    /\ file = "none" /\ served = FALSE /\ seed = "none" /\ stopping = FALSE /\ stopped = FALSE
    /\ hurt = FALSE
    /\ asks = {} /\ answers = {} /\ sought = {} /\ online = course.online

\* what peers and handlers do, and what timers do
Work ==
    \/ \E s \in Seeders : Announce(s) \/ \E p \in Pieces : Serve(p, s)
    \/ \E a \in answers : PieceArrives(a)
    \/ \E h \in hashing : Hashed(h)
    \/ \E v \in saving : Saved(v)
    \/ Announced \/ Persisted \/ StopRecorded
Timers == DiscoveryTick \/ NoSeederRetry \/ \E p \in Pieces : PieceTimeout(p)

User ==
    \/ StartDownload \/ CancelDownload \/ PauseDownload \/ ResumeDownload
    \/ StopSeeding \/ ReseedFile \/ RemoveSeedFile

Faults ==
    \/ Restart \/ Lose
    \/ \E v \in saving : SaveFails(v)
    \/ \E s \in Seeders : PeerLeaves(s) \/ PeerJoins(s) \/ Mute(s)

Next == Work \/ Timers \/ User \/ Faults

Spec == Init /\ [][Next]_vars

FairSpec == Spec /\ WF_vars(Work) /\ WF_vars(Timers)

-----------------------------------------------------------------------------
(***************************************************************************)
(* Properties                                                               *)
(***************************************************************************)
TypeOK ==
    /\ course \in CourseStates
    /\ x.status \in [Pieces -> Status] /\ x.flight \in [Pieces -> Seeders \cup {NoOne}]
    /\ x.armed \subseteq InFlight(x)
    /\ \A p \in Pieces : x.stray[p] <= x.failures[p] /\ x.failures[p] < MaxPieceFailures
    /\ ToSet(x.known) \subseteq Seeders /\ IsInjective(x.known)
    /\ x.window \in WindowMin..WindowMax /\ x.requests \in 0..MaxRequests
    /\ held \in [Pieces -> Bytes] /\ file \in {"none", "whole", "broken"}
    /\ seed \in {"none", "active", "stopped"} /\ assembly \subseteq {"announce", "persist"}
    /\ asks \subseteq Pieces \X Seeders /\ sought \subseteq online /\ online \subseteq Seeders
    /\ answers \subseteq [p : Pieces, by : Seeders, good : BOOLEAN]
    /\ hashing \subseteq [p : Pieces, by : Seeders, good : BOOLEAN, mine : BOOLEAN]

\* Whatever the peers serve, in whatever order and over pauses and reloads, the user is handed
\* every piece of the file as it was announced (handleFilePiece, restorePiecesFromIndexedDB,
\* assembleFile).
DeliveredWhole == file # "broken"

\* A peer whose copy is sound is never blamed, excluded or dropped for what another has sent,
\* though the late piece of one peer lands while another is asked (blameSeeder).
HonestKept ==
    \A s \in Seeders : course.spoiled[s] = {} =>
        x.strikes[s] = 0 /\ \A p \in Pieces : s \notin x.excluded[p]

\* A download from peers with sound copies, of which one keeps serving, ends: it is complete, or
\* waits because the user paused it, unless a source request or a store has thrown.
AllSound == \A s \in Seeders : course.spoiled[s] = {}
Ended == ~x.on \/ x.paused \/ \A p \in Pieces : x.status[p] = "done"
DownloadSettles == (AllSound /\ x.on /\ ~hurt) ~> (Ended \/ hurt)

\* Not upheld: `forgetting the exclusions beats deadlocking on it', but after a corrupt piece
\* nothing asks again when it was the last, or when the whole window was corrupt; nor after a
\* source request, or a store in IndexedDB, that throws.
AlwaysSettles == x.on ~> Ended

\* Not upheld: `user-stopped seeds stay stopped across reloads', unless the stop comes before
\* the record of the seed is written.
StoppedStays == stopped => ~served

\* Not upheld: `nothing already in IndexedDB gets re-fetched'.
NoRefetch == [][\A a \in asks' \ asks : held[a[1]] = "none"]_vars
=============================================================================
