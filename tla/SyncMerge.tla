----------------------------- MODULE SyncMerge ------------------------------
(***************************************************************************)
(* The merge of two states of one account (syncMerge.js), part by part: one  *)
(* channel, the epoch keys of one channel, one timestamped slice, one        *)
(* conversation of sent messages.  A pull folds the snapshots it read into   *)
(* the local state, oldest first, with the local state as the first base     *)
(* (mergePayloadSeries); two devices of an account read different snapshots  *)
(* in different sessions, so the parts are meant to come out the same in     *)
(* any order and grouping.                                                   *)
(*                                                                         *)
(* An absent stamp or time is 0.  Copies of a channel carry all fields, as   *)
(* _storedRecord writes them.  Image data, ENS names and the rule for an     *)
(* API key without a stamp are left out.                                     *)
(***************************************************************************)
EXTENDS Naturals, FiniteSets

CONSTANTS Fields,       \* fields of a channel record that an edit can stamp
          Values,       \* what a field, a slice or a message can hold
          Blank,        \* the empty value
          Epochs,       \* epoch numbers of a channel
          KeyIds,       \* its epoch keys, and the ids of its key requests
          Ids           \* sent messages of a conversation, numbers in the order of their time

ASSUME SyncMergeAssumption == Blank \in Values /\ Ids \subseteq Nat /\ Epochs \subseteq Nat

Later(a, b) == IF a >= b THEN a ELSE b

-----------------------------------------------------------------------------
(* One channel: its record, if the account is in it, and its leave tombstone *)

Channel == [on : BOOLEAN, joined : Nat, created : Nat, val : [Fields -> Values],
            ts : [Fields -> Nat], left : Nat]

Absent(left) == [on |-> FALSE, joined |-> 0, created |-> 0, val |-> [f \in Fields |-> Blank],
                 ts |-> [f \in Fields |-> 0], left |-> left]

JoinTs(c)        == IF c.joined # 0 THEN c.joined ELSE c.created
LatestJoin(b, i) == Later(IF b.on THEN JoinTs(b) ELSE 0, IF i.on THEN JoinTs(i) ELSE 0)

\* mergeChannelRecord: each field from the copy that stamped it later, else from the preferred one
MergeRecord(preferred, other) ==
    LET took(f) == other.ts[f] > preferred.ts[f]
    IN  IF \A f \in Fields : ~took(f) THEN preferred
        ELSE [preferred EXCEPT
                !.val = [f \in Fields |-> IF took(f) THEN other.val[f] ELSE preferred.val[f]],
                !.ts  = [f \in Fields |-> Later(preferred.ts[f], other.ts[f])]]

\* the copy with a join time of its own, then the newer join, then the incoming one
Replaces(incoming, existing) ==
    IF (incoming.joined # 0) # (existing.joined # 0) THEN incoming.joined # 0
    ELSE JoinTs(incoming) >= JoinTs(existing)

Copy(b, i) == IF ~i.on THEN b
              ELSE IF ~b.on THEN i
              ELSE IF Replaces(i, b) THEN MergeRecord(i, b) ELSE MergeRecord(b, i)

\* mergeChannels: out when the leave is newer than every join, else in, and the tombstone is pruned
MergeChannel(b, i) ==
    LET left == Later(b.left, i.left)
        copy == Copy(b, i)
    IN  IF ~copy.on \/ left > LatestJoin(b, i) THEN Absent(left)
        ELSE [copy EXCEPT !.left = 0]

-----------------------------------------------------------------------------
(* One slice: blocked peers, contacts, times of leaving a DM, username        *)

Slice == [val : Values, ts : Nat]

Unstamped == 1
\* stampedSliceTs, on export: a value without a stamp counts as older than any edit
Exported(s) == IF s.ts = 0 /\ s.val # Blank THEN [s EXCEPT !.ts = Unstamped] ELSE s

PickSlice(b, i) ==
    LET emptyOverValue == i.ts = 0 /\ i.val = Blank /\ b.val # Blank
    IN  IF i.ts >= b.ts /\ ~emptyOverValue THEN i ELSE b

-----------------------------------------------------------------------------
(* The epoch keys of one channel that both sides hold something of            *)

Revs == [key : Nat, announce : Nat, pending : Nat]       \* of a shared key; 0 is none
\* an epoch has no announce here, or that of one key
Keys == [epochs : SUBSET KeyIds, announces : [Epochs -> SUBSET KeyIds], current : Nat,
         requests : SUBSET KeyIds, helloed : SUBSET Epochs, shared : Revs]

\* a pending re-key is settled once a key or an announce of its revision is there
DropSettled(r) == IF r.pending <= Later(r.key, r.announce) THEN [r EXCEPT !.pending = 0] ELSE r

MergeRevs(b, i) == DropSettled([key |-> Later(b.key, i.key), announce |-> Later(b.announce, i.announce),
                                pending |-> Later(b.pending, i.pending)])

MergeKeys(b, i) ==
    [epochs    |-> b.epochs \cup i.epochs,
     announces |-> [e \in Epochs |-> IF b.announces[e] # {} THEN b.announces[e] ELSE i.announces[e]],
     current   |-> Later(b.current, i.current),
     requests  |-> b.requests \cup i.requests,
     helloed   |-> b.helloed \cup i.helloed,
     shared    |-> MergeRevs(b.shared, i.shared)]

-----------------------------------------------------------------------------
(* One conversation of sent messages, and the deletions of its messages       *)

Sent == [held : SUBSET Ids, text : [Ids -> Values], edited : [Ids -> Nat], gone : [Ids -> Nat]]

Gone(s) == {m \in Ids : s.gone[m] # 0}

\* the newest messages, as many as are kept
Newest(S, cap) == {m \in S : Cardinality({n \in S : n > m}) < cap}

\* mergeSentDeletedAt, mergeSentMessages and withoutDeleted; the conversation is there on both sides
MergeSent(b, i, cap) ==
    LET gone == [m \in Ids |-> Later(b.gone[m], i.gone[m])]
        newer(m) == m \in i.held /\ (m \in b.held => i.edited[m] > b.edited[m])
        held == {m \in Newest(b.held \cup i.held, cap) : gone[m] = 0}
        copy(m) == IF newer(m) THEN i ELSE b
    IN  [held   |-> held,
         text   |-> [m \in Ids |-> IF m \in held THEN copy(m).text[m] ELSE Blank],
         edited |-> [m \in Ids |-> IF m \in held THEN copy(m).edited[m] ELSE 0],
         gone   |-> gone]
=============================================================================
