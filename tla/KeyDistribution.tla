-------------------------- MODULE KeyDistribution --------------------------
(***************************************************************************)
(* What the keys stream promises of a channel's epoch keys: a key is minted *)
(* once and for one epoch, a device obtains it only after the owner has     *)
(* announced it, what it obtains is that key and no other material, and it  *)
(* keeps it.  No message, storage, request or restart appears here.         *)
(***************************************************************************)
EXTENDS Naturals

CONSTANTS Devices, Keys, MaxEpoch

VARIABLES epochOf,      \* the epoch a key was minted for, 0 while it is not minted
          announced,    \* the keys the owner has announced
          holds         \* what each device keeps: key id, material, epoch

vars == <<epochOf, announced, holds>>

Genuine(k) == [key |-> k, mat |-> k, epoch |-> epochOf[k]]

Init ==
    /\ epochOf = [k \in Keys |-> 0]
    /\ announced = {}
    /\ holds = [d \in Devices |-> {}]

Mint(k) ==
    /\ epochOf[k] = 0
    /\ \E e \in 1..MaxEpoch : epochOf' = [epochOf EXCEPT ![k] = e]
    /\ UNCHANGED <<announced, holds>>

Announce(k) ==
    /\ epochOf[k] # 0
    /\ announced' = announced \cup {k}
    /\ UNCHANGED <<epochOf, holds>>

Obtain(d, k) ==
    /\ k \in announced
    /\ holds' = [holds EXCEPT ![d] = @ \cup {Genuine(k)}]
    /\ UNCHANGED <<epochOf, announced>>

Next == \E k \in Keys : Mint(k) \/ Announce(k) \/ \E d \in Devices : Obtain(d, k)

Spec == Init /\ [][Next]_vars
=============================================================================
