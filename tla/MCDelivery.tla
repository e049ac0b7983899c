----------------------------- MODULE MCDelivery -----------------------------
(* Instances of Delivery for TLC.                                          *)
EXTENDS Delivery, TLC

CONSTANTS u1, u2, d1, d2, d3, s1, s2, s3, m1, m2

(* d1 and d2 belong to u1, d3 to u2.                                       *)
MCOwner == [d \in Device |-> IF d = d3 THEN u2 ELSE u1]

(* The last session connects another device when the instance has one.     *)
MCDevOf == [s \in Session |-> IF s = s3 /\ d2 \in Device THEN d2 ELSE d1]

(* m1 is a direct message to u1; m2 goes to the group of all users.        *)
MCMembers == [m \in Msg |-> IF m = m1 THEN {u1} ELSE User]

Envelopes == Permutations(Msg)
=============================================================================
