--------------------------- MODULE MCMembership ---------------------------
(* Instances of Membership for TLC: SeatLimit and symmetry. *)
EXTENDS Membership, TLC

\* The smallest caps at which a seat race and an upgrade both occur.
MCSeatLimit == [p \in Plans |-> IF p = "free" THEN 2 ELSE Unlimited]

Symmetry == Permutations(People) \cup Permutations(InviteIds) \cup Permutations(Requests)
=============================================================================
