---------------------------- MODULE MCCommunityCache ----------------------------
(* Instances of CommunityCache for TLC.                                    *)
EXTENDS CommunityCache

CONSTANTS c1, c2, r1, k1, k2, k3

InFirst == [r \in Rooms |-> c1]
=============================================================================
