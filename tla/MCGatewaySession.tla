-------------------------- MODULE MCGatewaySession --------------------------
(* Small instances of GatewaySession for TLC. *)
EXTENDS GatewaySession, TLC

CONSTANTS a, k1, k2

MCOneOwner == k1 :> a
MCOwner == k1 :> a @@ k2 :> a

(* OAuth gives every session core's own, long lifetime.                    *)
MCTtl == "user" :> 1 @@ "admin" :> 3

(* Both core sessions are the same user's, so they may be swapped as well. *)
MCSymmetry ==
    Permutations(Requests) \cup Permutations(Tokens) \cup Permutations(Cores)
=============================================================================
