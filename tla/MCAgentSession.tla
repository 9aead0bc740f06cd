---------------------------- MODULE MCAgentSession ----------------------------
(* One file of three contents: two texts that differ, and one that is not    *)
(* UTF-8.  Loops begin at two.                                               *)
EXTENDS AgentSession, TLC

CONSTANTS f, v1, v2, bin, b1, b2, b3

MCPrefix == v1 :> b1 @@ v2 :> b2 @@ bin :> b3
MCTree   == f :> v1
AgentSymmetry == Permutations(Calls) \cup Permutations(Sessions)
=============================================================================
