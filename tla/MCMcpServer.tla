----------------------------- MODULE MCMcpServer -----------------------------
(* Two servers, two tokens, one text, a repository with a directory in it.   *)
EXTENDS McpServer, TLC

CONSTANTS top, sub

MCAncestors == top :> <<top>> @@ sub :> <<sub, top>>
McpSymmetry == Permutations(Servers) \cup Permutations(Tokens)
=============================================================================
