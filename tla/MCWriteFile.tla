---------------------------- MODULE MCWriteFile ----------------------------
(* Values for the constants of WriteFile: two texts that call what the other *)
(* one defines, and one the indexer skips and the patterns can still match;  *)
(* one of the names may be none that can be looked up, and one of the files  *)
(* in a language that only the extractor knows.                              *)
EXTENDS WriteFile, TLC

CONSTANTS f1, f2, a, b, c1, c2, bad

MCPaths       == {f1, f2}
MCNames       == {a, b}
MCTexts       == {c1, c2}
MCContents    == MCTexts \cup {bad}
MCUnindexable == {bad}
MCDefs  == c1 :> {a} @@ c2 :> {b} @@ bad :> {}
MCCalls == c1 :> {<<a, b>>} @@ c2 :> {<<b, a>>} @@ bad :> {}

MCOnePatterned  == {f1}
MCOneIdentifier == {b}
MCTextCalls == c1 :> {b} @@ c2 :> {a} @@ bad :> {b}
=============================================================================
