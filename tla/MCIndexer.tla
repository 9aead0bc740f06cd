----------------------------- MODULE MCIndexer -----------------------------
(* Values for the constants of Indexer.  Three indexable texts with         *)
(* different definitions, one calling into another file; one unindexable.  *)
EXTENDS Indexer, TLC

CONSTANTS f1, f2, a, b, c1, c2, c3, bad

MCPaths       == {f1, f2}
MCNames       == {a, b}
MCTexts       == {c1, c2, c3}
MCContents    == MCTexts \cup {bad}
MCUnindexable == {bad}
MCDefs  == c1 :> {a} @@ c2 :> {b} @@ c3 :> {a, b} @@ bad :> {}
MCCalls == c1 :> {<<a, b>>} @@ c2 :> {} @@ c3 :> {<<b, a>>} @@ bad :> {}

\* The smaller instance of the run with two processes.
MCOnePath  == {f1}
PathSymmetry == Permutations(MCPaths)
IndexerSymmetry == Permutations(Indexers)
=============================================================================
