--------------------------- MODULE MCIndexCommands --------------------------
(* Every graph of calls over four symbols without self-loops, and over three *)
(* symbols every graph of calls with self-loops and every graph of two kinds *)
(* without them.  Tables of two and three names of up to three segments,     *)
(* where a scan stops at two candidates.  Two definitions around a line of   *)
(* their own; bodies of one and three lines.  Two processes that write the   *)
(* databases and two that compress; three that open an index of any age.    *)
EXTENDS IndexCommands, TLC

CONSTANTS f1, f2, f3, a, b, p1, p2, s1, s2, q1, q2, o1, o2, o3

MCNodes == 1..4
Loopless(n) == {p \in (1..n) \X (1..n) : p[1] # p[2]}
OfKind(pairs, kind) == {<<p[1], p[2], kind>> : p \in pairs}
MCGraphs == {OfKind(P, "call") : P \in SUBSET Loopless(4) \cup SUBSET ((1..3) \X (1..3))}
  \cup {OfKind(P, "call") \cup OfKind(Q, "import") : P, Q \in SUBSET Loopless(3)}
MCFileOf == <<f1, f1, f2, f3>>
MCAsks ==
  {[job |-> "cycles"], [job |-> "why", src |-> 1, dst |-> 1, depth |-> 0]}
  \cup [job : {"walk"}, start : {1}, reverse : BOOLEAN, depth : {1, 3}]
  \cup [job : {"why"}, src : {1}, dst : {2}, depth : 0..4]
  \cup [job : {"affected"}, changed : {{1}, {1, 2}}, depth : {0, 3}]
  \cup [job : {"importers"}, file : {f1}, depth : {0, 1, 3}]

MCWords == {<<2, 3, 3>>, <<3>>, <<3, 2, 1, 2, 3>>, <<1, 3>>, <<2, 2, 2, 2>>, <<2, 3, 2, 3>>}
MCCorpora == UNION {[1..n -> MCWords] : n \in {2, 3}}
MCSearches ==
  [job : {"fuzzy", "prefix"}, q : {<<>>, <<2, 3>>, <<3, 2, 3>>, <<2, 2, 3, 3>>}, limit : 0..2]

MCUpdates == {a, b} \X {1, 3}
MCFirst   == Body(<<a, 2>>) \o Other \o Body(<<b, 2>>)
MCForeign == {Other \o Body(<<a, 2>>) \o Body(<<b, 2>>), Body(<<a, 2>>)}
MCReleases ==
  [shape : {"none", "text"}, enc : {FALSE}, migrated : {FALSE}]
  \cup [shape : {"rowid", "clustered"}, enc : BOOLEAN, migrated : {FALSE}]
  \cup [shape : {"clustered"}, enc : {TRUE}, migrated : {TRUE}]

EditSymmetry == Permutations(Editors)
=============================================================================
