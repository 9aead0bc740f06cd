----------------------------- MODULE FuzzySearch -----------------------------
(***************************************************************************)
(* fts.rs: typo-tolerant and prefix search over the names in the symbols    *)
(* table, row by row.  A name is a sequence of characters; a character is a *)
(* natural number, in the order of the bytes, and Sep one of those that are *)
(* not alphanumeric.  Case is folded already.                               *)
(***************************************************************************)
EXTENDS Naturals, Sequences, FiniteSets, SequencesExt

CONSTANTS Chars, Sep,
          Corpora,      \* the tables to search: sequences of names
          Searches,     \* records with a job, q and limit
          MaxEdit,      \* MAX_EDIT_DISTANCE
          ScanFactor,   \* FUZZY_SCAN_FACTOR
          ScanFloor     \* FUZZY_SCAN_FLOOR

ASSUME SearchAssumption ==
  /\ Chars \subseteq Nat /\ Sep \in Chars
  /\ MaxEdit \in Nat /\ ScanFactor \in Nat \ {0} /\ ScanFloor \in Nat
  /\ \A c \in Corpora : c \in Seq(Seq(Chars))
  /\ \A s \in Searches : s.q \in Seq(Chars) /\ s.limit \in Nat

VARIABLES corpus,   \* the rows of Fts, in the order of the table
          quest,    \* the search being answered
          scan,     \* the row it is at, its phase, what it has scored
          hits      \* the rows it returned, or NoHits

searchVars == <<corpus, quest, scan, hits>>

NoHits == [found |-> FALSE]
Lowest(S) == CHOOSE x \in S : \A y \in S : x <= y

---------------------------------------------------------------------------
(* One row.                                                                *)

\* name_tokens: the segments between separators, unless that is the name itself.
name_tokens(name) ==
  {SubSeq(name, ij[1], ij[2]) : ij \in
     {x \in (1..Len(name)) \X (1..Len(name)) :
        /\ x[1] <= x[2] /\ \A k \in x[1]..x[2] : name[k] # Sep
        /\ x[1] = 1 \/ name[x[1] - 1] = Sep
        /\ x[2] = Len(name) \/ name[x[2] + 1] = Sep}} \ {name}
Units(name) == {name} \cup name_tokens(name)

\* Lev::dp: one row of the table after the other; {} where the code says None.
\* A row that has no way back into the budget ends it.
FirstRow(b) == [j \in 0..Len(b) |-> j]
NextRow(a, b, i, prev) ==
  LET cur[j \in 0..Len(b)] ==
        IF j = 0 THEN i
        ELSE Lowest({prev[j] + 1, cur[j - 1] + 1, prev[j - 1] + IF a[i] = b[j] THEN 0 ELSE 1})
  IN cur
Hopeless(row, max) == \A j \in DOMAIN row : row[j] > max

\* Mutant: a row that is just within the budget ends it as well.
dp_eager(a, b, max) ==
  LET rows[i \in 0..Len(a)] ==
        IF i = 0 THEN {FirstRow(b)}
        ELSE LET next == {NextRow(a, b, i, p) : p \in rows[i - 1]}
             IN {r \in next : \E j \in DOMAIN r : r[j] < max}
  IN IF Len(a) > Len(b) + max \/ Len(b) > Len(a) + max THEN {}
     ELSE {r[Len(b)] : r \in rows[Len(a)]} \cap 0..max

dp(a, b, max) ==
  LET rows[i \in 0..Len(a)] ==
        IF i = 0 THEN {FirstRow(b)}
        ELSE LET next == {NextRow(a, b, i, p) : p \in rows[i - 1]}
             IN {r \in next : ~Hopeless(r, max)}
  IN IF Len(a) > Len(b) + max \/ Len(b) > Len(a) + max THEN {}
     ELSE {r[Len(b)] : r \in rows[Len(a)]} \cap 0..max

---------------------------------------------------------------------------
(* The searches.                                                           *)

SearchInit ==
  /\ corpus \in Corpora /\ quest \in Searches
  /\ scan = [at |-> 1, phase |-> 1, exact |-> 0, scored |-> {}] /\ hits = NoHits

Cap == IF quest.limit * ScanFactor >= ScanFloor THEN quest.limit * ScanFactor ELSE ScanFloor
Searching(job) == quest.job = job /\ hits = NoHits
AtRow == scan.at <= Len(corpus)
Scan(s) == scan' = s /\ UNCHANGED <<corpus, quest, hits>>

\* The order of the bytes of two names.
Precedes(m, n) ==
  \E k \in 0..Len(m) :
    /\ k <= Len(n) /\ SubSeq(m, 1, k) = SubSeq(n, 1, k)
    /\ k < Len(n) /\ (k = Len(m) \/ m[k + 1] < n[k + 1])

\* A scored row is <<distance or length, row>>; sort_by is stable.
Closer(x, y) ==
  \/ x[1] < y[1]
  \/ x[1] = y[1] /\ Precedes(corpus[x[2]], corpus[y[2]])
  \/ x[1] = y[1] /\ corpus[x[2]] = corpus[y[2]] /\ x[2] < y[2]
Ranked(scored) == CHOOSE s \in [1..Cardinality(scored) -> scored] :
                    \A i, j \in DOMAIN s : i < j => Closer(s[i], s[j])
Truncated(s, limit) == SubSeq(s, 1, IF limit < Len(s) THEN limit ELSE Len(s))
Found(s) ==
  /\ hits' = [found |-> TRUE, rows |-> Truncated(Ranked(s), quest.limit)]
  /\ UNCHANGED <<corpus, quest, scan>>

\* Phase 1: the distance to the name or the nearest of its tokens, until there
\* are enough exact hits or candidates.
FuzzyRow ==
  LET near == UNION {dp(quest.q, u, MaxEdit) : u \in Units(corpus[scan.at])}
      d == Lowest(near)
      exact == scan.exact + IF near # {} /\ d = 0 THEN 1 ELSE 0
      scored == scan.scored \cup IF near = {} THEN {} ELSE {<<d, scan.at>>}
      full == near # {} /\ (exact >= quest.limit \/ Cardinality(scored) >= Cap)
  IN /\ Searching("fuzzy") /\ AtRow /\ scan.phase = 1
     /\ Scan([at |-> scan.at + 1, phase |-> IF full THEN 2 ELSE 1, exact |-> exact, scored |-> scored])

\* Phase 2: equality only, for exact hits behind the row where phase 1 stopped.
EqualRow ==
  LET equal == quest.q \in Units(corpus[scan.at]) IN
  /\ Searching("fuzzy") /\ AtRow /\ scan.phase = 2 /\ scan.exact < quest.limit
  /\ Scan([scan EXCEPT !.at = @ + 1, !.exact = IF equal THEN @ + 1 ELSE @,
                       !.scored = IF equal THEN @ \cup {<<0, scan.at>>} ELSE @])

FuzzyEnds ==
  /\ Searching("fuzzy")
  /\ ~AtRow \/ (scan.phase = 2 /\ scan.exact >= quest.limit)
  /\ Found(scan.scored)

\* The first byte is looked at before the name; an empty name has the byte 0.
FirstByte(name) == IF name = <<>> THEN 0 ELSE Head(name)
PrefixRow ==
  LET name == corpus[scan.at]
      name_ok == quest.q = <<>> \/ (FirstByte(name) = Head(quest.q) /\ IsPrefix(quest.q, name))
      lens == {Len(t) : t \in {u \in name_tokens(name) : IsPrefix(quest.q, u)}}
                \cup IF name_ok THEN {Len(name)} ELSE {}
  IN /\ Searching("prefix") /\ AtRow
     /\ Scan([scan EXCEPT !.at = @ + 1,
                !.scored = IF lens = {} THEN @ ELSE @ \cup {<<Lowest(lens), scan.at>>}])

PrefixEnds == Searching("prefix") /\ ~AtRow /\ Found(scan.scored)

SearchNext == FuzzyRow \/ EqualRow \/ FuzzyEnds \/ PrefixRow \/ PrefixEnds

---------------------------------------------------------------------------
(* What the answers are compared with.                                     *)

\* The words that one edit makes of another, and the words at each distance.
Edit1(w) ==
  {SubSeq(w, 1, i - 1) \o SubSeq(w, i + 1, Len(w)) : i \in DOMAIN w}
  \cup {SubSeq(w, 1, ix[1] - 1) \o <<ix[2]>> \o SubSeq(w, ix[1] + 1, Len(w)) : ix \in (1..Len(w)) \X Chars}
  \cup {SubSeq(w, 1, ix[1]) \o <<ix[2]>> \o SubSeq(w, ix[1] + 1, Len(w)) : ix \in (0..Len(w)) \X Chars}
Around ==
  [q \in {s.q : s \in Searches} |->
     LET ball[k \in 0..MaxEdit] == IF k = 0 THEN {q} ELSE ball[k - 1] \cup UNION {Edit1(w) : w \in ball[k - 1]}
     IN ball]
Distance(i) == {k \in 0..MaxEdit : Units(corpus[i]) \cap Around[quest.q][k] # {}}
Matching == {<<Lowest(Distance(i)), i>> : i \in {j \in DOMAIN corpus : Distance(j) # {}}}
Exact(s) == {x \in s : x[1] = 0}
AtMost(n, m) == IF n < m THEN n ELSE m

\* `fuzzy` lists names within two edits of the query, of the name or of a
\* segment, the closest first, and as many as it was asked for if there are as
\* many; "exact (distance-0) matches are never dropped", however early the scan
\* stopped, and where it did not stop the ranking is that of the whole table.
\* `prefix` ranks every name that has a unit with the prefix.
SearchFindsClosest ==
  hits # NoHits =>
    LET rows == hits.rows  got == ToSet(rows) IN
    /\ \A i, j \in DOMAIN rows : i < j => Closer(rows[i], rows[j])
    /\ quest.job = "fuzzy" =>
         /\ got \subseteq Matching
         /\ Len(rows) = AtMost(quest.limit, Cardinality(Matching))
         /\ Cardinality(Exact(got)) = AtMost(quest.limit, Cardinality(Exact(Matching)))
         /\ Cardinality(Matching) < Cap /\ Cardinality(Exact(Matching)) < quest.limit =>
              rows = Truncated(Ranked(Matching), quest.limit)
    /\ quest.job = "prefix" =>
         rows = Truncated(Ranked({<<Lowest({Len(u) : u \in {v \in Units(corpus[i]) : IsPrefix(quest.q, v)}}), i>> :
                                    i \in {j \in DOMAIN corpus : \E u \in Units(corpus[j]) : IsPrefix(quest.q, u)}}),
                          quest.limit)
=============================================================================
