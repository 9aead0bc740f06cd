------------------------------ MODULE Frontier ------------------------------
(***************************************************************************)
(* The crawl frontier: table `frontier` (queue and visited set) and table  *)
(* `pages` (archive).  One operator per SQL statement of SqliteFrontier;   *)
(* PostgresFrontier runs the same statements, its SKIP LOCKED standing for *)
(* the write lock that makes SQLite's claim one step.  A URL is its own    *)
(* key; host and timestamps of a row are left out.                         *)
(***************************************************************************)
EXTENDS Naturals, FiniteSets

CONSTANT Urls

States   == {"queued", "inflight", "done", "error"}
Row      == [depth : Nat, state : States]
Archived == [depth : Nat, ok : BOOLEAN]
Smaller(m, n) == IF m < n THEN m ELSE n

\* The table t with row r stored under u.
Put(t, u, r) == [x \in DOMAIN t \cup {u} |-> IF x = u THEN r ELSE t[x]]

NoRows == [x \in {} |-> 0]
InState(rows, s) == {u \in DOMAIN rows : rows[u].state = s}

\* Mutant: failed rows are retried as well.
init_retrying(rows) ==
  [u \in DOMAIN rows |->
     IF rows[u].state \in {"inflight", "error"}
       THEN [rows[u] EXCEPT !.state = "queued"] ELSE rows[u]]

\* Opening the file or the server: rows a crashed run left inflight return
\* to the queue.  Whether that run is really dead is not asked.
init(rows) ==
  [u \in DOMAIN rows |->
     IF rows[u].state = "inflight" THEN [rows[u] EXCEPT !.state = "queued"]
                                   ELSE rows[u]]

\* Mutant: ON CONFLICT DO UPDATE SET depth.
enqueue_updating(rows, u, d) == Put(rows, u,
  [depth |-> d, state |-> IF u \in DOMAIN rows THEN rows[u].state ELSE "queued"])

\* INSERT OR IGNORE: a URL that is known keeps its row.
enqueue(rows, u, d) ==
  IF u \in DOMAIN rows THEN rows
                       ELSE Put(rows, u, [depth |-> d, state |-> "queued"])

\* The batches a claim of at most n rows may return: the shallowest queued
\* rows (ORDER BY depth; which of two equally deep rows was inserted first
\* is left open).
Batches(rows, n) ==
  LET queued == InState(rows, "queued") IN
  {B \in SUBSET queued :
     /\ Cardinality(B) = Smaller(n, Cardinality(queued))
     /\ \A b \in B, q \in queued \ B : rows[b].depth <= rows[q].depth}

\* Mutant: a SELECT without the UPDATE.
select_only(rows, B) == rows

claim(rows, B) ==
  [u \in DOMAIN rows |->
     IF u \in B THEN [rows[u] EXCEPT !.state = "inflight"] ELSE rows[u]]

\* An UPDATE by key: whatever the row's state was.
mark(rows, u, s) ==
  [x \in DOMAIN rows |->
     IF x = u THEN [rows[x] EXCEPT !.state = s] ELSE rows[x]]

record_page(pages, u, d, ok) == Put(pages, u, [depth |-> d, ok |-> ok])

\* Mutant: the budget of a resumed crawl starts afresh.
counts_nothing(pages) == 0

counts(pages) == Cardinality(DOMAIN pages)
=============================================================================
