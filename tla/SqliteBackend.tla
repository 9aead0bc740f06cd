---------------------------- MODULE SqliteBackend ----------------------------
(***************************************************************************)
(* The tables of memory.db and the statements SqliteBackend runs on them,  *)
(* one operator per transaction.  A drawer holds one word, so that its     *)
(* body, its hash, its embedding and its full-text entry are one value.    *)
(* Rooms, sessions and the FSST encoding of bodies are left out.           *)
(***************************************************************************)
EXTENDS Integers, FiniteSets

\* drawers: id -> row;  embs: drawer_embeddings;  vecs: the sqlite-vec mirror.
\* fts: the contentless full-text index: postings, docsize rows and row count.
\* gen, back: drawers_vec_state, -1 standing for an absent 'backfilled'.
\* trig: the triggers on drawer_embeddings exist.
NoEntries == [i \in {} |-> 0]
EmptyFts  == [post |-> {}, docs |-> {}, total |-> 0]
EmptyDb   == [drawers |-> NoEntries, embs |-> NoEntries, vecs |-> NoEntries,
              fts |-> EmptyFts, gen |-> 0, back |-> -1, trig |-> FALSE]

With(f, i, v)    == [x \in DOMAIN f \cup {i} |-> IF x = i THEN v ELSE f[x]]
Without(f, ids)  == [x \in DOMAIN f \ ids |-> f[x]]
Ids(db)          == DOMAIN db.drawers

\* What SQLite gives an INTEGER PRIMARY KEY without AUTOINCREMENT: one more
\* than the largest id in use, so the id of a forgotten last drawer returns.
NextRowid(db) ==
  IF Ids(db) = {} THEN 1
  ELSE 1 + CHOOSE i \in Ids(db) : \A j \in Ids(db) : j <= i

\* INSERT INTO drawers_fts: a posting, the size of the document, the count.
fts_insert(f, id, word) ==
  [post |-> f.post \cup {<<id, word>>}, docs |-> f.docs \cup {id}, total |-> f.total + 1]

\* The 'delete' command takes the tokens it is to remove from its body
\* column; the code passes '', so the postings stay.
fts_delete(f, ids) ==
  [f EXCEPT !.docs = @ \ ids, !.total = @ - Cardinality(ids)]

\* The triggers emb_gen_ins and emb_gen_del, n rows having changed.
Tick(db, n) == IF db.trig THEN db.gen + n ELSE db.gen

\* The id of a drawer that is already there, or none.
existing(db, d) == {i \in Ids(db) : db.drawers[i].src = d.src /\ db.drawers[i].body = d.body}

\* A vec build may still hold the id it is about to use in its mirror; the
\* insert then fails and the transaction with it.
add_fails(db, d, vec) == existing(db, d) = {} /\ vec /\ NextRowid(db) \in DOMAIN db.vecs

\* Mutant: ON CONFLICT DO UPDATE SET created_at.
add_touching(db, d, now, vec) ==
  LET id == NextRowid(db) IN
  IF existing(db, d) # {}
    THEN LET i == CHOOSE j \in existing(db, d) : TRUE IN
         [db EXCEPT !.drawers[i].at = now, !.back = IF vec THEN db.gen ELSE @]
  ELSE [db EXCEPT
          !.drawers = With(@, id, [src |-> d.src, body |-> d.body, wing |-> d.wing, at |-> now]),
          !.embs = With(@, id, d.body),
          !.vecs = IF vec THEN With(@, id, d.body) ELSE @,
          !.fts  = fts_insert(@, id, d.body),
          !.gen  = Tick(db, 1),
          !.back = IF vec THEN Tick(db, 1) ELSE @]

\* Backend::add, one drawer: a drawer that is there keeps its row, a new one
\* goes to every table.  A vec build moves 'backfilled' up in any case.
add(db, d, now, vec) ==
  LET id == NextRowid(db) IN
  IF existing(db, d) # {} THEN [db EXCEPT !.back = IF vec THEN db.gen ELSE @]
  ELSE [db EXCEPT
          !.drawers = With(@, id, [src |-> d.src, body |-> d.body, wing |-> d.wing, at |-> now]),
          !.embs = With(@, id, d.body),
          !.vecs = IF vec THEN With(@, id, d.body) ELSE @,
          !.fts  = fts_insert(@, id, d.body),
          !.gen  = Tick(db, 1),
          !.back = IF vec THEN Tick(db, 1) ELSE @]

\* The rows a DeleteSel takes.
Selected(rows, sel) ==
  {i \in DOMAIN rows :
     CASE sel.by = "all"    -> TRUE
       [] sel.by = "id"     -> i = sel.id
       [] sel.by = "source" -> rows[i].src = sel.src
       [] sel.by = "before" -> rows[i].wing = sel.wing /\ rows[i].at < sel.before}

\* FTS5 reports a corrupt index once its row count would fall below zero.
delete_fails(db, sel) == Cardinality(Selected(db.drawers, sel)) > db.fts.total

\* Backend::delete.  The embeddings go by CASCADE, the full-text entry and
\* the mirror by a statement per id.
delete(db, sel, vec) ==
  LET ids == Selected(db.drawers, sel)
      n   == Tick(db, Cardinality(ids)) IN
  [db EXCEPT !.drawers = Without(@, ids), !.embs = Without(@, ids),
             !.vecs = IF vec THEN Without(@, ids) ELSE @,
             !.fts = fts_delete(@, ids),
             !.gen = n, !.back = IF vec THEN n ELSE @]

-----------------------------------------------------------------------------
(* Opening.                                                                *)

\* Mutant: a full-text index that is empty stays so.
Unindexed_none(db) == {}

\* The rows to enter into a full-text index that holds nothing yet.
Unindexed(db) == IF db.fts.docs = {} THEN Ids(db) ELSE {}

install_triggers(db) == [db EXCEPT !.trig = TRUE]

\* DROP and CREATE drawers_vec, fill it with the rows that were read, and
\* note the generation that was read before them.
resync(db, rows, gen) == [db EXCEPT !.vecs = rows, !.back = gen]

-----------------------------------------------------------------------------
(* Queries.                                                                *)

\* query_lexical: the rows the index names for a word, joined to drawers.
query_lexical(db, word) == {i \in Ids(db) : <<i, word>> \in db.fts.post}

\* query_vec: what the mirror ranks, joined to drawers.
query_vec(db) == {<<i, db.vecs[i]>> : i \in Ids(db) \cap DOMAIN db.vecs}

\* query_brute: what the embeddings rank.
query_brute(db) == {<<i, db.embs[i]>> : i \in Ids(db)}

count(db) == Cardinality(Ids(db))
=============================================================================
