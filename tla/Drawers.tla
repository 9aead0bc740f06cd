------------------------------- MODULE Drawers -------------------------------
(***************************************************************************)
(* Processes that share one memory.db: each opens it (Palace::open,        *)
(* SqliteBackend::open), remembers and forgets drawers, or mines a tree of *)
(* files into it.  Every transaction and every statement outside of one is *)
(* a step.  A build has the feature memory-vec or not; both may meet on    *)
(* one file.  An InMemoryBackend that gets the calls SQLite accepts runs   *)
(* beside it.                                                              *)
(***************************************************************************)
EXTENDS InMemoryBackend

CONSTANTS
  Procs, Sources, Bodies, Wings,
  Notes,            \* drawers a caller remembers: [src, body, wing]
  Files,            \* sources that are files of the tree, mined into wing Proj
  Proj,
  NoFile,
  Builds,           \* Builds[p]: the values of memory-vec process p runs with
  FirstTree,        \* what the files hold at first
  Miners,           \* processes that mine
  Legacy,           \* databases of earlier releases the model starts from
  MaxWrites,        \* bound: calls of add and delete
  MaxOpens,         \* bound: opens
  MaxClock,         \* bound: seconds
  MaxEdits          \* bound: edits of files

\* A database of a release before full-text search and the mirror: drawers,
\* one per source and body, and their embeddings.
LegacyDb(d) ==
  /\ IsFiniteSet(Ids(d)) /\ Ids(d) \subseteq Nat \ {0}
  /\ d.drawers \in [Ids(d) -> [src : Sources, body : Bodies, wing : Wings, at : Nat]]
  /\ \A i, j \in Ids(d) : d.drawers[i].src = d.drawers[j].src
                          /\ d.drawers[i].body = d.drawers[j].body => i = j
  /\ d = [EmptyDb EXCEPT !.drawers = d.drawers,
                         !.embs = [i \in Ids(d) |-> d.drawers[i].body]]

ASSUME DrawersAssumption ==
  /\ Miners \subseteq Procs /\ Files \subseteq Sources /\ NoFile \notin Sources /\ Proj \in Wings
  /\ IsFiniteSet(Files)
  /\ \A d \in Legacy : LegacyDb(d)
  /\ Notes \subseteq [src : Sources, body : Bodies, wing : Wings]
  /\ FirstTree \in [Files -> Bodies]
  /\ Builds \in [Procs -> SUBSET BOOLEAN]
  /\ MaxWrites \in Nat /\ MaxOpens \in Nat /\ MaxClock \in Nat /\ MaxEdits \in Nat

VARIABLES
  db, mem,
  conn,             \* local state of every process
  tree,             \* contents of the files
  clock,
  used,             \* counters of the bounds
  past              \* history for the properties; no guard reads it

vars == <<db, mem, conn, tree, clock, used, past>>

\* mine.real and mine.alone are history: rows the run added, and whether no
\* other process has written since it began.
NoMine == [left |-> {}, at |-> NoFile, body |-> NoFile, pre |-> 0, wrote |-> FALSE,
           ins |-> 0, ded |-> 0, real |-> 0, alone |-> TRUE]
Closed == [st |-> "closed", vec |-> FALSE, todo |-> {}, gen |-> 0,
           snap |-> NoEntries, mine |-> NoMine]

\* The in-memory palace that holds the same drawers.
Copy(d) ==
  [next_id |-> NextRowid(d) - 1, rows |-> d.drawers,
   sha_index |-> [k \in {<<d.drawers[i].src, d.drawers[i].body>> : i \in Ids(d)} |->
     CHOOSE i \in Ids(d) : k = <<d.drawers[i].src, d.drawers[i].body>>]]

Init ==
  /\ db \in {EmptyDb} \cup Legacy
  /\ mem = Copy(db)
  /\ conn = [p \in Procs |-> Closed]
  /\ tree = FirstTree
  /\ clock = 0
  /\ used = [writes |-> 0, opens |-> 0, edits |-> 0]
  /\ past = [hidden |-> FALSE, torn |-> FALSE]

-----------------------------------------------------------------------------
(* Opening the database.                                                   *)

\* The schema, and the rows to backfill if the full-text index is empty.
Open(p, vec) ==
  /\ conn[p].st = "closed"
  /\ used.opens < MaxOpens /\ used' = [used EXCEPT !.opens = @ + 1]
  /\ conn' = [conn EXCEPT ![p] = [Closed EXCEPT !.st = "filling", !.vec = vec,
                !.todo = {<<i, db.drawers[i].body>> : i \in Unindexed(db)}]]
  /\ UNCHANGED <<db, mem, tree, clock, past>>

\* One INSERT of the backfill: each commits on its own.
Fill(p, e) ==
  /\ conn[p].st = "filling" /\ e \in conn[p].todo
  /\ db' = [db EXCEPT !.fts = fts_insert(@, e[1], e[2])]
  /\ conn' = [conn EXCEPT ![p].todo = @ \ {e}]
  /\ UNCHANGED <<mem, tree, clock, used, past>>

Opened(p) ==
  /\ conn[p].st = "filling" /\ conn[p].todo = {}
  /\ IF conn[p].vec
       THEN db' = install_triggers(db) /\ conn' = [conn EXCEPT ![p].st = "probing"]
       ELSE db' = db /\ conn' = [conn EXCEPT ![p].st = "open"]
  /\ UNCHANGED <<mem, tree, clock, used, past>>

\* The two generations are compared; only a difference leads to a resync.
Probe(p) ==
  /\ conn[p].st = "probing"
  /\ conn' = [conn EXCEPT ![p].gen = db.gen,
                ![p].st = IF db.back # db.gen THEN "reading" ELSE "open"]
  /\ UNCHANGED <<db, mem, tree, clock, used, past>>

ReadEmbeddings(p) ==
  /\ conn[p].st = "reading"
  /\ conn' = [conn EXCEPT ![p].snap = db.embs, ![p].st = "syncing"]
  /\ UNCHANGED <<db, mem, tree, clock, used, past>>

\* Mutant: the generation is read again at the end of the transaction.
ResyncLate(p) ==
  /\ conn[p].st = "syncing"
  /\ db' = resync(db, conn[p].snap, db.gen)
  /\ conn' = [conn EXCEPT ![p].snap = NoEntries, ![p].gen = 0, ![p].st = "open"]
  /\ UNCHANGED <<mem, tree, clock, used, past>>

Resync(p) ==
  /\ conn[p].st = "syncing"
  /\ db' = resync(db, conn[p].snap, conn[p].gen)
  /\ conn' = [conn EXCEPT ![p].snap = NoEntries, ![p].gen = 0, ![p].st = "open"]
  /\ UNCHANGED <<mem, tree, clock, used, past>>

\* The process ends or dies.
Close(p) ==
  /\ conn[p].st # "closed"
  /\ past' = [past EXCEPT !.torn = @ \/ conn[p].todo # {}]
  /\ conn' = [conn EXCEPT ![p] = Closed]
  /\ UNCHANGED <<db, mem, tree, clock, used>>

-----------------------------------------------------------------------------
(* Remembering and forgetting.                                             *)

\* What a transaction of p that commits does to everybody else.
Written(p) ==
  /\ used.writes < MaxWrites /\ used' = [used EXCEPT !.writes = @ + 1]
  /\ past' = [past EXCEPT !.hidden = @ \/ (conn[p].vec /\ db.back # db.gen)]

Distract(c, p) ==
  [q \in Procs |-> IF q = p THEN c[q] ELSE [c[q] EXCEPT !.mine.alone = FALSE]]

Idle(p) == conn[p].st = "open" /\ conn[p].mine.left = {} /\ conn[p].mine.at = NoFile

Add(p, d) ==
  /\ ~add_fails(db, d, conn[p].vec)
  /\ db' = add(db, d, clock, conn[p].vec)
  /\ mem' = mem_add(mem, d, clock)
  /\ Written(p)

Remember(p, d) ==
  /\ Idle(p)
  /\ Add(p, d)
  /\ conn' = Distract(conn, p)
  /\ UNCHANGED <<tree, clock>>

Selectors ==
       {[by |-> "all"]} \cup {[by |-> "id", id |-> i] : i \in Ids(db)}
  \cup {[by |-> "source", src |-> s] : s \in Sources}
  \cup {[by |-> "before", wing |-> w, before |-> clock] : w \in Wings}

\* The same selection in the other backend, which numbers its rows itself.
InMem(sel) ==
  IF sel.by # "id" THEN sel
  ELSE [by |-> "id", id |-> mem.sha_index[<<db.drawers[sel.id].src, db.drawers[sel.id].body>>]]

\* Palace::delete, and forget, whose VACUUM changes no row.
Forget(p, sel) ==
  /\ Idle(p)
  /\ ~delete_fails(db, sel)
  /\ db' = delete(db, sel, conn[p].vec)
  /\ mem' = mem_delete(mem, InMem(sel))
  /\ Written(p)
  /\ conn' = Distract(conn, p)
  /\ UNCHANGED <<tree, clock>>

-----------------------------------------------------------------------------
(* Mining a tree of files.                                                 *)

Mine(p) ==
  /\ Idle(p) /\ p \in Miners /\ Files # {}
  /\ conn' = [conn EXCEPT ![p].mine = [NoMine EXCEPT !.left = Files]]
  /\ UNCHANGED <<db, mem, tree, clock, used, past>>

\* A file is read and the drawers are counted.
MineFile(p, s) ==
  LET m == conn[p].mine IN
  /\ m.at = NoFile /\ s \in m.left
  /\ conn' = [conn EXCEPT ![p].mine = [m EXCEPT !.left = @ \ {s}, !.at = s,
                !.body = tree[s], !.pre = count(db), !.wrote = FALSE]]
  /\ UNCHANGED <<db, mem, tree, clock, used, past>>

MineAdd(p) ==
  LET m == conn[p].mine
      d == [src |-> m.at, body |-> m.body, wing |-> Proj] IN
  /\ m.at # NoFile /\ ~m.wrote
  /\ Add(p, d)
  /\ conn' = [Distract(conn, p) EXCEPT ![p].mine =
                [m EXCEPT !.wrote = TRUE, !.real = @ + count(db') - count(db)]]
  /\ UNCHANGED <<tree, clock>>

\* Mutant: the drawers are counted before the insert only.
MineUncounted(p) ==
  LET m == conn[p].mine IN
  /\ m.at # NoFile /\ m.wrote
  /\ conn' = [conn EXCEPT ![p].mine = [m EXCEPT !.at = NoFile, !.body = NoFile,
       !.pre = 0, !.ins = @ + 1]]
  /\ UNCHANGED <<db, mem, tree, clock, used, past>>

\* They are counted again: more than before makes it an insert.
MineCount(p) ==
  LET m == conn[p].mine
      new == count(db) > m.pre IN
  /\ m.at # NoFile /\ m.wrote
  /\ conn' = [conn EXCEPT ![p].mine = [m EXCEPT !.at = NoFile, !.body = NoFile,
       !.pre = 0, !.ins = IF new THEN @ + 1 ELSE @, !.ded = IF new THEN @ ELSE @ + 1]]
  /\ UNCHANGED <<db, mem, tree, clock, used, past>>

-----------------------------------------------------------------------------
Edit(s, b) ==
  /\ used.edits < MaxEdits /\ used' = [used EXCEPT !.edits = @ + 1]
  /\ b # tree[s] /\ tree' = [tree EXCEPT ![s] = b]
  /\ UNCHANGED <<db, mem, conn, clock, past>>

Pass ==
  /\ clock < MaxClock /\ clock' = clock + 1
  /\ UNCHANGED <<db, mem, conn, tree, used, past>>

Next ==
  \/ \E p \in Procs :
       \/ \E vec \in Builds[p] : Open(p, vec)
       \/ \E e \in conn[p].todo : Fill(p, e)
       \/ Opened(p) \/ Probe(p) \/ ReadEmbeddings(p) \/ Resync(p) \/ Close(p)
       \/ \E d \in Notes : Remember(p, d)
       \/ \E sel \in Selectors : Forget(p, sel)
       \/ Mine(p) \/ MineAdd(p) \/ MineCount(p)
       \/ \E s \in Files : MineFile(p, s)
  \/ \E s \in Files, b \in Bodies : Edit(s, b)
  \/ Pass

Spec == Init /\ [][Next]_vars

-----------------------------------------------------------------------------
(* Properties.                                                             *)

Keyed(rows) ==
  [k \in {<<rows[i].src, rows[i].body>> : i \in DOMAIN rows} |->
     LET i == CHOOSE j \in DOMAIN rows : k = <<rows[j].src, rows[j].body>>
     IN [wing |-> rows[i].wing, at |-> rows[i].at, id |-> i]]

\* "Dedup keyed on (source_id, sha256(body))": no two rows of a backend are
\* the same drawer, and the in-memory index names exactly its rows.
OneRowPerDrawer ==
  /\ \A i, j \in Ids(db) : i # j =>
       <<db.drawers[i].src, db.drawers[i].body>> # <<db.drawers[j].src, db.drawers[j].body>>
  /\ \A i \in DOMAIN mem.rows : mem.sha_index[<<mem.rows[i].src, mem.rows[i].body>>] = i
  /\ Cardinality(DOMAIN mem.sha_index) = Cardinality(DOMAIN mem.rows)

\* Both backends keep the promises of a palace: INSERT, dedup and the four
\* selectors do to the set of drawers what DrawerStore says, and the set
\* leaves no row of a backend out.
Durable   == INSTANCE DrawerStore WITH live <- Keyed(db.drawers)
Ephemeral == INSTANCE DrawerStore WITH live <- Keyed(mem.rows)
ImplementsStore == Durable!Spec /\ Ephemeral!Spec /\ []OneRowPerDrawer

\* The two backends answer a word alike as far as drawers go that exist in
\* both: whatever the in-memory one finds, SQLite's full-text index finds,
\* once nobody is backfilling it and no backfill has died half-way.
Filled == ~past.torn /\ \A p \in Procs : conn[p].todo = {}
LexicalComplete ==
  Filled /\ (\E p \in Procs : conn[p].st \notin {"closed", "filling"}) =>
    /\ \A b \in Bodies :
         {<<mem.rows[i].src, b>> : i \in mem_query_lexical(mem, b)}
           \subseteq {<<db.drawers[i].src, db.drawers[i].body>> : i \in query_lexical(db, b)}
    /\ Ids(db) \subseteq db.fts.docs
    /\ Cardinality(Ids(db)) <= db.fts.total

\* As long as the generations agree, a search of the sqlite-vec mirror ranks
\* what a search of the embeddings themselves would, and the mirror holds no
\* id that a new drawer could collide with; unless a write of a vec build
\* that came upon a difference has moved the pointer over it.
StaleMirrorIsNoticed ==
  \/ query_vec(db) = query_brute(db) /\ DOMAIN db.vecs \subseteq Ids(db)
  \/ db.back # db.gen
  \/ past.hidden

\* What a mining run reports as inserted is what it added, as long as no
\* other process has written meanwhile.
MineReportTrue ==
  \A p \in Procs : LET m == conn[p].mine IN
    m.alone /\ m.at = NoFile => m.ins = m.real /\ m.ins + m.ded <= Cardinality(Files)

=============================================================================
