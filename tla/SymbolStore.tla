---------------------------- MODULE SymbolStore ----------------------------
(***************************************************************************)
(* The tables of .crabcc/index.db and the operations of crabcc_core::store *)
(* that write them.  Every operator below that primes the tables is ONE    *)
(* SQLite transaction (or one autocommitted statement): other connections  *)
(* see the state before it or the state after it.                          *)
(*                                                                         *)
(* Data is abstracted to what the index's promises tell apart.  A source   *)
(* text is a member of Contents and stands for its own sha256; what the    *)
(* extractor finds in it is Defs (names defined) and Calls (pairs of the   *)
(* enclosing definition and the bare name called).  A symbol row is the    *)
(* pair <<id of its file row, name>>, so several definitions of one name   *)
(* in one file are one row; an edge is a pair of symbol rows, line and     *)
(* kind left out.                                                          *)
(***************************************************************************)
EXTENDS Integers, FiniteSets, FiniteSetsExt

CONSTANTS
  Paths,        \* repo-relative paths of the files the walker can yield
  Names,        \* symbol names
  Contents,     \* source texts, each its own sha256
  Defs,         \* Defs[c]: names a text defines
  Calls,        \* Calls[c]: <<enclosing definition, callee>> pairs in a text
  Anchor,       \* the "<unresolved>" path of the synthetic file row
  NoContent     \* "no such file" on disk; also the sha "0" of the anchor

ASSUME StoreAssumption ==
  /\ Anchor \notin Paths
  /\ NoContent \notin Contents
  /\ Defs \in [Contents -> SUBSET Names]
  /\ Calls \in [Contents -> SUBSET (Names \X Names)]

VARIABLES
  files,        \* path -> [id, sha, mtime], defined on the indexed paths
  symbols,      \* set of <<file id, name>>
  edges,        \* set of <<source symbol, target symbol>>
  unresolved,   \* unresolved_names: the symbols that are sentinels
  meta          \* the two boolean rows of the meta table

tables == <<files, symbols, edges, unresolved>>
store  == <<files, symbols, edges, unresolved, meta>>

RowPaths == Paths \cup {Anchor}
RowId    == Nat \ {0}
Row      == [id : RowId, sha : Contents \cup {NoContent}, mtime : Nat]
Symbol   == RowId \X Names
Meta     == [edges_populated : BOOLEAN, schema_v4_built : BOOLEAN]

NoRows   == [q \in {} |-> NoContent]

EmptyStore ==
  /\ files = NoRows
  /\ symbols = {}
  /\ edges = {}
  /\ unresolved = {}
  /\ meta = [edges_populated |-> FALSE, schema_v4_built |-> FALSE]

-----------------------------------------------------------------------------
(* Reading the tables.                                                     *)

RowIds       == {files[q].id : q \in DOMAIN files}
\* INTEGER PRIMARY KEY without AUTOINCREMENT: one more than the largest id
\* in the table, so the id of a deleted last row is handed out again.
NextRowId    == IF RowIds = {} THEN 1 ELSE Max(RowIds) + 1
SymbolsOf(i) == {s \in symbols : s[1] = i}
Named(n)     == {s \in symbols : s[2] = n}
list_files   == DOMAIN files \ {Anchor}
\* Store::callers_of: <<caller's path, caller's name>> of every edge whose
\* target row is named n, whichever file that row belongs to.
PathOf(i)      == CHOOSE q \in DOMAIN files : files[q].id = i
callers_of(n)  == {<<PathOf(e[1][1]), e[1][2]>> : e \in {d \in edges : d[2][2] = n}}

-----------------------------------------------------------------------------
(* Writing the tables.                                                     *)

\* The foreign keys' ON DELETE CASCADE: symbols go with their file row,
\* edges with either end, an unresolved_names row with its symbol.
CascadeSymbols(gone) ==
  /\ symbols' = symbols \ gone
  /\ edges' = {e \in edges : e[1] \notin gone /\ e[2] \notin gone}
  /\ unresolved' = unresolved \ gone

\* INSERT .. ON CONFLICT(path) DO UPDATE .. RETURNING id.
RowIdFor(path) == IF path \in DOMAIN files THEN files[path].id ELSE NextRowId

WithRow(path, sha, mtime) ==
  [q \in DOMAIN files \cup {path} |->
     IF q = path THEN [id |-> RowIdFor(path), sha |-> sha, mtime |-> mtime]
                 ELSE files[q]]

upsert_file(path, sha, mtime) ==
  /\ files' = WithRow(path, sha, mtime)
  /\ UNCHANGED <<symbols, edges, unresolved, meta>>

\* Mutant: a connection without PRAGMA foreign_keys.
UncheckedForeignKey(fid, c) == TRUE

\* Inserting a symbol needs the file row to exist; without it the foreign
\* key fails and the transaction rolls back.
CanReplaceSymbols(fid, c) == Defs[c] = {} \/ fid \in RowIds

\* Mutant: the INSERTs without the DELETE before them.
append_symbols(fid, c) ==
  /\ CanReplaceSymbols(fid, c)
  /\ symbols' = symbols \cup {<<fid, n>> : n \in Defs[c]}
  /\ UNCHANGED <<files, edges, unresolved, meta>>

replace_symbols(fid, c) ==
  LET gone == SymbolsOf(fid) IN
  /\ CanReplaceSymbols(fid, c)
  /\ symbols' = (symbols \ gone) \cup {<<fid, n>> : n \in Defs[c]}
  /\ edges' = {e \in edges : e[1] \notin gone /\ e[2] \notin gone}
  /\ unresolved' = unresolved \ gone
  /\ UNCHANGED <<files, meta>>

\* Calls whose enclosing definition is a symbol of this file row; the others
\* cannot satisfy the NOT NULL source column and are dropped.
KeptCalls(fid, c) == {x \in Calls[c] : <<fid, x[1]>> \in symbols}
Callees(fid, c)   == {x[2] : x \in KeptCalls(fid, c)}
Unknown(fid, c)   == {n \in Callees(fid, c) : Named(n) = {}}
\* Mutant: last_insert_rowid() in place of RETURNING id.
SentinelUnderLastRow(n) == <<Max(RowIds), n>>
SentinelFor(n)    == <<RowIdFor(Anchor), n>>

\* Bare-name resolution: SELECT id .. WHERE name = ? LIMIT 1 returns some row
\* of that name, in any file, a sentinel included; a name with no row gets
\* one under the anchor file (upsert_unresolved_sentinel).
Resolutions(fid, c) ==
  {dst \in [Callees(fid, c) -> symbols \cup {SentinelFor(n) : n \in Unknown(fid, c)}] :
     \A n \in Callees(fid, c) :
        IF n \in Unknown(fid, c) THEN dst[n] = SentinelFor(n) ELSE dst[n] \in Named(n)}

replace_edges(fid, c) ==
  \E dst \in Resolutions(fid, c) :
    LET sentinels == {SentinelFor(n) : n \in Unknown(fid, c)} IN
    /\ files' = IF sentinels = {} THEN files ELSE WithRow(Anchor, NoContent, 0)
    /\ symbols' = symbols \cup sentinels
    /\ unresolved' = unresolved \cup sentinels
    /\ edges' = {e \in edges : e[1] \notin SymbolsOf(fid)}
                  \cup {<< <<fid, x[1]>>, dst[x[2]] >> : x \in KeptCalls(fid, c)}
    /\ UNCHANGED meta

touch_mtime(path, mtime) ==
  /\ files' = IF path \in DOMAIN files THEN [files EXCEPT ![path].mtime = mtime] ELSE files
  /\ UNCHANGED <<symbols, edges, unresolved, meta>>

\* The anchor row is exempt: a refresh never sees it on disk.
delete_file(path) ==
  /\ IF path \in DOMAIN files /\ path # Anchor
       THEN /\ files' = [q \in DOMAIN files \ {path} |-> files[q]]
            /\ CascadeSymbols(SymbolsOf(files[path].id))
       ELSE UNCHANGED tables
  /\ UNCHANGED meta

\* Mutant: a full_index that upserts over the old rows.
keep_all == UNCHANGED <<tables, meta>>

clear_all ==
  /\ files' = NoRows
  /\ CascadeSymbols(symbols)
  /\ UNCHANGED meta

meta_set(key) ==
  /\ meta' = [meta EXCEPT ![key] = TRUE]
  /\ UNCHANGED tables

\* The database file removed and created anew.
fresh_db ==
  /\ files' = NoRows
  /\ symbols' = {}
  /\ edges' = {}
  /\ unresolved' = {}
  /\ meta' = [edges_populated |-> FALSE, schema_v4_built |-> FALSE]

needs_reindex == files # NoRows /\ ~meta.schema_v4_built

-----------------------------------------------------------------------------
(* What the tables promise.                                                *)

StoreTypeOK ==
  /\ DOMAIN files \subseteq RowPaths
  /\ files \in [DOMAIN files -> Row]
  /\ symbols \subseteq Symbol
  /\ edges \subseteq Symbol \X Symbol
  /\ unresolved \subseteq Symbol
  /\ meta \in Meta

\* Every row a foreign key names exists, and no two file rows share an id:
\* the contract the schema's PRIMARY KEY / REFERENCES / CASCADE clauses state.
RefIntegrity ==
  /\ \A p, q \in DOMAIN files : files[p].id = files[q].id => p = q
  /\ \A s \in symbols : s[1] \in RowIds
  /\ \A e \in edges : e[1] \in symbols /\ e[2] \in symbols
  /\ unresolved \subseteq symbols

\* "One sentinel symbol row per unique name" (schema/001_init.sql): all of
\* them hang off the anchor row, so one name never has two.
SentinelsAnchored ==
  unresolved # {} =>
    /\ Anchor \in DOMAIN files
    /\ \A s \in unresolved : s[1] = files[Anchor].id

=============================================================================
