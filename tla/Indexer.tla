------------------------------ MODULE Indexer ------------------------------
(***************************************************************************)
(* The processes that write the index: crabcc_core::index (full_index,     *)
(* refresh_delta), the CLI commands and MCP tools that call them, the      *)
(* auto-index of a first lookup and the file watcher.  Every process has   *)
(* its own SQLite connection; one action is one transaction, one file      *)
(* system call or one decision, so processes interleave wherever the code  *)
(* lets them, and the user edits files between any two steps.              *)
(***************************************************************************)
EXTENDS SymbolStore

CONSTANTS
  Indexers,     \* processes that open the index
  Commands,     \* the commands they are started with, a subset of AllCommands
  Unindexable,  \* texts the indexer skips: too large, not UTF-8, unparsable
  CoarseClock,  \* TRUE: two edits may fall in the same second
  MaxNow,       \* bound: last second of the run
  MaxFailures   \* bound: crashes and failed statements

CLICommands == {"index", "refresh", "lookup", "watch"}
MCPTools    == {"mcp_index", "mcp_refresh"}
AllCommands == CLICommands \cup MCPTools

ASSUME IndexerAssumption ==
  /\ Commands \subseteq AllCommands
  /\ Unindexable \subseteq Contents
  /\ CoarseClock \in BOOLEAN
  /\ MaxNow \in Nat
  /\ MaxFailures \in Nat

VARIABLES
  disk,         \* what each path holds, NoContent if there is no such file
  written,      \* the mtime of each path, in seconds
  now,          \* the clock, in seconds
  ix,           \* the state of every indexing process
  failures      \* crashes so far

env  == <<disk, written, now>>
vars == <<store, env, ix, failures>>

NoMtime == -1   \* extracted, its mtime not read yet
Stages ==
  {"idle", "ready", "extract", "upsert", "symbols", "edges", "flag", "mark",
   "walk", "read", "touch", "sweep", "watch", "done", "orphan"}
NoFile == [path |-> Anchor, sha |-> NoContent, mtime |-> 0, fid |-> 0]
Idle ==
  [pc |-> "idle", job |-> "idle",
   phase |-> "none",     \* "wipe", "build" or "refresh": where a written file returns to
   todo |-> {},          \* paths the walk has not come to
   snap |-> NoRows,      \* refresh: list_files_with_meta at its start
   seen |-> {},          \* refresh: paths met on disk
   ext |-> NoRows,       \* full_index: extracted and not written yet
   cur |-> NoFile,       \* the file being written
   removed |-> {},       \* RefreshDelta.removed
   pending |-> FALSE,    \* watch: an undelivered file event
   stale |-> {}]         \* history: paths edited since the command looked

Init ==
  /\ EmptyStore
  /\ disk \in [Paths -> Contents \cup {NoContent}]
  /\ written = [f \in Paths |-> 1]
  /\ now = 1
  /\ ix = [p \in Indexers |-> Idle]
  /\ failures = 0

Goto(p, l) == ix' = [ix EXCEPT ![p].pc = l]

-----------------------------------------------------------------------------
(* The user and the clock.  Every process that is at work on the tree notes *)
(* the edit in `stale' (history, for the properties); a watcher also gets a *)
(* file event.                                                             *)

Noticed(f) ==
  [p \in Indexers |->
     IF ix[p].pc \in {"idle", "orphan"} THEN ix[p]
     ELSE [ix[p] EXCEPT !.stale = @ \cup {f},
                        !.pending = (ix[p].job = "watch" /\ ix[p].phase = "refresh")]]

Edit(f, c) ==
  /\ c # NoContent \/ disk[f] # NoContent
  /\ \E t \in IF CoarseClock THEN {now, now + 1} ELSE {now + 1} :
       /\ t <= MaxNow
       /\ now' = t
       /\ written' = [written EXCEPT ![f] = t]
  /\ disk' = [disk EXCEPT ![f] = c]
  /\ ix' = Noticed(f)
  /\ UNCHANGED <<store, failures>>

-----------------------------------------------------------------------------
(* Starting a command.  The CLI looks at needs_reindex when it opens the    *)
(* store: it then removes the database file, opens a new one and runs       *)
(* full_index before the command itself.  A process that had the old file   *)
(* open keeps writing to the removed file from then on (an orphan).  The    *)
(* MCP server opens the store without that check.                          *)

Orphaned ==
  [q \in Indexers |-> IF ix[q].pc = "idle" THEN ix[q] ELSE [Idle EXCEPT !.pc = "orphan"]]

StartCli(p, job) ==
  /\ ix[p].pc = "idle"
  /\ job \in Commands \cap CLICommands
  /\ ~needs_reindex
  /\ ix' = [ix EXCEPT ![p] = [Idle EXCEPT !.pc = "ready", !.job = job]]
  /\ UNCHANGED <<store, env, failures>>

\* full_index on the new file: its clear_all finds nothing to clear.
WipeAndRebuild(p, job) ==
  /\ ix[p].pc = "idle"
  /\ job \in Commands \cap CLICommands
  /\ needs_reindex
  /\ fresh_db
  /\ ix' = [Orphaned EXCEPT ![p] =
              [Idle EXCEPT !.pc = "extract", !.job = job, !.phase = "wipe",
                           !.todo = {f \in Paths : disk[f] # NoContent}]]
  /\ UNCHANGED <<env, failures>>

StartMcp(p, job) ==
  /\ ix[p].pc = "idle"
  /\ job \in Commands \cap MCPTools
  /\ ix' = [ix EXCEPT ![p] = [Idle EXCEPT !.pc = "ready", !.job = job]]
  /\ UNCHANGED <<store, env, failures>>

\* A process that finished its command, or whose database is gone, exits.
Exit(p) ==
  /\ ix[p].pc \in {"done", "orphan"}
  /\ ix' = [ix EXCEPT ![p] = Idle]
  /\ UNCHANGED <<store, env, failures>>

-----------------------------------------------------------------------------
(* full_index.                                                             *)

\* `index' always rebuilds; `lookup' only when list_files is empty
\* (auto_index::ensure_indexed).  The walk is collected before any read.
StartFull(p) ==
  /\ ix[p].pc = "ready"
  /\ \/ ix[p].job \in {"index", "mcp_index"}
     \/ ix[p].job = "lookup" /\ list_files = {}
  /\ clear_all
  /\ ix' = [ix EXCEPT ![p].pc = "extract", ![p].phase = "build", ![p].stale = {},
                      ![p].todo = {f \in Paths : disk[f] # NoContent}]
  /\ UNCHANGED <<env, failures>>

\* The lookup of an indexed project only reads.
ServeLookup(p) ==
  /\ ix[p].pc = "ready"
  /\ ix[p].job = "lookup"
  /\ list_files # {}
  /\ Goto(p, "done")
  /\ UNCHANGED <<store, env, failures>>

\* Phase 1, in parallel over the files: the bytes are read first ...
ReadForBuild(p, f) ==
  /\ ix[p].pc = "extract"
  /\ f \in ix[p].todo
  /\ ix' = [ix EXCEPT
       ![p].todo = @ \ {f},
       ![p].ext = IF disk[f] \in Contents \ Unindexable
                    THEN [q \in DOMAIN @ \cup {f} |->
                            IF q = f THEN [sha |-> disk[f], mtime |-> NoMtime] ELSE @[q]]
                    ELSE @]
  /\ UNCHANGED <<store, env, failures>>

\* ... and the file is stat'ed afterwards (0 when it has gone meanwhile).
StatForBuild(p, f) ==
  /\ ix[p].pc = "extract"
  /\ f \in DOMAIN ix[p].ext
  /\ ix[p].ext[f].mtime = NoMtime
  /\ ix' = [ix EXCEPT ![p].ext[f].mtime = IF disk[f] = NoContent THEN 0 ELSE written[f]]
  /\ UNCHANGED <<store, env, failures>>

\* Mutant: the write loop starts before the last file is stat'ed.
ExtractedOrNot(p) ==
  /\ ix[p].pc = "extract"
  /\ ix[p].todo = {}

Extracted(p) ==
  /\ ix[p].pc = "extract"
  /\ ix[p].todo = {}
  /\ \A f \in DOMAIN ix[p].ext : ix[p].ext[f].mtime # NoMtime

\* Phase 2: one extracted file at a time, three transactions each.
PickExtracted(p, f) ==
  /\ Extracted(p)
  /\ f \in DOMAIN ix[p].ext
  /\ ix' = [ix EXCEPT
       ![p].pc = "upsert",
       ![p].ext = [q \in DOMAIN @ \ {f} |-> @[q]],
       ![p].cur = [path |-> f, sha |-> ix[p].ext[f].sha, mtime |-> ix[p].ext[f].mtime, fid |-> 0]]
  /\ UNCHANGED <<store, env, failures>>

EndWrites(p) ==
  /\ Extracted(p)
  /\ ix[p].ext = NoRows
  /\ Goto(p, "flag")
  /\ UNCHANGED <<store, env, failures>>

FlagEdges(p) ==
  /\ ix[p].pc = "flag"
  /\ meta_set("edges_populated")
  /\ Goto(p, IF ix[p].job = "mcp_index" THEN "done" ELSE "mark")
  /\ UNCHANGED <<env, failures>>

\* After the rebuild that opening the store asked for comes the command
\* itself; a command's own full_index is its last step.
MarkBuilt(p) ==
  /\ ix[p].pc = "mark"
  /\ meta_set("schema_v4_built")
  /\ Goto(p, IF ix[p].phase = "wipe" THEN "ready" ELSE "done")
  /\ UNCHANGED <<env, failures>>

-----------------------------------------------------------------------------
(* refresh_delta.                                                          *)

\* `watch' registers with the file system and waits; the refresh commands
\* start at once.  The stored rows are read once, at the start.
StartWatch(p) ==
  /\ ix[p].pc = "ready"
  /\ ix[p].job = "watch"
  /\ ix' = [ix EXCEPT ![p].pc = "watch", ![p].phase = "refresh"]
  /\ UNCHANGED <<store, env, failures>>

StartRefresh(p) ==
  /\ \/ ix[p].pc = "ready" /\ ix[p].job \in {"refresh", "mcp_refresh"}
     \/ ix[p].pc = "watch" /\ ix[p].pending
  /\ ix' = [ix EXCEPT ![p].pc = "walk", ![p].phase = "refresh", ![p].pending = FALSE,
                      ![p].snap = files, ![p].todo = Paths, ![p].seen = {},
                      ![p].removed = {}, ![p].stale = {}]
  /\ UNCHANGED <<store, env, failures>>

Stored(p, f) == f \in DOMAIN ix[p].snap

\* The lazy walk comes to f: gone, or stat'ed and compared with the row.
VisitGone(p, f) ==
  /\ ix[p].pc = "walk"
  /\ f \in ix[p].todo
  /\ disk[f] = NoContent
  /\ ix' = [ix EXCEPT ![p].todo = @ \ {f}]
  /\ UNCHANGED <<store, env, failures>>

VisitUnchanged(p, f) ==
  /\ ix[p].pc = "walk"
  /\ f \in ix[p].todo
  /\ disk[f] # NoContent
  /\ Stored(p, f) /\ ix[p].snap[f].mtime = written[f]
  /\ ix' = [ix EXCEPT ![p].todo = @ \ {f}, ![p].seen = @ \cup {f}]
  /\ UNCHANGED <<store, env, failures>>

\* Mutant: seen_paths collects the unchanged files only.
VisitChangedUnseen(p, f) ==
  /\ ix[p].pc = "walk"
  /\ f \in ix[p].todo
  /\ disk[f] # NoContent
  /\ ~(Stored(p, f) /\ ix[p].snap[f].mtime = written[f])
  /\ ix' = [ix EXCEPT ![p].todo = @ \ {f}, ![p].pc = "read",
                      ![p].cur = [NoFile EXCEPT !.path = f, !.mtime = written[f]]]
  /\ UNCHANGED <<store, env, failures>>

VisitChanged(p, f) ==
  /\ ix[p].pc = "walk"
  /\ f \in ix[p].todo
  /\ disk[f] # NoContent
  /\ ~(Stored(p, f) /\ ix[p].snap[f].mtime = written[f])
  /\ ix' = [ix EXCEPT ![p].todo = @ \ {f}, ![p].seen = @ \cup {f}, ![p].pc = "read",
                      ![p].cur = [NoFile EXCEPT !.path = f, !.mtime = written[f]]]
  /\ UNCHANGED <<store, env, failures>>

\* The bytes are read after the stat: skipped, same hash, or to be written.
ReadChanged(p) ==
  LET f == ix[p].cur.path
      same == Stored(p, f) /\ ix[p].snap[f].sha = disk[f] IN
  /\ ix[p].pc = "read"
  /\ ix' = [ix EXCEPT
       ![p].cur.sha = disk[f],
       ![p].pc = CASE same -> "touch"
                   [] ~same /\ disk[f] \in Contents \ Unindexable -> "upsert"
                   [] OTHER -> "walk"]
  /\ UNCHANGED <<store, env, failures>>

TouchFile(p) ==
  /\ ix[p].pc = "touch"
  /\ touch_mtime(ix[p].cur.path, ix[p].cur.mtime)
  /\ Goto(p, "walk")
  /\ UNCHANGED <<env, failures>>

EndWalk(p) ==
  /\ ix[p].pc = "walk"
  /\ ix[p].todo = {}
  /\ Goto(p, "sweep")
  /\ UNCHANGED <<store, env, failures>>

\* Rows of the snapshot whose path was not met: deleted and reported.
Gone(p) == (DOMAIN ix[p].snap \ ix[p].seen) \ ix[p].removed

DeleteGone(p, f) ==
  /\ ix[p].pc = "sweep"
  /\ f \in Gone(p)
  /\ delete_file(f)
  /\ ix' = [ix EXCEPT ![p].removed = @ \cup {f}]
  /\ UNCHANGED <<env, failures>>

\* Mutant: the watcher empties its channel after the refresh.
EndRefreshDraining(p) ==
  /\ ix[p].pc = "sweep"
  /\ Gone(p) = {}
  /\ ix' = [ix EXCEPT ![p].pc = IF ix[p].job = "watch" THEN "watch" ELSE "done",
                      ![p].pending = FALSE]
  /\ UNCHANGED <<store, env, failures>>

EndRefresh(p) ==
  /\ ix[p].pc = "sweep"
  /\ Gone(p) = {}
  /\ Goto(p, IF ix[p].job = "watch" THEN "watch" ELSE "done")
  /\ UNCHANGED <<store, env, failures>>

-----------------------------------------------------------------------------
(* Writing one file: the three transactions of persist_file and of the     *)
(* write loop of build_index.                                              *)

\* Mutant: the row gets the time of the write for its mtime.
UpsertFileNow(p) ==
  LET c == ix[p].cur IN
  /\ ix[p].pc = "upsert"
  /\ upsert_file(c.path, c.sha, now)
  /\ ix' = [ix EXCEPT ![p].pc = "symbols", ![p].cur.fid = RowIdFor(c.path)]
  /\ UNCHANGED <<env, failures>>

UpsertFile(p) ==
  LET c == ix[p].cur IN
  /\ ix[p].pc = "upsert"
  /\ upsert_file(c.path, c.sha, c.mtime)
  /\ ix' = [ix EXCEPT ![p].pc = "symbols", ![p].cur.fid = RowIdFor(c.path)]
  /\ UNCHANGED <<env, failures>>

ReplaceSymbols(p) ==
  /\ ix[p].pc = "symbols"
  /\ replace_symbols(ix[p].cur.fid, ix[p].cur.sha)
  /\ Goto(p, "edges")
  /\ UNCHANGED <<env, failures>>

ReplaceEdges(p) ==
  /\ ix[p].pc = "edges"
  /\ replace_edges(ix[p].cur.fid, ix[p].cur.sha)
  /\ Goto(p, IF ix[p].phase = "refresh" THEN "walk" ELSE "extract")
  /\ UNCHANGED <<env, failures>>

-----------------------------------------------------------------------------
(* Failure.  What was committed stays.                                     *)

\* A command's error ends its process; the watcher logs it and waits for the
\* next event (run_refresh).
GiveUp(p) ==
  ix' = IF ix[p].job = "watch" /\ ix[p].phase = "refresh"
          THEN [ix EXCEPT ![p].pc = "watch"] ELSE [ix EXCEPT ![p] = Idle]

\* The file row was deleted under the process: the foreign key fails.
SymbolsRejected(p) ==
  /\ ix[p].pc = "symbols"
  /\ ~CanReplaceSymbols(ix[p].cur.fid, ix[p].cur.sha)
  /\ GiveUp(p)
  /\ UNCHANGED <<store, env, failures>>

\* A statement fails (the database stays locked for longer than busy_timeout).
Error(p) ==
  /\ failures < MaxFailures
  /\ ix[p].pc \in {"upsert", "symbols", "edges", "touch", "sweep", "flag", "mark"}
  /\ GiveUp(p)
  /\ failures' = failures + 1
  /\ UNCHANGED <<store, env>>

\* The process is killed.
Crash(p) ==
  /\ failures < MaxFailures
  /\ ix[p].pc \notin {"idle", "orphan"}
  /\ ix' = [ix EXCEPT ![p] = Idle]
  /\ failures' = failures + 1
  /\ UNCHANGED <<store, env>>

-----------------------------------------------------------------------------
Start(p) == \E job \in Commands : StartCli(p, job) \/ WipeAndRebuild(p, job) \/ StartMcp(p, job)

Write(p) == UpsertFile(p) \/ ReplaceSymbols(p) \/ ReplaceEdges(p) \/ SymbolsRejected(p)

Build(p) ==
  \/ StartFull(p) \/ ServeLookup(p) \/ EndWrites(p) \/ FlagEdges(p) \/ MarkBuilt(p)
  \/ \E f \in Paths : ReadForBuild(p, f) \/ StatForBuild(p, f) \/ PickExtracted(p, f)

Refresh(p) ==
  \/ StartWatch(p) \/ StartRefresh(p) \/ ReadChanged(p) \/ TouchFile(p)
  \/ EndWalk(p) \/ EndRefresh(p)
  \/ \E f \in Paths : VisitGone(p, f) \/ VisitUnchanged(p, f) \/ VisitChanged(p, f)
  \/ \E f \in RowPaths : DeleteGone(p, f)

\* The steps a started process takes by itself.
Work(p) == Write(p) \/ Build(p) \/ Refresh(p)

Next ==
  \/ \E f \in Paths, c \in Contents \cup {NoContent} : Edit(f, c)
  \/ \E p \in Indexers : Start(p) \/ Work(p) \/ Exit(p) \/ Error(p) \/ Crash(p)

Spec == Init /\ [][Next]_vars

\* A started process is scheduled until it is through or dies.
FairSpec == Spec /\ \A p \in Indexers : WF_vars(Work(p))

-----------------------------------------------------------------------------
(* Properties.                                                             *)

SymbolNames(f) == {s[2] : s \in SymbolsOf(files[f].id)}
CallsOf(f)     == {<<e[1][2], e[2][2]>> : e \in {d \in edges : d[1][1] = files[f].id}}
AllCalls(c)    == {x \in Calls[c] : x[1] \in Defs[c]}
Indexable(f)   == disk[f] \in Contents \ Unindexable
InSync(f) ==
  /\ disk[f] = NoContent => f \notin list_files
  /\ Indexable(f) => f \in list_files /\ files[f].sha = disk[f]

TypeOK ==
  /\ StoreTypeOK
  /\ disk \in [Paths -> Contents \cup {NoContent}]
  /\ now \in Nat /\ written \in [Paths -> 0..now]
  /\ failures \in 0..MaxFailures
  /\ DOMAIN ix = Indexers
  /\ \A p \in Indexers :
       LET x == ix[p] IN
       /\ x \in [pc : Stages, job : Commands \cup {"idle"},
                 phase : {"none", "wipe", "build", "refresh"},
                 todo : SUBSET Paths, snap : {x.snap}, seen : SUBSET Paths, ext : {x.ext},
                 cur : [path : RowPaths, sha : Contents \cup {NoContent}, mtime : Nat, fid : Nat],
                 removed : SUBSET RowPaths, pending : BOOLEAN, stale : SUBSET Paths]
       /\ x.snap \in [DOMAIN x.snap -> Row] /\ DOMAIN x.snap \subseteq RowPaths
       /\ x.ext \in [DOMAIN x.ext -> [sha : Contents \ Unindexable, mtime : Nat \cup {NoMtime}]]
       /\ DOMAIN x.ext \subseteq Paths

\* What the index says of one file always comes from one version of it: the
\* names a search finds and the calls it lists are never from two different
\* texts, whatever step a crash cuts short (replace_symbols cascades the old
\* edges away before replace_edges writes the new ones).
OneVersionPerFile ==
  \A f \in list_files :
    \/ SymbolNames(f) = {}
    \/ \E c \in Contents : SymbolNames(f) = Defs[c] /\ CallsOf(f) \subseteq Calls[c]

\* full_index is the recovery from anything: when it has written its last
\* file the index is exactly the tree, every call of every file included,
\* whatever crashes and half-done commands came before (files edited since
\* it cleared the index aside).
FullIndexExact ==
  \A p \in Indexers :
    ix[p].pc \in {"flag", "mark"} =>
      \A f \in Paths \ ix[p].stale :
        /\ Indexable(f) <=> f \in list_files
        /\ Indexable(f) => /\ files[f].sha = disk[f]
                           /\ SymbolNames(f) = Defs[disk[f]]
                           /\ CallsOf(f) = AllCalls(disk[f])

\* "Incrementally update the index against the current state of root"
\* (index.rs, refresh): at the end of a refresh every file nobody touched
\* meanwhile is indexed with its present text, and no removed file is left.
RefreshCatchesUp ==
  \A p \in Indexers :
    ix[p].pc = "sweep" /\ Gone(p) = {} => \A f \in Paths \ ix[p].stale : InSync(f)

\* However refreshes of several processes interleave, none deletes the row of
\* a file that was on disk all the time; skipped files (unreadable, too
\* large) keep theirs.
OnlyGoneFilesDeleted ==
  [][\A f \in list_files \ DOMAIN files' :
       files' = NoRows \/ disk[f] = NoContent \/ \E p \in Indexers : f \in ix[p].stale]_vars

\* The watcher converges: a file event is followed by a state in which the
\* index agrees with the tree.
WatchConverges ==
  \A p \in Indexers : ix[p].pending ~> (\A f \in Paths : InSync(f))
=============================================================================
