# A TLA+ model of crabcc

crabcc keeps a symbol index of a source tree in a SQLite file and answers
questions about it (where is a name defined, who calls it, what changed) to
command-line users and, over MCP, to coding agents.  Around it have grown a crawler, a memory
store for agents, and an MCP server that offers all of it.  This directory models
the parts that keep state several actors share: the index and the processes that
write, migrate and compress it, the tools that edit files through it, the crawl
frontier, the memory store with its indexes, the record of what agent sessions have been
shown, the caches of the MCP server, and the files by which crabcc processes find each
other's runs, backups and locks; and the queries over the index, whose algorithms are
compared with their definitions.  The modules are checked by TLC on small instances and,
for invariants and the refinement that matter most, proved with TLAPS for every
value of the constants.

Contents: 1 inventory, 2 structure, 3 how to read the modules, 4 runs, 5 bounds and
fairness, 6 proofs, 7 what the code does otherwise than it says, 8 limits.

## 1. Inventory

Six crates; the sizes are lines of Rust with their unit tests.

| Component (crate) | State | Operations | Interacts with | What makes it correct |
|---|---|---|---|---|
| Index store (core `store.rs`, 1.6k; `schema/001_init.sql`) | `files`, `symbols`, `edges`, `unresolved_names`, `meta` | upsert, replace, touch, delete, clear, flags, name lookups | every process opens it for itself, one SQLite connection each | foreign keys hold; sentinels have one owner; flags tell the truth |
| Indexer (core `index.rs`, 0.7k) | its own walk, its snapshot of the rows, extracted files | `full_index`, `refresh_delta` | the tree, the store | after a rebuild or a refresh the index agrees with the tree |
| Watcher (core `watch.rs`, 0.3k) | event channel, stop flag | wait, filter, refresh | file system events, the indexer | every edit is eventually indexed |
| CLI entry (cli `main.rs`, `auto_index.rs`) | none | open, wipe and rebuild, auto-index, dispatch | store, indexer | a good index is not thrown away |
| `write_file`, validation (mcp `dispatch.rs`, core `validate.rs`) | one call | snapshot, write, reindex, diff, find callers | tree, store, queries | the answer describes what the write did |
| Caller and reference queries (core `query/`) | none | SQL over `edges`, or a scan of the texts | store, tree | each path finds the callers it can see, no more |
| Graph and impact queries (core `graph.rs`, `affected.rs`, `query/*`) | none | walks, cycles, shortest call path, blast radius | store | equal to the graph-theoretic definition |
| `edit` command (cli `edit.rs`) | none | resolve span, read, splice, write, reindex | store, tree | only the symbol's own lines change |
| Extractors (core `extract/`, `pattern.rs`) | none | parse a text | tree-sitter | outside the model: `Defs`, `Calls` |
| Crawler (fetch `crawl/`, 2.2k) | frontier rows, page archive, tasks of a batch | claim, fetch, archive, mark, enqueue links, resume | network, one SQLite or Postgres frontier shared by workers | a URL is in one worker's hands, nothing is forgotten, pages within the depth and the budget |
| Proxy pool (fetch `crawl/proxy.rs`) | live list, failure counts, cursor | pick, report, evict | fetch tasks on several threads | a dead proxy leaves the rotation, a healthy one does not |
| Memory palace (memory, 7k) | drawers, embeddings, FTS5 and vector indexes, generations, reminders | open, add, query, delete, resync, remind | CLI processes, MCP servers, miners on one file | the indexes describe the drawers; both backends keep one drawer per source and body |
| Memory registry (memory `palace/registry.rs`) | memoised git roots, open palaces | route a directory to its palace | file system | a call goes to the repository it is in |
| Read ledger (memory `read.rs`) | last read of a path in a session | full, stub, diff, entropy reads | tree, MCP, CLI | a stub or diff refers only to what the session has seen |
| Shell log, loop detector (memory) | command counters | record, detect | hooks of agents | no loop is missed |
| Miners (memory `mine/`) | a report | read a tree or transcripts into drawers | palace | the report says what was added |
| MCP server (mcp `lib.rs`, `transport.rs`, `dispatch.rs`) | the session's open store | dispatch; stdio, HTTP, SSE | all of the above | the open store is the current database |
| Mastodon tools (mcp `mastodon.rs`) | attempts in a window, response cache | post, read, verify | network | at most five attempts per token and window; a retry posts once |
| Compactor (compact) | append-only history | rewrite prompts and code | LLM endpoints | meaning is kept (not a state property) |
| Fuzzy search (core `fts.rs`, 0.6k) | the names, read once | `fuzzy`, `prefix` | store | nothing within the distance is missed, the closest come first |
| Signature compression (core `compress.rs`, cli `compress_cmd.rs`) | `fsst.symbols` beside the databases | train, save, rebuild, load | store, palace | what was encoded can be decoded |
| Agent runs, guard (cli `agent.rs`, `agent_runs_db.rs`, `agent_guard.rs`) | run rows, kill log, a lock per run | start, spawn, finish, reap, sweep | the process table, a scheduler | a row tells the truth about its process |
| Detached runs (cli `run_cmd.rs`) | a directory with `meta.json` per run | start, detach, kill, prune | the process table | a handle that knows its process hits no other |
| Backups (cli `backup.rs`) | a directory per snapshot | snapshot, prune, restore | index files in use | the newest complete snapshot can be restored |
| Onboarding (cli `init_cmd.rs`) | `.crabcc/onboard`: lock, done marker, artifacts | elect a leader, wait, take over, publish | other agents, background crawls | one leader, crawls started once |
| Rest of the CLI | none | installation, doctor, telemetry, fetch and research commands | files, network | - |

Where behaviour is hard:

* **No lock spans a file.** Each CLI, watch and MCP process has its own
  connection; SQLite serialises transactions, but writing one file takes three
  of them and a refresh decides from rows it read at its start. The crawler, the
  ledger, the miner and the opening of memory.db are made of such pieces, too.
* **Cascades reach other files.** An edge belongs to two files; deleting one
  file's symbols removes edges of the other.
* **Ids are reused.** SQLite hands out the id of a deleted last row again: file
  rows, drawers, reminders. So does the operating system with pids, and a file name with a lock.
* **Derived data goes stale**: edges, line spans, the full-text index, the vector
  mirror (kept by builds with `memory-vec` only), the table a text was encoded by, cached responses, git roots, open stores.
* **Crashes** fall between any two transactions; answers get lost after the
  effect they report.
* **Time** is whole seconds in mtimes, windows and lifetimes.
* **Flags** (`edges_populated`, `schema_v4_built`, `backfilled`, `migration_level`, `.done`) outlive the data they
  describe.

`PROJECT.json` lists each of these at its line, with the properties that would
catch it.

## 2. Structure

| Module | Uses | What it holds |
|---|---|---|
| `SymbolStore` | | the index's tables and each operation of `Store` that writes them, one operator per transaction |
| `Indexer` | `SymbolStore` | processes, user and clock; one action per transaction, file system call or decision |
| `WriteFile` | `Indexer` | one MCP server's `write_file` calls beside everything in `Indexer` |
| `SymbolEdit` | | `crabcc edit --write` on one file, down to its lines |
| `GraphQueries` | | the algorithms over the edges, one iteration per step |
| `FuzzySearch` | | fuzzy and prefix search over the names, one row per step |
| `SignatureCodec` | | `index compress` beside the processes that load its table, read and write |
| `StoreUpgrade` | | `Store::open` on an index of an earlier release, by several processes |
| `IndexCommands` | the five before | their composition: they share no state, a behaviour is about one `topic` |
| `Frontier`, `ProxyPool` | | statements of the frontier; operations of the proxy pool |
| `Crawl` | `Frontier`, `ProxyPool` | workers and their tasks |
| `Visits` | | abstract: what a frontier promises; `Crawl` implements it |
| `SqliteBackend`, `InMemoryBackend` | | operations of the two backends of a palace |
| `Drawers` | both backends | processes that open and use one memory.db |
| `DrawerStore` | | abstract: what a palace promises; `Drawers` implements it twice, once per backend |
| `SessionLedger` | | statements of `session_reads`, `session_shells`, `reminders` |
| `AgentSession` | `SessionLedger` | concurrent calls of agents |
| `Mastodon`, `PalaceRegistry` | | rate limit, response cache, idempotency keys; memoised git roots |
| `McpServer` | both | servers, the instance, other processes |
| `AgentRuns` | | agent runs, their rows, reapers, the guard, the process table |
| `DetachedRuns` | | `crabcc run`, its handles, other programs |
| `Backups` | | snapshots and restores of an index in WAL mode |
| `Onboarding` | | the election of `crabcc init` |
| `HomeDir` | the four before | their composition: no step touches two of them, a behaviour is of one `family` |
| `MC...` | | values for the constants, symmetry sets |
| `IndexerProofs`, `CrawlProofs`, `DrawersProofs`, `AgentSessionProofs`, `McpServerProofs`, `GraphQueriesProofs`, `IndexCommandsProofs`, `HomeDirProofs` | | theorems and lemmas about the modules they are named after and those these are composed of; `IndexerProofs` also covers `WriteFile`, and `IndexCommandsProofs` extends `GraphQueriesProofs` |

What would come next, in order: the store cache of `McpServer` composed with `Indexer`, so that
a held store is one of its orphans; `SignatureCodec` composed with `SymbolStore`, so that
every row knows the table it was encoded by; what `init --inject` hands out.

## 3. The modules

Throughout, a variable named `past` (and `stale`, `alone`, `clean`, `streak`,
`condemned` and the like inside a record) is history: properties read it, guards do not.

### The index: `SymbolStore`, `Indexer`, `WriteFile`

* `files` maps a path to its row (`id`, `sha`, `mtime`). The synthetic
  `<unresolved>` row is the path `Anchor`. `lang` and `indexed_at` are left out.
* A source text is a member of `Contents` and is its own sha256. What the
  extractor finds is given by `Defs` (names) and `Calls` (enclosing definition,
  callee). Two definitions of one name in one file are one symbol; line and kind of
  an edge are left out.
* A symbol is `<<file id, name>>`, so a write under a reused row id goes to the
  wrong file in the model exactly as it does in SQLite.
* `unresolved` is the set of sentinel symbols, `meta` the two flags;
  `disk`, `written`, `now`: the tree, the mtimes, the clock.
* `ix[p]` is the local state of process `p`: the stage it has reached (`pc`), the
  command (`job`), the paths the walk has yet to meet (`todo`), the rows a refresh
  read at its start (`snap`), the extracted files of a rebuild (`ext`), the file
  being written (`cur`).

| Code | Actions |
|---|---|
| opening the store in `main.rs` | `StartCli`, `WipeAndRebuild` (also makes orphans of processes that had the removed file open), `StartMcp` |
| `auto_index::ensure_indexed` | `StartFull`, `ServeLookup` |
| `full_index`, `build_index_with_progress` | `StartFull` (collects the walk, `clear_all`), `ReadForBuild`, `StatForBuild` (any interleaving over the files: rayon), `PickExtracted`, `EndWrites`, `FlagEdges`, `MarkBuilt` |
| `refresh_delta` | `StartRefresh` (snapshot), `VisitGone`, `VisitUnchanged`, `VisitChanged` (stat), `ReadChanged` (read), `TouchFile`, `EndWalk`, `DeleteGone`, `EndRefresh` |
| `persist_file` and the write loop | `UpsertFile`, `ReplaceSymbols`, `ReplaceEdges`, `SymbolsRejected` (the foreign key fails) |
| `watch::worker_loop`, `run_refresh` | `StartWatch`, `StartRefresh` when an event is pending, `GiveUp` (errors are logged) |
| operating system, user | `Edit`, `Error`, `Crash`, `Exit` |
| `write_file` | `Snapshot`, `WriteDisk`, `Stamp`, `UpsertWritten`, `SymbolsWritten`, `EdgesWritten`, `QueryCallers`, `QueryFails` (`.ok()`), `Answer`, `Return` |

`clear_all` and the start of the walk are one step; so are the walker's listing of
a path and the stat that follows it: they run back to back and no property tells them
apart. `find_callers` asks the edges once they are populated (`by_edges`), else it walks the
texts with patterns (`by_text`). What the patterns see is not what the extractor sees: `Patterned`
are the files in a language `pattern::lang_for` knows, `TextCalls` the names a text calls as
`name(..)` or `x.name(..)`, `Identifiers` the names that may be looked up at all; nothing
relates them to `Calls`. Name resolution (`LIMIT 1` without an order) is a free choice. A refresh of
the watcher holds a mutex of its own process, which nobody else shares, so it appears
as an ordinary process.

### `SymbolEdit`

A file is a sequence of lines, each the i-th of the n lines of a definition or a line
outside of any, so that a splice over the wrong lines leaves a text that shows it. The
editor resolves its span in the index (`resolve_symbol`), reads and splices
(`ReadAndCompute`), writes, and reindexes in four steps, beside another editor, programs
that save other texts and a refresh. `splice_span` works with line numbers as the code
does; `EditIsClean` (`CleanEdit` in `IndexCommands`, for the behaviours that are about an
edit) compares its result with `Edited`, which finds the lines by owner.

### `GraphQueries`

`edges` is chosen at the start and never changes; `ask` is the query; `run` what its
algorithm keeps between two iterations. `bfs` is `graph.rs`'s walk; `NextRoot`, `Enter`,
`NextChild`, `Leave` are the frames of its iterative Tarjan; `WhyForward` and
`WhyBackward` a level of the bidirectional search (which node of the level is met first
is free, as is the order of SQLite's rows); `BlastRow`, `BlastEnds` the recursive query
of `blast_radius` and `NextChanged`, `AffectedEnds` what `affected` does with it;
`Wave` one round of `importers`. The answers are compared with distances, reachability
and classes computed from the relation.

### `FuzzySearch`

`corpus` is the table in the order `Fts` loads it, `quest` the search, `scan` the row it is
at. A name is a sequence of naturals in the order of bytes, `Sep` the one that separates
words; folding has been done. `FuzzyRow` is a row of the first phase (the name and its words
against the bounded distance `dp`, row of the table by row, with its early exit), `EqualRow`
one of the second, `FuzzyEnds` the sort and the cut; `PrefixRow` and `PrefixEnds` the prefix
search behind its index of first bytes. The reference never computes a distance: it grows
the words reached by one, then two single edits.

### `SignatureCodec`

A codec is the number of its training; a text is the sequence of codecs it was encoded by,
so that a text encoded twice or by a table that has gone shows. `folder` holds the names
`fsst.symbols` and `fsst.tmp` with their inodes, since two savers meet in the second name.
`OpenStore` and `OpenBackend` load the table, `replace_symbols` and `add` encode with what
the process loaded; `train_codec`, `Create`, `WriteTable`, `rename` (or `RenameFails`) are
the saving, `ListPlain` and `Encode` the rebuild, with a transaction per row where the code
has one per thousand.

### `StoreUpgrade`

`base` is what matters of index.db to `open_with_compress`: the shape of `edges`, the column
`signature_enc`, whether `migration_level` is current. A process takes `ApplySchema`,
`ReadLevel`, `ProbeEnc`, `AddColumn`, `ProbeEdges`, `Recreate`, `SetLevel`, each a
transaction, and may `Abandon` the open anywhere; `Misfires` is a statement that fails,
which some of the probes take for an answer.

### The crawler: `Frontier`, `ProxyPool`, `Crawl`

`rows` and `pages` are the two tables; `wk[w]` is a worker: its stage, its pool and budget,
the host its links must be on, and a task per URL of its batch. `Open` and `Begin` are
`crawl_cmd::run`; `Claim`, `Stop` the head of the loop; `StartFetch`, `Refuse`, `FetchOk`,
`FetchFails`, `Panic` a spawned task, bounded by the two semaphores; `Join`, `Mark`,
`Follow`, `SkipPanic` the draining of the batch, a statement each. The web is given by
`Links`, `Final` (redirects), `Host`, `Unsafe`. Tasks finish in any order, outcomes are
reported to the pool as they come. `Visits` says what all workers together may do to the
frontier; the refinement mapping takes the depths of `rows` and the settled ones.

### The drawers: `SqliteBackend`, `InMemoryBackend`, `Drawers`

`db` is memory.db: drawers, their embeddings, the mirror of sqlite-vec, the contentless
full-text index (postings, document rows and row count apart, because a delete treats
them differently), the two generation counters and whether the triggers exist. A body is
one word, which is also its hash and its embedding. `conn[p]` is a process's way through
`SqliteBackend::open`: `Open`, `Fill` (backfill, row by row), `Opened` (triggers), `Probe`
(generations), `ReadEmbeddings`, `Resync`; then `Remember` and `Forget`, and `Mine`,
`MineFile`, `MineAdd`, `MineCount`. `Builds` says whether a process is built with
`memory-vec`. `mem` is an `InMemoryBackend` that gets every call SQLite accepts. A database
may be one of an earlier release, without full-text index. `Probe` reads the two
generations at once, the code in two statements; reading them apart only adds resyncs.

### Agent sessions: `SessionLedger`, `AgentSession`

`reads`, `shells`, `rem` are the tables, `call[c]` a call under way: `ReadFile`, `Lookup`,
`Upsert` are the steps of `read::compute`, `ReadReply` the answer reaching the agent;
`Record`, `ReadBack` those of `record_shell`; `Detect`, `DetectShells` of `loop_detect`;
`SetReminder`, `Poll`, `DeleteReminder` of reminders. `Die` ends a call between any two.
`past` keeps what each session has really been sent, and `past.lost` whose answers were not.

### The MCP server: `Mastodon`, `PalaceRegistry`, `McpServer`

A server handles one request at a time, as both transports do (`serve_http` loops over
the incoming requests; the pool that its documentation mentions is not there). `Post`,
`Read`, `Verify` check the limit; `Accept` is the instance taking a post; `PostAnswered`,
`ReadAnswered` count it, `Failed` does not, whether or not the instance has acted.
`MemoryCall` routes by the memoised root. `Query`, `Reindex`, `Upgrade` use and drop the
session's store; `CliIndex`, `Toggle`, `Restart` are what others do meanwhile. The three
families of tools share no state, so that a behaviour calls the tools of one of them
(`used.family`).

### Files of processes: `AgentRuns`, `DetachedRuns`, `Backups`, `Onboarding`, `HomeDir`

* `AgentRuns`. `rows` is the table, `ag[r]` the crabcc process of a run with its child and its
  lock, `table` who has which pid. `Launch`, `insert_run`, `update_pid`, `GiveUp` (`ensure_up`
  fails), `Spawn`, `ChildExits`, `finalize`, `mark_finished` are a run; `ReadRow` and `ReapRow`
  a `reap_stale`, which reads its rows and then looks at each; `GuardLists`, `Examine`,
  `Escalate`, `GuardEnds` the sweep of the guard. The log's age is a free choice. Statements
  whose result the code ignores may fail (`Attempt`).
* `DetachedRuns`. `meta` is `meta.json`, `procs` the process table with zombies and the second
  in which a process began; `alive` compares that second, `kill_run` and `prune_old_runs` go
  by it. `write_meta` may not know that second (`Unknown`: `proc_info` failed, or the file is of a
  release without the field); then `alive` takes any process under the pid. A pid is not
  given again in the second in which it fell free, and a process that is there is found when
  `alive` looks for it.
* `Backups`. A database is the transactions up to `base` and a log of those from `lo + 1` to
  `hi`; a log beside a file it does not continue is torn. `CopyDb` and `CopyWal` are the two
  copies between which `Commit`, `Checkpoint` and `LastClose` fall; `List` and `Remove` the
  pruning; `RemoveSome` a removal that stops half-way, `Break` a copy that fails or a process
  that dies.
* `Onboarding`. `onb` is the directory. `LookForDone`, `try_acquire`, `stale_lock_mtime`,
  `LookAgain`, `TakeOver`, `wait_for` are the loop of `run`; `Lead`, `SpawnCrawls`, `Publish`,
  `LeadFails` the leader. A lock is known by who made it and when, and unlinked by name.

## 4. Runs

| Run | Question | Shows |
|---|---|---|
| `IndexerCrash` | Does any sequence of index, refresh and lookup, cut short anywhere, leave a mixture of two versions in one file, or an index that a rebuild cannot repair? | `OneVersionPerFile`, `FullIndexExact` |
| `IndexerRace` | Two processes rebuild and refresh at once, row ids are reused: do the keys hold, do sentinels stay under the anchor, is no row of an existing file deleted? | `RefIntegrity`, `SentinelsAnchored`, `OnlyGoneFilesDeleted` |
| `IndexerWatch` | Is every file nobody touched meanwhile up to date at the end of a refresh, and does the watcher converge after every edit, including those that fall into a running refresh? | `RefreshCatchesUp`, `WatchConverges` |
| `WriteFile` | Before any full index, does the answer name just the callers that the patterns can see, whatever lookups fail, and does an answered `write_file` leave the new text in the index when nobody else wrote? | `AnswerNamesCallers`, `WrittenFileIsIndexed` |
| `IndexCommands` | Do the algorithms over the edges and the names compute what they are named after? Does an edit of a file the index describes change its symbol's lines only? Can every text be decoded while codecs are trained, and does a migrated index deserve its level? | `PathsAreExact` (walk and why), `CyclesAreComponents`, `ImpactIsExact`, `SearchFindsClosest`, `CleanEdit`, `SignaturesDecode`, `UpgradeIsSafe` |
| `Crawl` | Who holds a row, is any lost, are budget, depth, order and scope kept over crashes and restarts, does the rotation keep the right proxies, does every worker end? | `ClaimedOnce`, `NothingLost`, `ArchiveWithinBudget`, `RotationIsHealthy`, `CrawlIsClosed`, `BreadthFirst`, `CrawlEnds`, `ImplementsVisits` |
| `Drawers` | Do both backends keep a palace's promises, whoever else has the file open; what can the two search indexes miss? | `ImplementsStore`, `LexicalComplete`, `StaleMirrorIsNoticed`, `MineReportTrue` |
| `AgentSession` | May a diff, a stub, a loop report or a reminder be wrong because calls overlap or die? | `ReadsBuildOnSent`, `LoopsAreFound`, `DeliveredOnce` |
| `McpServer` | Do the rate limit, the retried post, the remembered root and the held store keep what is promised? | `AnsweredWithinLimit`, `RetryPostsOnce`, `KeptIsCurrent` |
| `HomeDir` | Do rows and handles tell the truth while pids are given again, can the last complete snapshot be restored, is a repository onboarded once, and does a row of a run that has gone stop saying running? | `RowsTellTruth`, `HandlesHold`, `SnapshotsServe`, `OnboardedOnce`, `RowsAreReaped` |

`IndexerCrash` also checks the type invariant of the indexer. Two runs are violated on
purpose: `WriteFileBroken` and `CodecRetrained` (section 7).

Each property of a passing run has a mutant of the code (an operator that sits
just before the one it replaces) under which TLC finds it violated.

To repeat one: `tlc -workers 4 -config IndexerCrash.cfg MCIndexer`.

## 5. Bounds and fairness

* Index: `MaxNow` bounds the clock and thereby the number of edits (each takes a
  second, or shares one under `CoarseClock`); the runs with one process allow up to three.
  `MaxFailures` bounds crashes and failed statements together; one is enough to
  stop a command between any two of its steps, after which the other commands run.
  Two paths, two names, three texts that define `{a}`, `{b}`, `{a, b}` and call
  across files, one text the indexer skips. With them a call can be resolved in the
  same file, in the other one or nowhere; a symbol can move between files.
  Two processes in `IndexerRace`, on one path and the synthetic anchor, which is
  where the ids collide. In `WriteFile` the two texts call what the other defines, the skipped one
  can still match a pattern, one file is in a language the patterns do not know, one name is no
  identifier, and a failure may hit a lookup. `CoarseClock = FALSE` means that two edits of the tree never
  fall in one second, an assumption about the user (section 7).
* `IndexCommands`. Edit: two definitions, bodies of one and three lines in place of two, so
  that every later line moves up or down; three writes, each in a second of its own. Graphs:
  all 4096 call graphs without self-calls over four symbols, all over three with
  self-calls, and all with two kinds over three: enough for two components that touch, a
  path that both searches approach, and edges that appear under two kinds. Names: tables of
  two and three out of six names of one to three words, with equal names, a name that is
  another's word and names at distance one, two and three from the searches; the pool is full
  at two candidates. Codec: two processes that read and write, two savers, two trainings, one
  write, one crash: enough for a table to be replaced under a reader and for a row to be
  written, and its id given again, inside a rebuild. Upgrade: three processes on an index of
  each release, two faults.
* `Crawl`: six URLs; a seed redirected to another host, a pair of pages that link each
  other, a link out of scope, one that the ingest check refuses, one beyond the depth;
  budget four of the six; one worker with one request at a time and proxies, one with two
  requests and the ingest check; one crash or panic; two starts.
* `Drawers`: two processes, one note and one mined file, two bodies, three writes, two opens:
  enough for an id to be freed and given again, for a resync to run beside both builds, and
  for a file to be mined twice with an edit between.
* `AgentSession`: two calls at a time out of three, two sessions, one file with three
  contents (one not UTF-8), two edits, loops from two on.
* `McpServer`: three requests, two events, four seconds; a limit of two in a window of
  two seconds stands for five in 48 hours, the other lifetimes are as short.
* `HomeDir`. Two runs and two pids: a pid is given again, to another run or to a stranger.
  `MaxMishaps = 1`: one death, failed statement or stranger, which is enough to strand a row.
  Two commands and pids, four seconds, one other program: a command ends, its pid passes to
  the guest and the handle is used. Two snapshots at once that keep one, two commits, one
  failure: a copy with a checkpoint between its two files, a failed directory that counts when
  old ones are removed. Two agents in three calls of `init`, two seconds where a lock is stale
  after one, one crash or failed write.
* Symmetry is used in safety runs only, and for the editors in `IndexCommands`.
* Deadlock is checked wherever a process can always be started again. It is switched off
  where the system comes to rest at a bound or for good: a watcher with no event left, a
  crawl that has ended, a query that is answered, calls, opens, runs and commits that are
  used up.
* Fairness: weak fairness of the steps a started process takes by itself: `Work` of
  `Indexer` for `IndexerWatch`, `Work` of a crawl worker for `Crawl`. It is what the operating
  system's scheduler gives: those steps are local, carry a timeout, or wait for SQLite's
  write lock, which every transaction of the model releases at once. `HomeDir` assumes weak
  fairness of the guard's `Sweep`, which a scheduler starts every 20 minutes. Edits, starts, failures and
  crashes are never fair.

## 6. Proofs

Every theorem holds for any sets of processes, files, names, texts, keys and the like and for
any bounds, under the assumptions named in the modules: `StoreAssumption`, `IndexerAssumption`,
`ToolAssumption`, `PoolAssumption`, `CrawlAssumption`, `DrawersAssumption`, `LedgerAssumption`, `AgentSessionAssumption`,
`MastodonAssumption`, `RegistryAssumption`, `McpServerAssumption`, `UpgradeAssumption`,
`CodecAssumption`, `EditAssumption`, `GraphAssumption`, `SearchAssumption`, `AgentAssumption`,
`CmdAssumption`, `BackupAssumption`, `OnboardingAssumption`. TLC evaluates each of them in a run. Five theorems have further
hypotheses, which stand in the theorem and are explained here. Each argument is: the
invariant holds initially, every action preserves it, and it implies the property.

### The index: `IndexerProofs`

`IndexerProofs` first shows that every operation of `SymbolStore` preserves `StoreInv`: the tables
are typed, their ids are bounded (so `NextRowId` exists and is fresh; the maximum of a
finite, bounded, non-empty set of naturals is obtained from the least-number
principle), `RefIntegrity` and `SentinelsAnchored` hold. Then:

* `InductiveInvariant`: `Spec => []IInv`, with `IInv` the store's invariant, the types
  of disk and clock, and of every process the fact that its snapshot, its extracted
  files and the file it writes are typed, and that a file it is writing has been stat'ed.
  `TypeOK` is not inductive by itself: `PickExtracted` needs the stat'ed times
  (`Extracted`), and ids stay naturals only because they are bounded.
* `TypeCorrect`, `Integrity`, `Anchored`: `[]TypeOK`, `[]RefIntegrity`,
  `[]SentinelsAnchored`. The heart is `replace_symbols` under a stale row id: the symbols it
  deletes are removed from `unresolved` and `edges` in the same transaction, and those it
  inserts are no sentinels, so an id handed out to the anchor meanwhile does no harm.
* `RefreshesDeleteOnlyGone`: the action property `OnlyGoneFilesDeleted`, for any number of
  processes. `LookedInv`: the stage of a process fits its command (`Control`), and a file that
  a refresh's walk is through with and has not met was absent, or the user touched it since.
* `OneVersionAlways`: `[]OneVersionPerFile` for one process (`OneIndexer`), whatever step a crash
  cuts short. `VersionInv` ties the file in hand to its row (`AtRow`). Resolution makes it
  delicate: an edge that a later file's transaction adds must leave another file's calls
  alone, so the proof follows from which definition each edge sets out. With two processes
  the property is false (section 7), so the hypothesis is needed.
* `RebuildIsExact`: `[]FullIndexExact` for one process. `BuildInv`: a file is in exactly one
  place, still to be read, extracted, in hand or in the tables (`Placed`), is there with its
  present text unless it was edited since (`Current`), and once written has every name and call
  of the text (`Written`). It rests on `VersionInv` and `LookedInv`.
* `RefreshesCatchUp`: `[]RefreshCatchesUp` under three hypotheses. `OneIndexer`, as before.
  `~CoarseClock`: two edits never fall in one second, since mtimes are compared by the second
  (`index.rs:308`). `RefreshOnly`: the commands are MCP refreshes, or a watch that is not
  restarted; a rebuild reads a file before it stats it and can leave a row whose mtime is newer
  than its text, which a later refresh takes for unchanged. `CatchUpInv`: a row's time is
  that of its text or earlier (`RowFits`), so is that of the file in hand (`HandFits`), and the
  snapshot is right about the files still to be looked at (`SnapFits`).

For a server with `write_file` beside any number of indexing processes:

* `ToolIntegrity`: the server's state is typed and the index keeps its integrity.
* `WrittenIsIndexed`: `[]WrittenFileIsIndexed`. `WrittenSoFar` says after each of the call's
  transactions what the tables hold; it holds of calls that no process disturbs (`tool.alone`),
  whatever processes did before and after.
* `AnswersAreRight`: `[]AnswerNamesCallers` if the only command beside the server is MCP's
  refresh, for any languages and shapes the patterns know. Then nothing ever populates the
  edges (`ByText`), and between two lookups the answer is right about the names that were
  looked up so far (`RightSoFar`, `CallersSoFar`). The document promises more, the callers
  the extractor knows of; that is false, before a full index (section 7) and after it
  (`WriteFileBroken`).

### The crawl: `CrawlProofs`

For any web, any number of workers, options, crashes and restarts:

* `ClaimsAreExclusive`: `[]ClaimedOnce`. Two workers hold a URL only if it is in
  `past.stolen`. `IInv` adds that a URL a worker holds is inflight or
  stolen: a claim takes queued rows, so it can only meet a holder whose row somebody's
  `Open` has queued again.
* `CrawlImplementsVisits`: `Spec => V!Spec`. Every step of a worker maps to planting the
  seed, settling one row, discovering one link, or stuttering. What the proof has to carry
  is where the links a worker is enqueueing come from: `links` are those of the final
  page of `cur`, `cur` is settled as long as some are left, its task's depth is the one in
  `rows`, the scope is the host of the seed or of its redirect, and only the seed has
  depth 0.
* `NothingIsLost`: `[]NothingLost`. `LostInv`: a worker that is not at work holds nothing, the
  page in hand is archived, and a task can only be stuck after a fault (`Archiving`).
* `BudgetIsKept`: `[]ArchiveWithinBudget`. `BudgetInv`: what is fetched plus what is being
  fetched stays within the batch's budget, and the archive within what was left when the
  worker opened, plus one page while it is archived and not yet counted (`Ahead`).
* `UndisturbedCrawlCloses`: `[]CrawlIsClosed`. `ClosedInv`: with one worker, opened once, and no
  fault, each wanted link of a page that is done is a row or among those the worker still
  has to enqueue (`Closing`).
* `CrawlIsBreadthFirst`: `[]BreadthFirst`. `BreadthInv`, for that worker fetching one page at a
  time: no row is more than one deeper than a row still to be settled, no settled row is deeper
  than a queued one, a link of a settled page is a row at most one deeper or still owed, and a
  row of depth n ends a path of n hops (`Layered`). That depths are distances then follows
  along a shortest counterexample: the first page of a path that is deeper than its place in it.
* `RotationStaysHealthy`: `[]RotationIsHealthy`. `RotationInv`: a proxy in rotation has exactly its
  failures in a row on its account and fewer than `MaxFailures` of them, a position that fell out
  holds a proxy that was condemned or cannot be built, and no request is under way through an
  unbuildable one (`PoolOK`, `Rotating`). Reports of requests that outlived their proxy's eviction
  write to the account of a proxy that no pick can return.

### The drawers: `DrawersProofs`

For any number of processes of either build, any drawers, files and bounds. A legacy database
the model starts from is one that an earlier release can leave (`LegacyDb`): finitely many
drawers, one per source and body, with their embeddings and nothing indexed.

* `PalacesImplementStore`: `Spec => ImplementsStore`. `PalaceInv` has the tables typed with one
  row per source and body (`RowsOK`), an embedding per drawer which is its body (`DbOK`), an
  index in memory of exactly the rows (`MemOK`), and in both backends the same drawers under
  ids of their own (`SameDrawers`): the last is why a call that finds a duplicate, or selects
  rows, in one backend does so in the other. It needs `Using`, what a process has at each stage,
  because a mining run carries the drawer it adds. That SQLite's next rowid is free rests
  on a finite set of naturals having a largest element. Each step then changes a table by
  nothing, one insert or one selection (`RowsNext`), and each of these, seen by key, is
  a step of `DrawerStore` (`RowsStep`). A selection by time is the one up to the youngest
  drawer that it takes.
* `LexicalSearchIsComplete`: `[]LexicalComplete`. `LexInv`: unless a backfill died half-way, the
  database has never been opened or every drawer is indexed or among those that somebody has
  yet to enter, and the row count of the index falls short by no more than their number
  (`Covered`).
* `StaleMirrorsAreNoticed`: `[]StaleMirrorIsNoticed`. `MirrorInv`: with the triggers there no embedding
  changes without the generation (`Later`); so what a resync has read are the embeddings as long
  as the generation it read before them is the database's (`SyncFits`).
* `ReportsAreTrue`: `[]MineReportTrue`. `MineInv`: files counted, in hand and still ahead are no more
  than the tree has, and an undisturbed run knows the number of drawers from before its insert.

### Agent sessions and the MCP server: `AgentSessionProofs`, `McpServerProofs`

`AlwaysTyped` of each module carries the types. For any number of overlapping calls:

* `ReadsAlwaysBuild`: `[]ReadsBuildOnSent`. `ReadInv`: unless an answer was lost, the baseline in a
  row, and in every copy of a row that a call carries about, is a body the session has, and the
  row's hash that of a content it has seen.
* `LoopsAlwaysFound`: `[]LoopsAreFound`. `CountInv`: the count on record is at least the answers
  given plus the calls that have counted and not answered (`Pending`, a finite set because
  `Calls` is). A file is not named like a command (`Files \cap Commands = {}`): they are keys
  of different tables.
* `AlwaysDeliveredOnce`: `[]DeliveredOnce`. `MessageInv`: a message has one row at most, one poller
  at most holds it, and as long as its row is undelivered nobody does; ids that are handed out
  again do no harm.
* `AlwaysWithinLimit`: `[]AnsweredWithinLimit`. `LimitInv`: each counted answer of the last `Window`
  is still on record, and a request under way was let in below the limit; that a server
  handles one request at a time is what makes it inductive.
* `RetriesPostOnce`: `[]RetryPostsOnce`. `PostInv`: every post bears the key that its token, text and
  arguments give, and a post that the instance still remembers is not made again.
* `KeptStaysCurrent`: `[]KeptIsCurrent`. `KeptInv`: a memoised root was found in the tree of the
  second it is dated, and the tree of now is among those of this second.

### One-shot commands: `IndexCommandsProofs`, `GraphQueriesProofs`

`GraphQueriesProofs` has the lemmas and invariants of the graph queries; the theorems are in
`IndexCommandsProofs`, where the five commands are composed.

* `UpgradesAreSafe`: `[]UpgradeIsSafe`. `UpgradeInv`: the stage a process has reached in `open`
  bounds the shape of the tables, whatever the other processes do.
* `SignaturesAlwaysDecode`: `[]SignaturesDecode`. `CodecInv`: unless two savers overlapped, one saver at
  most is in the temporary file, which is not the table, and a file with the table's name is
  whole (`FilesApart`); unless a table was replaced too, all that is loaded, in use or stored
  is plain or of the one table (`OneTable`).
* `EditsAreClean`: `[]CleanEdit`. `EditInv`: an undisturbed edit's span is that of its symbol in
  the file (`Sound`). It rests on lemmas about the text: which lines the splice keeps, and that
  the definitions after the edit are those of before, moved by the difference in length.

* `ImpactAlwaysExact`: `[]ImpactIsExact`, for every graph, query and depth. The definition the answers are
  compared with, `Level`, is a recursive function: that one exists, grows with the depth, and is
  the union of the levels of its parts is shown by induction up to the depth (`Climbing`, from the
  least counterexample). `ImpactInv`: while `affected` runs, the rows of a walk are nodes of
  their level, a row that has been looked at has its successors among them, and the candidates
  have the least depth below the changed symbols that are done (`AffectedRun`); while
  `importers` runs, what is reached is the level of the wave (`ImportersRun`).
* `PathsAlwaysExact`: `[]PathsAreExact`, for every graph, pair of symbols and depth. For `walk`
  (`WalkRun`): the queue and the answer are sorted by distance, the queue spans two distances at
  most, each symbol was seen at its own distance, and whatever follows one that has left the
  queue has been seen; so what the walk meets first it meets nearest. For `why` (`WhyAt`): after f
  levels forward and b back, f + b hops, what is seen from the source is `Level` f and what is
  seen from the target `Level` b of the reversed graph, the parents lead one step nearer
  (`Lineage`), and no symbol is in both, hence no path has f + b edges or fewer
  (`MeetInTheMiddle`). The first symbol in both is therefore half-way on a shortest path, and the
  two halves `build_path` puts together are one (`FrontWalks`, `BackWalks`, from an induction
  over the distance). A search that has nowhere to go has met all there is (`Stalls`), which is why
  giving up early is exact. That the successors of a symbol are enumerated in
  ascending order at all is shown from finiteness (`AscendingLists`).
* `SearchAlwaysFindsClosest`: `[]SearchFindsClosest`, for every table of names, query, limit, edit
  budget and cap. The property counts edits (`Around`: the words that k edits make of the query),
  the code fills a table of the distances of prefixes and gives up a row that is over the
  budget everywhere. That the two agree is shown in both directions. The entry of two words
  (`EntryTable`) changes by at most one with every edit, so a word k edits away has an entry of k
  or less (`ReachedIsNear`); and an entry of k leads back to k edits, by going from the query
  to the word through words mixed of a beginning of the one and the end of the other (`Mix`,
  `MixReached`). A row that is over the budget everywhere is followed by rows that are
  (`HopelessGoesOn`), hence giving up loses nothing (`DpIs`). For the scan, `Scanned`: the
  rows scored so far are those that match among the rows passed, in phase 2 at least all the
  exact ones among them, `exact` counts them, and phase 2 is entered with enough exact hits or
  candidates. So a scan that ends early has missed no exact row it had room for (`Enough`). The
  order of the answers is a strict total order (`ClosenessOrders`), hence a ranking exists
  (`RankedIs`), and the exact rows come first in it (`ExactFirst`).
* `CyclesAlwaysComponents`: `[]CyclesAreComponents`, for every call graph. `Reached` iterates as often as
  there are symbols; that this is the least set closed under the calls (`ReachIs`) comes from
  counting, since a level that is not closed grows. What holds between two steps of the search
  is `Tarjan`: the frames are a path with rising numbers (`Nested`); a frame reaches what was
  opened since (`Down`) and what is open reaches an older frame (`Up`); a finished symbol leads to
  finished ones only, and the components are their classes (`Finished`); the low link of an open
  symbol is the number of an open one it reaches (`LowReached`), and that of a frame is no
  greater than any number that one edge leads to from what was opened since, of the edges
  looked at (`LowLeast`). A symbol whose low link is smaller than its number therefore reaches an older
  frame (`LeaveInside`); with the two equal, what was opened since is closed but for what is
  finished, hence the symbol's class (`RootFacts`). The stack is sorted by number, so the part
  that `Leave` cuts off is just that (`OpenSplit`). For triage, going up from whatever calls
  something to the symbol with the fewest ancestors ends at one that nothing calls, one
  that calls itself, or one in a cycle (`RootsReach`).

### Files of processes: `HomeDirProofs`

The proofs of the four components and of their composition, for any sets of processes:

* `RowsAlwaysTell`: `[]RowsTellTruth`. `AgentInv` adds to the types that a pid is held by at
  most one run and a run that is alive holds its own (`PidsHeld`), that what reapers and
  the guard carry about was a row once (`EntriesFit`), and for each run how its row follows
  the stage of its process (`RowFits`): without the last, a reaper's stale copy could be of
  any row.
* `HandlesAlwaysHold`: `[]HandlesHold`. `CmdInv`: a command is one process (`OneProcess`), a
  process that bears the pid and second of a `meta.json` is its command (`MetaKnows`), a
  living one past `write_meta` has one (`LiveHasMeta`), and what hit another process did not know
  its second (`Unknowing`). It rests on pids not being given again within a second.
* `AlwaysOnboardedOnce`: `[]OnboardedOnce`. `OnboardInv`: an agent in mid-call is no older than
  a stale lock (`Prompt`), what it is about to unlink was stale when seen (`OldSeen`), a leader's
  lock is its own and younger than its call (`LockKept`), and what a leader has written so
  far fits its stage (`OnceOnly`).
* `RestoresWhatWasTaken`: `[]RestoredIsSnapshot`: a snapshot that nothing disturbed brings back the
  index it was taken of. `CopiesInv`: between the two copies of a calm snapshot, the log of
  now continues the file that was copied.
* `SnapshotsAlwaysServe`: `[]SnapshotsServe` if `Keep # 0`. `NewestInv`: the newest complete snapshot
  is there and has its file (`HasFile`), is newer than any that a failed one left, and is not among those being removed.
  `CRABCC_BACKUPS_KEEP` is parsed as any number and 0 keeps none, so the hypothesis is one about
  the user; the default is 2.

### What is only model-checked

* `WatchConverges`, `CrawlEnds`, `RowsAreReaped`: liveness under fairness, which the prover does
  not handle.

## 7. Where code and documents disagree

Each violation run checks one sentence of the repository and TLC's trace shows
the code doing something else; `PROJECT.json` quotes the sentences.

* `WriteFileBroken`: on a fully indexed project `broken_caller_files` is empty:
  callers are asked for after the reindexing, which has cascaded away the edges that
  would name them.
* `CodecRetrained`: each `index compress` trains a new table and replaces the old one, while
  `--rebuild` encodes plain rows only. After the second, every signature that the first
  had encoded is decompressed with the wrong table. So are the bodies of memory.db, which
  loads the same file and which no command encodes again.

Met while modelling, without a run of their own:

* Index. A refresh removes calls of other files into an edited one, while
  `edges_populated` goes on vouching for the edges (`index.rs:176` says they "stayed
  consistent"). A crash between a file's transactions leaves a hash and mtime its symbols
  do not belong to, and refresh takes the file for unchanged. `build_index` stats a
  file after reading it, so that an edit in between is not indexed; nor is a second
  edit within one second; `write_file` stamps the row with the clock. The MCP tool
  `index` does not mark the index as built (`store.rs:640`), so the next CLI command throws
  it away. `OneVersionPerFile` is checked for one process at a time: with two that refresh
  the same file, its symbols and calls can come from two texts. `list_files` says the anchor
  does not leak into refresh diffs; `refresh_delta` reads the unfiltered rows and lists it.
* `write_file`. Before a full index (and so in a project that only MCP's `refresh` has indexed)
  the callers are found with patterns, and those know seven languages (`query/mod.rs:254`): a
  caller in a Swift, Java, C or Zig file is missed although the extractor has recorded its call,
  and so is a call of another shape, `Foo::bar()` or a macro (`pattern.rs:45`). `schema.rs:208`
  promises "files containing call edges to any removed symbol"; checked in `WriteFile`,
  `BrokenCallersReported` fails, as it does in `WriteFileBroken`. A lookup that fails counts as no callers (`.ok()`, `dispatch.rs:352`), a snapshot
  that fails as no symbols (`unwrap_or_default`, `dispatch.rs:345`), and the answer does not say
  so. The snippet of a hit is cut at byte 80 (`pattern.rs:92`), which panics inside a
  character; `query/mod.rs:431` says why its own copy of that function no longer does.
* Opening. An index before v4 is to be wiped and rebuilt (`store.rs:170`, `:992`), but
  `open` fails before it gets there: the schema creates an index on `edges(dst_symbol_id)`,
  which that table does not have (`OldIndexIsRebuilt` of `StoreUpgrade`). An `edges` table that
  cannot be looked at is taken for migrated and marked so for good. Of two processes that add
  `signature_enc` at once, one fails to open. Two savers of a codec write one `fsst.tmp`, and
  the first rename can publish the other's half-written table, against `compress.rs:106`.
* Crawl. A crash after a page is marked done and before its links are enqueued loses
  them for every resumed crawl, and a resumed crawl whose seed is done judges links by the
  host of the seed as it was typed; `frontier.rs` promises to resume where it stopped.
* Memory. `delete` gives the full-text index an empty body to remove, so the words of a
  forgotten drawer stay; once SQLite hands its id to a new drawer, a search for them returns
  it. The test `delete_drawer_drops_fts_row` passes because the join with `drawers` hides the
  leftover until the id returns. After an outline or an excerpt, an `auto` read of the same content answers
  with the stub alone: the column `served_mode` that could tell is written and never read.
  A loop hint may be given twice or never when calls are recorded at once, because
  `record_shell` reads the count back on a second connection. A reminder that was claimed
  by a poll whose process died is lost. An interrupted backfill is never resumed. A write
  by a vec build moves `backfilled` over rows it has not mirrored. `list_drawers` ignores
  `body_enc`.
* MCP. A home timeline is cached by its URL alone, so that another token may be served
  it. The limit is per process. `upgrade` and the CLI replace the index under sessions that
  keep the old file open. `transport.rs` documents a thread pool that is not there.
* Queries. `blast_radius` says each node is visited at its shortest depth only; the
  recursion visits it once per depth and takes the least at the end. A symbol that calls
  itself is neither an orphan nor a cycle. `importers` mentions further edges in later
  waves, which cannot occur.
* Agent runs. The pid on record is that of the crabcc process, so that the guard kills crabcc
  and orphans the hung child, where `agent_guard.rs:11` means the agent. `reap_stale` takes a
  pid that is NULL still for a dead process and marks a starting run as crashed. A run whose
  `ensure_up` fails leaves its row running and its lock behind. The guard records a kill for
  a run that finished while it waited.
* Detached runs. With an unknown start (0) `--kill` signals whatever has the pid
  (`run_cmd.rs:372`), where `run_cmd.rs:361` says such a process "must never be signalled", on
  every platform; `HandlesHold` excepts it. A crash between the spawn and `write_meta` leaves a command that nothing
  lists or kills. Following a log reads it before it asks whether the command lives, so
  that the last lines can be missed.
* Backups. `restore` leaves a log file that the snapshot lacks beside the restored database.
  Failed snapshots are counted when old ones are removed. Repositories of one base name share
  a directory.
* Onboarding. Two agents that find one stale lock: one replaces it between the other's second
  look and its `remove_file`, which unlinks the fresh one, and both lead, where
  `init_cmd.rs:89` and `:91` exclude that (`OneLeader` does not hold; `OnboardedOnce` excepts
  the race). One that takes over a stale lock after its leader has published starts the
  crawls again. `init --inject` can meet `overview.md` between its creation and its
  writing and uses up one of its slots on an empty text.

## 8. Limits

* Parsing is a constant function of the text; extraction never depends on the path.
* The FSST coding itself and the ANALYZE and backup steps after an index are left out, as
  are stale `-wal` files after a wipe.
* Directory events and the watcher's path filter are not modelled: every path
  of the model is a source file.
* `Indexer` starts an MCP process anew for every tool call that writes; the cached
  connection is in `McpServer`, where the index is a number that grows with every new file.
* `SymbolEdit` starts a second between writes of the file, as `IndexerWatch` does; its refresh
  is one step, since its pieces are those of `Indexer`.
* `Drawers` leaves out wings' rooms, sessions of drawers, ranking, RRF and vector distances:
  a search is the set of rows it can rank.
* Only one family of tools is called in a behaviour of `McpServer`, one topic is followed in
  `IndexCommands` and one family in `HomeDir`: they share no state.
* `Onboarding` supposes that no agent is stopped for longer than a lock takes to be stale
  (600 s) between two steps of a call; `init --inject` is left out.
* `Backups` copies index.db and its log; the other files of a snapshot are independent. A
  pruning by hand is one step.
* `WriteFile` takes what the patterns find in a text as a constant, as it takes what the extractor
  finds; limits, filters and qualified names are left out of the lookup.
* `StoreUpgrade` has no step in which adding a column fails: the process then leaves the open
  with the tables as they were, which is `Abandon`.
* `FuzzySearch` leaves out the folding of case and characters outside ASCII.
* `SignatureCodec` starts from an index of one signature, and a training never repeats a codec.
* Not modelled, with the reason in `PROJECT.json`: extractors, configuration
  and discovery, browser fetchers, embeddings, the compactor, and the commands that only
  format, install or report.
