----------------------------- MODULE WriteFile -----------------------------
(***************************************************************************)
(* The MCP tool write_file (crabcc-mcp dispatch.rs, crabcc_core::validate) *)
(* beside the indexing processes of Indexer: it snapshots the file's       *)
(* symbols, writes the file, reindexes it from the text it was given, and  *)
(* asks which files call the symbols that are gone.  The server handles    *)
(* one call at a time, on a connection of its own.                         *)
(***************************************************************************)
EXTENDS Indexer

CONSTANTS
  Patterned,    \* files in a language that pattern::lang_for knows
  Identifiers,  \* names that are identifiers: `empty?` is none
  TextCalls     \* TextCalls[c]: what c calls as `name(..)` or `x.name(..)`

\* The extractor and the patterns need not agree on what a call is.
ASSUME ToolAssumption ==
  /\ Patterned \subseteq Paths /\ Identifiers \subseteq Names
  /\ TextCalls \in [Contents -> SUBSET Names]

VARIABLE tool   \* the call being served

tvars == <<vars, tool>>

ToolStages ==
  {"none", "write", "stamp", "upsert", "symbols", "edges", "callers", "answered"}

NoCall ==
  [pc |-> "none", path |-> Anchor, text |-> NoContent, before |-> {},
   mtime |-> 0, fid |-> 0,
   todo |-> {},     \* removed names whose callers are not looked up yet
   broken |-> {},   \* broken_caller_files
   lost |-> {},     \* history: names whose lookup failed
   stale |-> {},    \* history: paths others edited since the call began
   alone |-> TRUE]  \* history: no indexing process was at work meanwhile

InitTool == Init /\ tool = NoCall

Untouched == UNCHANGED <<env, ix, failures>>

-----------------------------------------------------------------------------
(* The index, the user and the other processes move on beside the call.    *)

Beside ==
  /\ Next
  /\ tool' = IF tool.pc = "none" THEN tool
             ELSE [tool EXCEPT !.stale = @ \cup {f \in Paths : written'[f] # written[f]},
                               !.alone = @ /\ written' # written]

-----------------------------------------------------------------------------
(* One call.                                                               *)

symbols_in_file(f) == IF f \in DOMAIN files THEN {s[2] : s \in SymbolsOf(files[f].id)} ELSE {}

\* A statement that fails and whose error the call drops.
Dropped == failures < MaxFailures /\ failures' = failures + 1
Succeeds == failures' = failures

Snapshot(f, c) ==
  /\ tool.pc = "none"
  /\ \E before \in {symbols_in_file(f), {}} :
       /\ \/ before = symbols_in_file(f) /\ Succeeds
          \/ before = {} /\ Dropped
       /\ tool' = [NoCall EXCEPT !.pc = "write", !.path = f, !.text = c, !.before = before,
                                 !.alone = \A p \in Indexers : ix[p].pc = "idle"]
  /\ UNCHANGED <<store, env, ix>>

WriteDisk ==
  /\ tool.pc = "write"
  /\ Edit(tool.path, tool.text)
  /\ tool' = [tool EXCEPT !.pc = "stamp"]

After == IF tool.text \in Unindexable THEN {} ELSE Defs[tool.text]

\* reindex_file: when extraction fails the index stays as it was and every
\* former symbol counts as removed; otherwise the clock gives the row's mtime.
Stamp ==
  /\ tool.pc = "stamp"
  /\ tool' = [tool EXCEPT !.pc = IF tool.text \in Unindexable THEN "callers" ELSE "upsert",
                          !.mtime = now, !.todo = tool.before \ After]
  /\ UNCHANGED vars

UpsertWritten ==
  /\ tool.pc = "upsert"
  /\ upsert_file(tool.path, tool.text, tool.mtime)
  /\ tool' = [tool EXCEPT !.pc = "symbols", !.fid = RowIdFor(tool.path)]
  /\ Untouched

\* Mutant: replace_edges is left out.
OnlySymbolsWritten ==
  /\ tool.pc = "symbols"
  /\ replace_symbols(tool.fid, tool.text)
  /\ tool' = [tool EXCEPT !.pc = "callers"]
  /\ Untouched

SymbolsWritten ==
  /\ tool.pc = "symbols"
  /\ replace_symbols(tool.fid, tool.text)
  /\ tool' = [tool EXCEPT !.pc = "edges"]
  /\ Untouched

EdgesWritten ==
  /\ tool.pc = "edges"
  /\ replace_edges(tool.fid, tool.text)
  /\ tool' = [tool EXCEPT !.pc = "callers"]
  /\ Untouched

\* query::find_callers of a name that is an identifier: the edges when a
\* full_index has populated them (a hit in a file that cannot be read is
\* skipped), else a walk over the texts of the indexed files, with patterns.
Skippable == {g \in Paths : disk[g] \in Unindexable}
by_edges(g, n) == \E x \in callers_of(n) : x[1] = g
by_text(g, n)  == g \in list_files \cap Patterned /\ n \in TextCalls[disk[g]]

\* Mutant: without the edges_ready gate.
callers_by_edges(n) == {g \in Paths : disk[g] # NoContent /\ n \in Identifiers /\ by_edges(g, n)}

find_callers(n) ==
  {g \in Paths : /\ disk[g] # NoContent /\ n \in Identifiers
                 /\ IF meta.edges_populated THEN by_edges(g, n) ELSE by_text(g, n)}

QueryCallers(n) ==
  /\ tool.pc = "callers"
  /\ n \in tool.todo
  /\ \E skipped \in SUBSET Skippable :
       tool' = [tool EXCEPT !.todo = @ \ {n}, !.broken = @ \cup (find_callers(n) \ skipped)]
  /\ UNCHANGED vars

\* `.ok()`: a name whose lookup fails has no callers.
QueryFails(n) ==
  /\ tool.pc = "callers"
  /\ n \in tool.todo
  /\ Dropped
  /\ tool' = [tool EXCEPT !.todo = @ \ {n}, !.lost = @ \cup {n}]
  /\ UNCHANGED <<store, env, ix>>

Answer ==
  /\ tool.pc = "callers"
  /\ tool.todo = {}
  /\ tool' = [tool EXCEPT !.pc = "answered"]
  /\ UNCHANGED vars

\* The next call; also the call that an error ends: the row went away under
\* it, a statement failed, or it panicked over a snippet cut inside a character.
Return ==
  /\ \/ tool.pc = "answered" /\ failures' = failures
     \/ tool.pc = "symbols" /\ ~CanReplaceSymbols(tool.fid, tool.text) /\ failures' = failures
     \/ /\ tool.pc \in {"stamp", "upsert", "symbols", "edges", "callers"}
        /\ failures < MaxFailures
        /\ failures' = failures + 1
  /\ tool' = NoCall
  /\ UNCHANGED <<store, env, ix>>

Call ==
  \/ \E f \in Paths, c \in Contents : Snapshot(f, c)
  \/ WriteDisk \/ Stamp \/ UpsertWritten \/ SymbolsWritten \/ EdgesWritten
  \/ \E n \in Names : QueryCallers(n) \/ QueryFails(n)
  \/ Answer \/ Return

SpecTool == InitTool /\ [][Beside \/ Call]_tvars

-----------------------------------------------------------------------------
(* Properties.                                                             *)

ToolTypeOK ==
  tool \in [pc : ToolStages, path : RowPaths, text : Contents \cup {NoContent},
            before : SUBSET Names, mtime : Nat, fid : Nat, todo : SUBSET Names,
            broken : SUBSET Paths, lost : SUBSET Names, stale : SUBSET Paths, alone : BOOLEAN]

\* When write_file answers and no other process was writing the index, it
\* holds the new text of the file: its hash, its symbols and all its calls.
WrittenFileIsIndexed ==
  tool.pc = "answered" /\ tool.alone /\ tool.text \notin Unindexable =>
    LET f == tool.path IN
    /\ f \in list_files
    /\ files[f].sha = tool.text
    /\ SymbolNames(f) = Defs[tool.text]
    /\ CallsOf(f) = AllCalls(tool.text)

\* As long as nothing has populated the edges, broken_caller_files is what
\* the write has broken as far as the patterns can tell, whatever lookups
\* failed and whatever the user edited meanwhile: of the indexed files that
\* nobody else touched, it has those, and only those, that the walk can read
\* and that call in its shapes a removed identifier that could be looked up.
AnswerNamesCallers ==
  tool.pc = "answered" /\ tool.alone =>
    /\ tool.broken \subseteq list_files
    /\ \A g \in list_files \ tool.stale : Indexable(g) =>
         (g \in tool.broken <=>
            /\ g \in Patterned
            /\ TextCalls[disk[g]] \cap Identifiers \cap (tool.before \ (After \cup tool.lost)) # {})

\* crabcc-mcp schema.rs: "broken_caller_files (deduped list of files
\* containing call edges to any removed symbol)": an indexed file nobody
\* touched whose text, as the extractor reads it, calls a name the write
\* removed is in the answer.
BrokenCallersReported ==
  tool.pc = "answered" /\ tool.alone =>
    \A g \in list_files \ (tool.stale \cup {tool.path}) :
      (/\ Indexable(g)
       /\ files[g].sha = disk[g]
       /\ \E x \in AllCalls(disk[g]) : x[2] \in tool.before \ After)
        => g \in tool.broken

=============================================================================
