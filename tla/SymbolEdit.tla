----------------------------- MODULE SymbolEdit -----------------------------
(***************************************************************************)
(* `crabcc edit FILE#SYMBOL --write` (cli edit.rs): resolve the symbol's   *)
(* lines in the index, read the file, splice the new body over the lines,  *)
(* write the file and index it again, beside other writers of the file and *)
(* refreshes.  One file: a sequence of lines, each the i-th of the n lines *)
(* of a definition, or a line of no definition.  The body that comes from  *)
(* --update or from Morph is any of Updates.                               *)
(***************************************************************************)
EXTENDS Naturals, Sequences, FiniteSets

CONSTANTS Editors,     \* processes running the command
          Names,       \* names of symbols
          NoName,      \* the owner of a line outside every definition
          Updates,     \* bodies to write: <<name, number of lines>>
          FirstText,   \* the file at the start
          Foreign,     \* texts other programs may leave in the file
          MaxWrites    \* bound on the writes of the file

\* A line: its definition, its number there and how many the definition has.
Lines == (Names \cup {NoName}) \X Nat \X Nat

ASSUME EditAssumption ==
  /\ NoName \notin Names /\ Updates \subseteq Names \X (Nat \ {0})
  /\ FirstText \in Seq(Lines) /\ Foreign \subseteq Seq(Lines)

VARIABLES disk,    \* the file: its text and its mtime
          index,   \* the file's row and symbols: sha, mtime, syms
          ed       \* what each editor is doing

editVars == <<disk, index, ed>>

Body(b) == [i \in 1..b[2] |-> <<b[1], i, b[2]>>]
Other == <<<<NoName, 1, 1>>>>

\* The symbols the extractor finds, with their 1-based inclusive lines.
extract(text) ==
  {s \in [name : Names, start : DOMAIN text, end : DOMAIN text] :
     s.start <= s.end /\ SubSeq(text, s.start, s.end) = Body(<<s.name, s.end - s.start + 1>>)}

Idle == [pc |-> "idle"]
Row(text, mtime) == [sha |-> text, mtime |-> mtime, syms |-> extract(text)]
Describes(row, text) == row.sha = text /\ row.syms = extract(text)

EditInit == /\ disk = [text |-> FirstText, mtime |-> 0]
            /\ index = Row(FirstText, 0)
            /\ ed = [p \in Editors |-> Idle]

---------------------------------------------------------------------------
(* The command.                                                            *)

\* span_bounds and splice_span: lines start..end give way to the new body; a span
\* past the end of the file is refused.
\* Mutant: the span's last line is left in place.
splice_keeping(text, s, body) == SubSeq(text, 1, s.start - 1) \o body \o SubSeq(text, s.end, Len(text))

splice_span(text, s, body) == SubSeq(text, 1, s.start - 1) \o body \o SubSeq(text, s.end + 1, Len(text))
InBounds(text, s) == s.end <= Len(text) + 1   \* what follows the last newline counts

\* The text as it should become: found by the owner of the lines, not by number.
Edited(text, name, body) ==
  LET before == {i \in DOMAIN text : \A j \in 1..i : text[j][1] # name}
      after  == {i \in DOMAIN text : \A j \in i..Len(text) : text[j][1] # name}
  IN SubSeq(text, 1, Cardinality(before)) \o body
       \o SubSeq(text, Len(text) - Cardinality(after) + 1, Len(text))

\* resolve_symbol: the name must be in the index once.  `clean` is history: here the
\* index described the file, a file of whole definitions, nobody was about to index an
\* older text of it, and nobody has written it since.
Whole(text) == \A i \in DOMAIN text : \/ text[i][1] = NoName
                                       \/ \E s \in extract(text) : s.start <= i /\ i <= s.end
Indexing(q) == ed[q].pc \in {"reread", "stat", "upsert", "symbols"}
resolve_symbol(p) ==
  \E name \in Names :
    /\ ed[p].pc = "idle" /\ disk.mtime < MaxWrites
    /\ Cardinality({s \in index.syms : s.name = name}) = 1
    /\ ed' = [ed EXCEPT ![p] = [pc |-> "read",
                                span |-> CHOOSE s \in index.syms : s.name = name,
                                clean |-> /\ Describes(index, disk.text) /\ Whole(disk.text)
                                          /\ \A q \in Editors : ~Indexing(q)]]
    /\ UNCHANGED <<disk, index>>

\* read_to_string and compute.
ReadAndCompute(p) ==
  \E u \in Updates :
    /\ ed[p].pc = "read"
    /\ u[1] = ed[p].span.name
    /\ ed' = [ed EXCEPT ![p] =
         IF ~InBounds(disk.text, ed[p].span) THEN Idle
         ELSE [pc |-> "write", clean |-> ed[p].clean,
               text |-> splice_span(disk.text, ed[p].span, Body(u)),
               want |-> Edited(disk.text, u[1], Body(u))]]
    /\ UNCHANGED <<disk, index>>

\* Whoever writes the file makes the others' view of it old.
Overtaken(e, p) ==
  [q \in Editors |-> IF q # p /\ e[q].pc # "idle" THEN [e[q] EXCEPT !.clean = FALSE] ELSE e[q]]

Write(p) ==
  /\ ed[p].pc = "write" /\ disk.mtime < MaxWrites
  /\ disk' = [text |-> ed[p].text, mtime |-> disk.mtime + 1]
  /\ ed' = Overtaken([ed EXCEPT ![p].pc = "reread"], p)
  /\ UNCHANGED index

\* reindex_file: read, stat, then the row and the symbols in transactions of their own.
Reread(p) ==
  /\ ed[p].pc = "reread"
  /\ ed' = [ed EXCEPT ![p].pc = "stat", ![p].text = disk.text]
  /\ UNCHANGED <<disk, index>>

Stat(p) ==
  /\ ed[p].pc = "stat"
  /\ ed' = [ed EXCEPT ![p] = [pc |-> "upsert", clean |-> @.clean, text |-> @.text,
                              want |-> @.want, mtime |-> disk.mtime]]
  /\ UNCHANGED <<disk, index>>

UpsertFile(p) ==
  /\ ed[p].pc = "upsert"
  /\ index' = [index EXCEPT !.sha = ed[p].text, !.mtime = ed[p].mtime]
  /\ ed' = [ed EXCEPT ![p].pc = "symbols"]
  /\ UNCHANGED disk

ReplaceSymbols(p) ==
  /\ ed[p].pc = "symbols"
  /\ index' = [index EXCEPT !.syms = extract(ed[p].text)]
  /\ ed' = [ed EXCEPT ![p].pc = "done"]
  /\ UNCHANGED disk

Exit(p) == /\ ed[p].pc # "idle"
           /\ ed' = [ed EXCEPT ![p] = Idle]
           /\ UNCHANGED <<disk, index>>

---------------------------------------------------------------------------
(* Everybody else.                                                         *)

\* Another program leaves another text, at least a second after the last write.
Save == /\ disk.mtime < MaxWrites
        /\ \E t \in Foreign : disk' = [text |-> t, mtime |-> disk.mtime + 1]
        /\ ed' = [q \in Editors |-> IF ed[q].pc = "idle" THEN Idle ELSE [ed[q] EXCEPT !.clean = FALSE]]
        /\ UNCHANGED index

\* A refresh that nobody disturbs: an unchanged mtime skips the file, an unchanged
\* hash only takes the mtime over.
Refresh == /\ index.mtime # disk.mtime
           /\ index' = IF index.sha = disk.text THEN [index EXCEPT !.mtime = disk.mtime]
                       ELSE Row(disk.text, disk.mtime)
           /\ UNCHANGED <<disk, ed>>

EditNext ==
  \/ \E p \in Editors :
       \/ resolve_symbol(p) \/ ReadAndCompute(p) \/ Write(p) \/ Reread(p)
       \/ Stat(p) \/ UpsertFile(p) \/ ReplaceSymbols(p) \/ Exit(p)
  \/ Save \/ Refresh

---------------------------------------------------------------------------
\* `edit` rewrites its symbol and nothing else, and leaves the index as the next edit
\* needs it: when the index described the file at the start and nobody else wrote the
\* file or an older description of it, the file is the old one with the symbol's
\* lines exchanged, and after the reindexing the index describes the new one, whose
\* line numbers have moved.
EditIsClean ==
  \A p \in Editors :
    (ed[p].pc \in {"reread", "stat", "upsert", "symbols", "done"} /\ ed[p].clean) =>
      /\ disk.text = ed[p].want
      /\ ed[p].pc = "done" => Describes(index, disk.text)
=============================================================================
