--------------------------- MODULE SignatureCodec ---------------------------
(***************************************************************************)
(* `crabcc index compress`: train a codec, save it as fsst.symbols beside   *)
(* the databases, and with --rebuild encode the signatures that are plain.  *)
(* A Store or a memory backend loads the file when it is opened, decodes    *)
(* with it and encodes what it writes.  A codec is the number of its        *)
(* training; a text is what it was encoded by, one codec after the other.   *)
(***************************************************************************)
EXTENDS Naturals, Sequences, FiniteSetsExt

CONSTANTS
  Stores,       \* processes that have index.db or memory.db open
  Savers,       \* processes that run index compress
  MaxTrained, MaxStored, MaxCut   \* trainings, writes of the databases, crashes

ASSUME CodecAssumption == MaxTrained \in Nat

VARIABLES
  symbols,   \* index.db: the signature of each symbol id
  drawers,   \* memory.db: the bodies, by drawer id
  folder,    \* fsst.symbols and fsst.tmp, each a set of at most one inode; what is in an inode
  conn,      \* per process: the database it has open, and its codec, a set of at most one
  save,      \* the command of each saver
  trail      \* counts, and (history) tables replaced, saves that overlapped
codecVars == <<symbols, drawers, folder, conn, save, trail>>

Plain == <<>>
Half  == 0      \* the content of an inode that has been created and not written
Closed == [db |-> "none", codec |-> {}]
NoSave == [pc |-> "idle", codec |-> Half, ino |-> Half, todo |-> {}]

CodecInit ==
  /\ symbols = <<Plain>> /\ drawers = <<>>
  /\ folder = [table |-> {}, tmp |-> {}, ino |-> [i \in 1 .. MaxTrained |-> Half]]
  /\ conn = [p \in Stores |-> Closed]
  /\ save = [q \in Savers |-> NoSave]
  /\ trail = [trained |-> 0, stored |-> 0, cut |-> 0, replaced |-> FALSE, overlap |-> FALSE,
              rebuilt |-> FALSE]

Table == {folder.ino[i] : i \in folder.table}
Saves(q, r) == save' = [save EXCEPT ![q] = r]

\* A --rebuild is a claim about the signatures until somebody writes again.
Writes(n) == trail' = [trail EXCEPT !.stored = @ + n, !.rebuilt = FALSE]

-----------------------------------------------------------------------------
(* Processes that use the databases.                                       *)

\* No file, no codec; a file that cannot be read is an error.
Opened(p, db, codec) ==
  /\ conn[p] = Closed /\ Half \notin codec
  /\ conn' = [conn EXCEPT ![p] = [db |-> db, codec |-> codec]]
  /\ UNCHANGED <<symbols, drawers, folder, save, trail>>

\* --compress=false does not look for the file.
OpenStore(p, compress) == Opened(p, "index", IF compress THEN Table ELSE {})
OpenBackend(p)         == Opened(p, "memory", Table)

Close(p) ==
  /\ conn[p] # Closed
  /\ conn' = [conn EXCEPT ![p] = Closed]
  /\ UNCHANGED <<symbols, drawers, folder, save, trail>>

\* What a row is read as: encoded by another codec, something else comes out.
Decoded(codec, t, opaque) ==
  IF t = Plain \/ \E k \in codec : t = <<k>> THEN "text"
  ELSE IF codec = {} THEN opaque ELSE "garbage"
signature_from_row(codec, t) == Decoded(codec, t, "null")
body_from_row(codec, t)      == Decoded(codec, t, "empty")

Encoded(p) == IF conn[p].codec = {} THEN Plain ELSE <<CHOOSE k \in conn[p].codec : TRUE>>

\* replace_symbols: the symbols of a file, of which each has one here, are
\* deleted and inserted again.  The id is one more than the greatest.
replace_symbols(p, gone) ==
  /\ conn[p].db = "index" /\ trail.stored < MaxStored
  /\ LET kept == DOMAIN symbols \ gone
         id == IF kept = {} THEN 1 ELSE Max(kept) + 1
     IN symbols' = [i \in kept \cup {id} |-> IF i = id THEN Encoded(p) ELSE symbols[i]]
  /\ Writes(1)
  /\ UNCHANGED <<drawers, folder, conn, save>>

add(p) ==
  /\ conn[p].db = "memory" /\ trail.stored < MaxStored
  /\ drawers' = Append(drawers, Encoded(p))
  /\ Writes(1)
  /\ UNCHANGED <<symbols, folder, conn, save>>

-----------------------------------------------------------------------------
(* The command.                                                            *)

\* Names and paths are samples, and signatures as far as they are plain.  Two
\* trainings do not give the same codec.
train_codec(q) ==
  /\ save[q].pc = "idle" /\ trail.trained < MaxTrained /\ DOMAIN symbols # {}
  /\ trail' = [trail EXCEPT !.trained = @ + 1, !.rebuilt = FALSE]
  /\ Saves(q, [NoSave EXCEPT !.pc = "create", !.codec = trail.trained + 1])
  /\ UNCHANGED <<symbols, drawers, folder, conn>>

\* File::create: whatever has the name of the temporary file is emptied.
Create(q) ==
  /\ save[q].pc = "create"
  /\ LET i == IF folder.tmp = {} THEN save[q].codec ELSE CHOOSE x \in folder.tmp : TRUE IN
     /\ folder' = [folder EXCEPT !.tmp = {i}, !.ino[i] = Half]
     /\ Saves(q, [save[q] EXCEPT !.pc = "write", !.ino = i])
  /\ trail' = [trail EXCEPT !.overlap = @ \/ \E o \in Savers : save[o].pc \in {"write", "rename"}]
  /\ UNCHANGED <<symbols, drawers, conn>>

WriteTable(q) ==
  /\ save[q].pc = "write"
  /\ folder' = [folder EXCEPT !.ino[save[q].ino] = save[q].codec]
  /\ Saves(q, [save[q] EXCEPT !.pc = "rename"])
  /\ UNCHANGED <<symbols, drawers, conn, trail>>

rename(q, rebuild) ==
  /\ save[q].pc = "rename" /\ folder.tmp # {}
  /\ folder' = [folder EXCEPT !.table = folder.tmp, !.tmp = {}]
  /\ trail' = [trail EXCEPT !.replaced = @ \/ folder.table # {}]
  /\ Saves(q, IF rebuild THEN [save[q] EXCEPT !.pc = "list"] ELSE NoSave)
  /\ UNCHANGED <<symbols, drawers, conn>>

\* Another saver has renamed the file already: an error.
RenameFails(q) ==
  /\ save[q].pc = "rename" /\ folder.tmp = {}
  /\ Saves(q, NoSave)
  /\ UNCHANGED <<symbols, drawers, folder, conn, trail>>

Ends(q, todo) ==
  /\ Saves(q, IF todo = {} THEN NoSave ELSE [save[q] EXCEPT !.pc = "encode", !.todo = todo])
  /\ trail' = [trail EXCEPT !.rebuilt = @ \/ todo = {}]

ListPlain(q) ==
  /\ save[q].pc = "list"
  /\ Ends(q, {i \in DOMAIN symbols : symbols[i] = Plain})
  /\ UNCHANGED <<symbols, drawers, folder, conn>>

\* Mutant: the row is encoded whatever became of it.
EncodeAnyhow(q, i) ==
  /\ save[q].pc = "encode" /\ i \in save[q].todo
  /\ symbols' = IF i \in DOMAIN symbols THEN [symbols EXCEPT ![i] = Append(@, save[q].codec)]
                ELSE symbols
  /\ Ends(q, save[q].todo \ {i})
  /\ UNCHANGED <<drawers, folder, conn>>

\* A transaction: a row of the list that is plain still is encoded.
Encode(q, i) ==
  /\ save[q].pc = "encode" /\ i \in save[q].todo
  /\ symbols' = IF i \in DOMAIN symbols /\ symbols[i] = Plain
                THEN [symbols EXCEPT ![i] = <<save[q].codec>>] ELSE symbols
  /\ Ends(q, save[q].todo \ {i})
  /\ UNCHANGED <<drawers, folder, conn>>

\* The temporary file stays.
CompressCrash(q) ==
  /\ save[q].pc # "idle" /\ trail.cut < MaxCut
  /\ Saves(q, NoSave)
  /\ trail' = [trail EXCEPT !.cut = @ + 1]
  /\ UNCHANGED <<symbols, drawers, folder, conn>>

CodecNext ==
  \/ \E p \in Stores :
       \/ \E compress \in BOOLEAN : OpenStore(p, compress)
       \/ \E gone \in {{}} \cup {{i} : i \in DOMAIN symbols} : replace_symbols(p, gone)
       \/ OpenBackend(p) \/ Close(p) \/ add(p)
  \/ \E q \in Savers :
       \/ train_codec(q) \/ Create(q) \/ WriteTable(q) \/ RenameFails(q) \/ ListPlain(q)
       \/ \E rebuild \in BOOLEAN : rename(q, rebuild)
       \/ \E i \in save[q].todo : Encode(q, i)
       \/ CompressCrash(q)

-----------------------------------------------------------------------------
(* Properties.                                                             *)

\* "concurrent readers never observe a half-written symbol table", as long as
\* no two savers use the temporary file at once.
TableIsWhole == trail.overlap \/ Half \notin Table

\* "they stay correct on disk; we just refuse to load the codec": until a
\* table is replaced, a process reads a text as it was written or, if it has
\* no codec, not at all, and who opens the databases now reads every text.
Reads(codec) == {signature_from_row(codec, symbols[i]) : i \in DOMAIN symbols}
                  \cup {body_from_row(codec, drawers[i]) : i \in DOMAIN drawers}
TextsDecode ==
  trail.overlap \/ trail.replaced \/
    /\ \A p \in Stores : "garbage" \notin Reads(conn[p].codec)
    /\ Reads(Table) \subseteq {"text"}

\* "train an FSST symbol table from the current index, optionally re-encode
\* every existing `signature` row": when a --rebuild has ended and nothing has
\* happened since, the table decodes the signatures.
RebuiltDecodes ==
  trail.rebuilt => \A i \in DOMAIN symbols : signature_from_row(Table, symbols[i]) = "text"
=============================================================================
