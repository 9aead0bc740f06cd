------------------------ MODULE IndexCommandsProofs ------------------------
(***************************************************************************)
(* What holds of the index's commands however many processes run them: an  *)
(* old index is migrated truly, what the symbol table encoded can be read  *)
(* while nobody replaces it, an edit changes its symbol only; and on every *)
(* graph, affected and importers answer with what is within the depth, walk *)
(* with the distances, why with a shortest path, cycles with the classes of *)
(* symbols that call each other; in every table of names, fuzzy and prefix *)
(* find the closest.                                                       *)
(***************************************************************************)
EXTENDS IndexCommands, GraphQueriesProofs

-----------------------------------------------------------------------------
(* The migrations: who is past a probe knows what it has seen or done.     *)

Waypoints == {"off", "schema", "level", "enc", "alter", "edges", "recreate", "mark",
              "open", "failed"}
Outside == {"off", "schema", "failed"}

UpgradeTyped ==
  /\ base \in [shape : Shapes, enc : BOOLEAN, migrated : BOOLEAN]
  /\ opener \in [Openers -> Waypoints]
  /\ fate \in [faults : Nat, blind : BOOLEAN, raced : BOOLEAN]

\* Nobody gets past the schema of a new index or one before v4, and the
\* column and the edges table stay as the migrations leave them.
UpgradeInv ==
  /\ UpgradeTyped
  /\ \A p \in Openers :
       /\ opener[p] \notin Outside => base.shape \in {"rowid", "clustered"}
       /\ opener[p] \in {"edges", "recreate", "mark"} => base.enc
       /\ At(p, "mark") => base.shape = "clustered" \/ fate.blind
  /\ LevelIsTrue

LEMMA UpgradeInitially == UpgradeInit => UpgradeInv
  BY UpgradeAssumption
  DEF UpgradeInit, UpgradeInv, UpgradeTyped, LevelIsTrue, Migrated, At, Waypoints, Outside

\* The three variables after a step, and what only ever grows.
LEMMA UpgradeStep == UpgradeInv /\ [UpgradeNext]_upgradeVars => UpgradeInv'
<1> SUFFICES ASSUME UpgradeInv, [UpgradeNext]_upgradeVars PROVE UpgradeInv'
  OBVIOUS
<1> USE DEF UpgradeInv, UpgradeTyped, LevelIsTrue, Migrated, At, Goto, Misfires, Waypoints, Outside, Shapes
<1>1. CASE UNCHANGED upgradeVars
  BY <1>1 DEF upgradeVars
<1>2. ASSUME NEW p \in Openers, StartOpen(p) \/ Abandon(p) PROVE UpgradeInv'
  BY <1>2 DEF StartOpen, Abandon
<1>3. ASSUME NEW p \in Openers, ApplySchema(p) PROVE UpgradeInv'
  <2>1. CASE base.shape = "text" /\ Goto(p, "failed") /\ UNCHANGED <<base, fate>>
    BY <1>3, <2>1 DEF ApplySchema
  <2>2. CASE Misfires("failed", p)
    <3> PICK n \in Nat : n = fate.faults + 1
      OBVIOUS
    <3>1. fate' = [fate EXCEPT !.faults = n] /\ n > 0
      BY <2>2
    <3>2. fate'.faults = n /\ fate'.blind = fate.blind /\ fate'.raced = fate.raced
      BY <3>1
    <3> QED
      BY <1>3, <2>2, <3>1, <3>2 DEF ApplySchema
  <2>3. CASE base.shape # "text" /\ Goto(p, "level") /\ UNCHANGED fate
    <3>1. CASE base.shape # "none"
      BY <1>3, <2>3, <3>1 DEF ApplySchema
    <3>2. CASE base.shape = "none"
      <4>1. base' = [base EXCEPT !.shape = "clustered", !.enc = TRUE]
        BY <1>3, <2>3, <3>2 DEF ApplySchema
      <4>2. base'.shape = "clustered" /\ base'.enc /\ base'.migrated = base.migrated
        BY <4>1
      <4>3. base' \in [shape : Shapes, enc : BOOLEAN, migrated : BOOLEAN]
        BY <4>1, Zenon
      <4> QED
        BY <1>3, <2>3, <3>2, <4>2, <4>3 DEF ApplySchema
    <3> QED
      BY <3>1, <3>2
  <2> QED
    BY <1>3, <2>1, <2>2, <2>3 DEF ApplySchema
<1>4. ASSUME NEW p \in Openers, ReadLevel(p) PROVE UpgradeInv'
  BY <1>4 DEF ReadLevel
<1>5. ASSUME NEW p \in Openers, ProbeEnc(p) PROVE UpgradeInv'
  BY <1>5 DEF ProbeEnc
<1>6. ASSUME NEW p \in Openers, AddColumn(p) PROVE UpgradeInv'
  BY <1>6, Zenon DEF AddColumn
<1>7. ASSUME NEW p \in Openers, ProbeEdges(p) PROVE UpgradeInv'
  <2>1. CASE Goto(p, IF base.shape = "rowid" THEN "recreate" ELSE "mark") /\ UNCHANGED <<base, fate>>
    BY <1>7, <2>1 DEF ProbeEdges
  <2>2. CASE fate' = [fate EXCEPT !.faults = @ + 1, !.blind = TRUE] /\ Goto(p, "mark") /\ UNCHANGED base
    <3> PICK n \in Nat : n = fate.faults + 1
      OBVIOUS
    <3>1. fate' = [fate EXCEPT !.faults = n, !.blind = TRUE] /\ n > 0
      BY <2>2
    <3>2. fate'.faults = n /\ fate'.blind /\ fate'.raced = fate.raced
      BY <3>1
    <3>3. fate' \in [faults : Nat, blind : BOOLEAN, raced : BOOLEAN]
      BY <3>1, Zenon
    <3> QED
      BY <1>7, <2>2, <3>2, <3>3 DEF ProbeEdges
  <2> QED
    BY <1>7, <2>1, <2>2 DEF ProbeEdges
<1>8. ASSUME NEW p \in Openers, Recreate(p) PROVE UpgradeInv'
  BY <1>8 DEF Recreate
<1>9. ASSUME NEW p \in Openers, SetLevel(p) PROVE UpgradeInv'
  <2>1. CASE base' = [base EXCEPT !.migrated = TRUE] /\ Goto(p, "open") /\ UNCHANGED fate
    <3>1. base'.shape = base.shape /\ base'.enc = base.enc /\ base'.migrated
      BY <2>1
    <3>2. base' \in [shape : Shapes, enc : BOOLEAN, migrated : BOOLEAN]
      BY <2>1, Zenon
    <3> QED
      BY <1>9, <2>1, <3>1, <3>2 DEF SetLevel
  <2>2. CASE Misfires("failed", p)
    <3> PICK n \in Nat : n = fate.faults + 1
      OBVIOUS
    <3>1. fate' = [fate EXCEPT !.faults = n] /\ n > 0
      BY <2>2
    <3>2. fate'.faults = n /\ fate'.blind = fate.blind /\ fate'.raced = fate.raced
      BY <3>1
    <3> QED
      BY <1>9, <2>2, <3>1, <3>2 DEF SetLevel
  <2> QED
    BY <1>9, <2>1, <2>2 DEF SetLevel
<1> QED
  BY <1>1, <1>2, <1>3, <1>4, <1>5, <1>6, <1>7, <1>8, <1>9 DEF UpgradeNext

-----------------------------------------------------------------------------
(* The symbol table: while no two savers use the temporary file at once, an *)
(* inode has the name of the table only when it has been written, and while *)
(* no table is replaced either, what is open and what is stored have been   *)
(* encoded by the table of now.                                             *)

Codecs == 1 .. MaxTrained
Texts  == {Plain} \cup {<<k>> : k \in Nat}

SaveRecord(r) ==
  /\ r = [pc |-> r.pc, codec |-> r.codec, ino |-> r.ino, todo |-> r.todo]
  /\ r.pc \in {"idle", "create", "write", "rename", "list", "encode"}
  /\ r.codec \in 0 .. MaxTrained /\ r.ino \in 0 .. MaxTrained
  /\ r.pc # "idle" => r.codec \in Codecs

CodecTyped ==
  /\ \A i \in DOMAIN symbols : symbols[i] \in Texts
  /\ drawers \in Seq(Texts)
  /\ folder \in [table : SUBSET Codecs, tmp : SUBSET Codecs, ino : [Codecs -> 0 .. MaxTrained]]
  /\ conn \in [Stores -> [db : {"none", "index", "memory"}, codec : SUBSET Nat]]
  /\ save = [q \in Savers |-> save[q]] /\ \A q \in Savers : SaveRecord(save[q])
  /\ trail \in [trained : 0 .. MaxTrained, stored : Nat, cut : Nat, replaced : BOOLEAN,
                overlap : BOOLEAN, rebuilt : BOOLEAN]

InFile(q) == save[q].pc \in {"write", "rename"}

\* The files: one saver at most is in the temporary one, which is not the
\* table; the inode a saver will create is nobody's yet.
FilesApart ==
  /\ folder.tmp \cap folder.table = {}
  /\ \A i \in folder.table : folder.ino[i] # Half
  /\ \A i \in folder.table \cup folder.tmp : i <= trail.trained
  /\ \A q \in Savers :
       /\ InFile(q) => folder.tmp = {save[q].ino}
       /\ save[q].pc = "rename" => folder.ino[save[q].ino] = save[q].codec
       /\ save[q].pc # "idle" => save[q].codec \in 1 .. trail.trained
       /\ save[q].pc = "create" => save[q].codec \notin folder.table \cup folder.tmp
       /\ \A o \in Savers \ {q} :
            /\ ~(InFile(q) /\ InFile(o))
            /\ save[q].pc = "create" /\ save[o].pc = "create" => save[q].codec # save[o].codec

\* The texts: what is loaded, used or stored is the table's.
Readable(t, table) == t = Plain \/ \E k \in table : t = <<k>>
OneTable ==
  /\ \A p \in Stores : conn[p].codec \in {{}, Table}
  /\ \A q \in Savers : save[q].pc \in {"list", "encode"} => save[q].codec \in Table
  /\ \A i \in DOMAIN symbols : Readable(symbols[i], Table)
  /\ \A i \in DOMAIN drawers : Readable(drawers[i], Table)

CodecInv ==
  /\ CodecTyped
  /\ ~trail.overlap => FilesApart
  /\ ~trail.overlap /\ ~trail.replaced => OneTable

LEMMA CodecInitially == CodecInit => CodecInv
<1> SUFFICES ASSUME CodecInit PROVE CodecInv
  OBVIOUS
<1> USE CodecAssumption DEF CodecInit
<1>1. CodecTyped
  <2>1. \A q \in Savers : SaveRecord(save[q])
    BY DEF NoSave, SaveRecord, Half
  <2>2. DOMAIN symbols = {1} /\ symbols[1] = Plain /\ drawers \in Seq(Texts)
    OBVIOUS
  <2> QED
    BY <2>1, <2>2 DEF CodecTyped, Texts, Codecs, Closed, Half
<1>2. FilesApart
  BY DEF FilesApart, InFile, NoSave, Half
<1>3. OneTable
  <2>1. Table = {}
    BY DEF Table
  <2>2. DOMAIN symbols = {1} /\ symbols[1] = Plain /\ DOMAIN drawers = {}
    BY DEF Plain
  <2> QED
    BY <2>1, <2>2 DEF OneTable, Closed, NoSave, Readable
<1> QED
  BY <1>1, <1>2, <1>3 DEF CodecInv

\* The records of the savers when q's becomes r.
LEMMA SavesTyped ==
  ASSUME CodecTyped, NEW q \in Savers, NEW r, SaveRecord(r), save' = [save EXCEPT ![q] = r]
  PROVE  /\ save' = [o \in Savers |-> save'[o]] /\ \A o \in Savers : SaveRecord(save'[o])
         /\ save'[q] = r /\ \A o \in Savers \ {q} : save'[o] = save[o]
  BY DEF CodecTyped

\* A table is the same as long as its inodes are.
LEMMA TableStays ==
  ASSUME folder'.table = folder.table, \A i \in folder.table : folder'.ino[i] = folder.ino[i]
  PROVE  Table' = Table
  BY DEF Table

LEMMA TableTyped == CodecTyped => Table \subseteq Nat
<1> SUFFICES ASSUME CodecTyped, NEW i \in folder.table PROVE folder.ino[i] \in Nat
  BY DEF Table
<1>1. folder.ino[i] \in 0 .. MaxTrained
  BY DEF CodecTyped
<1> QED
  BY <1>1

LEMMA OpenedStep ==
  ASSUME CodecInv, NEW p \in Stores, NEW c, c \in {{}, Table}, NEW db \in {"index", "memory"},
         conn' = [conn EXCEPT ![p] = [db |-> db, codec |-> c]],
         UNCHANGED <<symbols, drawers, folder, save, trail>>
  PROVE  CodecInv'
<1>1. Table' = Table /\ Table \subseteq Nat
  BY TableTyped DEF Table, CodecInv
<1>2. CodecTyped'
  BY <1>1 DEF CodecInv, CodecTyped
<1>3. FilesApart => FilesApart'
  BY DEF FilesApart, InFile
<1>4. OneTable => OneTable'
  BY <1>1 DEF OneTable, CodecInv, CodecTyped
<1> QED
  BY <1>2, <1>3, <1>4 DEF CodecInv

LEMMA CloseStep ==
  ASSUME CodecInv, NEW p \in Stores, Close(p)
  PROVE  CodecInv'
<1> USE DEF Close, Closed
<1>1. Table' = Table
  BY DEF Table
<1>2. CodecTyped'
  BY DEF CodecInv, CodecTyped
<1>3. FilesApart => FilesApart'
  BY DEF FilesApart, InFile
<1>4. OneTable => OneTable'
  BY <1>1 DEF OneTable, CodecInv, CodecTyped
<1> QED
  BY <1>2, <1>3, <1>4 DEF CodecInv

\* What a process writes, its own table can read.
LEMMA EncodedTyped ==
  ASSUME CodecTyped, NEW p \in Stores
  PROVE  Encoded(p) \in Texts /\ Readable(Encoded(p), conn[p].codec)
<1>1. CASE conn[p].codec = {}
  BY <1>1 DEF Encoded, Texts, Readable
<1>2. CASE conn[p].codec # {}
  <2> PICK k \in conn[p].codec : k = CHOOSE x \in conn[p].codec : TRUE
    BY <1>2
  <2>1. k \in Nat /\ Encoded(p) = <<k>>
    BY <1>2, Zenon DEF Encoded, CodecTyped
  <2> QED
    BY <2>1 DEF Texts, Readable
<1> QED
  BY <1>1, <1>2

LEMMA ReplaceStep ==
  ASSUME CodecInv, NEW p \in Stores, NEW gone, replace_symbols(p, gone)
  PROVE  CodecInv'
<1> DEFINE kept == DOMAIN symbols \ gone
           id == IF kept = {} THEN 1 ELSE Max(kept) + 1
<1> PICK t : t = Encoded(p)
  OBVIOUS
<1>1. symbols' = [i \in kept \cup {id} |-> IF i = id THEN t ELSE symbols[i]]
  BY DEF replace_symbols
<1> HIDE DEF id
<1>2. UNCHANGED <<drawers, folder, conn, save>>
  BY DEF replace_symbols
<1> PICK m \in Nat : m = trail.stored + 1
  BY DEF CodecInv, CodecTyped
<1>3. trail' = [trail EXCEPT !.stored = m, !.rebuilt = FALSE]
  BY DEF replace_symbols, Writes
<1>4. Table' = Table
  BY <1>2 DEF Table
<1>5. t \in Texts /\ Readable(t, conn[p].codec)
  BY EncodedTyped DEF CodecInv
<1>6. CodecTyped'
  <2>1. \A i \in DOMAIN symbols' : symbols'[i] \in Texts
    BY <1>1, <1>5 DEF CodecInv, CodecTyped
  <2>2. trail' \in [trained : 0 .. MaxTrained, stored : Nat, cut : Nat, replaced : BOOLEAN,
                    overlap : BOOLEAN, rebuilt : BOOLEAN]
    BY <1>3, Zenon DEF CodecInv, CodecTyped
  <2> QED
    BY <1>2, <2>1, <2>2 DEF CodecInv, CodecTyped
<1>7. /\ trail'.overlap = trail.overlap /\ trail'.replaced = trail.replaced
      /\ trail'.trained = trail.trained
  BY <1>3 DEF CodecInv, CodecTyped
<1>8. FilesApart => FilesApart'
  BY <1>2, <1>7 DEF FilesApart, InFile
<1>9. OneTable => OneTable'
  <2> SUFFICES ASSUME OneTable PROVE OneTable'
    OBVIOUS
  <2>1. Readable(t, Table)
    BY <1>5 DEF OneTable, Readable
  <2>2. \A i \in DOMAIN symbols' : Readable(symbols'[i], Table)
    BY <1>1, <2>1 DEF OneTable
  <2> QED
    BY <1>2, <1>4, <2>2 DEF OneTable
<1> QED
  BY <1>6, <1>7, <1>8, <1>9 DEF CodecInv

LEMMA AddStep ==
  ASSUME CodecInv, NEW p \in Stores, add(p)
  PROVE  CodecInv'
<1> PICK t : t = Encoded(p)
  OBVIOUS
<1>1. drawers' = Append(drawers, t) /\ UNCHANGED <<symbols, folder, conn, save>>
  BY DEF add
<1> PICK m \in Nat : m = trail.stored + 1
  BY DEF CodecInv, CodecTyped
<1>3. trail' = [trail EXCEPT !.stored = m, !.rebuilt = FALSE]
  BY DEF add, Writes
<1>4. Table' = Table
  BY <1>1 DEF Table
<1>5. t \in Texts /\ Readable(t, conn[p].codec)
  BY EncodedTyped DEF CodecInv
<1>6. CodecTyped'
  <2>1. drawers' \in Seq(Texts)
    BY <1>1, <1>5 DEF CodecInv, CodecTyped
  <2>2. trail' \in [trained : 0 .. MaxTrained, stored : Nat, cut : Nat, replaced : BOOLEAN,
                    overlap : BOOLEAN, rebuilt : BOOLEAN]
    BY <1>3, Zenon DEF CodecInv, CodecTyped
  <2> QED
    BY <1>1, <2>1, <2>2 DEF CodecInv, CodecTyped
<1>7. /\ trail'.overlap = trail.overlap /\ trail'.replaced = trail.replaced
      /\ trail'.trained = trail.trained
  BY <1>3 DEF CodecInv, CodecTyped
<1>8. FilesApart => FilesApart'
  BY <1>1, <1>7 DEF FilesApart, InFile
<1>9. OneTable => OneTable'
  <2> SUFFICES ASSUME OneTable PROVE OneTable'
    OBVIOUS
  <2>1. Readable(t, Table)
    BY <1>5 DEF OneTable, Readable
  <2>2. \A i \in DOMAIN drawers' : (i \in DOMAIN drawers /\ drawers'[i] = drawers[i]) \/ drawers'[i] = t
    BY <1>1, <1>5 DEF CodecInv, CodecTyped
  <2>3. \A i \in DOMAIN drawers' : Readable(drawers'[i], Table)
    BY <2>1, <2>2 DEF OneTable
  <2> QED
    BY <1>1, <1>4, <2>3 DEF OneTable
<1> QED
  BY <1>6, <1>7, <1>8, <1>9 DEF CodecInv

LEMMA TrainStep ==
  ASSUME CodecInv, NEW q \in Savers, train_codec(q)
  PROVE  CodecInv'
<1> PICK n : n = trail.trained + 1
  OBVIOUS
<1> PICK r : r = [pc |-> "create", codec |-> n, ino |-> Half, todo |-> {}]
  BY Zenon
<1>1. n \in 1 .. MaxTrained /\ trail.trained \in Nat /\ n = trail.trained + 1
  BY CodecAssumption DEF train_codec, CodecInv, CodecTyped
<1>2. save' = [save EXCEPT ![q] = r] /\ UNCHANGED <<symbols, drawers, folder, conn>>
  <2>1. [NoSave EXCEPT !.pc = "create", !.codec = n] = r
    <3>1. NoSave = [pc |-> "idle", codec |-> Half, ino |-> Half, todo |-> {}]
      BY DEF NoSave
    <3> HIDE DEF NoSave
    <3> PICK s : s = [NoSave EXCEPT !.pc = "create", !.codec = n]
      OBVIOUS
    <3>2. DOMAIN s = {"pc", "codec", "ino", "todo"}
      BY <3>1
    <3>3. s = [pc |-> s.pc, codec |-> s.codec, ino |-> s.ino, todo |-> s.todo]
      BY <3>1, <3>2, Zenon
    <3>4. s.pc = "create" /\ s.codec = n /\ s.ino = Half /\ s.todo = {}
      BY <3>1
    <3> QED
      BY <3>3, <3>4
  <2> QED
    BY <2>1, Zenon DEF train_codec, Saves
<1>3. SaveRecord(r)
  BY <1>1, CodecAssumption DEF SaveRecord, Half, Codecs
<1>4. /\ save' = [o \in Savers |-> save'[o]] /\ \A o \in Savers : SaveRecord(save'[o])
      /\ save'[q] = r /\ \A o \in Savers \ {q} : save'[o] = save[o]
  BY <1>2, <1>3, SavesTyped, Zenon DEF CodecInv
<1>5. trail' = [trail EXCEPT !.trained = n, !.rebuilt = FALSE]
  BY DEF train_codec
<1>6. Table' = Table
  BY <1>2 DEF Table
<1>7. CodecTyped'
  <2>1. trail' \in [trained : 0 .. MaxTrained, stored : Nat, cut : Nat, replaced : BOOLEAN,
                    overlap : BOOLEAN, rebuilt : BOOLEAN]
    <3>1. n \in 0 .. MaxTrained
      BY <1>1
    <3> QED
      BY <3>1, <1>5, Zenon DEF CodecInv, CodecTyped
  <2> QED
    BY <1>2, <1>4, <2>1, Zenon DEF CodecInv, CodecTyped
<1>8. trail'.overlap = trail.overlap /\ trail'.replaced = trail.replaced /\ trail'.trained = n
  BY <1>5 DEF CodecInv, CodecTyped
<1>9. FilesApart => FilesApart'
  <2> SUFFICES ASSUME FilesApart PROVE FilesApart'
    OBVIOUS
  <2>1. r.pc = "create" /\ r.codec = n
    OBVIOUS
  <2>2. /\ folder.table \cup folder.tmp \subseteq Nat /\ n \notin folder.table \cup folder.tmp
        /\ \A i \in folder.table \cup folder.tmp : i <= n
    BY <1>1 DEF FilesApart, CodecInv, CodecTyped, Codecs
  <2>3. \A o \in Savers \ {q} : save[o].pc # "idle" => save[o].codec \in 1 .. n /\ save[o].codec # n
    BY <1>1 DEF FilesApart
  <2>4. n \in 1 .. n
    BY <1>1
  <2> QED
    BY <1>2, <1>4, <1>8, <2>1, <2>2, <2>3, <2>4 DEF FilesApart, InFile
<1>10. OneTable => OneTable'
  BY <1>2, <1>4, <1>6 DEF OneTable
<1> QED
  BY <1>7, <1>8, <1>9, <1>10 DEF CodecInv

LEMMA NoSaveTyped == SaveRecord(NoSave) /\ NoSave.pc = "idle"
  BY CodecAssumption DEF SaveRecord, NoSave, Half

\* A saver that stops, or goes on outside the files with the codec it has.
LEMMA OnwardStep ==
  ASSUME CodecInv, NEW q \in Savers, NEW r, SaveRecord(r), save' = [save EXCEPT ![q] = r],
         \/ r.pc = "idle"
         \/ r.pc \in {"list", "encode"} /\ save[q].pc \in {"list", "encode"}
            /\ r.codec = save[q].codec,
         UNCHANGED <<drawers, folder, conn>>,
         trail' \in [trained : 0 .. MaxTrained, stored : Nat, cut : Nat, replaced : BOOLEAN,
                     overlap : BOOLEAN, rebuilt : BOOLEAN],
         trail'.overlap = trail.overlap, trail'.replaced = trail.replaced,
         trail'.trained = trail.trained,
         DOMAIN symbols' = DOMAIN symbols,
         \A i \in DOMAIN symbols :
           symbols'[i] # symbols[i] => symbols'[i] = <<save[q].codec>>
                                       /\ save[q].pc = "encode"
  PROVE  CodecInv'
<1>1. /\ save' = [o \in Savers |-> save'[o]] /\ \A o \in Savers : SaveRecord(save'[o])
      /\ save'[q] = r /\ \A o \in Savers \ {q} : save'[o] = save[o]
  BY SavesTyped, Zenon DEF CodecInv
<1>2. Table' = Table
  BY DEF Table
<1>3. CodecTyped'
  <2>1. save[q].codec \in Nat
    <3>1. save[q].codec \in 0 .. MaxTrained
      BY DEF CodecInv, CodecTyped, SaveRecord
    <3> QED
      BY <3>1
  <2>2. <<save[q].codec>> \in Texts
    BY <2>1 DEF Texts
  <2>3. \A i \in DOMAIN symbols' : symbols'[i] \in Texts
    BY <2>2, Zenon DEF CodecInv, CodecTyped
  <2> QED
    BY <1>1, <2>3 DEF CodecInv, CodecTyped
<1>4. FilesApart => FilesApart'
  BY <1>1 DEF FilesApart, InFile
<1>5. OneTable => OneTable'
  <2> SUFFICES ASSUME OneTable PROVE OneTable'
    OBVIOUS
  <2>1. \A o \in Savers : save'[o].pc \in {"list", "encode"} => save'[o].codec \in Table
    BY <1>1 DEF OneTable
  <2>2. save[q].pc = "encode" => Readable(<<save[q].codec>>, Table)
    BY DEF OneTable, Readable
  <2>3. \A i \in DOMAIN symbols' : Readable(symbols'[i], Table)
    BY <2>2 DEF OneTable
  <2> QED
    BY <1>2, <2>1, <2>3 DEF OneTable
<1> QED
  BY <1>3, <1>4, <1>5 DEF CodecInv

LEMMA RenameFailsStep ==
  ASSUME CodecInv, NEW q \in Savers, RenameFails(q)
  PROVE  CodecInv'
<1> PICK r : r = NoSave
  OBVIOUS
<1> QED
  BY NoSaveTyped, OnwardStep, Zenon DEF RenameFails, Saves, CodecInv, CodecTyped

LEMMA CompressCrashStep ==
  ASSUME CodecInv, NEW q \in Savers, CompressCrash(q)
  PROVE  CodecInv'
<1> PICK r : r = NoSave
  OBVIOUS
<1> PICK n \in Nat : n = trail.cut + 1
  BY DEF CodecInv, CodecTyped
<1>1. trail' = [trail EXCEPT !.cut = n]
  BY DEF CompressCrash
<1>2. /\ trail' \in [trained : 0 .. MaxTrained, stored : Nat, cut : Nat, replaced : BOOLEAN,
                     overlap : BOOLEAN, rebuilt : BOOLEAN]
      /\ trail'.overlap = trail.overlap /\ trail'.replaced = trail.replaced
      /\ trail'.trained = trail.trained
  BY <1>1, Zenon DEF CodecInv, CodecTyped
<1> QED
  BY <1>2, NoSaveTyped, OnwardStep, Zenon DEF CompressCrash, Saves

\* The record and the counts after what ListPlain and Encode end with.
LEMMA EndsStep ==
  ASSUME CodecInv, NEW q \in Savers, save[q].pc \in {"list", "encode"}, NEW todo, Ends(q, todo)
  PROVE  /\ \E r : /\ SaveRecord(r) /\ save' = [save EXCEPT ![q] = r]
                   /\ r.pc = "idle" \/ (r.pc = "encode" /\ r.codec = save[q].codec)
         /\ trail' \in [trained : 0 .. MaxTrained, stored : Nat, cut : Nat, replaced : BOOLEAN,
                        overlap : BOOLEAN, rebuilt : BOOLEAN]
         /\ trail'.overlap = trail.overlap /\ trail'.replaced = trail.replaced
         /\ trail'.trained = trail.trained
<1> PICK s : s = [save[q] EXCEPT !.pc = "encode", !.todo = todo]
  OBVIOUS
<1> PICK c \in BOOLEAN : c = (trail.rebuilt \/ todo = {})
  BY Zenon
<1>1. SaveRecord(s) /\ s.pc = "encode" /\ s.codec = save[q].codec
  <2>1. SaveRecord(save[q]) /\ DOMAIN save[q] = {"pc", "codec", "ino", "todo"}
    BY DEF CodecInv, CodecTyped, SaveRecord
  <2>2. s = [pc |-> s.pc, codec |-> s.codec, ino |-> s.ino, todo |-> s.todo]
    BY <2>1, Zenon
  <2>3. s.pc = "encode" /\ s.codec = save[q].codec /\ s.ino = save[q].ino
    BY <2>1
  <2> QED
    BY <2>1, <2>2, <2>3 DEF SaveRecord
<1>2. \/ save' = [save EXCEPT ![q] = NoSave]
      \/ save' = [save EXCEPT ![q] = s]
  BY Zenon DEF Ends, Saves
<1>3. trail' = [trail EXCEPT !.rebuilt = c]
  BY DEF Ends
<1>4. /\ trail' \in [trained : 0 .. MaxTrained, stored : Nat, cut : Nat, replaced : BOOLEAN,
                     overlap : BOOLEAN, rebuilt : BOOLEAN]
      /\ trail'.overlap = trail.overlap /\ trail'.replaced = trail.replaced
      /\ trail'.trained = trail.trained
  BY <1>3, Zenon DEF CodecInv, CodecTyped
<1> QED
  BY <1>1, <1>2, <1>4, NoSaveTyped, Zenon

LEMMA ListPlainStep ==
  ASSUME CodecInv, NEW q \in Savers, ListPlain(q)
  PROVE  CodecInv'
<1> PICK todo : todo = {i \in DOMAIN symbols : symbols[i] = Plain}
  BY Zenon
<1>1. Ends(q, todo) /\ save[q].pc = "list" /\ UNCHANGED <<symbols, drawers, folder, conn>>
  BY DEF ListPlain
<1> QED
  BY <1>1, EndsStep, OnwardStep

LEMMA EncodeStep ==
  ASSUME CodecInv, NEW q \in Savers, NEW i \in save[q].todo, Encode(q, i)
  PROVE  CodecInv'
<1> PICK todo : todo = save[q].todo \ {i}
  BY Zenon
<1>1. Ends(q, todo) /\ save[q].pc = "encode" /\ UNCHANGED <<drawers, folder, conn>>
  BY DEF Encode
<1>2. /\ DOMAIN symbols' = DOMAIN symbols
      /\ \A j \in DOMAIN symbols :
           symbols'[j] # symbols[j] => symbols'[j] = <<save[q].codec>>
  BY DEF Encode
<1> QED
  BY <1>1, <1>2, EndsStep, OnwardStep

LEMMA CreateStep ==
  ASSUME CodecInv, NEW q \in Savers, Create(q)
  PROVE  CodecInv'
<1> DEFINE inode == IF folder.tmp = {} THEN save[q].codec ELSE CHOOSE x \in folder.tmp : TRUE
<1> PICK i : i = inode
  OBVIOUS
<1> PICK s : s = [save[q] EXCEPT !.pc = "write", !.ino = i]
  BY Zenon
<1> PICK c \in BOOLEAN : c = (trail.overlap \/ \E o \in Savers : InFile(o))
  BY Zenon
<1>1. /\ save[q].pc = "create" /\ folder' = [folder EXCEPT !.tmp = {i}, !.ino[i] = Half]
      /\ save' = [save EXCEPT ![q] = s] /\ trail' = [trail EXCEPT !.overlap = c]
      /\ UNCHANGED <<symbols, drawers, conn>>
  BY DEF Create, Saves, InFile
<1>2. SaveRecord(save[q]) /\ DOMAIN save[q] = {"pc", "codec", "ino", "todo"}
  BY DEF CodecInv, CodecTyped, SaveRecord
<1>3. i \in folder.tmp \/ (folder.tmp = {} /\ i = save[q].codec)
  OBVIOUS
<1> HIDE DEF inode
<1>4. i \in Codecs
  BY <1>1, <1>2, <1>3 DEF CodecInv, CodecTyped, SaveRecord
<1>5. SaveRecord(s) /\ s.pc = "write" /\ s.ino = i /\ s.codec = save[q].codec
  <2>1. s = [pc |-> s.pc, codec |-> s.codec, ino |-> s.ino, todo |-> s.todo]
    BY <1>2, Zenon
  <2>2. s.pc = "write" /\ s.codec = save[q].codec /\ s.ino = i
    BY <1>2
  <2>3. i \in 0 .. MaxTrained
    BY <1>4 DEF Codecs
  <2>4. save[q].codec \in Codecs /\ save[q].codec \in 0 .. MaxTrained
    BY <1>1, <1>2 DEF SaveRecord
  <2> QED
    BY <2>1, <2>2, <2>3, <2>4 DEF SaveRecord
<1>6. /\ save' = [o \in Savers |-> save'[o]] /\ \A o \in Savers : SaveRecord(save'[o])
      /\ save'[q] = s /\ \A o \in Savers \ {q} : save'[o] = save[o]
  BY <1>1, <1>5, SavesTyped, Zenon DEF CodecInv
<1>7. /\ folder'.table = folder.table /\ folder'.tmp = {i}
      /\ \A x \in Codecs \ {i} : folder'.ino[x] = folder.ino[x]
      /\ folder' \in [table : SUBSET Codecs, tmp : SUBSET Codecs, ino : [Codecs -> 0 .. MaxTrained]]
  <2>1. folder \in [table : SUBSET Codecs, tmp : SUBSET Codecs, ino : [Codecs -> 0 .. MaxTrained]]
    BY DEF CodecInv, CodecTyped
  <2>2. folder' = [folder EXCEPT !.tmp = {i}, !.ino = [folder.ino EXCEPT ![i] = Half]]
    BY <1>1, <2>1
  <2>3. Half \in 0 .. MaxTrained /\ {i} \in SUBSET Codecs
    BY <1>4, CodecAssumption DEF Half
  <2>4. [folder.ino EXCEPT ![i] = Half] \in [Codecs -> 0 .. MaxTrained]
    BY <2>1, <2>3
  <2> QED
    BY <2>1, <2>2, <2>3, <2>4, Zenon
<1>8. /\ trail' \in [trained : 0 .. MaxTrained, stored : Nat, cut : Nat, replaced : BOOLEAN,
                     overlap : BOOLEAN, rebuilt : BOOLEAN]
      /\ trail'.overlap = c /\ trail'.replaced = trail.replaced /\ trail'.trained = trail.trained
  BY <1>1, Zenon DEF CodecInv, CodecTyped
<1>9. CodecTyped'
  BY <1>1, <1>6, <1>7, <1>8 DEF CodecInv, CodecTyped
<1>10. ASSUME FilesApart, \A o \in Savers : ~InFile(o)
       PROVE  FilesApart' /\ Table' = Table
  <2>1. i \notin folder.table /\ i <= trail.trained
    <3>1. folder.tmp = {} => i \in 1 .. trail.trained /\ i \notin folder.table
      BY <1>1, <1>3, <1>10 DEF FilesApart
    <3>2. i \in folder.tmp => i <= trail.trained /\ i \notin folder.table
      BY <1>10 DEF FilesApart
    <3> QED
      BY <1>3, <3>1, <3>2
  <2>2. \A x \in folder.table : folder'.ino[x] = folder.ino[x]
    BY <1>7, <2>1 DEF CodecInv, CodecTyped
  <2>3. \A o \in Savers \ {q} : save[o].pc = "create" => save[o].codec # i
    BY <1>1, <1>3, <1>10 DEF FilesApart
  <2>4. \A x \in folder'.table \cup folder'.tmp : x <= trail'.trained
    BY <1>7, <1>8, <1>10, <2>1 DEF FilesApart
  <2>5. \A o \in Savers : save'[o].pc = "create" => save'[o].codec \notin folder'.table \cup folder'.tmp
    BY <1>5, <1>6, <1>7, <1>10, <2>3, Zenon DEF FilesApart
  <2>6. \A o \in Savers : save'[o].pc # "idle" => save'[o].codec \in 1 .. trail'.trained
    BY <1>1, <1>5, <1>6, <1>8, <1>10 DEF FilesApart
  <2>7. \A o \in Savers : InFile(o)' => o = q
    BY <1>6, <1>10 DEF InFile
  <2>8. \A o, u \in Savers : o # u /\ save'[o].pc = "create" /\ save'[u].pc = "create"
                              => save'[o].codec # save'[u].codec
    <3> SUFFICES ASSUME NEW o \in Savers, NEW u \in Savers, o # u,
                        save'[o].pc = "create", save'[u].pc = "create"
                 PROVE  save'[o].codec # save'[u].codec
      OBVIOUS
    <3>1. o # q /\ u # q
      BY <1>5, <1>6, Zenon
    <3>2. save'[o] = save[o] /\ save'[u] = save[u]
      BY <1>6, <3>1
    <3> QED
      BY <1>10, <3>2 DEF FilesApart
  <2>9. folder'.tmp \cap folder'.table = {} /\ \A x \in folder'.table : folder'.ino[x] # Half
    BY <1>7, <1>10, <2>1, <2>2 DEF FilesApart
  <2>10. \A o \in Savers : /\ InFile(o)' => folder'.tmp = {save'[o].ino}
                           /\ save'[o].pc = "rename" => folder'.ino[save'[o].ino] = save'[o].codec
    BY <1>5, <1>6, <1>7, <2>7, Zenon DEF InFile
  <2>11. \A o \in Savers : \A u \in Savers \ {o} : ~(InFile(o)' /\ InFile(u)')
    BY <2>7
  <2>12. FilesApart'
    BY <2>4, <2>5, <2>6, <2>8, <2>9, <2>10, <2>11 DEF FilesApart
  <2> QED
    BY <1>7, <2>2, <2>12, TableStays
<1>11. ASSUME OneTable, Table' = Table PROVE OneTable'
  BY <1>1, <1>5, <1>6, <1>11 DEF OneTable
<1> QED
  BY <1>8, <1>9, <1>10, <1>11 DEF CodecInv

LEMMA WriteTableStep ==
  ASSUME CodecInv, NEW q \in Savers, WriteTable(q)
  PROVE  CodecInv'
<1> PICK i : i = save[q].ino
  OBVIOUS
<1> PICK k : k = save[q].codec
  OBVIOUS
<1> PICK s : s = [save[q] EXCEPT !.pc = "rename"]
  BY Zenon
<1>1. /\ save[q].pc = "write" /\ folder' = [folder EXCEPT !.ino[i] = k]
      /\ save' = [save EXCEPT ![q] = s] /\ UNCHANGED <<symbols, drawers, conn, trail>>
  BY DEF WriteTable, Saves
<1>2. SaveRecord(save[q]) /\ DOMAIN save[q] = {"pc", "codec", "ino", "todo"}
  BY DEF CodecInv, CodecTyped, SaveRecord
<1>3. SaveRecord(s) /\ s.pc = "rename" /\ s.ino = i /\ s.codec = k
  <2>1. s = [pc |-> s.pc, codec |-> s.codec, ino |-> s.ino, todo |-> s.todo]
    BY <1>2
  <2>2. s.pc = "rename" /\ s.codec = save[q].codec /\ s.ino = save[q].ino
    BY <1>2
  <2> QED
    BY <1>1, <1>2, <2>1, <2>2 DEF SaveRecord
<1>4. /\ save' = [o \in Savers |-> save'[o]] /\ \A o \in Savers : SaveRecord(save'[o])
      /\ save'[q] = s /\ \A o \in Savers \ {q} : save'[o] = save[o]
  BY <1>1, <1>3, SavesTyped, Zenon DEF CodecInv
<1>5. k \in 0 .. MaxTrained /\ k # Half
  BY <1>1, <1>2, CodecAssumption DEF SaveRecord, Codecs, Half
<1>6. /\ folder'.table = folder.table /\ folder'.tmp = folder.tmp
      /\ \A x \in Codecs : folder'.ino[x] = IF x = i THEN k ELSE folder.ino[x]
      /\ folder' \in [table : SUBSET Codecs, tmp : SUBSET Codecs, ino : [Codecs -> 0 .. MaxTrained]]
  <2>1. folder \in [table : SUBSET Codecs, tmp : SUBSET Codecs, ino : [Codecs -> 0 .. MaxTrained]]
    BY DEF CodecInv, CodecTyped
  <2>2. folder' = [folder EXCEPT !.ino = [folder.ino EXCEPT ![i] = k]]
    BY <1>1, <2>1
  <2>3. [folder.ino EXCEPT ![i] = k] \in [Codecs -> 0 .. MaxTrained]
    BY <1>5, <2>1, Zenon
  <2> QED
    BY <2>1, <2>2, <2>3
<1>7. CodecTyped'
  BY <1>1, <1>4, <1>6, Zenon DEF CodecInv, CodecTyped
<1>8. ASSUME FilesApart
      PROVE  FilesApart' /\ Table' = Table
  <2>1. folder.tmp = {i} /\ i \in Codecs
    BY <1>1, <1>8 DEF FilesApart, InFile, CodecInv, CodecTyped
  <2>2. i \notin folder.table
    BY <1>8, <2>1 DEF FilesApart
  <2>3. \A x \in folder.table : folder'.ino[x] = folder.ino[x]
    BY <1>6, <2>2 DEF CodecInv, CodecTyped
  <2>4. \A o \in Savers : InFile(o)' <=> InFile(o)
    BY <1>1, <1>3, <1>4 DEF InFile
  <2>5. \A o \in Savers \ {q} : ~InFile(o)
    BY <1>1, <1>8 DEF FilesApart, InFile
  <2>6. \A o \in Savers : /\ save'[o].pc = "create" <=> save[o].pc = "create"
                          /\ save'[o].pc = "idle" <=> save[o].pc = "idle"
                          /\ save'[o].codec = save[o].codec /\ save'[o].ino = save[o].ino
    BY <1>1, <1>3, <1>4
  <2>7. \A o \in Savers : save'[o].pc = "rename" => folder'.ino[save'[o].ino] = save'[o].codec
    <3>1. \A o \in Savers : save'[o].pc = "rename" => o = q
      BY <2>4, <2>5 DEF InFile
    <3>2. save'[q].ino = i /\ save'[q].codec = k /\ folder'.ino[i] = k
      BY <1>3, <1>4, <1>6, <2>1
    <3> QED
      BY <3>1, <3>2
  <2>8. FilesApart'
    BY <1>1, <1>6, <1>8, <2>3, <2>4, <2>6, <2>7 DEF FilesApart
  <2> QED
    BY <1>6, <2>3, <2>8, TableStays
<1>9. ASSUME OneTable, Table' = Table PROVE OneTable'
  BY <1>1, <1>3, <1>4, <1>9 DEF OneTable
<1> QED
  BY <1>1, <1>7, <1>8, <1>9 DEF CodecInv

LEMMA RenameStep ==
  ASSUME CodecInv, NEW q \in Savers, NEW rebuild \in BOOLEAN, rename(q, rebuild)
  PROVE  CodecInv'
<1> PICK s : s = IF rebuild THEN [save[q] EXCEPT !.pc = "list"] ELSE NoSave
  BY Zenon
<1> PICK c \in BOOLEAN : c = (trail.replaced \/ folder.table # {})
  BY Zenon
<1>1. /\ save[q].pc = "rename" /\ folder' = [folder EXCEPT !.table = folder.tmp, !.tmp = {}]
      /\ save' = [save EXCEPT ![q] = s] /\ trail' = [trail EXCEPT !.replaced = c]
      /\ UNCHANGED <<symbols, drawers, conn>>
  BY DEF rename, Saves
<1>2. SaveRecord(save[q]) /\ DOMAIN save[q] = {"pc", "codec", "ino", "todo"}
  BY DEF CodecInv, CodecTyped, SaveRecord
<1>3. SaveRecord(s) /\ (s.pc = "idle" \/ (s.pc = "list" /\ s.codec = save[q].codec))
  <2>1. CASE rebuild
    <3>1. s = [save[q] EXCEPT !.pc = "list"]
      BY <2>1
    <3>2. s = [pc |-> s.pc, codec |-> s.codec, ino |-> s.ino, todo |-> s.todo]
      BY <1>2, <3>1
    <3>3. s.pc = "list" /\ s.codec = save[q].codec /\ s.ino = save[q].ino
      BY <1>2, <3>1
    <3> QED
      BY <1>1, <1>2, <3>2, <3>3 DEF SaveRecord
  <2>2. CASE ~rebuild
    <3>1. s = NoSave
      BY <2>2
    <3> QED
      BY <3>1, NoSaveTyped
  <2> QED
    BY <2>1, <2>2
<1>4. /\ save' = [o \in Savers |-> save'[o]] /\ \A o \in Savers : SaveRecord(save'[o])
      /\ save'[q] = s /\ \A o \in Savers \ {q} : save'[o] = save[o]
  BY <1>1, <1>3, SavesTyped, Zenon DEF CodecInv
<1>5. /\ folder'.table = folder.tmp /\ folder'.tmp = {} /\ folder'.ino = folder.ino
      /\ folder' \in [table : SUBSET Codecs, tmp : SUBSET Codecs, ino : [Codecs -> 0 .. MaxTrained]]
  BY <1>1, Zenon DEF CodecInv, CodecTyped
<1>6. /\ trail' \in [trained : 0 .. MaxTrained, stored : Nat, cut : Nat, replaced : BOOLEAN,
                     overlap : BOOLEAN, rebuilt : BOOLEAN]
      /\ trail'.overlap = trail.overlap /\ trail'.replaced = c /\ trail'.trained = trail.trained
  BY <1>1, Zenon DEF CodecInv, CodecTyped
<1>7. CodecTyped'
  BY <1>1, <1>4, <1>5, <1>6, Zenon DEF CodecInv, CodecTyped
<1>8. ASSUME FilesApart
      PROVE  FilesApart' /\ Table' = {save[q].codec}
  <2>1. folder.tmp = {save[q].ino} /\ folder.ino[save[q].ino] = save[q].codec
    BY <1>1, <1>8 DEF FilesApart, InFile
  <2>2. \A o \in Savers \ {q} : ~InFile(o)
    BY <1>1, <1>8 DEF FilesApart, InFile
  <2>3. save[q].codec # Half
    BY <1>1, <1>2 DEF SaveRecord, Codecs, Half
  <2>4. \A o \in Savers : ~InFile(o)'
    BY <1>3, <1>4, <2>2, Zenon DEF InFile
  <2>5. \A o \in Savers : save'[o].pc = "create" => o # q /\ save'[o] = save[o]
    BY <1>3, <1>4, Zenon
  <2>6. \A o \in Savers : save'[o].pc # "idle" => save'[o].codec \in 1 .. trail'.trained
    BY <1>1, <1>3, <1>4, <1>6, <1>8 DEF FilesApart
  <2>7. \A o \in Savers : save'[o].pc = "create" => save'[o].codec \notin folder'.table \cup folder'.tmp
    BY <1>5, <1>8, <2>5 DEF FilesApart
  <2>8. \A o, u \in Savers : o # u /\ save'[o].pc = "create" /\ save'[u].pc = "create"
                              => save'[o].codec # save'[u].codec
    BY <1>8, <2>5 DEF FilesApart
  <2>9. /\ folder'.tmp \cap folder'.table = {} /\ \A x \in folder'.table : folder'.ino[x] # Half
        /\ \A x \in folder'.table \cup folder'.tmp : x <= trail'.trained
    BY <1>5, <1>6, <1>8, <2>1, <2>3 DEF FilesApart
  <2>10. FilesApart'
    BY <2>4, <2>6, <2>7, <2>8, <2>9 DEF FilesApart, InFile
  <2> QED
    BY <1>5, <2>1, <2>10 DEF Table
<1>9. ASSUME OneTable, ~c, Table' = {save[q].codec} PROVE OneTable'
  <2>1. Table = {}
    BY <1>9, Zenon DEF Table
  <2>2. /\ \A p \in Stores : conn[p].codec = {}
        /\ \A o \in Savers : save[o].pc \notin {"list", "encode"}
        /\ \A i \in DOMAIN symbols : symbols[i] = Plain
        /\ \A i \in DOMAIN drawers : drawers[i] = Plain
    BY <1>9, <2>1 DEF OneTable, Readable
  <2>3. \A o \in Savers : save'[o].pc \in {"list", "encode"} => save'[o].codec = save[q].codec
    BY <1>3, <1>4, <2>2, Zenon
  <2> QED
    BY <1>1, <1>9, <2>2, <2>3 DEF OneTable, Readable
<1> QED
  BY <1>6, <1>7, <1>8, <1>9 DEF CodecInv

LEMMA CodecStep == CodecInv /\ [CodecNext]_codecVars => CodecInv'
<1> SUFFICES ASSUME CodecInv, [CodecNext]_codecVars PROVE CodecInv'
  OBVIOUS
<1>1. CASE UNCHANGED codecVars
  <2>1. UNCHANGED <<symbols, drawers, folder, conn, save, trail>>
    BY <1>1 DEF codecVars
  <2>2. Table' = Table
    BY <2>1 DEF Table
  <2> QED
    BY <2>1, <2>2 DEF CodecInv, CodecTyped, FilesApart, InFile, OneTable
<1>2. ASSUME NEW p \in Stores, NEW compress \in BOOLEAN, OpenStore(p, compress)
      PROVE  CodecInv'
  <2> PICK c : c = IF compress THEN Table ELSE {}
    BY Zenon
  <2>1. c \in {{}, Table}
    OBVIOUS
  <2>2. conn' = [conn EXCEPT ![p] = [db |-> "index", codec |-> c]]
        /\ UNCHANGED <<symbols, drawers, folder, save, trail>>
    BY <1>2 DEF OpenStore, Opened
  <2> QED
    BY <2>1, <2>2, OpenedStep, Zenon
<1>3. ASSUME NEW p \in Stores, OpenBackend(p) PROVE CodecInv'
  <2> PICK c : c = Table
    OBVIOUS
  <2>1. c \in {{}, Table}
    OBVIOUS
  <2>2. conn' = [conn EXCEPT ![p] = [db |-> "memory", codec |-> c]]
        /\ UNCHANGED <<symbols, drawers, folder, save, trail>>
    BY <1>3 DEF OpenBackend, Opened
  <2> QED
    BY <2>1, <2>2, OpenedStep, Zenon
<1>4. ASSUME NEW p \in Stores, \/ Close(p) \/ add(p) \/ \E gone : replace_symbols(p, gone)
      PROVE  CodecInv'
  BY <1>4, CloseStep, AddStep, ReplaceStep
<1>5. ASSUME NEW q \in Savers,
             \/ train_codec(q) \/ Create(q) \/ WriteTable(q) \/ RenameFails(q) \/ ListPlain(q)
             \/ \E rebuild \in BOOLEAN : rename(q, rebuild)
             \/ \E i \in save[q].todo : Encode(q, i)
             \/ CompressCrash(q)
      PROVE  CodecInv'
  BY <1>5, TrainStep, CreateStep, WriteTableStep, RenameFailsStep, ListPlainStep, RenameStep,
     EncodeStep, CompressCrashStep
<1> QED
  BY <1>1, <1>2, <1>3, <1>4, <1>5 DEF CodecNext

\* Who has no table or that of the texts never reads one as something else.
LEMMA CodecSafe == CodecInv => TableIsWhole /\ TextsDecode
<1> SUFFICES ASSUME CodecInv PROVE TableIsWhole /\ TextsDecode
  OBVIOUS
<1>1. TableIsWhole
  BY DEF CodecInv, FilesApart, TableIsWhole, Table
<1>2. ASSUME NEW c, c \in {{}, Table}, NEW t, Readable(t, Table), NEW opaque \in {"null", "empty"}
      PROVE  Decoded(c, t, opaque) # "garbage" /\ (c = Table => Decoded(c, t, opaque) = "text")
  BY <1>2 DEF Decoded, Readable
<1>3. ASSUME OneTable, NEW c, c \in {{}, Table}
      PROVE  "garbage" \notin Reads(c) /\ (c = Table => Reads(c) \subseteq {"text"})
  BY <1>2, <1>3 DEF OneTable, Reads, signature_from_row, body_from_row
<1>4. OneTable => TextsDecode
  BY <1>3 DEF TextsDecode, OneTable
<1> QED
  BY <1>1, <1>4 DEF CodecInv, TextsDecode

-----------------------------------------------------------------------------
(* edit: the lines that the index has are those of the symbol as long as    *)
(* the index describes the file, and whoever writes the file knows what is  *)
(* in it until somebody else does.                                         *)

TextFiles == Seq(Lines)

LEMMA ExtractedSymbol ==
  ASSUME NEW text \in TextFiles, NEW s \in extract(text)
  PROVE  /\ s = [name |-> s.name, start |-> s.start, end |-> s.end] /\ s.name \in Names
         /\ s.start \in 1 .. Len(text) /\ s.end \in 1 .. Len(text) /\ s.start <= s.end
         /\ \A i \in s.start .. s.end : text[i][1] = s.name
<1>1. /\ s \in [name : Names, start : DOMAIN text, end : DOMAIN text] /\ s.start <= s.end
      /\ SubSeq(text, s.start, s.end) = Body(<<s.name, s.end - s.start + 1>>)
  BY DEF extract
<1>2. DOMAIN text = 1 .. Len(text) /\ \A i \in 1 .. Len(text) : text[i] \in Lines
  BY DEF TextFiles
<1> PICK a \in 1 .. Len(text) : a = s.start
  BY <1>1, <1>2
<1> PICK b \in 1 .. Len(text) : b = s.end
  BY <1>1, <1>2
<1> PICK n \in Nat : n = b - a + 1
  BY <1>1
<1>3. \A i \in 1 .. n : SubSeq(text, a, b)[i] = text[a + i - 1]
  BY <1>2, SubSeqProperties
<1>4. \A i \in 1 .. n : Body(<<s.name, n>>)[i] = <<s.name, i, n>>
  BY DEF Body
<1>5. ASSUME NEW i \in a .. b PROVE text[i][1] = s.name
  <2> PICK j \in 1 .. n : j = i - a + 1
    OBVIOUS
  <2>1. SubSeq(text, a, b) = Body(<<s.name, n>>)
    BY <1>1
  <2>2. SubSeq(text, a, b)[j] = <<s.name, j, n>>
    BY <1>4, <2>1, Zenon
  <2>3. a + j - 1 = i
    OBVIOUS
  <2>4. text[i] = <<s.name, j, n>>
    BY <1>3, <2>2, <2>3, Zenon
  <2> QED
    BY <2>4
<1> QED
  BY <1>1, <1>2, <1>5

\* As resolve_symbol counts them: one means that there is one.
LEMMA UniqueSymbol ==
  ASSUME NEW text \in TextFiles, NEW name,
         Cardinality({s \in extract(text) : s.name = name}) = 1
  PROVE  \E x \in extract(text) : {s \in extract(text) : s.name = name} = {x}
<1> DEFINE S == {s \in extract(text) : s.name = name}
           T == (1 .. Len(text)) \X (1 .. Len(text))
           f == [s \in S |-> <<s.start, s.end>>]
<1>1. \A s \in S : /\ s = [name |-> name, start |-> s.start, end |-> s.end]
                   /\ s.start \in 1 .. Len(text) /\ s.end \in 1 .. Len(text)
  BY ExtractedSymbol
<1>2. f \in [S -> T]
  BY <1>1
<1>3. ASSUME NEW s \in S, NEW t \in S, f[s] = f[t] PROVE s = t
  <2>1. <<s.start, s.end>> = <<t.start, t.end>>
    BY <1>3
  <2>2. s.start = t.start /\ s.end = t.end
    BY <2>1
  <2> QED
    BY <1>1, <2>2
<1>4. f \in Injection(S, T)
  BY <1>2, <1>3, Zenon DEF Injection, IsInjective
<1>5. IsFiniteSet(T)
  <2>1. Len(text) \in Int /\ 1 \in Int
    BY DEF TextFiles
  <2>2. IsFiniteSet(1 .. Len(text))
    BY <2>1, FS_Interval
  <2> QED
    BY <2>2, FS_Product
<1>6. IsFiniteSet(S)
  BY <1>4, <1>5, FS_Injection
<1>7. Cardinality(S) = 1
  OBVIOUS
<1> HIDE DEF S
<1>8. \E x : S = {x}
  BY <1>6, <1>7, FS_Singleton, Zenon
<1> QED
  BY <1>8 DEF S

\* The lines by number are the lines by owner.
LEMMA EditedIsSpliced ==
  ASSUME NEW text \in TextFiles, Whole(text), NEW s \in extract(text),
         \A t \in extract(text) : t.name = s.name => t = s, NEW body
  PROVE  Edited(text, s.name, body) = splice_span(text, s, body)
<1> DEFINE before == {i \in DOMAIN text : \A j \in 1..i : text[j][1] # s.name}
           after  == {i \in DOMAIN text : \A j \in i..Len(text) : text[j][1] # s.name}
<1> PICK n \in Nat : n = Len(text) /\ DOMAIN text = 1 .. n
  BY DEF TextFiles
<1> PICK a \in 1 .. n : a = s.start
  BY ExtractedSymbol
<1> PICK b \in 1 .. n : b = s.end
  BY ExtractedSymbol
<1>1. a <= b /\ text[a][1] = s.name /\ text[b][1] = s.name /\ s.name # NoName
  BY ExtractedSymbol, EditAssumption
<1>2. ASSUME NEW i \in 1 .. n, text[i][1] = s.name PROVE i \in a .. b
  <2>1. PICK t \in extract(text) : t.start <= i /\ i <= t.end
    BY <1>1, <1>2 DEF Whole
  <2>2. text[i][1] = t.name
    BY <2>1, ExtractedSymbol
  <2> QED
    BY <1>2, <2>1, <2>2
<1>3. before = 1 .. (a - 1)
  <2>1. ASSUME NEW i \in before PROVE i \in 1 .. (a - 1)
    BY <1>1
  <2>2. ASSUME NEW i \in 1 .. (a - 1) PROVE i \in before
    <3>1. \A j \in 1 .. i : j \in 1 .. n /\ j \notin a .. b
      OBVIOUS
    <3> QED
      BY <1>2, <3>1
  <2> HIDE DEF before
  <2> QED
    BY <2>1, <2>2, Zenon
<1>4. after = (b + 1) .. n
  <2>1. ASSUME NEW i \in after PROVE i \in (b + 1) .. n
    BY <1>1
  <2>2. ASSUME NEW i \in (b + 1) .. n PROVE i \in after
    <3>1. \A j \in i .. n : j \in 1 .. n /\ j \notin a .. b
      OBVIOUS
    <3> QED
      BY <1>2, <3>1
  <2> HIDE DEF after
  <2> QED
    BY <2>1, <2>2, Zenon
<1>5. Cardinality(before) = a - 1
  <2>1. 1 \in Int /\ a - 1 \in Int
    OBVIOUS
  <2>2. Cardinality(1 .. (a - 1)) = IF 1 > a - 1 THEN 0 ELSE (a - 1) - 1 + 1
    BY <2>1, FS_Interval, Zenon
  <2>3. Cardinality(1 .. (a - 1)) = a - 1
    BY <2>2
  <2> QED
    BY <1>3, <2>3, Zenon
<1>6. Cardinality(after) = n - b
  <2>1. Cardinality((b + 1) .. n) = IF b + 1 > n THEN 0 ELSE n - (b + 1) + 1
    <3>1. b + 1 \in Int /\ n \in Int
      OBVIOUS
    <3> QED
      BY <3>1, FS_Interval, Zenon
  <2>2. Cardinality((b + 1) .. n) = n - b
    BY <2>1
  <2> QED
    BY <1>4, <2>2, Zenon
<1>7. Edited(text, s.name, body)
        = SubSeq(text, 1, Cardinality(before)) \o body
            \o SubSeq(text, Len(text) - Cardinality(after) + 1, Len(text))
  BY DEF Edited
<1> HIDE DEF before, after
<1>8. Len(text) - Cardinality(after) + 1 = b + 1
  BY <1>6
<1> QED
  BY <1>5, <1>7, <1>8, Zenon DEF splice_span

Editing(e) ==
  \/ e = Idle
  \/ /\ e.pc = "read" /\ e = [pc |-> "read", span |-> e.span, clean |-> e.clean]
     /\ e.span.name \in Names /\ e.span.start \in Nat \ {0} /\ e.span.end \in Nat
     /\ e.span.start <= e.span.end
  \/ /\ e.pc \in {"write", "reread", "stat"} /\ e.text \in TextFiles
     /\ e = [pc |-> e.pc, clean |-> e.clean, text |-> e.text, want |-> e.want]
  \/ /\ e.pc \in {"upsert", "symbols", "done"} /\ e.text \in TextFiles
     /\ e = [pc |-> e.pc, clean |-> e.clean, text |-> e.text, want |-> e.want, mtime |-> e.mtime]

EditTyped ==
  /\ disk.text \in TextFiles
  /\ index = [sha |-> index.sha, mtime |-> index.mtime, syms |-> index.syms]
  /\ \E text \in TextFiles : index.syms = extract(text)
  /\ ed = [p \in Editors |-> ed[p]] /\ \A p \in Editors : Editing(ed[p])

\* What an editor that is clean may rely on.
Sound(e, text, row) ==
  /\ e.pc \in {"read", "write", "done"} => Describes(row, text)
  /\ e.pc = "read" => /\ Whole(text) /\ e.span \in extract(text)
                      /\ \A s \in extract(text) : s.name = e.span.name => s = e.span
  /\ e.pc = "write" => e.text = e.want
  /\ e.pc \in {"reread", "stat", "upsert", "symbols", "done"} => text = e.want
  /\ e.pc \in {"stat", "upsert", "symbols"} => e.text = text
  /\ e.pc = "symbols" => row.sha = text

Clean(p) == ed[p].pc # "idle" /\ ed[p].clean

EditInv ==
  /\ EditTyped
  /\ \A p \in Editors : Clean(p) => /\ Sound(ed[p], disk.text, index)
                                    /\ \A q \in Editors \ {p} : ~Indexing(q)

LEMMA EditInitially == EditInit => EditInv
  BY EditAssumption DEF EditInit, EditInv, EditTyped, Editing, Clean, Row, Idle, TextFiles

\* The editors when p's record becomes r.
LEMMA EditsTyped ==
  ASSUME EditTyped, NEW p \in Editors, NEW r, Editing(r), ed' = [ed EXCEPT ![p] = r]
  PROVE  /\ ed' = [q \in Editors |-> ed'[q]] /\ \A q \in Editors : Editing(ed'[q])
         /\ ed'[p] = r /\ \A q \in Editors \ {p} : ed'[q] = ed[q]
  BY DEF EditTyped

\* A step of p that does not write the file; the index it writes only while it
\* is indexing, when nobody else is clean.
LEMMA OwnStep ==
  ASSUME EditInv, NEW p \in Editors, NEW r, Editing(r), ed' = [ed EXCEPT ![p] = r],
         UNCHANGED disk,
         index' = [sha |-> index'.sha, mtime |-> index'.mtime, syms |-> index'.syms],
         \E text \in TextFiles : index'.syms = extract(text),
         index' = index \/ Indexing(p),
         r.pc \in {"reread", "stat", "upsert", "symbols"} => Indexing(p),
         r.pc # "idle" /\ r.clean => /\ Sound(r, disk.text, index')
                                     /\ \A q \in Editors \ {p} : ~Indexing(q)
  PROVE  EditInv'
<1>1. /\ ed' = [q \in Editors |-> ed'[q]] /\ \A q \in Editors : Editing(ed'[q])
      /\ ed'[p] = r /\ \A q \in Editors \ {p} : ed'[q] = ed[q]
  BY EditsTyped, Zenon DEF EditInv
<1>2. EditTyped'
  BY <1>1 DEF EditInv, EditTyped
<1>3. \A q \in Editors : Indexing(q)' => Indexing(q)
  BY <1>1 DEF Indexing
<1>4. Clean(p)' => /\ Sound(ed'[p], disk'.text, index')
                   /\ \A q \in Editors \ {p} : ~Indexing(q)'
  BY <1>1, <1>3 DEF Clean
<1>5. ASSUME NEW o \in Editors \ {p}, Clean(o)'
      PROVE  Sound(ed'[o], disk'.text, index') /\ \A q \in Editors \ {o} : ~Indexing(q)'
  <2>1. Clean(o) /\ ed'[o] = ed[o]
    BY <1>1, <1>5 DEF Clean
  <2>2. Sound(ed[o], disk.text, index) /\ \A q \in Editors \ {o} : ~Indexing(q)
    BY <2>1 DEF EditInv
  <2> QED
    BY <1>3, <2>1, <2>2
<1> QED
  BY <1>2, <1>4, <1>5 DEF EditInv

\* Somebody writes the file: p, who is then the only one to be clean, or nobody
\* who is about to index it.
LEMMA FileStep ==
  ASSUME EditInv, UNCHANGED index, disk'.text \in TextFiles,
         ed' = [q \in Editors |-> ed'[q]], \A q \in Editors : Editing(ed'[q]),
         NEW P \in SUBSET Editors, \A p, q \in P : p = q,
         \A q \in Editors \ P : ~Clean(q)' /\ (Indexing(q)' => Indexing(q)),
         \A p \in P : Clean(p)' => Clean(p) /\ Sound(ed'[p], disk'.text, index)
  PROVE  EditInv'
<1>1. EditTyped'
  BY DEF EditInv, EditTyped
<1>2. ASSUME NEW p \in Editors, Clean(p)'
      PROVE  Sound(ed'[p], disk'.text, index') /\ \A q \in Editors \ {p} : ~Indexing(q)'
  <2>1. p \in P /\ \A q \in Editors \ {p} : q \notin P
    BY <1>2
  <2>2. Clean(p) /\ Sound(ed'[p], disk'.text, index)
    BY <1>2, <2>1
  <2>3. \A q \in Editors \ {p} : ~Indexing(q)
    BY <2>2 DEF EditInv
  <2> QED
    BY <2>1, <2>2, <2>3
<1> QED
  BY <1>1, <1>2 DEF EditInv

LEMMA ResolveStep ==
  ASSUME EditInv, NEW p \in Editors, resolve_symbol(p)
  PROVE  EditInv'
<1>1. PICK name \in Names :
        /\ ed[p].pc = "idle"
        /\ Cardinality({s \in index.syms : s.name = name}) = 1
        /\ ed' = [ed EXCEPT ![p] = [pc |-> "read",
                                    span |-> CHOOSE s \in index.syms : s.name = name,
                                    clean |-> /\ Describes(index, disk.text) /\ Whole(disk.text)
                                              /\ \A q \in Editors : ~Indexing(q)]]
        /\ UNCHANGED <<disk, index>>
  BY Zenon DEF resolve_symbol
<1> PICK span : span = CHOOSE s \in index.syms : s.name = name
  OBVIOUS
<1> PICK c \in BOOLEAN : c = (/\ Describes(index, disk.text) /\ Whole(disk.text)
                              /\ \A q \in Editors : ~Indexing(q))
  BY Zenon
<1> PICK r : r = [pc |-> "read", span |-> span, clean |-> c]
  BY Zenon
<1>2. ed' = [ed EXCEPT ![p] = r]
  BY <1>1
<1>3. PICK text \in TextFiles : index.syms = extract(text)
  BY DEF EditInv, EditTyped
<1>4. PICK x \in extract(text) : {s \in extract(text) : s.name = name} = {x}
  <2>1. {s \in index.syms : s.name = name} = {s \in extract(text) : s.name = name}
    BY <1>3
  <2>2. Cardinality({s \in extract(text) : s.name = name}) = 1
    BY <1>1, <2>1, Zenon
  <2> QED
    BY <2>2, UniqueSymbol, Zenon
<1>5. span = x /\ span \in extract(text) /\ span.name = name
      /\ \A s \in extract(text) : s.name = name => s = span
  <2>1. x \in index.syms /\ x.name = name /\ \A s \in index.syms : s.name = name => s = x
    BY <1>3, <1>4
  <2> QED
    BY <1>3, <2>1
<1>6. Editing(r)
  <2>1. /\ span.name \in Names /\ span.start \in 1 .. Len(text) /\ span.end \in 1 .. Len(text)
        /\ span.start <= span.end
    BY <1>5, ExtractedSymbol
  <2>2. r.pc = "read" /\ r.span = span /\ r = [pc |-> "read", span |-> r.span, clean |-> r.clean]
    OBVIOUS
  <2>3. span.start \in Nat \ {0} /\ span.end \in Nat
    BY <2>1
  <2> QED
    BY <2>1, <2>2, <2>3 DEF Editing
<1>7. ASSUME c PROVE Sound(r, disk.text, index) /\ \A q \in Editors : ~Indexing(q)
  <2>1. Describes(index, disk.text) /\ Whole(disk.text) /\ \A q \in Editors : ~Indexing(q)
    BY <1>7, Zenon
  <2>2. extract(disk.text) = extract(text)
    BY <1>3, <2>1 DEF Describes
  <2> QED
    BY <1>5, <2>1, <2>2 DEF Sound
<1>8. r.pc = "read" /\ r.clean = c
  OBVIOUS
<1> QED
  <2>1. /\ index' = [sha |-> index'.sha, mtime |-> index'.mtime, syms |-> index'.syms]
        /\ \E t \in TextFiles : index'.syms = extract(t)
    BY <1>1 DEF EditInv, EditTyped
  <2>2. r.pc # "idle" /\ r.clean => /\ Sound(r, disk.text, index')
                                    /\ \A q \in Editors \ {p} : ~Indexing(q)
    BY <1>1, <1>7, <1>8
  <2>3. UNCHANGED disk /\ index' = index /\ r.pc \notin {"reread", "stat", "upsert", "symbols"}
    BY <1>1, <1>8
  <2> QED
    BY <1>2, <1>6, <2>1, <2>2, <2>3, OwnStep, Zenon

LEMMA BodyTyped == \A u \in Updates : Body(u) \in TextFiles
<1> SUFFICES ASSUME NEW u \in Updates PROVE Body(u) \in TextFiles
  OBVIOUS
<1> PICK n \in Nat : n = u[2]
  BY EditAssumption
<1>1. u[1] \in Names
  BY EditAssumption
<1>2. \A i \in 1 .. n : <<u[1], i, n>> \in Lines
  BY <1>1 DEF Lines
<1>3. Body(u) = [i \in 1 .. n |-> <<u[1], i, n>>]
  BY DEF Body
<1> QED
  BY <1>2, <1>3 DEF TextFiles

LEMMA IdleStep ==
  ASSUME EditInv, NEW p \in Editors, ed' = [ed EXCEPT ![p] = Idle], UNCHANGED <<disk, index>>
  PROVE  EditInv'
<1>1. Editing(Idle) /\ Idle.pc = "idle"
  BY DEF Editing, Idle
<1> QED
  BY <1>1, OwnStep DEF EditInv, EditTyped

LEMMA ComputeStep ==
  ASSUME EditInv, NEW p \in Editors, ReadAndCompute(p)
  PROVE  EditInv'
<1> PICK text : text = disk.text
  OBVIOUS
<1> PICK s : s = ed[p].span
  OBVIOUS
<1>1. PICK u \in Updates :
        /\ ed[p].pc = "read" /\ u[1] = s.name
        /\ ed' = [ed EXCEPT ![p] =
             IF ~InBounds(text, s) THEN Idle
             ELSE [pc |-> "write", clean |-> ed[p].clean, text |-> splice_span(text, s, Body(u)),
                   want |-> Edited(text, u[1], Body(u))]]
        /\ UNCHANGED <<disk, index>>
  BY Zenon DEF ReadAndCompute
<1>2. CASE ~InBounds(text, s)
  BY <1>1, <1>2, IdleStep, Zenon
<1>3. CASE InBounds(text, s)
  <2> PICK t : t = splice_span(text, s, Body(u))
    OBVIOUS
  <2> PICK w : w = Edited(text, u[1], Body(u))
    OBVIOUS
  <2> PICK r : r = [pc |-> "write", clean |-> ed[p].clean, text |-> t, want |-> w]
    BY Zenon
  <2>1. ed' = [ed EXCEPT ![p] = r] /\ UNCHANGED <<disk, index>>
    BY <1>1, <1>3
  <2>2. /\ s.start \in Nat \ {0} /\ s.end \in Nat /\ s.start <= s.end /\ text \in Seq(Lines)
        /\ s.end <= Len(text) + 1
    BY <1>1, <1>3 DEF EditInv, EditTyped, Editing, Idle, InBounds, TextFiles
  <2>3. t \in TextFiles
    <3> PICK a \in Nat \ {0} : a = s.start
      BY <2>2
    <3> PICK b \in Nat : b = s.end
      BY <2>2
    <3> PICK n \in Nat : n = Len(text)
      BY <2>2
    <3>1. \A i \in 1 .. n : text[i] \in Lines
      BY <2>2
    <3>2. a - 1 \in Int /\ b + 1 \in Int /\ a - 1 <= n /\ b <= n + 1
      BY <2>2
    <3>3. SubSeq(text, 1, a - 1) \in Seq(Lines)
      BY <3>1, <3>2, SubSeqProperties
    <3>4. SubSeq(text, b + 1, n) \in Seq(Lines)
      <4>1. \A i \in b + 1 .. n : text[i] \in Lines
        BY <3>1
      <4> QED
        BY <3>2, <4>1, SubSeqProperties
    <3>5. Body(u) \in Seq(Lines)
      BY BodyTyped DEF TextFiles
    <3>6. t = SubSeq(text, 1, a - 1) \o Body(u) \o SubSeq(text, b + 1, n)
      BY Zenon DEF splice_span
    <3> QED
      <4> PICK front : front = SubSeq(text, 1, a - 1) \o Body(u)
        BY Zenon
      <4>1. front \in Seq(Lines)
        BY <3>3, <3>5, ConcatProperties
      <4>2. front \o SubSeq(text, b + 1, n) \in Seq(Lines)
        BY <3>4, <4>1, ConcatProperties, Zenon
      <4> QED
        BY <3>6, <4>2, Zenon DEF TextFiles
  <2>4. Editing(r) /\ r.pc = "write" /\ r.clean = ed[p].clean /\ r.text = t /\ r.want = w
    BY <2>3 DEF Editing
  <2>5. ASSUME r.clean
        PROVE  Sound(r, text, index) /\ \A q \in Editors \ {p} : ~Indexing(q)
    <3>1. Clean(p)
      BY <1>1, <2>4, <2>5 DEF Clean
    <3>2. Sound(ed[p], text, index) /\ \A q \in Editors \ {p} : ~Indexing(q)
      BY <3>1 DEF EditInv
    <3>3. /\ Describes(index, text) /\ Whole(text) /\ s \in extract(text)
          /\ \A x \in extract(text) : x.name = s.name => x = s
      BY <1>1, <3>2 DEF Sound
    <3>4. t = w
      BY <1>1, <2>2, <3>3, EditedIsSpliced DEF TextFiles
    <3> QED
      BY <2>4, <3>2, <3>3, <3>4 DEF Sound
  <2> QED
    BY <2>1, <2>4, <2>5, OwnStep, Zenon DEF EditInv, EditTyped
<1> QED
  BY <1>2, <1>3

\* The record of an editor that somebody overtakes.
LEMMA Unclean ==
  ASSUME NEW e, Editing(e), e.pc # "idle", NEW r, r = [e EXCEPT !.clean = FALSE]
  PROVE  Editing(r) /\ r.pc = e.pc /\ r.clean = FALSE
<1>1. CASE e.pc = "read"
  <2>1. /\ e = [pc |-> "read", span |-> e.span, clean |-> e.clean]
        /\ e.span.name \in Names /\ e.span.start \in Nat \ {0} /\ e.span.end \in Nat
        /\ e.span.start <= e.span.end
    BY <1>1 DEF Editing, Idle
  <2>2. r = [pc |-> "read", span |-> e.span, clean |-> FALSE]
    <3>1. DOMAIN e = {"pc", "span", "clean"}
      BY <2>1
    <3>2. r = [pc |-> r.pc, span |-> r.span, clean |-> r.clean]
      BY <3>1, Zenon
    <3>3. r.pc = "read" /\ r.span = e.span /\ r.clean = FALSE
      BY <2>1, <3>1
    <3> QED
      BY <3>2, <3>3, Zenon
  <2>3. r.pc = "read" /\ r.span = e.span /\ r.clean = FALSE
    BY <2>2
  <2> QED
    BY <1>1, <2>1, <2>2, <2>3, Zenon DEF Editing
<1>2. CASE e.pc \in {"write", "reread", "stat"}
  <2>1. /\ e.text \in TextFiles
        /\ e = [pc |-> e.pc, clean |-> e.clean, text |-> e.text, want |-> e.want]
    BY <1>2 DEF Editing, Idle
  <2>2. r = [pc |-> e.pc, clean |-> FALSE, text |-> e.text, want |-> e.want]
    <3>1. DOMAIN e = {"pc", "clean", "text", "want"}
      BY <2>1
    <3>2. r = [pc |-> r.pc, clean |-> r.clean, text |-> r.text, want |-> r.want]
      BY <3>1, Zenon
    <3>3. r.pc = e.pc /\ r.clean = FALSE /\ r.text = e.text /\ r.want = e.want
      BY <3>1
    <3> QED
      BY <3>2, <3>3
  <2>3. r.pc = e.pc /\ r.clean = FALSE /\ r.text = e.text /\ r.want = e.want
    BY <2>2
  <2> QED
    BY <1>2, <2>1, <2>2, <2>3, Zenon DEF Editing
<1>3. CASE e.pc \in {"upsert", "symbols", "done"}
  <2>1. /\ e.text \in TextFiles
        /\ e = [pc |-> e.pc, clean |-> e.clean, text |-> e.text, want |-> e.want, mtime |-> e.mtime]
    BY <1>3 DEF Editing, Idle
  <2>2. r = [pc |-> e.pc, clean |-> FALSE, text |-> e.text, want |-> e.want, mtime |-> e.mtime]
    <3>1. DOMAIN e = {"pc", "clean", "text", "want", "mtime"}
      BY <2>1
    <3>2. r = [pc |-> r.pc, clean |-> r.clean, text |-> r.text, want |-> r.want, mtime |-> r.mtime]
      BY <3>1, Zenon
    <3>3. r.pc = e.pc /\ r.clean = FALSE /\ r.text = e.text /\ r.want = e.want /\ r.mtime = e.mtime
      BY <3>1
    <3> QED
      BY <3>2, <3>3
  <2>3. r.pc = e.pc /\ r.clean = FALSE /\ r.text = e.text /\ r.want = e.want /\ r.mtime = e.mtime
    BY <2>2
  <2> QED
    BY <1>3, <2>1, <2>2, <2>3, Zenon DEF Editing
<1> QED
  BY <1>1, <1>2, <1>3 DEF Editing, Idle

LEMMA WriteStep ==
  ASSUME EditInv, NEW p \in Editors, Write(p)
  PROVE  EditInv'
<1> PICK r : r = [ed[p] EXCEPT !.pc = "reread"]
  BY Zenon
<1>1. /\ ed[p].pc = "write" /\ disk' = [text |-> ed[p].text, mtime |-> disk.mtime + 1]
      /\ ed' = Overtaken([ed EXCEPT ![p] = r], p) /\ UNCHANGED index
  BY DEF Write
<1>2. /\ ed[p].text \in TextFiles
      /\ ed[p] = [pc |-> "write", clean |-> ed[p].clean, text |-> ed[p].text, want |-> ed[p].want]
  BY <1>1 DEF EditInv, EditTyped, Editing, Idle
<1>3. r = [pc |-> "reread", clean |-> ed[p].clean, text |-> ed[p].text, want |-> ed[p].want]
  BY <1>2
<1>4. Editing(r) /\ r.pc = "reread" /\ r.clean = ed[p].clean /\ r.want = ed[p].want
  BY <1>2, <1>3 DEF Editing
<1>5. /\ ed' = [q \in Editors |-> ed'[q]] /\ ed'[p] = r
      /\ \A q \in Editors \ {p} :
           ed'[q] = IF ed[q].pc # "idle" THEN [ed[q] EXCEPT !.clean = FALSE] ELSE ed[q]
  BY <1>1, Zenon DEF Overtaken, EditInv, EditTyped
<1>6. ASSUME NEW q \in Editors \ {p} PROVE Editing(ed'[q]) /\ ~Clean(q)' /\ (Indexing(q)' => Indexing(q))
  <2>1. Editing(ed[q])
    BY DEF EditInv, EditTyped
  <2>2. CASE ed[q].pc = "idle"
    BY <1>5, <2>1, <2>2 DEF Clean, Indexing
  <2>3. CASE ed[q].pc # "idle"
    <3> PICK e : e = ed[q]
      OBVIOUS
    <3> PICK t : t = [e EXCEPT !.clean = FALSE]
      BY Zenon
    <3>1. ed'[q] = t
      BY <1>5, <2>3
    <3>2. Editing(t) /\ t.pc = e.pc /\ t.clean = FALSE
      BY <2>1, <2>3, Unclean, Zenon
    <3> QED
      BY <3>1, <3>2 DEF Clean, Indexing
  <2> QED
    BY <2>2, <2>3
<1>7. Clean(p)' => Clean(p) /\ Sound(ed'[p], disk'.text, index)
  BY <1>1, <1>4, <1>5, Zenon DEF EditInv, Clean, Sound
<1> QED
  <2> PICK P \in SUBSET Editors : P = {p}
    BY Zenon
  <2>1. disk'.text \in TextFiles /\ UNCHANGED index
    BY <1>1, <1>2
  <2>2. \A q \in Editors : Editing(ed'[q])
    BY <1>4, <1>5, <1>6
  <2>3. /\ \A x, y \in P : x = y
        /\ \A q \in Editors \ P : ~Clean(q)' /\ (Indexing(q)' => Indexing(q))
        /\ \A x \in P : Clean(x)' => Clean(x) /\ Sound(ed'[x], disk'.text, index)
    BY <1>6, <1>7
  <2> QED
    BY <1>5, <2>1, <2>2, <2>3, FileStep, Zenon

LEMMA RereadStep ==
  ASSUME EditInv, NEW p \in Editors, Reread(p)
  PROVE  EditInv'
<1> PICK r : r = [pc |-> "stat", clean |-> ed[p].clean, text |-> disk.text, want |-> ed[p].want]
  BY Zenon
<1>1. /\ ed[p].pc = "reread" /\ UNCHANGED <<disk, index>>
      /\ ed' = [ed EXCEPT ![p] = [@ EXCEPT !.pc = "stat", !.text = disk.text]]
  BY Zenon DEF Reread, EditInv, EditTyped
<1>2. ed[p] = [pc |-> "reread", clean |-> ed[p].clean, text |-> ed[p].text, want |-> ed[p].want]
  BY <1>1 DEF EditInv, EditTyped, Editing, Idle
<1>3. [ed[p] EXCEPT !.pc = "stat", !.text = disk.text] = r
  <2> PICK s : s = [ed[p] EXCEPT !.pc = "stat", !.text = disk.text]
    OBVIOUS
  <2>1. DOMAIN ed[p] = {"pc", "clean", "text", "want"}
    BY <1>2
  <2>2. s = [pc |-> s.pc, clean |-> s.clean, text |-> s.text, want |-> s.want]
    BY <2>1, Zenon
  <2>3. s.pc = "stat" /\ s.clean = ed[p].clean /\ s.text = disk.text /\ s.want = ed[p].want
    BY <2>1
  <2> QED
    BY <2>2, <2>3
<1>4. ed' = [ed EXCEPT ![p] = r]
  BY <1>1, <1>3, Zenon
<1>5. /\ Editing(r) /\ r.pc = "stat" /\ r.clean = ed[p].clean /\ r.text = disk.text
      /\ r.want = ed[p].want
  BY DEF Editing, EditInv, EditTyped
<1>6. r.clean => Sound(r, disk.text, index) /\ \A q \in Editors \ {p} : ~Indexing(q)
  BY <1>1, <1>5, Zenon DEF EditInv, Clean, Sound
<1>7. Indexing(p) /\ r.pc # "idle"
  BY <1>1, <1>5 DEF Indexing
<1> QED
  BY <1>1, <1>4, <1>5, <1>6, <1>7, OwnStep, Zenon DEF EditInv, EditTyped

LEMMA StatStep ==
  ASSUME EditInv, NEW p \in Editors, Stat(p)
  PROVE  EditInv'
<1> PICK r : r = [pc |-> "upsert", clean |-> ed[p].clean, text |-> ed[p].text,
                  want |-> ed[p].want, mtime |-> disk.mtime]
  BY Zenon
<1>1. ed[p].pc = "stat" /\ UNCHANGED <<disk, index>> /\ ed' = [ed EXCEPT ![p] = r]
  BY DEF Stat, EditInv, EditTyped
<1>2. ed[p].text \in TextFiles
  BY <1>1 DEF EditInv, EditTyped, Editing, Idle
<1>3. /\ Editing(r) /\ r.pc = "upsert" /\ r.clean = ed[p].clean /\ r.text = ed[p].text
      /\ r.want = ed[p].want
  BY <1>2 DEF Editing
<1>4. r.clean => Sound(r, disk.text, index) /\ \A q \in Editors \ {p} : ~Indexing(q)
  BY <1>1, <1>3, Zenon DEF EditInv, Clean, Sound
<1>5. Indexing(p) /\ r.pc # "idle"
  BY <1>1, <1>3 DEF Indexing
<1> QED
  BY <1>1, <1>3, <1>4, <1>5, OwnStep, Zenon DEF EditInv, EditTyped

\* The record of an editor that is indexing, one step on.
LEMMA IndexingOn ==
  ASSUME NEW e, Editing(e), e.pc \in {"upsert", "symbols"}, NEW pc \in {"symbols", "done"},
         NEW r, r = [e EXCEPT !.pc = pc]
  PROVE  /\ Editing(r) /\ r.pc = pc /\ r.clean = e.clean /\ r.text = e.text /\ r.want = e.want
         /\ e.text \in TextFiles
<1>1. /\ e.text \in TextFiles
      /\ e = [pc |-> e.pc, clean |-> e.clean, text |-> e.text, want |-> e.want, mtime |-> e.mtime]
  BY DEF Editing, Idle
<1>2. DOMAIN e = {"pc", "clean", "text", "want", "mtime"}
  BY <1>1
<1>3. r = [pc |-> r.pc, clean |-> r.clean, text |-> r.text, want |-> r.want, mtime |-> r.mtime]
  BY <1>2
<1>4. r.pc = pc /\ r.clean = e.clean /\ r.text = e.text /\ r.want = e.want /\ r.mtime = e.mtime
  BY <1>2
<1> QED
  BY <1>1, <1>3, <1>4 DEF Editing

LEMMA UpsertStep ==
  ASSUME EditInv, NEW p \in Editors, UpsertFile(p)
  PROVE  EditInv'
<1> PICK e : e = ed[p]
  OBVIOUS
<1> PICK r : r = [e EXCEPT !.pc = "symbols"]
  BY Zenon
<1>1. /\ e.pc = "upsert" /\ UNCHANGED disk /\ ed' = [ed EXCEPT ![p] = r]
      /\ index' = [index EXCEPT !.sha = e.text, !.mtime = e.mtime]
  BY DEF UpsertFile, EditInv, EditTyped
<1>2. Editing(e)
  BY DEF EditInv, EditTyped
<1>3. Editing(r) /\ r.pc = "symbols" /\ r.clean = e.clean /\ r.text = e.text /\ r.want = e.want
  BY <1>1, <1>2, IndexingOn
<1>4. /\ index' = [sha |-> index'.sha, mtime |-> index'.mtime, syms |-> index'.syms]
      /\ index'.sha = e.text /\ index'.syms = index.syms
  <2>1. index = [sha |-> index.sha, mtime |-> index.mtime, syms |-> index.syms]
    BY DEF EditInv, EditTyped
  <2>2. index' = [sha |-> e.text, mtime |-> e.mtime, syms |-> index.syms]
    BY <1>1, <2>1, Zenon
  <2> QED
    BY <2>2
<1>5. r.clean => Sound(r, disk.text, index') /\ \A q \in Editors \ {p} : ~Indexing(q)
  BY <1>1, <1>3, <1>4 DEF EditInv, Clean, Sound
<1>6. Indexing(p) /\ r.pc # "idle"
  BY <1>1, <1>3 DEF Indexing
<1>7. \E text \in TextFiles : index'.syms = extract(text)
  BY <1>4 DEF EditInv, EditTyped
<1> QED
  BY <1>1, <1>3, <1>4, <1>5, <1>6, <1>7, OwnStep, Zenon

LEMMA ReplaceSymbolsStep ==
  ASSUME EditInv, NEW p \in Editors, ReplaceSymbols(p)
  PROVE  EditInv'
<1> PICK e : e = ed[p]
  OBVIOUS
<1> PICK r : r = [e EXCEPT !.pc = "done"]
  BY Zenon
<1>1. /\ e.pc = "symbols" /\ UNCHANGED disk /\ ed' = [ed EXCEPT ![p] = r]
      /\ index' = [index EXCEPT !.syms = extract(e.text)]
  BY DEF ReplaceSymbols, EditInv, EditTyped
<1>2. Editing(e)
  BY DEF EditInv, EditTyped
<1>3. /\ Editing(r) /\ r.pc = "done" /\ r.clean = e.clean /\ r.text = e.text /\ r.want = e.want
      /\ e.text \in TextFiles
  BY <1>1, <1>2, IndexingOn
<1>4. /\ index' = [sha |-> index'.sha, mtime |-> index'.mtime, syms |-> index'.syms]
      /\ index'.sha = index.sha /\ index'.syms = extract(e.text)
  <2>1. index = [sha |-> index.sha, mtime |-> index.mtime, syms |-> index.syms]
    BY DEF EditInv, EditTyped
  <2>2. index' = [sha |-> index.sha, mtime |-> index.mtime, syms |-> extract(e.text)]
    BY <1>1, <2>1
  <2> QED
    BY <2>2
<1>5. r.clean => Sound(r, disk.text, index') /\ \A q \in Editors \ {p} : ~Indexing(q)
  BY <1>1, <1>3, <1>4 DEF EditInv, Clean, Sound, Describes
<1>6. Indexing(p) /\ r.pc # "idle"
  BY <1>1, <1>3 DEF Indexing
<1>7. \E text \in TextFiles : index'.syms = extract(text)
  BY <1>3, <1>4
<1> QED
  BY <1>1, <1>3, <1>4, <1>5, <1>6, <1>7, OwnStep, Zenon

LEMMA SaveStep ==
  ASSUME EditInv, Save
  PROVE  EditInv'
<1>1. /\ \E t \in Foreign : disk' = [text |-> t, mtime |-> disk.mtime + 1]
      /\ ed' = [q \in Editors |-> IF ed[q].pc = "idle" THEN Idle ELSE [ed[q] EXCEPT !.clean = FALSE]]
      /\ UNCHANGED index
  BY DEF Save
<1>2. disk'.text \in TextFiles
  BY <1>1, EditAssumption DEF TextFiles
<1>3. ASSUME NEW q \in Editors PROVE Editing(ed'[q]) /\ ~Clean(q)' /\ (Indexing(q)' => Indexing(q))
  <2>1. Editing(ed[q])
    BY DEF EditInv, EditTyped
  <2>2. CASE ed[q].pc = "idle"
    BY <1>1, <2>2 DEF Clean, Indexing, Editing, Idle
  <2>3. CASE ed[q].pc # "idle"
    <3> PICK e : e = ed[q]
      OBVIOUS
    <3> PICK t : t = [e EXCEPT !.clean = FALSE]
      BY Zenon
    <3>1. ed'[q] = t
      BY <1>1, <2>3
    <3>2. Editing(t) /\ t.pc = e.pc /\ t.clean = FALSE
      BY <2>1, <2>3, Unclean, Zenon
    <3> QED
      BY <3>1, <3>2 DEF Clean, Indexing
  <2> QED
    BY <2>2, <2>3
<1>4. ed' = [q \in Editors |-> ed'[q]]
  BY <1>1
<1> PICK P \in SUBSET Editors : P = {}
  BY Zenon
<1> QED
  BY <1>1, <1>2, <1>3, <1>4, FileStep, Zenon

LEMMA RefreshStep ==
  ASSUME EditInv, Refresh
  PROVE  EditInv'
<1>1. /\ UNCHANGED <<disk, ed>>
      /\ index' = IF index.sha = disk.text THEN [index EXCEPT !.mtime = disk.mtime]
                  ELSE Row(disk.text, disk.mtime)
  BY DEF Refresh
<1>2. /\ index' = [sha |-> index'.sha, mtime |-> index'.mtime, syms |-> index'.syms]
      /\ index'.sha = disk.text
      /\ index'.syms = IF index.sha = disk.text THEN index.syms ELSE extract(disk.text)
  <2>1. index = [sha |-> index.sha, mtime |-> index.mtime, syms |-> index.syms]
    BY DEF EditInv, EditTyped
  <2>2. CASE index.sha = disk.text
    <3>1. index' = [sha |-> disk.text, mtime |-> disk.mtime, syms |-> index.syms]
      BY <1>1, <2>1, <2>2
    <3> QED
      BY <2>2, <3>1
  <2>3. CASE index.sha # disk.text
    BY <1>1, <2>3 DEF Row
  <2> QED
    BY <2>2, <2>3
<1>3. EditTyped'
  BY <1>1, <1>2 DEF EditInv, EditTyped
<1>4. ASSUME NEW p \in Editors, Sound(ed[p], disk.text, index)
      PROVE  Sound(ed[p], disk.text, index')
  BY <1>2, <1>4 DEF Sound, Describes
<1> QED
  BY <1>1, <1>3, <1>4 DEF EditInv, Clean, Indexing

LEMMA EditStep == EditInv /\ [EditNext]_editVars => EditInv'
<1> SUFFICES ASSUME EditInv, [EditNext]_editVars PROVE EditInv'
  OBVIOUS
<1>1. CASE UNCHANGED editVars
  BY <1>1 DEF editVars, EditInv, EditTyped, Clean, Indexing
<1>2. ASSUME NEW p \in Editors,
             \/ resolve_symbol(p) \/ ReadAndCompute(p) \/ Write(p) \/ Reread(p)
             \/ Stat(p) \/ UpsertFile(p) \/ ReplaceSymbols(p) \/ Exit(p)
      PROVE  EditInv'
  BY <1>2, ResolveStep, ComputeStep, WriteStep, RereadStep, StatStep, UpsertStep,
     ReplaceSymbolsStep, IdleStep DEF Exit
<1> QED
  BY <1>1, <1>2, SaveStep, RefreshStep DEF EditNext

LEMMA EditSafe == EditInv => EditIsClean
  BY DEF EditInv, EditIsClean, Clean, Sound

-----------------------------------------------------------------------------
(* fuzzy: the table of the distances of all prefixes.                      *)

\* g starts at x and goes on as F says.
Recursion(g, n, X, x, F) ==
  g \in [0..n -> X] /\ g[0] = x /\ \A k \in 1..n : g[k] = F[k][g[k - 1]]

LEMMA RecursionExists ==
  ASSUME NEW n \in Nat, NEW X, NEW x \in X, NEW F \in [1..n -> [X -> X]]
  PROVE  \E g : Recursion(g, n, X, x, F)
<1> DEFINE Fits(g, d) == g \in [0..d -> X] /\ g[0] = x /\ \A k \in 1..d : g[k] = F[k][g[k - 1]]
           P == {d \in 0..n : \E g : Fits(g, d)}
<1>1. 0 \in P
  <2>1. PICK g : g = [k \in 0..0 |-> x]
    BY Zenon
  <2>2. g \in [0..0 -> X] /\ g[0] = x /\ 1..0 = {}
    BY <2>1
  <2> QED BY <2>2
<1>2. ASSUME NEW d \in 0..n, d < n, d \in P PROVE d + 1 \in P
  <2>1. PICK g : Fits(g, d)
    BY <1>2
  <2>2. d + 1 \in 1..n /\ d \in 0..d /\ g[d] \in X
    BY <1>2, <2>1
  <2>3. PICK y : y = F[d + 1][g[d]]
    OBVIOUS
  <2>4. y \in X
    BY <2>2, <2>3
  <2>5. PICK h : h = [k \in 0..(d + 1) |-> IF k = d + 1 THEN y ELSE g[k]]
    BY Zenon
  <2>6. h \in [0..(d + 1) -> X] /\ h[d + 1] = y /\ \A k \in 0..d : h[k] = g[k]
    BY <2>1, <2>4, <2>5
  <2>7. ASSUME NEW k \in 1..(d + 1) PROVE h[k] = F[k][h[k - 1]]
    <3>1. k - 1 \in 0..d /\ h[k - 1] = g[k - 1]
      BY <2>6
    <3>2. CASE k = d + 1
      BY <2>3, <2>6, <3>1, <3>2
    <3>3. CASE k # d + 1
      <4>1. k \in 1..d /\ k \in 0..d
        BY <3>3
      <4> QED BY <2>1, <2>6, <3>1, <4>1
    <3> QED BY <3>2, <3>3
  <2>8. Fits(h, d + 1)
    BY <2>1, <2>6, <2>7
  <2>9. d + 1 \in 0..n
    BY <1>2
  <2> QED BY <2>8, <2>9
<1>3. 0..n \subseteq P
  <2> HIDE DEF P
  <2> QED BY <1>1, <1>2, Climbing, Zenon
<1>4. PICK g : Fits(g, n)
  BY <1>3
<1> QED BY <1>4 DEF Recursion

LEMMA LowestExists ==
  ASSUME NEW S \in SUBSET Nat, S # {}
  PROVE  Lowest(S) \in S /\ \A x \in S : Lowest(S) <= x
<1>1. IsWellFoundedOn({ss \in Nat \X Nat : ss[1] < ss[2]}, Nat)
  BY NatLessThanWellFounded DEF OpToRel
<1>2. PICK m \in S : \A x \in S : ~ (<<x, m>> \in {ss \in Nat \X Nat : ss[1] < ss[2]})
  BY <1>1, WFMin, Zenon
<1>3. ASSUME NEW x \in S PROVE m <= x
  <2>1. m \in Nat /\ x \in Nat /\ ~ (x < m)
    BY <1>2, Zenon
  <2> QED BY <2>1
<1> QED BY <1>2, <1>3, Zenon DEF Lowest

\* The least of three, and the cost of putting y in the place of x.
LeastOf(v, p, q, r) == v <= p /\ v <= q /\ v <= r /\ (v = p \/ v = q \/ v = r)
Cost(x, y) == IF x = y THEN 0 ELSE 1

LEMMA LowestOfThree ==
  ASSUME NEW p \in Nat, NEW q \in Nat, NEW r \in Nat, NEW v, v = Lowest({p, q, r})
  PROVE  v \in Nat /\ LeastOf(v, p, q, r)
<1>1. v \in {p, q, r} /\ \A x \in {p, q, r} : v <= x
  BY LowestExists
<1> QED BY <1>1 DEF LeastOf

\* The equation NextRow chooses its row by.
RowFits(a, b, i, prev, g) ==
  g = [j \in 0..Len(b) |->
         IF j = 0 THEN i
         ELSE Lowest({prev[j] + 1, g[j - 1] + 1, prev[j - 1] + IF a[i] = b[j] THEN 0 ELSE 1})]

NextRowFits(a, b, i, prev, cur) ==
  /\ cur \in [0..Len(b) -> Nat] /\ cur[0] = i
  /\ \A j \in 1..Len(b) :
       LeastOf(cur[j], prev[j] + 1, cur[j - 1] + 1, prev[j - 1] + Cost(a[i], b[j]))

LEMMA NextRowIs ==
  ASSUME NEW a, NEW b, Len(b) \in Nat, NEW i \in Nat, NEW prev \in [0..Len(b) -> Nat],
         NEW cur, cur = NextRow(a, b, i, prev)
  PROVE  NextRowFits(a, b, i, prev, cur)
<1>1. PICK m, c : m = Len(b) /\ c = [j \in 1..m |-> Cost(a[i], b[j])]
  BY Zenon
<1>2. m \in Nat /\ c \in [1..m -> Nat]
  BY <1>1 DEF Cost
<1>3. PICK F : F = [j \in 1..m |-> [y \in Nat |-> Lowest({prev[j] + 1, y + 1, prev[j - 1] + c[j]})]]
  OBVIOUS
<1>4. ASSUME NEW j \in 1..m, NEW y \in Nat
      PROVE  /\ F[j][y] = Lowest({prev[j] + 1, y + 1, prev[j - 1] + c[j]}) /\ F[j][y] \in Nat
             /\ LeastOf(F[j][y], prev[j] + 1, y + 1, prev[j - 1] + c[j])
  <2>1. j \in 0..m /\ j - 1 \in 0..m
    BY <1>2
  <2>2. prev[j] + 1 \in Nat /\ y + 1 \in Nat /\ prev[j - 1] + c[j] \in Nat
    <3>1. prev[j] \in Nat /\ prev[j - 1] \in Nat
      BY <1>1, <2>1, Zenon
    <3>2. c[j] \in Nat
      BY <1>2
    <3> QED BY <3>1, <3>2
  <2>3. F[j][y] = Lowest({prev[j] + 1, y + 1, prev[j - 1] + c[j]})
    BY <1>3
  <2>4. F[j][y] \in Nat /\ LeastOf(F[j][y], prev[j] + 1, y + 1, prev[j - 1] + c[j])
    BY ONLY <2>2, <2>3, LowestOfThree, Zenon
  <2> QED BY <2>3, <2>4
<1>5. F \in [1..m -> [Nat -> Nat]]
  <2>1. ASSUME NEW j \in 1..m PROVE F[j] \in [Nat -> Nat]
    BY <1>3, <1>4, Zenon
  <2> QED BY <1>3, <2>1, Zenon
<1>6. PICK g : g \in [0..m -> Nat] /\ g[0] = i /\ \A k \in 1..m : g[k] = F[k][g[k - 1]]
  <2>1. \E g : Recursion(g, m, Nat, i, F)
    BY ONLY <1>2, <1>5, i \in Nat, RecursionExists, Zenon
  <2> QED BY <2>1, Zenon DEF Recursion
<1>7. RowFits(a, b, i, prev, g)
  <2>1. ASSUME NEW j \in 0..m
        PROVE  g[j] = IF j = 0 THEN i
                      ELSE Lowest({prev[j] + 1, g[j - 1] + 1,
                                   prev[j - 1] + IF a[i] = b[j] THEN 0 ELSE 1})
    <3>1. CASE j = 0
      BY <1>6, <3>1
    <3>2. CASE j # 0
      <4>1. j \in 1..m /\ j - 1 \in 0..m /\ g[j - 1] \in Nat
        BY <1>2, <1>6, <3>2
      <4>2. c[j] = IF a[i] = b[j] THEN 0 ELSE 1
        BY <1>1, <4>1 DEF Cost
      <4>3. g[j] = Lowest({prev[j] + 1, g[j - 1] + 1, prev[j - 1] + c[j]})
        BY <1>4, <1>6, <4>1, Zenon
      <4> QED BY <3>2, <4>2, <4>3
    <3> QED BY <3>1, <3>2
  <2>2. g = [j \in 0..m |-> g[j]]
    BY <1>6
  <2> QED BY <1>1, <2>1, <2>2, Zenon DEF RowFits
<1>8. cur = CHOOSE h : RowFits(a, b, i, prev, h)
  BY DEF NextRow, RowFits
<1>9. RowFits(a, b, i, prev, cur)
  BY <1>7, <1>8
<1>10. /\ cur = [j \in 0..m |-> cur[j]] /\ cur[0] = i
       /\ \A j \in 1..m : cur[j] = Lowest({prev[j] + 1, cur[j - 1] + 1, prev[j - 1] + c[j]})
  <2>1. DOMAIN cur = 0..m /\ cur = [j \in 0..m |-> cur[j]] /\ cur[0] = i
    BY <1>1, <1>2, <1>9 DEF RowFits
  <2>2. ASSUME NEW j \in 1..m
        PROVE  cur[j] = Lowest({prev[j] + 1, cur[j - 1] + 1, prev[j - 1] + c[j]})
    <3>1. j \in 0..m /\ j # 0 /\ c[j] = IF a[i] = b[j] THEN 0 ELSE 1
      BY <1>1 DEF Cost
    <3>2. cur[j] = Lowest({prev[j] + 1, cur[j - 1] + 1, prev[j - 1] + IF a[i] = b[j] THEN 0 ELSE 1})
      BY <1>1, <1>9, <3>1, Zenon DEF RowFits
    <3> QED BY <3>1, <3>2
  <2> QED BY <2>1, <2>2, Zenon
<1> DEFINE P == {j \in 0..m : cur[j] \in Nat}
<1>11. 0 \in P
  BY <1>2, <1>10
<1>12. ASSUME NEW j \in 0..m, j < m, j \in P PROVE j + 1 \in P
  <2>1. j + 1 \in 1..m /\ j + 1 \in 0..m /\ (j + 1) - 1 = j /\ cur[j] \in Nat
    BY <1>2, <1>12
  <2>2. cur[j + 1] = Lowest({prev[j + 1] + 1, cur[j] + 1, prev[j] + c[j + 1]})
    BY <1>10, <2>1, Zenon
  <2>3. prev[j + 1] + 1 \in Nat /\ cur[j] + 1 \in Nat /\ prev[j] + c[j + 1] \in Nat
    <3>1. prev[j + 1] \in Nat /\ prev[j] \in Nat /\ c[j + 1] \in Nat
      BY <1>1, <1>2, <2>1, Zenon
    <3> QED BY <2>1, <3>1
  <2>4. cur[j + 1] \in Nat
    BY ONLY <2>2, <2>3, LowestOfThree, Zenon
  <2> QED BY <2>1, <2>4
<1>13. 0..m \subseteq P
  <2> HIDE DEF P
  <2> QED BY <1>2, <1>11, <1>12, Climbing, Zenon
<1>14. \A j \in 0..m : cur[j] \in Nat
  BY <1>13
<1>15. ASSUME NEW j \in 1..m
       PROVE  LeastOf(cur[j], prev[j] + 1, cur[j - 1] + 1, prev[j - 1] + Cost(a[i], b[j]))
  <2>1. j \in 0..m /\ j - 1 \in 0..m /\ c[j] = Cost(a[i], b[j]) /\ cur[j - 1] \in Nat
    BY <1>1, <1>2, <1>14
  <2>2. prev[j] + 1 \in Nat /\ cur[j - 1] + 1 \in Nat /\ prev[j - 1] + c[j] \in Nat
    <3>1. prev[j] \in Nat /\ prev[j - 1] \in Nat /\ c[j] \in Nat
      BY <1>1, <1>2, <2>1, Zenon
    <3> QED BY <2>1, <3>1
  <2>3. cur[j] = Lowest({prev[j] + 1, cur[j - 1] + 1, prev[j - 1] + c[j]})
    BY <1>10, Zenon
  <2>4. LeastOf(cur[j], prev[j] + 1, cur[j - 1] + 1, prev[j - 1] + c[j])
    BY ONLY <2>2, <2>3, LowestOfThree, Zenon
  <2> QED BY <2>1, <2>4
<1>16. cur \in [0..m -> Nat]
  BY <1>10, <1>14
<1> QED BY <1>1, <1>10, <1>15, <1>16, Zenon DEF NextRowFits


\* T[i][j] is the distance of the first i of a to the first j of b, by the rule of
\* the rows; and dp's rows as a whole, none of them given up.
EntryTable(a, b, T) ==
  /\ T \in [0..Len(a) -> [0..Len(b) -> Nat]]
  /\ \A j \in 0..Len(b) : T[0][j] = j
  /\ \A i \in 0..Len(a) : T[i][0] = i
  /\ \A i \in 1..Len(a), j \in 1..Len(b) :
       LeastOf(T[i][j], T[i - 1][j] + 1, T[i][j - 1] + 1, T[i - 1][j - 1] + Cost(a[i], b[j]))
RowByRow(a, b, T) ==
  T[0] = FirstRow(b) /\ \A i \in 1..Len(a) : T[i] = NextRow(a, b, i, T[i - 1])

LEMMA TableExists ==
  ASSUME NEW a, NEW b, Len(a) \in Nat, Len(b) \in Nat
  PROVE  \E T : EntryTable(a, b, T) /\ RowByRow(a, b, T)
<1>1. PICK n, m : n = Len(a) /\ m = Len(b)
  OBVIOUS
<1>2. PICK X : X = [0..m -> Nat]
  BY Zenon
<1>3. PICK F : F = [i \in 1..n |-> [p \in X |-> NextRow(a, b, i, p)]]
  BY Zenon
<1>4. ASSUME NEW i \in 1..n, NEW p \in X
      PROVE  /\ F[i][p] = NextRow(a, b, i, p) /\ F[i][p] \in X /\ F[i][p][0] = i
             /\ \A j \in 1..m :
                  LeastOf(F[i][p][j], p[j] + 1, F[i][p][j - 1] + 1, p[j - 1] + Cost(a[i], b[j]))
  <2>1. F[i][p] = NextRow(a, b, i, p)
    BY <1>3
  <2>2. i \in Nat /\ p \in [0..Len(b) -> Nat]
    BY <1>1, <1>2
  <2>3. NextRowFits(a, b, i, p, F[i][p])
    BY ONLY <2>1, <2>2, Len(b) \in Nat, NextRowIs
  <2> QED BY <1>1, <1>2, <2>1, <2>3, Zenon DEF NextRowFits
<1>5. F \in [1..n -> [X -> X]]
  <2>1. ASSUME NEW i \in 1..n PROVE F[i] \in [X -> X]
    BY <1>3, <1>4
  <2> QED BY <1>3, <2>1
<1>6. FirstRow(b) \in X /\ \A j \in 0..m : FirstRow(b)[j] = j
  BY <1>1, <1>2 DEF FirstRow
<1>7. PICK T : Recursion(T, n, X, FirstRow(b), F)
  BY <1>1, <1>5, <1>6, RecursionExists, Zenon
<1>8. T \in [0..n -> X] /\ T[0] = FirstRow(b) /\ \A i \in 1..n : T[i] = F[i][T[i - 1]]
  BY <1>7 DEF Recursion
<1>9. \A i \in 1..n : i - 1 \in 0..n /\ T[i - 1] \in X
  BY <1>1, <1>8
<1>10. RowByRow(a, b, T)
  BY <1>1, <1>4, <1>8, <1>9 DEF RowByRow
<1>11. ASSUME NEW i \in 0..n PROVE T[i][0] = i
  <2>1. CASE i = 0
    BY <1>1, <1>6, <1>8, <2>1
  <2>2. CASE i # 0
    <3>1. i \in 1..n
      BY <2>2
    <3> QED BY <1>4, <1>8, <1>9, <3>1
  <2> QED BY <2>1, <2>2
<1>12. ASSUME NEW i \in 1..n, NEW j \in 1..m
       PROVE  LeastOf(T[i][j], T[i - 1][j] + 1, T[i][j - 1] + 1, T[i - 1][j - 1] + Cost(a[i], b[j]))
  BY <1>4, <1>8, <1>9, Zenon
<1>13. EntryTable(a, b, T)
  BY <1>1, <1>2, <1>6, <1>8, <1>11, <1>12 DEF EntryTable
<1> QED BY <1>10, <1>13

LEMMA TableEdge ==
  ASSUME NEW a, NEW b, Len(a) \in Nat, Len(b) \in Nat, NEW T, EntryTable(a, b, T),
         NEW i \in 0..Len(a), NEW j \in 0..Len(b)
  PROVE  T[i][j] \in Nat /\ T[0][j] = j /\ T[i][0] = i
BY Zenon DEF EntryTable

\* An entry and those above, to the left and between.
Entry(v, up, left, diag, c) ==
  /\ v \in Nat /\ up \in Nat /\ left \in Nat /\ diag \in Nat /\ c \in {0, 1}
  /\ v <= up + 1 /\ v <= left + 1 /\ v <= diag + c
  /\ v = up + 1 \/ v = left + 1 \/ v = diag + c

LEMMA TableAt ==
  ASSUME NEW a, NEW b, Len(a) \in Nat, Len(b) \in Nat, NEW T, EntryTable(a, b, T),
         NEW i \in 1..Len(a), NEW j \in 1..Len(b)
  PROVE  Entry(T[i][j], T[i - 1][j], T[i][j - 1], T[i - 1][j - 1], Cost(a[i], b[j]))
<1>1. i - 1 \in 0..Len(a) /\ j - 1 \in 0..Len(b) /\ i \in 0..Len(a) /\ j \in 0..Len(b)
  OBVIOUS
<1>2. T[i][j] \in Nat /\ T[i - 1][j] \in Nat /\ T[i][j - 1] \in Nat /\ T[i - 1][j - 1] \in Nat
  BY <1>1, Zenon DEF EntryTable
<1>3. LeastOf(T[i][j], T[i - 1][j] + 1, T[i][j - 1] + 1, T[i - 1][j - 1] + Cost(a[i], b[j]))
  BY DEF EntryTable
<1>4. Cost(a[i], b[j]) \in {0, 1}
  BY DEF Cost
<1> QED BY <1>2, <1>3, <1>4 DEF Entry, LeastOf

LEMMA TableNext ==
  ASSUME NEW a, NEW b, Len(a) \in Nat, Len(b) \in Nat, NEW T, EntryTable(a, b, T),
         NEW i \in 0..Len(a), NEW j \in 0..Len(b), i < Len(a), j < Len(b)
  PROVE  Entry(T[i + 1][j + 1], T[i][j + 1], T[i + 1][j], T[i][j], Cost(a[i + 1], b[j + 1]))
<1>1. PICK k, l : k = i + 1 /\ l = j + 1
  OBVIOUS
<1>2. k \in 1..Len(a) /\ l \in 1..Len(b) /\ k - 1 = i /\ l - 1 = j
  BY <1>1
<1>3. Entry(T[k][l], T[k - 1][l], T[k][l - 1], T[k - 1][l - 1], Cost(a[k], b[l]))
  BY ONLY <1>2, TableAt, Len(a) \in Nat, Len(b) \in Nat, EntryTable(a, b, T), Zenon
<1> QED BY <1>1, <1>2, <1>3


LEMMA EntryOver ==
  ASSUME NEW v, NEW up, NEW left, NEW diag, NEW c, Entry(v, up, left, diag, c),
         NEW max \in Nat, up > max, left > max, diag > max
  PROVE  v > max
BY DEF Entry

LEMMA EntryApart ==
  ASSUME NEW v, NEW up, NEW left, NEW diag, NEW c, Entry(v, up, left, diag, c),
         NEW i \in Nat, NEW j \in Nat,
         i - 1 <= j + up /\ j <= i - 1 + up,
         i <= j - 1 + left /\ j - 1 <= i + left,
         i - 1 <= j - 1 + diag /\ j - 1 <= i - 1 + diag
  PROVE  i <= j + v /\ j <= i + v
BY DEF Entry

\* A row without a way back into the budget is followed by such rows only.
LEMMA HopelessGoesOn ==
  ASSUME NEW a, NEW b, Len(a) \in Nat, Len(b) \in Nat, NEW T, EntryTable(a, b, T), NEW max \in Nat,
         NEW i \in 0..Len(a), i < Len(a), \A j \in 0..Len(b) : T[i][j] > max
  PROVE  \A j \in 0..Len(b) : T[i + 1][j] > max
<1> DEFINE P == {j \in 0..Len(b) : T[i + 1][j] > max}
<1>1. i + 1 \in 0..Len(a) /\ i + 1 > 0 /\ (i + 1) - 1 = i /\ i \in Nat
  OBVIOUS
<1>2. 0 \in P
  <2>1. 0 \in 0..Len(b) /\ T[i][0] > max
    OBVIOUS
  <2>2. T[i][0] = i /\ T[i + 1][0] = i + 1
    BY <1>1, <2>1, TableEdge
  <2> QED BY <1>1, <2>1, <2>2
<1>3. ASSUME NEW j \in 0..Len(b), j < Len(b), j \in P PROVE j + 1 \in P
  <2>1. j + 1 \in 0..Len(b) /\ j + 1 > 0 /\ (j + 1) - 1 = j
    BY <1>3
  <2>2. T[i + 1][j] > max /\ T[i][j + 1] > max /\ T[i][j] > max
    BY <1>3, <2>1
  <2>3. Entry(T[i + 1][j + 1], T[i][j + 1], T[i + 1][j], T[i][j], Cost(a[i + 1], b[j + 1]))
    BY <1>3, TableNext, Zenon
  <2>4. T[i + 1][j + 1] > max
    BY <2>2, <2>3, EntryOver
  <2> QED BY <2>1, <2>4
<1>4. 0..Len(b) \subseteq P
  <2> HIDE DEF P
  <2> QED BY <1>2, <1>3, Climbing, Zenon
<1> QED BY <1>4

\* No fewer edits than the difference of the lengths.
LEMMA TableBound ==
  ASSUME NEW a, NEW b, Len(a) \in Nat, Len(b) \in Nat, NEW T, EntryTable(a, b, T),
         NEW n, n = Len(a), NEW m, m = Len(b)
  PROVE  n <= m + T[n][m] /\ m <= n + T[n][m]
<1> DEFINE P == {s \in 0..(n + m) : \A i \in 0..n, j \in 0..m :
                   i + j <= s => i <= j + T[i][j] /\ j <= i + T[i][j]}
<1>1. n \in Nat /\ m \in Nat
  OBVIOUS
<1>2. \A i \in 0..n, j \in 0..m : T[i][j] \in Nat
  BY TableEdge
<1>3. 0 \in P
  <2>1. \A i \in 0..n, j \in 0..m : i + j <= 0 => i = 0 /\ j = 0
    BY <1>1
  <2>2. 0 \in 0..n /\ 0 \in 0..m /\ T[0][0] = 0
    BY <1>1, TableEdge
  <2> QED BY <1>1, <2>1, <2>2
<1>4. ASSUME NEW s \in 0..(n + m), s < n + m, s \in P PROVE s + 1 \in P
  <2>1. ASSUME NEW i \in 0..n, NEW j \in 0..m, i + j <= s + 1
        PROVE  i <= j + T[i][j] /\ j <= i + T[i][j]
    <3>1. CASE i = 0 \/ j = 0
      <4>1. T[i][j] = IF i = 0 THEN j ELSE i
        BY <3>1, TableEdge
      <4> QED BY <1>1, <3>1, <4>1
    <3>2. CASE i > 0 /\ j > 0
      <4>1. i - 1 \in 0..n /\ j - 1 \in 0..m /\ i \in 1..n /\ j \in 1..m
        BY <1>1, <3>2
      <4>2. Entry(T[i][j], T[i - 1][j], T[i][j - 1], T[i - 1][j - 1], Cost(a[i], b[j]))
        BY <4>1, TableAt, Zenon
      <4>3. i - 1 + j <= s /\ i + (j - 1) <= s /\ i - 1 + (j - 1) <= s
        BY <1>1, <2>1, <4>1
      <4>4. i - 1 <= j + T[i - 1][j] /\ j <= i - 1 + T[i - 1][j]
        BY <1>4, <4>1, <4>3, Zenon
      <4>5. i <= j - 1 + T[i][j - 1] /\ j - 1 <= i + T[i][j - 1]
        BY <1>4, <4>1, <4>3, Zenon
      <4>6. i - 1 <= j - 1 + T[i - 1][j - 1] /\ j - 1 <= i - 1 + T[i - 1][j - 1]
        BY <1>4, <4>1, <4>3, Zenon
      <4>7. i \in Nat /\ j \in Nat
        BY <1>1
      <4> QED BY ONLY <4>2, <4>4, <4>5, <4>6, <4>7, EntryApart
    <3> QED BY <1>1, <3>1, <3>2
  <2>2. s + 1 \in 0..(n + m)
    BY <1>1, <1>4
  <2> QED BY <2>1, <2>2
<1>5. 0..(n + m) \subseteq P
  <2> HIDE DEF P
  <2>1. n + m \in Nat
    BY <1>1
  <2> QED BY <2>1, <1>3, <1>4, Climbing, Zenon
<1>6. n + m \in P /\ n \in 0..n /\ m \in 0..m
  BY <1>1, <1>5
<1> QED BY <1>6

\* The equation dp chooses its rows by.
RowsFit(a, b, max, R) ==
  R = [i \in 0..Len(a) |->
         IF i = 0 THEN {FirstRow(b)}
         ELSE LET next == {NextRow(a, b, i, p) : p \in R[i - 1]}
              IN {r \in next : ~Hopeless(r, max)}]

LEMMA RowsExist ==
  ASSUME NEW a, NEW b, Len(a) \in Nat, Len(b) \in Nat, NEW max \in Nat
  PROVE  \E R : RowsFit(a, b, max, R)
<1>1. PICK n, X : n = Len(a) /\ X = SUBSET [0..Len(b) -> Nat]
  BY Zenon
<1>2. PICK F : F = [i \in 1..n |-> [S \in X |-> {r \in {NextRow(a, b, i, p) : p \in S} : ~Hopeless(r, max)}]]
  BY Zenon
<1>3. ASSUME NEW i \in 1..n, NEW S \in X
      PROVE  /\ F[i][S] = {r \in {NextRow(a, b, i, p) : p \in S} : ~Hopeless(r, max)}
             /\ F[i][S] \in X
  <2>1. F[i][S] = {r \in {NextRow(a, b, i, p) : p \in S} : ~Hopeless(r, max)}
    BY <1>2
  <2>2. ASSUME NEW p \in S PROVE NextRow(a, b, i, p) \in [0..Len(b) -> Nat]
    <3>1. i \in Nat /\ p \in [0..Len(b) -> Nat]
      BY <1>1
    <3>2. NextRowFits(a, b, i, p, NextRow(a, b, i, p))
      BY ONLY <3>1, Len(b) \in Nat, NextRowIs
    <3> QED BY <3>2 DEF NextRowFits
  <2> QED BY <1>1, <2>1, <2>2
<1>4. F \in [1..n -> [X -> X]]
  <2>1. ASSUME NEW i \in 1..n PROVE F[i] \in [X -> X]
    BY <1>2, <1>3
  <2> QED BY <1>2, <2>1
<1>5. {FirstRow(b)} \in X
  BY <1>1 DEF FirstRow
<1>6. PICK R : Recursion(R, n, X, {FirstRow(b)}, F)
  BY <1>1, <1>4, <1>5, RecursionExists, Zenon
<1>7. R \in [0..n -> X] /\ R[0] = {FirstRow(b)} /\ \A i \in 1..n : R[i] = F[i][R[i - 1]]
  BY <1>6 DEF Recursion
<1>8. ASSUME NEW i \in 0..n
      PROVE  R[i] = IF i = 0 THEN {FirstRow(b)}
                    ELSE {r \in {NextRow(a, b, i, p) : p \in R[i - 1]} : ~Hopeless(r, max)}
  <2>1. CASE i = 0
    BY <1>7, <2>1
  <2>2. CASE i # 0
    <3>1. i \in 1..n /\ i - 1 \in 0..n /\ R[i - 1] \in X
      BY <1>1, <1>7, <2>2
    <3> QED BY <1>3, <1>7, <2>2, <3>1
  <2> QED BY <2>1, <2>2
<1>9. R = [i \in 0..n |-> R[i]]
  BY <1>7
<1>10. RowsFit(a, b, max, R)
  BY <1>1, <1>8, <1>9 DEF RowsFit
<1> QED BY <1>10

LEMMA DpIs ==
  ASSUME NEW a, NEW b, NEW n \in Nat, n = Len(a), NEW m \in Nat, m = Len(b), NEW max \in Nat,
         NEW T, EntryTable(a, b, T), RowByRow(a, b, T)
  PROVE  dp(a, b, max) = {T[n][m]} \cap 0..max
<1>1. PICK R : R = CHOOSE Q : RowsFit(a, b, max, Q)
  OBVIOUS
<1>2. dp(a, b, max) = IF n > m + max \/ m > n + max THEN {} ELSE {r[m] : r \in R[n]} \cap 0..max
  BY <1>1 DEF dp, RowsFit
<1>3. RowsFit(a, b, max, R)
  BY <1>1, RowsExist
<1>4. R[0] = {FirstRow(b)}
  BY <1>3 DEF RowsFit
<1>5. ASSUME NEW i \in 0..n, i < n
      PROVE  R[i + 1] = {r \in {NextRow(a, b, i + 1, p) : p \in R[i]} : ~Hopeless(r, max)}
  <2>1. PICK k : k = i + 1
    OBVIOUS
  <2>2. k \in 0..n /\ k # 0 /\ k - 1 = i
    BY <1>5, <2>1
  <2>3. R[k] = {r \in {NextRow(a, b, k, p) : p \in R[k - 1]} : ~Hopeless(r, max)}
    BY <1>3, <2>2, Zenon DEF RowsFit
  <2> QED BY <2>1, <2>2, <2>3
<1>6. \A i \in 0..n, j \in 0..m : T[i][j] \in Nat /\ DOMAIN T[i] = 0..m
  <2>1. T \in [0..n -> [0..m -> Nat]]
    BY DEF EntryTable
  <2> QED BY <2>1
<1> DEFINE P == {i \in 0..n : R[i] = {T[i]} \/ (R[i] = {} /\ \A j \in 0..m : T[i][j] > max)}
<1>7. 0 \in P
  BY <1>4 DEF RowByRow
<1>8. ASSUME NEW i \in 0..n, i < n, i \in P PROVE i + 1 \in P
  <2>1. i + 1 \in 0..n /\ i + 1 \in 1..n /\ (i + 1) - 1 = i
    BY <1>8
  <2>2. CASE R[i] = {T[i]}
    <3>1. T[i + 1] = NextRow(a, b, i + 1, T[i])
      BY <2>1 DEF RowByRow
    <3>2. R[i + 1] = {r \in {T[i + 1]} : ~Hopeless(r, max)}
      <4>1. {NextRow(a, b, i + 1, p) : p \in R[i]} = {T[i + 1]}
        BY <2>2, <3>1
      <4> QED BY <1>5, <1>8, <4>1, Zenon
    <3>3. CASE Hopeless(T[i + 1], max)
      <4>1. R[i + 1] = {}
        BY <3>2, <3>3
      <4>2. \A j \in 0..m : T[i + 1][j] > max
        BY <1>6, <2>1, <3>3 DEF Hopeless
      <4> QED BY <2>1, <4>1, <4>2
    <3>4. CASE ~Hopeless(T[i + 1], max)
      <4>1. R[i + 1] = {T[i + 1]}
        BY <3>2, <3>4
      <4> QED BY <2>1, <4>1
    <3> QED BY <3>3, <3>4
  <2>3. CASE R[i] = {} /\ \A j \in 0..m : T[i][j] > max
    <3>1. R[i + 1] = {}
      BY <1>5, <1>8, <2>3
    <3>2. \A j \in 0..m : T[i + 1][j] > max
      BY <1>8, <2>3, HopelessGoesOn, Zenon
    <3> QED BY <2>1, <3>1, <3>2
  <2> QED BY <1>8, <2>2, <2>3
<1>9. 0..n \subseteq P
  <2> HIDE DEF P
  <2> QED BY <1>7, <1>8, Climbing, Zenon
<1>10. n \in 0..n /\ m \in 0..m /\ T[n][m] \in Nat
  BY <1>6
<1>11. CASE n > m + max \/ m > n + max
  <2>1. n <= m + T[n][m] /\ m <= n + T[n][m]
    BY TableBound
  <2>2. T[n][m] > max
    BY <1>10, <1>11, <2>1
  <2> QED BY <1>2, <1>10, <1>11, <2>2
<1>12. CASE ~(n > m + max \/ m > n + max)
  <2>1. dp(a, b, max) = {r[m] : r \in R[n]} \cap 0..max
    BY <1>2, <1>12
  <2>2. CASE R[n] = {T[n]}
    BY <2>1, <2>2
  <2>3. CASE R[n] = {} /\ \A j \in 0..m : T[n][j] > max
    <3>1. T[n][m] > max
      BY <1>10, <2>3
    <3> QED BY <1>10, <2>1, <2>3, <3>1
  <2>4. n \in P
    BY <1>9, <1>10
  <2> QED BY <2>2, <2>3, <2>4
<1> QED BY <1>11, <1>12


\* What holds on two sides of a grid and goes on from three neighbours holds in it.
LEMMA Grid ==
  ASSUME NEW n \in Nat, NEW m \in Nat, NEW Q,
         \A i \in 0..n : <<i, 0>> \in Q,
         \A j \in 0..m : <<0, j>> \in Q,
         \A i \in 1..n, j \in 1..m :
           <<i - 1, j>> \in Q /\ <<i, j - 1>> \in Q /\ <<i - 1, j - 1>> \in Q => <<i, j>> \in Q
  PROVE  \A i \in 0..n, j \in 0..m : <<i, j>> \in Q
<1> DEFINE P == {s \in 0..(n + m) : \A i \in 0..n, j \in 0..m : i + j <= s => <<i, j>> \in Q}
<1>1. 0 \in P
  <2>1. \A i \in 0..n, j \in 0..m : i + j <= 0 => i = 0
    OBVIOUS
  <2> QED BY <2>1
<1>2. ASSUME NEW s \in 0..(n + m), s < n + m, s \in P PROVE s + 1 \in P
  <2>1. ASSUME NEW i \in 0..n, NEW j \in 0..m, i + j <= s + 1 PROVE <<i, j>> \in Q
    <3>1. CASE i > 0 /\ j > 0
      <4>1. i \in 1..n /\ j \in 1..m /\ i - 1 \in 0..n /\ j - 1 \in 0..m
        BY <3>1
      <4>2. i - 1 + j <= s /\ i + (j - 1) <= s /\ i - 1 + (j - 1) <= s
        BY <2>1, <4>1
      <4>3. <<i - 1, j>> \in Q /\ <<i, j - 1>> \in Q /\ <<i - 1, j - 1>> \in Q
        BY <1>2, <4>1, <4>2
      <4> QED BY <4>1, <4>3
    <3>2. CASE i = 0 \/ j = 0
      BY <3>2
    <3> QED BY <3>1, <3>2
  <2>2. s + 1 \in 0..(n + m)
    BY <1>2
  <2> QED BY <2>1, <2>2
<1>3. 0..(n + m) \subseteq P
  <2> HIDE DEF P
  <2>1. n + m \in Nat
    OBVIOUS
  <2> QED BY <2>1, <1>1, <1>2, Climbing
<1>4. ASSUME NEW i \in 0..n, NEW j \in 0..m PROVE <<i, j>> \in Q
  <2>1. n + m \in P /\ i + j <= n + m
    BY <1>3
  <2> QED BY <2>1
<1> QED BY <1>4, Zenon

LEMMA EntrySame ==
  ASSUME NEW v, NEW up, NEW left, NEW diag, NEW c, Entry(v, up, left, diag, c),
         NEW x, Entry(x, up, left, diag, c)
  PROVE  x = v
BY DEF Entry

\* Two tables for words that begin alike begin alike.
LEMMA TablesAgree ==
  ASSUME NEW a, NEW b, NEW d, Len(a) \in Nat, Len(b) \in Nat, Len(d) \in Nat,
         NEW T, EntryTable(a, b, T), NEW U, EntryTable(a, d, U),
         NEW p \in Nat, p <= Len(b), p <= Len(d), \A j \in 1..p : d[j] = b[j]
  PROVE  \A i \in 0..Len(a), j \in 0..p : U[i][j] = T[i][j]
<1>1. PICK n : n = Len(a)
  OBVIOUS
<1> DEFINE Q == {x \in (0..n) \X (0..p) : U[x[1]][x[2]] = T[x[1]][x[2]]}
<1>2. n \in Nat /\ \A i \in 0..n : i \in 0..Len(a)
  BY <1>1
<1>3. \A j \in 0..p : j \in 0..Len(b) /\ j \in 0..Len(d)
  OBVIOUS
<1>4. ASSUME NEW i \in 0..n PROVE <<i, 0>> \in Q
  <2>1. U[i][0] = i /\ T[i][0] = i
    BY <1>2, <1>3, TableEdge
  <2> QED BY <2>1
<1>5. ASSUME NEW j \in 0..p PROVE <<0, j>> \in Q
  <2>1. U[0][j] = j /\ T[0][j] = j
    BY <1>2, <1>3, TableEdge
  <2> QED BY <1>2, <2>1
<1>6. ASSUME NEW i \in 1..n, NEW j \in 1..p,
             <<i - 1, j>> \in Q, <<i, j - 1>> \in Q, <<i - 1, j - 1>> \in Q
      PROVE  <<i, j>> \in Q
  <2>1. i \in 1..Len(a) /\ j \in 1..Len(b) /\ j \in 1..Len(d) /\ b[j] = d[j]
    BY <1>1
  <2>2. Entry(T[i][j], T[i - 1][j], T[i][j - 1], T[i - 1][j - 1], Cost(a[i], b[j]))
    BY <2>1, TableAt
  <2>3. Entry(U[i][j], U[i - 1][j], U[i][j - 1], U[i - 1][j - 1], Cost(a[i], b[j]))
    BY <2>1, TableAt
  <2>4. U[i - 1][j] = T[i - 1][j] /\ U[i][j - 1] = T[i][j - 1] /\ U[i - 1][j - 1] = T[i - 1][j - 1]
    BY <1>6
  <2>5. U[i][j] = T[i][j]
    BY <2>2, <2>3, <2>4, EntrySame
  <2> QED BY <2>5
<1>7. \A i \in 0..n, j \in 0..p : <<i, j>> \in Q
  <2> HIDE DEF Q
  <2> QED BY <1>2, <1>4, <1>5, <1>6, Grid, Zenon
<1> QED BY <1>1, <1>7, Zenon

LEMMA EntryShifted ==
  ASSUME NEW v, NEW up, NEW left, NEW diag, NEW c, Entry(v, up, left, diag, c),
         NEW x, NEW y, NEW z, NEW w, Entry(x, y, z, w, c),
         y <= up + 1, z <= left + 1, w <= diag + 1
  PROVE  x <= v + 1
BY DEF Entry

\* Two tables for words that end alike differ by one to the end if they do where
\* the ends begin.
LEMMA TablesFollow ==
  ASSUME NEW a, NEW b, NEW d, Len(a) \in Nat, Len(b) \in Nat, Len(d) \in Nat,
         NEW T, EntryTable(a, b, T), NEW U, EntryTable(a, d, U),
         NEW s \in Nat, NEW t \in Nat, NEW l \in Nat, s + l = Len(b), t + l = Len(d),
         \A j \in 1..l : d[t + j] = b[s + j],
         \A i \in 0..Len(a) : U[i][t] <= T[i][s] + 1
  PROVE  U[Len(a)][Len(d)] <= T[Len(a)][Len(b)] + 1
<1>1. PICK n : n = Len(a)
  OBVIOUS
<1> DEFINE Q == {x \in (0..n) \X (0..l) : U[x[1]][t + x[2]] <= T[x[1]][s + x[2]] + 1}
<1>2. n \in Nat /\ \A i \in 0..n : i \in 0..Len(a)
  BY <1>1
<1>3. \A j \in 0..l : s + j \in 0..Len(b) /\ t + j \in 0..Len(d)
  OBVIOUS
<1>4. ASSUME NEW i \in 0..n PROVE <<i, 0>> \in Q
  <2>1. s + 0 = s /\ t + 0 = t
    OBVIOUS
  <2> QED BY <1>1, <2>1
<1>5. ASSUME NEW j \in 0..l PROVE <<0, j>> \in Q
  <2>1. U[0][t + j] = t + j /\ T[0][s + j] = s + j
    BY <1>2, <1>3, TableEdge
  <2>2. U[0][t] = t /\ T[0][s] = s
    <3>1. 0 \in 0..Len(a) /\ t \in 0..Len(d) /\ s \in 0..Len(b)
      OBVIOUS
    <3> QED BY <3>1, TableEdge
  <2>3. U[0][t] <= T[0][s] + 1
    BY <1>1, <1>2
  <2>4. t + j <= (s + j) + 1
    BY <2>2, <2>3
  <2> QED BY <1>2, <2>1, <2>4
<1>6. ASSUME NEW i \in 1..n, NEW j \in 1..l,
             <<i - 1, j>> \in Q, <<i, j - 1>> \in Q, <<i - 1, j - 1>> \in Q
      PROVE  <<i, j>> \in Q
  <2>1. PICK g, h : g = s + j /\ h = t + j
    OBVIOUS
  <2>2. /\ i \in 1..Len(a) /\ g \in 1..Len(b) /\ h \in 1..Len(d) /\ d[h] = b[g]
        /\ s + (j - 1) = g - 1 /\ t + (j - 1) = h - 1
    BY <1>1, <2>1
  <2>3. Entry(T[i][g], T[i - 1][g], T[i][g - 1], T[i - 1][g - 1], Cost(a[i], b[g]))
    BY <2>2, TableAt, Zenon
  <2>4. Entry(U[i][h], U[i - 1][h], U[i][h - 1], U[i - 1][h - 1], Cost(a[i], b[g]))
    <3>1. Entry(U[i][h], U[i - 1][h], U[i][h - 1], U[i - 1][h - 1], Cost(a[i], d[h]))
      BY <2>2, TableAt, Zenon
    <3> QED BY <2>2, <3>1
  <2>5. /\ U[i - 1][h] <= T[i - 1][g] + 1 /\ U[i][h - 1] <= T[i][g - 1] + 1
        /\ U[i - 1][h - 1] <= T[i - 1][g - 1] + 1
    BY <1>6, <2>1, <2>2, Zenon
  <2>6. U[i][h] <= T[i][g] + 1
    BY ONLY <2>3, <2>4, <2>5, EntryShifted
  <2>7. i \in 0..n /\ j \in 0..l
    OBVIOUS
  <2> QED BY <2>1, <2>6, <2>7, Zenon
<1>7. \A i \in 0..n, j \in 0..l : <<i, j>> \in Q
  <2> HIDE DEF Q
  <2> QED BY <1>2, <1>4, <1>5, <1>6, Grid, Zenon
<1>8. n \in 0..n /\ l \in 0..l
  BY <1>2
<1>9. U[n][t + l] <= T[n][s + l] + 1
  BY <1>7, <1>8, Zenon
<1> QED BY <1>1, <1>9, Zenon

LEMMA EntryStays ==
  ASSUME NEW v, NEW up, NEW left, NEW diag, NEW c, Entry(v, up, left, diag, c),
         left <= diag + 1, diag <= up + 1
  PROVE  left <= v + 1
BY DEF Entry

\* One character more is one edit less, at most.
LEMMA TableIsSmooth ==
  ASSUME NEW a, NEW b, Len(a) \in Nat, Len(b) \in Nat, NEW T, EntryTable(a, b, T),
         NEW p \in 0..Len(b), p < Len(b)
  PROVE  \A i \in 0..Len(a) : T[i][p] <= T[i][p + 1] + 1
<1> DEFINE P == {i \in 0..Len(a) : T[i][p] <= T[i][p + 1] + 1}
<1>1. p + 1 \in 0..Len(b) /\ p + 1 \in 1..Len(b) /\ (p + 1) - 1 = p
  OBVIOUS
<1>2. 0 \in P
  <2>1. 0 \in 0..Len(a) /\ T[0][p] = p /\ T[0][p + 1] = p + 1
    BY <1>1, TableEdge
  <2> QED BY <2>1
<1>3. ASSUME NEW i \in 0..Len(a), i < Len(a), i \in P PROVE i + 1 \in P
  <2>1. Entry(T[i + 1][p + 1], T[i][p + 1], T[i + 1][p], T[i][p], Cost(a[i + 1], b[p + 1]))
    BY <1>3, TableNext
  <2>2. T[i + 1][p] <= T[i][p] + 1
    <3>1. CASE p = 0
      <4>1. i + 1 \in 0..Len(a) /\ T[i + 1][p] = i + 1 /\ T[i][p] = i
        BY <1>3, <3>1, TableEdge
      <4> QED BY <4>1
    <3>2. CASE p > 0
      <4>1. PICK k : k = i + 1
        OBVIOUS
      <4>2. k \in 1..Len(a) /\ p \in 1..Len(b) /\ k - 1 = i
        BY <1>3, <3>2, <4>1
      <4>3. Entry(T[k][p], T[k - 1][p], T[k][p - 1], T[k - 1][p - 1], Cost(a[k], b[p]))
        BY ONLY <4>2, TableAt, Len(a) \in Nat, Len(b) \in Nat, EntryTable(a, b, T)
      <4>4. T[k][p] <= T[k - 1][p] + 1
        BY <4>3 DEF Entry
      <4> QED BY <4>1, <4>2, <4>4
    <3> QED BY <3>1, <3>2
  <2>3. T[i][p] <= T[i][p + 1] + 1
    BY <1>3
  <2>4. T[i + 1][p] <= T[i + 1][p + 1] + 1
    BY ONLY <2>1, <2>2, <2>3, EntryStays
  <2>5. i + 1 \in 0..Len(a)
    BY <1>3
  <2> QED BY <2>4, <2>5
<1>4. 0..Len(a) \subseteq P
  <2> HIDE DEF P
  <2> QED BY <1>2, <1>3, Climbing, Zenon
<1> QED BY <1>4


\* g is w with the characters behind p, up to s, replaced by those of c.
Glued(w, c, p, s, g) ==
  /\ Len(g) = p + Len(c) + (Len(w) - s)
  /\ \A j \in 1..p : g[j] = w[j]
  /\ \A j \in 1..Len(c) : g[p + j] = c[j]
  /\ \A j \in 1..(Len(w) - s) : g[p + Len(c) + j] = w[s + j]

LEMMA Glue ==
  ASSUME NEW S, NEW w \in Seq(S), NEW c \in Seq(S), NEW p \in 0..Len(w), NEW s \in p..Len(w),
         NEW g, g = SubSeq(w, 1, p) \o c \o SubSeq(w, s + 1, Len(w))
  PROVE  g \in Seq(S) /\ Glued(w, c, p, s, g)
<1>a. PICK l : l = Len(w) - s
  OBVIOUS
<1>1. PICK x, y : x = SubSeq(w, 1, p) /\ y = SubSeq(w, s + 1, Len(w))
  BY Zenon
<1>2. l \in Nat /\ p \in Nat /\ s \in Nat /\ Len(w) \in Nat /\ Len(c) \in Nat /\ Len(w) = s + l
  BY <1>a
<1>3. x \in Seq(S) /\ Len(x) = p /\ \A j \in 1..p : x[j] = w[j]
  BY <1>1, <1>2
<1>4. y \in Seq(S) /\ Len(y) = l /\ \A j \in 1..l : y[j] = w[s + j]
  BY <1>1, <1>2
<1>5. PICK z : z = x \o c
  BY Zenon
<1>6. /\ z \in Seq(S) /\ Len(z) = p + Len(c) /\ \A j \in 1..p : z[j] = w[j]
      /\ \A j \in 1..Len(c) : z[p + j] = c[j]
  <2>0. /\ z \in Seq(S) /\ Len(z) = Len(x) + Len(c)
        /\ \A j \in 1..(Len(x) + Len(c)) : z[j] = IF j <= Len(x) THEN x[j] ELSE c[j - Len(x)]
    BY ONLY <1>3, <1>5, c \in Seq(S), ConcatProperties
  <2>1. z \in Seq(S) /\ Len(z) = p + Len(c)
    BY <1>3, <2>0
  <2>2. ASSUME NEW j \in 1..p PROVE z[j] = w[j]
    <3>1. j \in 1..(Len(x) + Len(c)) /\ j <= Len(x)
      BY <1>2, <1>3
    <3> QED BY <1>3, <2>0, <3>1
  <2>3. ASSUME NEW j \in 1..Len(c) PROVE z[p + j] = c[j]
    <3>1. p + j \in 1..(Len(x) + Len(c)) /\ ~(p + j <= Len(x)) /\ (p + j) - Len(x) = j
      BY <1>2, <1>3
    <3> QED BY <2>0, <3>1
  <2> QED BY <2>1, <2>2, <2>3
<1>7. g = z \o y
  BY <1>1, <1>5
<1>8. /\ g \in Seq(S) /\ Len(g) = Len(z) + Len(y)
      /\ \A j \in 1..(Len(z) + Len(y)) : g[j] = IF j <= Len(z) THEN z[j] ELSE y[j - Len(z)]
  BY ONLY <1>4, <1>6, <1>7, ConcatProperties
<1>9. ASSUME NEW j \in 1..(p + Len(c)) PROVE g[j] = z[j]
  <2>1. j \in 1..(Len(z) + Len(y)) /\ j <= Len(z)
    BY <1>2, <1>4, <1>6
  <2> QED BY <1>8, <2>1, Zenon
<1>10. ASSUME NEW j \in 1..l PROVE g[p + Len(c) + j] = w[s + j]
  <2>1. PICK k : k = p + Len(c) + j
    OBVIOUS
  <2>2. k \in 1..(Len(z) + Len(y)) /\ ~(k <= Len(z)) /\ k - Len(z) = j
    BY <1>2, <1>4, <1>6, <2>1
  <2>3. g[k] = y[j]
    BY <1>8, <2>2, Zenon
  <2> QED BY <1>4, <2>1, <2>3, Zenon
<1>11. ASSUME NEW j \in 1..p PROVE g[j] = w[j]
  <2>1. j \in 1..(p + Len(c))
    BY <1>2
  <2> QED BY <1>6, <1>9, <2>1, Zenon
<1>12. ASSUME NEW j \in 1..Len(c) PROVE g[p + j] = c[j]
  <2>1. p + j \in 1..(p + Len(c))
    BY <1>2
  <2> QED BY <1>6, <1>9, <2>1, Zenon
<1>13. Len(g) = p + Len(c) + l
  BY <1>4, <1>6, <1>8
<1> QED BY <1>a, <1>8, <1>10, <1>11, <1>12, <1>13, Zenon DEF Glued

\* One edit of w at p: what is before p stays, and what is behind s is behind t.
OneEdit(w, v, p, s, t) ==
  /\ p \in Nat /\ s \in Nat /\ t \in Nat
  /\ \/ s = p /\ t = p + 1
     \/ s = p + 1 /\ t = p
     \/ s = p + 1 /\ t = p + 1
  /\ s <= Len(w) /\ t <= Len(v) /\ Len(w) - s = Len(v) - t
  /\ \A j \in 1..p : v[j] = w[j]
  /\ \A j \in 1..(Len(w) - s) : v[t + j] = w[s + j]

LEMMA EditShape ==
  ASSUME NEW w \in Seq(Chars), NEW v \in Edit1(w)
  PROVE  v \in Seq(Chars) /\ \E p, s, t : OneEdit(w, v, p, s, t)
<1>1. Len(w) \in Nat /\ DOMAIN w = 1..Len(w)
  OBVIOUS
<1>2. CASE \E i \in DOMAIN w : v = SubSeq(w, 1, i - 1) \o SubSeq(w, i + 1, Len(w))
  <2>1. PICK i \in 1..Len(w) : v = SubSeq(w, 1, i - 1) \o SubSeq(w, i + 1, Len(w))
    BY <1>1, <1>2, Zenon
  <2>2. PICK p, c : p = i - 1 /\ c = <<>>
    OBVIOUS
  <2>3. p \in 0..Len(w) /\ i \in p..Len(w) /\ c \in Seq(Chars) /\ Len(c) = 0 /\ p + 0 = p
    BY <1>1, <2>1, <2>2
  <2>4. SubSeq(w, 1, p) \in Seq(Chars)
    BY <1>1, <2>3
  <2>5. v = SubSeq(w, 1, p) \o c \o SubSeq(w, i + 1, Len(w))
    BY <2>1, <2>2, <2>4, ConcatEmptySeq
  <2>6. v \in Seq(Chars) /\ Glued(w, c, p, i, v)
    BY ONLY <2>3, <2>5, Glue, w \in Seq(Chars), Zenon
  <2>7. OneEdit(w, v, p, i, p)
    <3>1. /\ Len(v) = p + (Len(w) - i) /\ \A j \in 1..p : v[j] = w[j]
          /\ \A j \in 1..(Len(w) - i) : v[p + j] = w[i + j]
      BY <2>3, <2>6, Zenon DEF Glued
    <3>2. p \in Nat /\ i \in Nat /\ i = p + 1 /\ i <= Len(w)
      BY <1>1, <2>1, <2>2
    <3> QED BY <1>1, <3>1, <3>2 DEF OneEdit
  <2> QED BY <2>6, <2>7
<1>3. CASE \E ix \in (1..Len(w)) \X Chars :
             v = SubSeq(w, 1, ix[1] - 1) \o <<ix[2]>> \o SubSeq(w, ix[1] + 1, Len(w))
  <2>1. PICK i \in 1..Len(w), x \in Chars :
          v = SubSeq(w, 1, i - 1) \o <<x>> \o SubSeq(w, i + 1, Len(w))
    BY <1>3, Zenon
  <2>2. PICK p, c : p = i - 1 /\ c = <<x>>
    BY Zenon
  <2>3. p \in 0..Len(w) /\ i \in p..Len(w) /\ c \in Seq(Chars) /\ Len(c) = 1
    BY <1>1, <2>1, <2>2
  <2>4. v \in Seq(Chars) /\ Glued(w, c, p, i, v)
    <3>1. v = SubSeq(w, 1, p) \o c \o SubSeq(w, i + 1, Len(w))
      BY <2>1, <2>2
    <3> QED BY ONLY <2>3, <3>1, Glue, w \in Seq(Chars), Zenon
  <2>5. OneEdit(w, v, p, i, p + 1)
    <3>1. /\ Len(v) = p + 1 + (Len(w) - i) /\ \A j \in 1..p : v[j] = w[j]
          /\ \A j \in 1..(Len(w) - i) : v[p + 1 + j] = w[i + j]
      BY <2>3, <2>4 DEF Glued
    <3>2. p \in Nat /\ i \in Nat /\ i = p + 1 /\ i <= Len(w)
      BY <1>1, <2>1, <2>2
    <3> QED BY <1>1, <3>1, <3>2 DEF OneEdit
  <2> QED BY <2>4, <2>5
<1>4. CASE \E ix \in (0..Len(w)) \X Chars :
             v = SubSeq(w, 1, ix[1]) \o <<ix[2]>> \o SubSeq(w, ix[1] + 1, Len(w))
  <2>1. PICK p \in 0..Len(w), x \in Chars :
          v = SubSeq(w, 1, p) \o <<x>> \o SubSeq(w, p + 1, Len(w))
    BY <1>4, Zenon
  <2>2. PICK c : c = <<x>>
    BY Zenon
  <2>3. p \in p..Len(w) /\ c \in Seq(Chars) /\ Len(c) = 1
    BY <1>1, <2>1, <2>2
  <2>4. v \in Seq(Chars) /\ Glued(w, c, p, p, v)
    <3>1. v = SubSeq(w, 1, p) \o c \o SubSeq(w, p + 1, Len(w)) /\ p \in 0..Len(w)
      BY <2>1, <2>2
    <3> QED BY ONLY <2>3, <3>1, Glue, w \in Seq(Chars), Zenon
  <2>5. OneEdit(w, v, p, p, p + 1)
    <3>1. /\ Len(v) = p + 1 + (Len(w) - p) /\ \A j \in 1..p : v[j] = w[j]
          /\ \A j \in 1..(Len(w) - p) : v[p + 1 + j] = w[p + j]
      BY <2>3, <2>4, Zenon DEF Glued
    <3>2. p \in Nat /\ p <= Len(w)
      BY <1>1, <2>1
    <3> QED BY <1>1, <3>1, <3>2 DEF OneEdit
  <2> QED BY <2>4, <2>5
<1> QED BY <1>2, <1>3, <1>4, Zenon DEF Edit1


LEMMA EntryReplaced ==
  ASSUME NEW v, NEW up, NEW left, NEW diag, NEW c, Entry(v, up, left, diag, c),
         NEW x, NEW y, NEW d, Entry(x, y, left, diag, d), y <= up + 1
  PROVE  x <= v + 1
BY DEF Entry

\* One edit more is one more in the table, at most.
LEMMA EditMoves ==
  ASSUME NEW a, NEW w, NEW v, Len(a) \in Nat, Len(w) \in Nat, Len(v) \in Nat,
         NEW T, EntryTable(a, w, T), NEW U, EntryTable(a, v, U),
         NEW p, NEW s, NEW t, OneEdit(w, v, p, s, t)
  PROVE  U[Len(a)][Len(v)] <= T[Len(a)][Len(w)] + 1
<1>1. /\ p \in Nat /\ s \in Nat /\ t \in Nat
      /\ \/ s = p /\ t = p + 1
         \/ s = p + 1 /\ t = p
         \/ s = p + 1 /\ t = p + 1
      /\ s <= Len(w) /\ t <= Len(v) /\ Len(w) - s = Len(v) - t
      /\ \A j \in 1..p : v[j] = w[j]
      /\ \A j \in 1..(Len(w) - s) : v[t + j] = w[s + j]
  BY DEF OneEdit
<1>2. p <= Len(w) /\ p <= Len(v) /\ p \in 0..Len(w) /\ p \in 0..Len(v) /\ p \in 0..p
  BY <1>1
<1>3. \A i \in 0..Len(a), j \in 0..p : U[i][j] = T[i][j]
  <2>1. \A j \in 1..p : v[j] = w[j]
    BY <1>1
  <2> QED BY <1>1, <1>2, <2>1, TablesAgree
<1>4. \A i \in 0..Len(a) : U[i][p] = T[i][p] /\ T[i][p] \in Nat
  <2>1. ASSUME NEW i \in 0..Len(a) PROVE U[i][p] = T[i][p] /\ T[i][p] \in Nat
    BY <1>2, <1>3, TableEdge
  <2> QED BY <2>1
<1>5. ASSUME NEW i \in 0..Len(a) PROVE U[i][t] <= T[i][s] + 1
  <2>1. CASE s = p /\ t = p + 1
    <3>1. CASE i = 0
      <4>1. s \in 0..Len(w) /\ t \in 0..Len(v)
        BY <1>1
      <4>2. U[0][t] = t /\ T[0][s] = s
        BY <1>5, <4>1, TableEdge
      <4> QED BY <1>1, <2>1, <3>1, <4>2
    <3>2. CASE i # 0
      <4>1. i \in 1..Len(a) /\ t \in 1..Len(v) /\ t - 1 = p
        BY <1>1, <2>1, <3>2
      <4>2. Entry(U[i][t], U[i - 1][t], U[i][t - 1], U[i - 1][t - 1], Cost(a[i], v[t]))
        BY <4>1, TableAt, Zenon
      <4>3. U[i][t] <= U[i][p] + 1
        BY <4>1, <4>2 DEF Entry
      <4> QED BY <1>4, <2>1, <4>3
    <3> QED BY <3>1, <3>2
  <2>2. CASE s = p + 1 /\ t = p
    <3>1. p < Len(w)
      BY <1>1, <2>2
    <3>2. T[i][p] <= T[i][p + 1] + 1
      BY <1>2, <3>1, TableIsSmooth
    <3> QED BY <1>4, <2>2, <3>2
  <2>3. CASE s = p + 1 /\ t = p + 1
    <3>1. p < Len(w) /\ p < Len(v) /\ p + 1 \in 0..Len(w) /\ p + 1 \in 0..Len(v)
      BY <1>1, <2>3
    <3> DEFINE P == {k \in 0..Len(a) : U[k][p + 1] <= T[k][p + 1] + 1}
    <3>2. 0 \in P
      <4>1. 0 \in 0..Len(a) /\ U[0][p + 1] = p + 1 /\ T[0][p + 1] = p + 1
        BY <3>1, TableEdge
      <4> QED BY <1>1, <4>1
    <3>3. ASSUME NEW k \in 0..Len(a), k < Len(a), k \in P PROVE k + 1 \in P
      <4>1. Entry(T[k + 1][p + 1], T[k][p + 1], T[k + 1][p], T[k][p], Cost(a[k + 1], w[p + 1]))
        BY <1>2, <3>1, <3>3, TableNext, Zenon
      <4>2. Entry(U[k + 1][p + 1], U[k][p + 1], U[k + 1][p], U[k][p], Cost(a[k + 1], v[p + 1]))
        BY <1>2, <3>1, <3>3, TableNext
      <4>3. k + 1 \in 0..Len(a)
        BY <3>3
      <4>4. U[k + 1][p] = T[k + 1][p] /\ U[k][p] = T[k][p]
        BY <1>4, <4>3, Zenon
      <4>5. U[k][p + 1] <= T[k][p + 1] + 1
        BY <3>3
      <4>6. Entry(U[k + 1][p + 1], U[k][p + 1], T[k + 1][p], T[k][p], Cost(a[k + 1], v[p + 1]))
        BY <4>2, <4>4
      <4>7. U[k + 1][p + 1] <= T[k + 1][p + 1] + 1
        BY ONLY <4>1, <4>5, <4>6, EntryReplaced
      <4> QED BY <4>3, <4>7
    <3>4. 0..Len(a) \subseteq P
      <4> HIDE DEF P
      <4> QED BY <3>2, <3>3, Climbing, Zenon
    <3> QED BY <2>3, <3>4
  <2> QED BY <1>1, <2>1, <2>2, <2>3
<1>6. PICK l : l = Len(w) - s
  OBVIOUS
<1>7. l \in Nat /\ s + l = Len(w) /\ t + l = Len(v)
  BY <1>1, <1>6
<1>8. \A j \in 1..l : v[t + j] = w[s + j]
  BY <1>1, <1>6
<1>9. s \in Nat /\ t \in Nat
  BY <1>1
<1> QED BY <1>5, <1>7, <1>8, <1>9, TablesFollow, Zenon

\* The words within k edits of q, as Around has them.
Ball(q, B) ==
  /\ \A k \in 0..MaxEdit : B[k] \subseteq Seq(Chars)
  /\ B[0] = {q}
  /\ \A k \in 0..MaxEdit : k < MaxEdit => B[k + 1] = B[k] \cup (UNION {Edit1(w) : w \in B[k]})
BallFits(q, B) ==
  B = [k \in 0..MaxEdit |-> IF k = 0 THEN {q} ELSE B[k - 1] \cup UNION {Edit1(w) : w \in B[k - 1]}]

LEMMA AroundIsBall ==
  ASSUME NEW q \in Seq(Chars), q \in {s.q : s \in Searches}
  PROVE  Ball(q, Around[q])
<1>1. MaxEdit \in Nat
  BY SearchAssumption
<1>2. PICK X : X = SUBSET Seq(Chars)
  BY Zenon
<1>3. PICK F : F = [k \in 1..MaxEdit |-> [S \in X |-> S \cup UNION {Edit1(w) : w \in S}]]
  BY Zenon
<1>4. ASSUME NEW k \in 1..MaxEdit, NEW S \in X
      PROVE  F[k][S] = S \cup (UNION {Edit1(w) : w \in S}) /\ F[k][S] \in X
  <2>1. F[k][S] = S \cup (UNION {Edit1(w) : w \in S})
    BY <1>3
  <2>2. ASSUME NEW w \in S, NEW v \in Edit1(w) PROVE v \in Seq(Chars)
    <3>1. w \in Seq(Chars)
      BY <1>2
    <3> QED BY <3>1, EditShape
  <2> QED BY <1>2, <2>1, <2>2
<1>5. F \in [1..MaxEdit -> [X -> X]]
  <2>1. ASSUME NEW k \in 1..MaxEdit PROVE F[k] \in [X -> X]
    BY <1>3, <1>4
  <2> QED BY <1>3, <2>1
<1>6. {q} \in X
  BY <1>2
<1>7. PICK G : Recursion(G, MaxEdit, X, {q}, F)
  BY <1>1, <1>5, <1>6, RecursionExists
<1>8. G \in [0..MaxEdit -> X] /\ G[0] = {q} /\ \A k \in 1..MaxEdit : G[k] = F[k][G[k - 1]]
  BY <1>7 DEF Recursion
<1>9. BallFits(q, G)
  <2>1. ASSUME NEW k \in 0..MaxEdit
        PROVE  G[k] = IF k = 0 THEN {q} ELSE G[k - 1] \cup (UNION {Edit1(w) : w \in G[k - 1]})
    <3>1. CASE k = 0
      BY <1>8, <3>1
    <3>2. CASE k # 0
      <4>1. k \in 1..MaxEdit /\ k - 1 \in 0..MaxEdit /\ G[k - 1] \in X
        BY <1>1, <1>8, <3>2
      <4> QED BY <1>4, <1>8, <3>2, <4>1
    <3> QED BY <3>1, <3>2
  <2>2. G = [k \in 0..MaxEdit |-> G[k]]
    BY <1>8
  <2> QED BY <2>1, <2>2, Zenon DEF BallFits
<1>10. PICK B : B = CHOOSE C : BallFits(q, C)
  OBVIOUS
<1>11. Around[q] = B
  BY <1>10, Zenon DEF Around, BallFits
<1>12. BallFits(q, B)
  BY <1>9, <1>10
<1>13. B[0] = {q}
  BY <1>1, <1>12 DEF BallFits
<1>14. ASSUME NEW k \in 0..MaxEdit, k < MaxEdit
       PROVE  B[k + 1] = B[k] \cup (UNION {Edit1(w) : w \in B[k]})
  <2>1. PICK j : j = k + 1
    OBVIOUS
  <2>2. j \in 0..MaxEdit /\ j # 0 /\ j - 1 = k
    BY <1>1, <1>14, <2>1
  <2>3. B[j] = B[j - 1] \cup (UNION {Edit1(w) : w \in B[j - 1]})
    BY <1>12, <2>2 DEF BallFits
  <2> QED BY <2>1, <2>2, <2>3
<1> DEFINE P == {k \in 0..MaxEdit : B[k] \subseteq Seq(Chars)}
<1>15. 0 \in P
  BY <1>1, <1>13
<1>16. ASSUME NEW k \in 0..MaxEdit, k < MaxEdit, k \in P PROVE k + 1 \in P
  <2>1. k + 1 \in 0..MaxEdit
    BY <1>1, <1>16
  <2>2. ASSUME NEW w \in B[k], NEW v \in Edit1(w) PROVE v \in Seq(Chars)
    <3>1. w \in Seq(Chars)
      BY <1>16
    <3> QED BY <3>1, EditShape
  <2>3. B[k + 1] \subseteq Seq(Chars)
    BY <1>14, <1>16, <2>2
  <2> QED BY <2>1, <2>3
<1>17. 0..MaxEdit \subseteq P
  <2> HIDE DEF P
  <2> QED BY <1>1, <1>15, <1>16, Climbing, Zenon
<1>18. \A k \in 0..MaxEdit : B[k] \subseteq Seq(Chars)
  BY <1>17
<1> QED BY <1>11, <1>13, <1>14, <1>18, Zenon DEF Ball


LEMMA SameWord ==
  ASSUME NEW a, Len(a) \in Nat, NEW T, EntryTable(a, a, T)
  PROVE  T[Len(a)][Len(a)] = 0
<1> DEFINE P == {i \in 0..Len(a) : T[i][i] = 0}
<1>1. 0 \in P
  <2>1. 0 \in 0..Len(a) /\ T[0][0] = 0
    BY TableEdge
  <2> QED BY <2>1
<1>2. ASSUME NEW i \in 0..Len(a), i < Len(a), i \in P PROVE i + 1 \in P
  <2>1. Entry(T[i + 1][i + 1], T[i][i + 1], T[i + 1][i], T[i][i], Cost(a[i + 1], a[i + 1]))
    BY <1>2, TableNext
  <2>2. T[i][i] = 0 /\ Cost(a[i + 1], a[i + 1]) = 0
    BY <1>2 DEF Cost
  <2>3. T[i + 1][i + 1] = 0
    BY <2>1, <2>2 DEF Entry
  <2>4. i + 1 \in 0..Len(a)
    BY <1>2
  <2> QED BY <2>3, <2>4
<1>3. 0..Len(a) \subseteq P
  <2> HIDE DEF P
  <2> QED BY <1>1, <1>2, Climbing, Zenon
<1> QED BY <1>3

\* A word that k edits reach has no more than k in the table.
LEMMA ReachedIsNear ==
  ASSUME NEW q \in Seq(Chars), NEW B, Ball(q, B)
  PROVE  \A k \in 0..MaxEdit : \A w \in B[k] : \A T : EntryTable(q, w, T) => T[Len(q)][Len(w)] <= k
<1> DEFINE P == {k \in 0..MaxEdit : \A w \in B[k] : \A T : EntryTable(q, w, T) => T[Len(q)][Len(w)] <= k}
<1>1. MaxEdit \in Nat /\ Len(q) \in Nat
  BY SearchAssumption
<1>2. 0 \in P
  <2>1. B[0] = {q}
    BY DEF Ball
  <2>2. \A T : EntryTable(q, q, T) => T[Len(q)][Len(q)] = 0
    BY <1>1, SameWord
  <2> QED BY <1>1, <2>1, <2>2
<1>3. ASSUME NEW k \in 0..MaxEdit, k < MaxEdit, k \in P PROVE k + 1 \in P
  <2>1. k + 1 \in 0..MaxEdit /\ k \in Nat
    BY <1>1, <1>3
  <2>2. ASSUME NEW v \in B[k + 1], NEW U, EntryTable(q, v, U) PROVE U[Len(q)][Len(v)] <= k + 1
    <3>1. v \in Seq(Chars) /\ Len(v) \in Nat
      <4>1. B[k + 1] \subseteq Seq(Chars)
        BY <2>1 DEF Ball
      <4> QED BY <2>2, <4>1
    <3>2. CASE v \in B[k]
      <4>1. U[Len(q)][Len(v)] <= k
        BY <1>3, <2>2, <3>2
      <4>2. U[Len(q)][Len(v)] \in Nat
        BY <1>1, <2>2, <3>1, TableEdge
      <4> QED BY <2>1, <4>1, <4>2
    <3>3. CASE v \notin B[k]
      <4>1. PICK w \in B[k] : v \in Edit1(w)
        BY <1>3, <2>2, <3>3 DEF Ball
      <4>2. w \in Seq(Chars) /\ Len(w) \in Nat
        <5>1. B[k] \subseteq Seq(Chars)
          BY DEF Ball
        <5> QED BY <4>1, <5>1
      <4>3. PICK T : EntryTable(q, w, T)
        BY <1>1, <4>2, TableExists
      <4>4. T[Len(q)][Len(w)] <= k
        BY <1>3, <4>1, <4>3
      <4>5. PICK p, s, t : OneEdit(w, v, p, s, t)
        BY <4>1, <4>2, EditShape
      <4>6. U[Len(q)][Len(v)] <= T[Len(q)][Len(w)] + 1
        BY <1>1, <2>2, <3>1, <4>2, <4>3, <4>5, EditMoves
      <4>7. U[Len(q)][Len(v)] \in Nat /\ T[Len(q)][Len(w)] \in Nat
        BY <1>1, <2>2, <3>1, <4>2, <4>3, TableEdge
      <4> QED BY <2>1, <4>4, <4>6, <4>7
    <3> QED BY <3>2, <3>3
  <2> QED BY <2>1, <2>2
<1>4. 0..MaxEdit \subseteq P
  <2> HIDE DEF P
  <2> QED BY <1>1, <1>2, <1>3, Climbing
<1> QED BY <1>4

\* The first j characters of w, and q without its first i.
Mix(q, w, i, j) == SubSeq(w, 1, j) \o SubSeq(q, i + 1, Len(q))

IsMix(q, w, i, j, x) ==
  /\ x \in Seq(Chars) /\ Len(x) = j + (Len(q) - i)
  /\ \A k \in 1..j : x[k] = w[k]
  /\ \A k \in 1..(Len(q) - i) : x[j + k] = q[i + k]

LEMMA MixIs ==
  ASSUME NEW q \in Seq(Chars), NEW w \in Seq(Chars), NEW i \in 0..Len(q), NEW j \in 0..Len(w),
         NEW x, x = Mix(q, w, i, j)
  PROVE  IsMix(q, w, i, j, x)
<1>1. PICK y, z, n : y = SubSeq(w, 1, j) /\ z = SubSeq(q, i + 1, Len(q)) /\ n = Len(q) - i
  BY Zenon
<1>2. Len(q) \in Nat /\ Len(w) \in Nat /\ n \in Nat /\ j \in Nat /\ i + n = Len(q)
  BY <1>1
<1>3. y \in Seq(Chars) /\ Len(y) = j /\ \A k \in 1..j : y[k] = w[k]
  BY <1>1, <1>2
<1>4. z \in Seq(Chars) /\ Len(z) = n /\ \A k \in 1..n : z[k] = q[i + k]
  BY <1>1, <1>2
<1>5. x = y \o z
  BY <1>1 DEF Mix
<1>6. /\ x \in Seq(Chars) /\ Len(x) = Len(y) + Len(z)
      /\ \A k \in 1..(Len(y) + Len(z)) : x[k] = IF k <= Len(y) THEN y[k] ELSE z[k - Len(y)]
  BY ONLY <1>3, <1>4, <1>5, ConcatProperties
<1>7. ASSUME NEW k \in 1..j PROVE x[k] = w[k]
  <2>1. k \in 1..(Len(y) + Len(z)) /\ k <= Len(y)
    BY <1>2, <1>3, <1>4
  <2> QED BY <1>3, <1>6, <2>1
<1>8. ASSUME NEW k \in 1..n PROVE x[j + k] = q[i + k]
  <2>1. PICK h : h = j + k
    OBVIOUS
  <2>2. h \in 1..(Len(y) + Len(z)) /\ ~(h <= Len(y)) /\ h - Len(y) = k
    BY <1>2, <1>3, <1>4, <2>1
  <2>3. x[h] = z[k]
    BY <1>6, <2>2
  <2> QED BY <1>4, <2>1, <2>3
<1> QED BY <1>1, <1>3, <1>4, <1>6, <1>7, <1>8, Zenon DEF IsMix

MixCut(q, w, i, j, x, h) ==
  /\ SubSeq(x, 1, j) = SubSeq(w, 1, j)
  /\ SubSeq(x, j + 1 + h, Len(x)) = SubSeq(q, i + 1 + h, Len(q))

LEMMA MixParts ==
  ASSUME NEW q \in Seq(Chars), NEW w \in Seq(Chars), NEW i \in 0..Len(q), NEW j \in 0..Len(w),
         NEW x, x = Mix(q, w, i, j), NEW h \in 0..(Len(q) - i)
  PROVE  MixCut(q, w, i, j, x, h)
<1>1. /\ x \in Seq(Chars) /\ Len(x) = j + (Len(q) - i)
      /\ \A k \in 1..j : x[k] = w[k]
      /\ \A k \in 1..(Len(q) - i) : x[j + k] = q[i + k]
  <2>1. IsMix(q, w, i, j, x)
    BY MixIs
  <2> QED BY ONLY <2>1 DEF IsMix
<1>2. Len(q) \in Nat /\ Len(w) \in Nat /\ i \in Nat /\ j \in Nat /\ h \in Nat
  OBVIOUS
<1>3. SubSeq(x, 1, j) = SubSeq(w, 1, j)
  <2>1. PICK y, z : y = SubSeq(x, 1, j) /\ z = SubSeq(w, 1, j)
    BY Zenon
  <2>2. y \in Seq(Chars) /\ Len(y) = j /\ \A k \in 1..j : y[k] = x[k]
    BY <1>1, <1>2, <2>1
  <2>3. z \in Seq(Chars) /\ Len(z) = j /\ \A k \in 1..j : z[k] = w[k]
    BY <1>1, <1>2, <2>1
  <2>4. y = z
    BY <1>1, <2>2, <2>3, SeqEqual
  <2> QED BY <2>1, <2>4
<1>4. SubSeq(x, j + 1 + h, Len(x)) = SubSeq(q, i + 1 + h, Len(q))
  <2>1. PICK y, z : y = SubSeq(x, j + 1 + h, Len(x)) /\ z = SubSeq(q, i + 1 + h, Len(q))
    BY Zenon
  <2>a. PICK l : l = Len(q) - i - h
    OBVIOUS
  <2>b. l \in Nat
    BY <1>2, <2>a
  <2>2. y \in Seq(Chars) /\ Len(y) = l /\ \A k \in 1..l : y[k] = x[j + h + k]
    BY <1>1, <1>2, <2>1, <2>a, <2>b
  <2>3. z \in Seq(Chars) /\ Len(z) = l /\ \A k \in 1..l : z[k] = q[i + h + k]
    BY <1>2, <2>1, <2>a, <2>b
  <2>4. ASSUME NEW k \in 1..l PROVE y[k] = z[k]
    <3>1. PICK g : g = h + k
      OBVIOUS
    <3>2. g \in 1..(Len(q) - i) /\ j + g = j + h + k /\ i + g = i + h + k
      BY <1>2, <2>a, <2>b, <3>1
    <3> QED BY <1>1, <2>2, <2>3, <3>2, Zenon
  <2>5. y = z
    BY <2>2, <2>3, <2>4, SeqEqual
  <2> QED BY <2>1, <2>5, Zenon
<1> QED BY <1>3, <1>4, Zenon DEF MixCut


\* The three steps of the table as edits of the mixed word, and the fourth as none.
LEMMA MixDeletes ==
  ASSUME NEW q \in Seq(Chars), NEW w \in Seq(Chars), NEW i \in 1..Len(q), NEW j \in 0..Len(w)
  PROVE  Mix(q, w, i, j) \in Edit1(Mix(q, w, i - 1, j))
<1>1. PICK h, x : h = i - 1 /\ x = Mix(q, w, h, j)
  OBVIOUS
<1>2. h \in 0..Len(q) /\ h + 1 = i /\ 1 \in 0..(Len(q) - h) /\ Len(q) \in Nat /\ Len(w) \in Nat
  BY <1>1
<1>3. /\ SubSeq(x, 1, j) = SubSeq(w, 1, j)
      /\ SubSeq(x, j + 1 + 1, Len(x)) = SubSeq(q, h + 1 + 1, Len(q))
  <2>1. MixCut(q, w, h, j, x, 1)
    BY <1>1, <1>2, MixParts
  <2> QED BY ONLY <2>1, Zenon DEF MixCut
<1>4. PICK p : p = j + 1
  OBVIOUS
<1>5. p \in DOMAIN x /\ p - 1 = j
  <2>1. IsMix(q, w, h, j, x)
    BY <1>1, <1>2, MixIs
  <2>2. x \in Seq(Chars) /\ Len(x) = j + (Len(q) - h)
    BY ONLY <2>1 DEF IsMix
  <2>3. DOMAIN x = 1..Len(x)
    BY <2>2
  <2> QED BY <1>1, <1>2, <1>4, <2>2, <2>3
<1>6. Mix(q, w, i, j) = SubSeq(x, 1, p - 1) \o SubSeq(x, p + 1, Len(x))
  BY <1>2, <1>3, <1>4, <1>5, Zenon DEF Mix
<1> QED BY <1>1, <1>5, <1>6, Zenon DEF Edit1

LEMMA MixInserts ==
  ASSUME NEW q \in Seq(Chars), NEW w \in Seq(Chars), NEW i \in 0..Len(q), NEW j \in 1..Len(w)
  PROVE  Mix(q, w, i, j) \in Edit1(Mix(q, w, i, j - 1))
<1>1. PICK p, x : p = j - 1 /\ x = Mix(q, w, i, p)
  OBVIOUS
<1>2. p \in 0..Len(w) /\ p + 1 = j /\ 0 \in 0..(Len(q) - i) /\ Len(q) \in Nat /\ Len(w) \in Nat
  BY <1>1
<1>3. /\ SubSeq(x, 1, p) = SubSeq(w, 1, p)
      /\ SubSeq(x, p + 1 + 0, Len(x)) = SubSeq(q, i + 1 + 0, Len(q))
  <2>1. MixCut(q, w, i, p, x, 0)
    BY <1>1, <1>2, MixParts, Zenon
  <2> QED BY ONLY <2>1, Zenon DEF MixCut
<1>4. p + 1 + 0 = p + 1 /\ i + 1 + 0 = i + 1
  BY <1>2
<1>5. p \in 0..Len(x) /\ w[j] \in Chars
  <2>1. IsMix(q, w, i, p, x)
    BY <1>1, <1>2, MixIs
  <2>2. x \in Seq(Chars) /\ Len(x) = p + (Len(q) - i)
    BY ONLY <2>1 DEF IsMix
  <2> QED BY <1>2, <2>2
<1>6. SubSeq(w, 1, j) = SubSeq(w, 1, p) \o <<w[j]>>
  <2>1. 1 \in 1..Len(w) /\ j \in 1..Len(w) /\ j - 1 = p
    BY <1>1, <1>2
  <2> QED BY <2>1, SubSeqRecursiveSecond, Zenon
<1>7. Mix(q, w, i, j) = SubSeq(x, 1, p) \o <<w[j]>> \o SubSeq(x, p + 1, Len(x))
  BY <1>3, <1>4, <1>6, Zenon DEF Mix
<1>8. <<p, w[j]>> \in (0..Len(x)) \X Chars /\ <<p, w[j]>>[1] = p /\ <<p, w[j]>>[2] = w[j]
  BY <1>5
<1> QED BY <1>1, <1>7, <1>8, Zenon DEF Edit1

LEMMA MixReplaces ==
  ASSUME NEW q \in Seq(Chars), NEW w \in Seq(Chars), NEW i \in 1..Len(q), NEW j \in 1..Len(w)
  PROVE  Mix(q, w, i, j) \in Edit1(Mix(q, w, i - 1, j - 1))
<1>1. PICK p, h, x : p = j - 1 /\ h = i - 1 /\ x = Mix(q, w, h, p)
  OBVIOUS
<1>2. /\ p \in 0..Len(w) /\ p + 1 = j /\ h \in 0..Len(q) /\ h + 1 = i /\ 1 \in 0..(Len(q) - h)
      /\ Len(q) \in Nat /\ Len(w) \in Nat
  BY <1>1
<1>3. /\ SubSeq(x, 1, p) = SubSeq(w, 1, p)
      /\ SubSeq(x, p + 1 + 1, Len(x)) = SubSeq(q, h + 1 + 1, Len(q))
  <2>1. MixCut(q, w, h, p, x, 1)
    BY <1>1, <1>2, MixParts, Zenon
  <2> QED BY ONLY <2>1, Zenon DEF MixCut
<1>5. j \in 1..Len(x) /\ w[j] \in Chars
  <2>1. IsMix(q, w, h, p, x)
    BY <1>1, <1>2, MixIs
  <2>2. x \in Seq(Chars) /\ Len(x) = p + (Len(q) - h)
    BY ONLY <2>1 DEF IsMix
  <2> QED BY <1>1, <1>2, <2>2
<1>6. SubSeq(w, 1, j) = SubSeq(w, 1, p) \o <<w[j]>>
  <2>1. 1 \in 1..Len(w) /\ j \in 1..Len(w) /\ j - 1 = p
    BY <1>1, <1>2
  <2> QED BY <2>1, SubSeqRecursiveSecond, Zenon
<1>7. Mix(q, w, i, j) = SubSeq(x, 1, j - 1) \o <<w[j]>> \o SubSeq(x, j + 1, Len(x))
  BY <1>1, <1>2, <1>3, <1>6, Zenon DEF Mix
<1>8. <<j, w[j]>> \in (1..Len(x)) \X Chars /\ <<j, w[j]>>[1] = j /\ <<j, w[j]>>[2] = w[j]
  BY <1>5
<1> QED BY <1>1, <1>7, <1>8, Zenon DEF Edit1

LEMMA MixJoins ==
  ASSUME NEW u \in Seq(Chars), NEW v \in Seq(Chars), NEW t \in Seq(Chars)
  PROVE  (u \o v) \o t = u \o (v \o t)
BY ConcatAssociative

LEMMA MixKeeps ==
  ASSUME NEW q \in Seq(Chars), NEW w \in Seq(Chars), NEW i \in 1..Len(q), NEW j \in 1..Len(w),
         q[i] = w[j]
  PROVE  Mix(q, w, i, j) = Mix(q, w, i - 1, j - 1)
<1>1. PICK p, h : p = j - 1 /\ h = i - 1
  OBVIOUS
<1>2. /\ p \in 0..Len(w) /\ p + 1 = j /\ h \in 0..Len(q) /\ h + 1 = i
      /\ Len(q) \in Nat /\ Len(w) \in Nat
  BY <1>1
<1>3. SubSeq(w, 1, j) = SubSeq(w, 1, p) \o <<w[j]>>
  <2>1. 1 \in 1..Len(w) /\ j \in 1..Len(w) /\ j - 1 = p
    BY <1>1, <1>2
  <2> QED BY <2>1, SubSeqRecursiveSecond, Zenon
<1>4. SubSeq(q, i, Len(q)) = <<q[i]>> \o SubSeq(q, i + 1, Len(q))
  <2>1. Len(q) \in i..Len(q)
    BY <1>2
  <2> QED BY <2>1, SubSeqRecursiveFirst
<1>5. PICK x, y, z : x = SubSeq(w, 1, p) /\ y = SubSeq(q, i + 1, Len(q)) /\ z = <<q[i]>>
  BY Zenon
<1>6. x \in Seq(Chars) /\ y \in Seq(Chars) /\ z \in Seq(Chars)
  BY <1>2, <1>5
<1>7. (x \o z) \o y = x \o (z \o y)
  <2>1. ASSUME NEW u \in Seq(Chars), NEW v \in Seq(Chars), NEW t \in Seq(Chars)
        PROVE  (u \o v) \o t = u \o (v \o t)
    BY MixJoins, Zenon
  <2> QED BY <1>6, <2>1, Zenon
<1>8. Mix(q, w, i, j) = (x \o z) \o y
  BY <1>3, <1>5, Zenon DEF Mix
<1>9. Mix(q, w, h, p) = x \o (z \o y)
  BY <1>2, <1>4, <1>5, Zenon DEF Mix
<1> QED BY <1>1, <1>7, <1>8, <1>9, Zenon


LEMMA BallGoesOn ==
  ASSUME NEW q, NEW B, Ball(q, B), NEW k \in Nat, NEW h, h = k + 1, h <= MaxEdit,
         NEW x \in B[k], NEW v \in Edit1(x)
  PROVE  v \in B[h]
<1>1. MaxEdit \in Nat /\ k \in 0..MaxEdit /\ k < MaxEdit
  BY SearchAssumption
<1>2. B[k + 1] = B[k] \cup (UNION {Edit1(w) : w \in B[k]})
  BY <1>1 DEF Ball
<1> QED BY <1>2

LEMMA MixReached ==
  ASSUME NEW q \in Seq(Chars), NEW B, Ball(q, B), NEW w \in Seq(Chars), NEW T, EntryTable(q, w, T),
         NEW d, d = T[Len(q)][Len(w)], d <= MaxEdit
  PROVE  w \in B[d]
<1>1. PICK n, m : n = Len(q) /\ m = Len(w)
  OBVIOUS
<1>2. MaxEdit \in Nat /\ n \in Nat /\ m \in Nat
  BY <1>1, SearchAssumption
<1> DEFINE Q == {x \in (0..n) \X (0..m) :
                   T[x[1]][x[2]] <= MaxEdit => Mix(q, w, x[1], x[2]) \in B[T[x[1]][x[2]]]}
<1>3. ASSUME NEW i \in 0..n, NEW j \in 0..m PROVE T[i][j] \in Nat /\ T[0][j] = j /\ T[i][0] = i
  BY <1>1, TableEdge
<1>4. Mix(q, w, 0, 0) \in B[0]
  <2>1. SubSeq(w, 1, 0) = <<>> /\ SubSeq(q, 0 + 1, Len(q)) = q
    BY SubSeqEmpty, SubSeqFull
  <2>2. Mix(q, w, 0, 0) = q
    BY <2>1, ConcatEmptySeq DEF Mix
  <2> QED BY <2>2 DEF Ball
<1>5. \A i \in 0..n : <<i, 0>> \in Q
  <2> DEFINE P == {i \in 0..n : i <= MaxEdit => Mix(q, w, i, 0) \in B[i]}
  <2>1. 0 \in P
    BY <1>2, <1>4
  <2>2. ASSUME NEW i \in 0..n, i < n, i \in P PROVE i + 1 \in P
    <3>1. PICK k : k = i + 1
      OBVIOUS
    <3>2. k \in 0..n /\ k \in 1..Len(q) /\ k - 1 = i /\ 0 \in 0..Len(w) /\ i \in Nat
      BY <1>1, <1>2, <2>2, <3>1
    <3>3. Mix(q, w, k, 0) \in Edit1(Mix(q, w, i, 0))
      BY <3>2, MixDeletes
    <3>4. ASSUME k <= MaxEdit PROVE Mix(q, w, k, 0) \in B[k]
      <4>1. Mix(q, w, i, 0) \in B[i]
        BY <1>2, <2>2, <3>1, <3>2, <3>4
      <4> QED BY <3>1, <3>2, <3>3, <3>4, <4>1, BallGoesOn
    <3> QED BY <3>1, <3>2, <3>4
  <2>3. 0..n \subseteq P
    <3> HIDE DEF P
    <3> QED BY <1>2, <2>1, <2>2, Climbing, Zenon
  <2>4. ASSUME NEW i \in 0..n PROVE <<i, 0>> \in Q
    <3>1. T[i][0] = i /\ 0 \in 0..m
      BY <1>2, <1>3
    <3> QED BY <2>3, <3>1
  <2> QED BY <2>4, Zenon
<1>6. \A j \in 0..m : <<0, j>> \in Q
  <2> DEFINE P == {j \in 0..m : j <= MaxEdit => Mix(q, w, 0, j) \in B[j]}
  <2>1. 0 \in P
    BY <1>2, <1>4
  <2>2. ASSUME NEW j \in 0..m, j < m, j \in P PROVE j + 1 \in P
    <3>1. PICK k : k = j + 1
      OBVIOUS
    <3>2. k \in 0..m /\ k \in 1..Len(w) /\ k - 1 = j /\ 0 \in 0..Len(q) /\ j \in Nat
      BY <1>1, <1>2, <2>2, <3>1
    <3>3. Mix(q, w, 0, k) \in Edit1(Mix(q, w, 0, j))
      BY <3>2, MixInserts
    <3>4. ASSUME k <= MaxEdit PROVE Mix(q, w, 0, k) \in B[k]
      <4>1. Mix(q, w, 0, j) \in B[j]
        BY <1>2, <2>2, <3>1, <3>2, <3>4
      <4> QED BY <3>1, <3>2, <3>3, <3>4, <4>1, BallGoesOn
    <3> QED BY <3>1, <3>2, <3>4
  <2>3. 0..m \subseteq P
    <3> HIDE DEF P
    <3> QED BY <1>2, <2>1, <2>2, Climbing, Zenon
  <2>4. ASSUME NEW j \in 0..m PROVE <<0, j>> \in Q
    <3>1. T[0][j] = j /\ 0 \in 0..n
      BY <1>2, <1>3
    <3> QED BY <2>3, <3>1
  <2> QED BY <2>4, Zenon
<1>7. ASSUME NEW i \in 1..n, NEW j \in 1..m,
             <<i - 1, j>> \in Q, <<i, j - 1>> \in Q, <<i - 1, j - 1>> \in Q
      PROVE  <<i, j>> \in Q
  <2>1. i \in 1..Len(q) /\ j \in 1..Len(w) /\ i \in 0..Len(q) /\ j \in 0..Len(w)
    BY <1>1
  <2>2. PICK v, up, left, diag, c :
          /\ v = T[i][j] /\ up = T[i - 1][j] /\ left = T[i][j - 1] /\ diag = T[i - 1][j - 1]
          /\ c = Cost(q[i], w[j])
    OBVIOUS
  <2>3. Entry(v, up, left, diag, c)
    BY <2>1, <2>2, TableAt
  <2>4. /\ v \in Nat /\ up \in Nat /\ left \in Nat /\ diag \in Nat
        /\ v = up + 1 \/ v = left + 1 \/ v = diag + c
    BY <2>3 DEF Entry
  <2>5. /\ up <= MaxEdit => Mix(q, w, i - 1, j) \in B[up]
        /\ left <= MaxEdit => Mix(q, w, i, j - 1) \in B[left]
        /\ diag <= MaxEdit => Mix(q, w, i - 1, j - 1) \in B[diag]
    BY <1>7, <2>2, Zenon
  <2>6. ASSUME v <= MaxEdit PROVE Mix(q, w, i, j) \in B[v]
    <3>1. CASE v = up + 1
      <4>1. Mix(q, w, i, j) \in Edit1(Mix(q, w, i - 1, j))
        BY <2>1, MixDeletes
      <4>2. Mix(q, w, i - 1, j) \in B[up]
        BY <1>2, <2>4, <2>5, <2>6, <3>1
      <4> QED BY <2>4, <2>6, <3>1, <4>1, <4>2, BallGoesOn, Zenon
    <3>2. CASE v = left + 1
      <4>1. Mix(q, w, i, j) \in Edit1(Mix(q, w, i, j - 1))
        BY <2>1, MixInserts
      <4>2. Mix(q, w, i, j - 1) \in B[left]
        BY <1>2, <2>4, <2>5, <2>6, <3>2
      <4> QED BY <2>4, <2>6, <3>2, <4>1, <4>2, BallGoesOn
    <3>3. CASE v = diag + c /\ q[i] # w[j]
      <4>1. Mix(q, w, i, j) \in Edit1(Mix(q, w, i - 1, j - 1))
        BY <2>1, MixReplaces
      <4>2. c = 1
        BY <2>2, <3>3 DEF Cost
      <4>3. v = diag + 1 /\ Mix(q, w, i - 1, j - 1) \in B[diag]
        BY <1>2, <2>4, <2>5, <2>6, <3>3, <4>2
      <4> QED BY <2>4, <2>6, <4>1, <4>3, BallGoesOn
    <3>4. CASE v = diag + c /\ q[i] = w[j]
      <4>1. Mix(q, w, i, j) = Mix(q, w, i - 1, j - 1)
        BY <2>1, <3>4, MixKeeps
      <4>2. c = 0
        BY <2>2, <3>4 DEF Cost
      <4>3. v = diag
        BY <2>4, <3>4, <4>2
      <4> QED BY <2>5, <2>6, <4>1, <4>3
    <3> QED BY <2>4, <3>1, <3>2, <3>3, <3>4
  <2>7. i \in 0..n /\ j \in 0..m
    OBVIOUS
  <2> QED BY <2>2, <2>6, <2>7
<1>8. \A i \in 0..n, j \in 0..m : <<i, j>> \in Q
  <2> HIDE DEF Q
  <2> QED BY <1>2, <1>5, <1>6, <1>7, Grid, Zenon
<1>9. <<n, m>> \in Q
  BY <1>2, <1>8
<1>10. Mix(q, w, n, m) \in B[d]
  BY <1>1, <1>9
<1>11. Mix(q, w, n, m) = w
  <2>1. SubSeq(w, 1, m) = w /\ SubSeq(q, n + 1, Len(q)) = <<>>
    BY <1>1, <1>2, SubSeqEmpty, SubSeqFull
  <2> QED BY <2>1, ConcatEmptySeq, Zenon DEF Mix
<1> QED BY <1>10, <1>11

\* dp has no distance that is not one, and the least there is.
LEMMA DpFinds ==
  ASSUME NEW q \in Seq(Chars), NEW B, Ball(q, B), NEW u \in Seq(Chars),
         NEW D, D = dp(q, u, MaxEdit)
  PROVE  /\ \A d \in D : d \in 0..MaxEdit /\ u \in B[d]
         /\ \A k \in 0..MaxEdit : u \in B[k] => \E d \in D : d <= k
<1>1. PICK n, m : n = Len(q) /\ m = Len(u)
  BY Zenon
<1>2. MaxEdit \in Nat /\ n \in Nat /\ m \in Nat
  BY <1>1, SearchAssumption
<1>3. PICK T : EntryTable(q, u, T) /\ RowByRow(q, u, T)
  BY <1>1, <1>2, TableExists
<1>4. D = {T[n][m]} \cap 0..MaxEdit
  BY <1>1, <1>2, <1>3, DpIs
<1>5. ASSUME NEW d \in D PROVE d \in 0..MaxEdit /\ u \in B[d]
  <2>1. d = T[n][m] /\ d \in 0..MaxEdit /\ d <= MaxEdit
    BY <1>2, <1>4
  <2> QED BY <1>1, <1>3, <2>1, MixReached
<1>6. ASSUME NEW k \in 0..MaxEdit, u \in B[k] PROVE \E d \in D : d <= k
  <2>1. T[n][m] <= k
    BY <1>1, <1>3, <1>6, ReachedIsNear
  <2>2. T[n][m] \in Nat
    BY <1>1, <1>2, <1>3, TableEdge
  <2>3. T[n][m] \in D
    BY <1>2, <1>4, <2>1, <2>2
  <2> QED BY <2>1, <2>3
<1> QED BY <1>5, <1>6

-----------------------------------------------------------------------------
(* fuzzy: what a row scores, over any table and search.                    *)

DistanceIn(c, t, i) == {k \in 0..MaxEdit : Units(c[i]) \cap Around[t.q][k] # {}}
MatchingIn(c, t) ==
  {<<Lowest(DistanceIn(c, t, i)), i>> : i \in {j \in DOMAIN c : DistanceIn(c, t, j) # {}}}
PrefixIn(c, t, i) == {Len(u) : u \in {v \in Units(c[i]) : IsPrefix(t.q, v)}}
PrefixedIn(c, t) ==
  {<<Lowest(PrefixIn(c, t, i)), i>> : i \in {j \in DOMAIN c : \E u \in Units(c[j]) : IsPrefix(t.q, u)}}

LEMMA UnitsAre ==
  ASSUME NEW name \in Seq(Chars)
  PROVE  name \in Units(name) /\ \A u \in Units(name) : u \in Seq(Chars)
<1>1. ASSUME NEW u \in name_tokens(name) PROVE u \in Seq(Chars)
  <2>1. PICK i \in 1..Len(name), j \in 1..Len(name) : u = SubSeq(name, i, j)
    BY Zenon DEF name_tokens
  <2>2. \A k \in i..j : name[k] \in Chars
    BY <2>1
  <2> QED BY <2>1, <2>2, SubSeqProperties
<1> QED BY <1>1 DEF Units

\* The distances a row is found at, and what they say of it.
NearIn(c, t, i) == UNION {dp(t.q, u, MaxEdit) : u \in Units(c[i])}
RowScored(c, t, i, near, D) ==
  /\ near = {} <=> D = {}
  /\ D # {} => Lowest(near) = Lowest(D) /\ Lowest(D) \in 0..MaxEdit
  /\ t.q \in Units(c[i]) <=> D # {} /\ Lowest(D) = 0

LEMMA RowScores ==
  ASSUME NEW c \in Seq(Seq(Chars)), NEW t \in Searches, NEW i \in DOMAIN c,
         NEW near, near = NearIn(c, t, i), NEW D, D = DistanceIn(c, t, i)
  PROVE  RowScored(c, t, i, near, D)
<1>1. MaxEdit \in Nat /\ t.q \in Seq(Chars) /\ t.q \in {s.q : s \in Searches}
  BY SearchAssumption
<1>2. c[i] \in Seq(Chars)
  OBVIOUS
<1>3. PICK q, B, N : q = t.q /\ B = Around[t.q] /\ N = Units(c[i])
  OBVIOUS
<1>4. q \in Seq(Chars) /\ Ball(q, B) /\ \A u \in N : u \in Seq(Chars)
  BY <1>1, <1>2, <1>3, AroundIsBall, UnitsAre, Zenon
<1>5. ASSUME NEW u \in N
      PROVE  /\ \A d \in dp(q, u, MaxEdit) : d \in 0..MaxEdit /\ u \in B[d]
             /\ \A k \in 0..MaxEdit : u \in B[k] => \E d \in dp(q, u, MaxEdit) : d <= k
  <2>1. PICK E : E = dp(q, u, MaxEdit)
    OBVIOUS
  <2>2. u \in Seq(Chars)
    BY <1>4
  <2>3. /\ \A d \in E : d \in 0..MaxEdit /\ u \in B[d]
        /\ \A k \in 0..MaxEdit : u \in B[k] => \E d \in E : d <= k
    BY <1>4, <2>1, <2>2, DpFinds
  <2> QED BY <2>1, <2>3, Zenon
<1>6. \A d \in near : \E u \in N : d \in dp(q, u, MaxEdit)
  BY <1>3 DEF NearIn
<1>7. \A u \in N : dp(q, u, MaxEdit) \subseteq near
  BY <1>3 DEF NearIn
<1>8. \A k : k \in D <=> k \in 0..MaxEdit /\ \E u \in N : u \in B[k]
  BY <1>3 DEF DistanceIn
<1>9. near \subseteq D
  BY <1>5, <1>6, <1>8
<1>10. \A k \in D : \E d \in near : d <= k
  BY <1>5, <1>7, <1>8, Zenon
<1>11. near = {} <=> D = {}
  BY <1>9, <1>10
<1>12. D \in SUBSET Nat /\ near \in SUBSET Nat
  BY <1>1, <1>8, <1>9
<1>13. ASSUME D # {} PROVE Lowest(near) = Lowest(D) /\ Lowest(D) \in 0..MaxEdit
  <2>1. Lowest(D) \in D /\ \A x \in D : Lowest(D) <= x
    BY <1>12, <1>13, LowestExists, Zenon
  <2>2. Lowest(near) \in near /\ \A x \in near : Lowest(near) <= x
    BY <1>11, <1>12, <1>13, LowestExists, Zenon
  <2>3. PICK d \in near : d <= Lowest(D)
    BY <1>10, <2>1
  <2>4. Lowest(near) <= d /\ Lowest(D) <= Lowest(near)
    BY <1>9, <2>1, <2>2
  <2>5. Lowest(near) \in Nat /\ Lowest(D) \in Nat /\ d \in Nat
    BY <1>12, <2>1, <2>2
  <2> QED BY <1>8, <2>1, <2>3, <2>4, <2>5
<1>14. t.q \in Units(c[i]) <=> 0 \in D
  <2>1. B[0] = {q}
    BY <1>4 DEF Ball
  <2> QED BY <1>1, <1>3, <1>8, <2>1
<1>15. 0 \in D <=> D # {} /\ Lowest(D) = 0
  <2>1. ASSUME 0 \in D PROVE Lowest(D) = 0
    <3>1. Lowest(D) \in D /\ Lowest(D) <= 0
      BY <1>12, <2>1, LowestExists, Zenon
    <3>2. Lowest(D) \in Nat
      BY <1>12, <3>1
    <3> QED BY <3>1, <3>2
  <2>2. ASSUME D # {}, Lowest(D) = 0 PROVE 0 \in D
    BY <1>12, <2>2, LowestExists, Zenon
  <2> QED BY <2>1, <2>2
<1> QED BY <1>11, <1>13, <1>14, <1>15 DEF RowScored

LEMMA PrefixScores ==
  ASSUME NEW c \in Seq(Seq(Chars)), NEW t \in Searches, NEW i \in DOMAIN c,
         NEW name, name = c[i],
         NEW name_ok, name_ok = (t.q = <<>> \/ (FirstByte(name) = Head(t.q) /\ IsPrefix(t.q, name)))
  PROVE  {Len(u) : u \in {v \in name_tokens(name) : IsPrefix(t.q, v)}}
           \cup (IF name_ok THEN {Len(name)} ELSE {}) = PrefixIn(c, t, i)
<1>1. PICK q : q = t.q
  OBVIOUS
<1>2. q \in Seq(Chars) /\ name \in Seq(Chars)
  BY <1>1, SearchAssumption
<1>3. name_ok <=> IsPrefix(q, name)
  <2>1. CASE q = <<>>
    <3>1. Len(q) = 0 /\ SubSeq(q, 1, 0) = <<>> /\ SubSeq(name, 1, 0) = <<>>
      BY <2>1, SubSeqEmpty
    <3>2. Len(name) \in Nat
      BY <1>2
    <3>3. Len(q) <= Len(name) /\ SubSeq(q, 1, Len(q)) = SubSeq(name, 1, Len(q))
      BY <3>1, <3>2
    <3>4. IsPrefix(q, name)
      BY ONLY <3>3 DEF IsPrefix
    <3> QED BY <1>1, <2>1, <3>4, Zenon
  <2>2. CASE q # <<>>
    <3>1. ASSUME IsPrefix(q, name) PROVE FirstByte(name) = Head(q)
      <4>1. Len(q) \in Nat /\ Len(q) > 0 /\ Len(name) \in Nat /\ Len(q) <= Len(name)
        BY <1>2, <2>2, <3>1 DEF IsPrefix
      <4>2. SubSeq(q, 1, Len(q))[1] = q[1] /\ SubSeq(name, 1, Len(q))[1] = name[1]
        BY <1>2, <4>1
      <4>3. q[1] = name[1] /\ name # <<>>
        BY <1>2, <3>1, <4>1, <4>2 DEF IsPrefix
      <4>4. Head(q) = q[1] /\ Head(name) = name[1]
        BY <1>2, <2>2, <4>3
      <4> QED BY <4>3, <4>4 DEF FirstByte
    <3> QED BY <1>1, <2>2, <3>1, Zenon
  <2> QED BY <2>1, <2>2
<1> QED BY <1>1, <1>3 DEF PrefixIn, Units

-----------------------------------------------------------------------------
(* The order of the answers.                                               *)

\* n comes after m, which agrees with it up to k.
ParsAt(m, n, k) ==
  /\ k \in Nat /\ k <= Len(m) /\ k < Len(n) /\ \A h \in 1..k : m[h] = n[h]
  /\ k = Len(m) \/ m[k + 1] < n[k + 1]

LEMMA PrecedesAt ==
  ASSUME NEW m \in Seq(Chars), NEW n \in Seq(Chars)
  PROVE  Precedes(m, n) <=> \E k \in Nat : ParsAt(m, n, k)
<1>1. Len(m) \in Nat /\ Len(n) \in Nat
  OBVIOUS
<1>2. ASSUME NEW k \in Nat, k <= Len(m), k <= Len(n)
      PROVE  SubSeq(m, 1, k) = SubSeq(n, 1, k) <=> \A h \in 1..k : m[h] = n[h]
  <2>1. PICK x, y : x = SubSeq(m, 1, k) /\ y = SubSeq(n, 1, k)
    BY Zenon
  <2>2. x \in Seq(Chars) /\ Len(x) = k /\ \A h \in 1..k : x[h] = m[h]
    BY <1>1, <1>2, <2>1
  <2>3. y \in Seq(Chars) /\ Len(y) = k /\ \A h \in 1..k : y[h] = n[h]
    BY <1>1, <1>2, <2>1
  <2>4. ASSUME \A h \in 1..k : m[h] = n[h] PROVE x = y
    BY <2>2, <2>3, <2>4, SeqEqual
  <2>5. ASSUME x = y, NEW h \in 1..k PROVE m[h] = n[h]
    BY <2>2, <2>3, <2>5
  <2> QED BY <2>1, <2>4, <2>5
<1>3. ASSUME Precedes(m, n) PROVE \E k \in Nat : ParsAt(m, n, k)
  <2>1. PICK k \in 0..Len(m) :
          /\ k <= Len(n) /\ SubSeq(m, 1, k) = SubSeq(n, 1, k)
          /\ k < Len(n) /\ (k = Len(m) \/ m[k + 1] < n[k + 1])
    BY <1>3 DEF Precedes
  <2>2. k \in Nat /\ k <= Len(m)
    BY <1>1
  <2> QED BY <1>2, <2>1, <2>2 DEF ParsAt
<1>4. ASSUME NEW k \in Nat, ParsAt(m, n, k) PROVE Precedes(m, n)
  <2>1. k \in 0..Len(m) /\ k <= Len(n) /\ k < Len(n)
    BY <1>1, <1>4 DEF ParsAt
  <2>2. SubSeq(m, 1, k) = SubSeq(n, 1, k)
    BY <1>2, <1>4, <2>1 DEF ParsAt
  <2> QED BY <1>4, <2>1, <2>2 DEF Precedes, ParsAt
<1> QED BY <1>3, <1>4

LEMMA CharsAreNumbers ==
  ASSUME NEW m \in Seq(Chars), NEW g \in 1..Len(m)
  PROVE  m[g] \in Nat
<1>1. m[g] \in Chars
  OBVIOUS
<1>2. Chars \subseteq Nat
  BY SearchAssumption
<1> QED BY <1>1, <1>2, Zenon

LEMMA PrecedesIrreflexive ==
  ASSUME NEW m \in Seq(Chars)
  PROVE  ~Precedes(m, m)
<1>1. ASSUME NEW k \in Nat, ParsAt(m, m, k) PROVE FALSE
  <2>1. k < Len(m) /\ Len(m) \in Nat /\ k \in Nat /\ (k = Len(m) \/ m[k + 1] < m[k + 1])
    BY <1>1 DEF ParsAt
  <2>2. k + 1 \in 1..Len(m)
    BY <2>1
  <2>3. m[k + 1] \in Nat
    BY <2>2, CharsAreNumbers
  <2> QED BY <2>1, <2>3
<1> QED BY <1>1, PrecedesAt

LEMMA PrecedesTransitive ==
  ASSUME NEW m \in Seq(Chars), NEW n \in Seq(Chars), NEW p \in Seq(Chars),
         Precedes(m, n), Precedes(n, p)
  PROVE  Precedes(m, p)
<1>1. PICK k \in Nat : ParsAt(m, n, k)
  BY PrecedesAt
<1>2. PICK h \in Nat : ParsAt(n, p, h)
  BY PrecedesAt
<1>3. Len(m) \in Nat /\ Len(n) \in Nat /\ Len(p) \in Nat
  OBVIOUS
<1>4. /\ \A g \in 1..Len(m) : m[g] \in Nat
      /\ \A g \in 1..Len(n) : n[g] \in Nat
      /\ \A g \in 1..Len(p) : p[g] \in Nat
  BY CharsAreNumbers
<1>5. /\ k <= Len(m) /\ k < Len(n) /\ \A g \in 1..k : m[g] = n[g]
      /\ k = Len(m) \/ m[k + 1] < n[k + 1]
  BY <1>1 DEF ParsAt
<1>6. /\ h <= Len(n) /\ h < Len(p) /\ \A g \in 1..h : n[g] = p[g]
      /\ h = Len(n) \/ n[h + 1] < p[h + 1]
  BY <1>2 DEF ParsAt
<1>7. CASE k < h
  <2>1. k + 1 \in 1..h /\ n[k + 1] = p[k + 1] /\ k < Len(p)
    BY <1>3, <1>6, <1>7
  <2>2. \A g \in 1..k : m[g] = p[g]
    BY <1>5, <1>6, <1>7
  <2>3. k = Len(m) \/ m[k + 1] < p[k + 1]
    BY <1>5, <2>1
  <2>4. ParsAt(m, p, k)
    BY <1>5, <2>1, <2>2, <2>3 DEF ParsAt
  <2> QED BY <2>4, PrecedesAt
<1>8. CASE k = h
  <2>1. h # Len(n) /\ k < Len(p) /\ h + 1 \in 1..Len(n) /\ h + 1 \in 1..Len(p)
    BY <1>3, <1>5, <1>6, <1>8
  <2>2. \A g \in 1..k : m[g] = p[g]
    BY <1>5, <1>6, <1>8
  <2>3. k = Len(m) \/ m[k + 1] < p[k + 1]
    <3>1. CASE k # Len(m)
      <4>1. k + 1 \in 1..Len(m)
        BY <1>3, <1>5, <3>1
      <4>2. m[k + 1] \in Nat /\ n[k + 1] \in Nat /\ p[k + 1] \in Nat
        BY <1>4, <1>8, <2>1, <4>1
      <4>3. m[k + 1] < n[k + 1] /\ n[k + 1] < p[k + 1]
        BY <1>5, <1>6, <1>8, <2>1, <3>1
      <4> QED BY <4>2, <4>3
    <3> QED BY <3>1
  <2>4. ParsAt(m, p, k)
    BY <1>5, <2>1, <2>2, <2>3 DEF ParsAt
  <2> QED BY <2>4, PrecedesAt
<1>9. CASE h < k
  <2>1. h # Len(n) /\ h <= Len(m) /\ h + 1 \in 1..k /\ m[h + 1] = n[h + 1]
    BY <1>3, <1>5, <1>9
  <2>2. \A g \in 1..h : m[g] = p[g]
    BY <1>5, <1>6, <1>9
  <2>3. m[h + 1] < p[h + 1]
    BY <1>6, <2>1
  <2>4. ParsAt(m, p, h)
    BY <1>6, <2>1, <2>2, <2>3 DEF ParsAt
  <2> QED BY <2>4, PrecedesAt
<1> QED BY <1>7, <1>8, <1>9

LEMMA PrecedesTotal ==
  ASSUME NEW m \in Seq(Chars), NEW n \in Seq(Chars), m # n
  PROVE  Precedes(m, n) \/ Precedes(n, m)
<1>1. Len(m) \in Nat /\ Len(n) \in Nat
  OBVIOUS
<1>2. PICK D : D = {h \in 1..Len(m) : h <= Len(n) /\ m[h] # n[h]}
  BY Zenon
<1>3. CASE D = {}
  <2>1. \A h \in 1..Len(m) : h <= Len(n) => m[h] = n[h]
    BY <1>2, <1>3
  <2>2. CASE Len(m) = Len(n)
    BY <1>1, <2>1, <2>2, SeqEqual
  <2>3. CASE Len(m) < Len(n)
    <3>1. ParsAt(m, n, Len(m))
      BY <1>1, <2>1, <2>3 DEF ParsAt
    <3> QED BY <1>1, <3>1, PrecedesAt
  <2>4. CASE Len(n) < Len(m)
    <3>1. ParsAt(n, m, Len(n))
      BY <1>1, <2>1, <2>4 DEF ParsAt
    <3> QED BY <1>1, <3>1, PrecedesAt
  <2> QED BY <1>1, <2>2, <2>3, <2>4
<1>4. CASE D # {}
  <2>1. PICK l : l = Lowest(D)
    OBVIOUS
  <2>2. D \in SUBSET Nat
    BY <1>2
  <2>3. l \in D /\ \A x \in D : l <= x
    BY <1>4, <2>1, <2>2, LowestExists
  <2>4. PICK k : k = l - 1
    OBVIOUS
  <2>5. l \in 1..Len(m) /\ l \in 1..Len(n) /\ m[l] # n[l] /\ k \in Nat /\ k + 1 = l
    BY <1>1, <1>2, <2>3, <2>4
  <2>6. ASSUME NEW h \in 1..k PROVE m[h] = n[h]
    <3>1. h \in 1..Len(m) /\ h <= Len(n) /\ ~(l <= h)
      BY <1>1, <2>5
    <3> QED BY <1>2, <2>3, <3>1
  <2>7. m[l] \in Nat /\ n[l] \in Nat
    BY <2>5, CharsAreNumbers
  <2>8. k <= Len(m) /\ k <= Len(n) /\ k < Len(m) /\ k < Len(n)
    BY <1>1, <2>5
  <2>9. CASE m[l] < n[l]
    <3>1. ParsAt(m, n, k)
      BY <2>5, <2>6, <2>8, <2>9 DEF ParsAt
    <3> QED BY <2>5, <3>1, PrecedesAt
  <2>10. CASE n[l] < m[l]
    <3>1. ParsAt(n, m, k)
      BY <2>5, <2>6, <2>8, <2>10 DEF ParsAt
    <3> QED BY <2>5, <3>1, PrecedesAt
  <2> QED BY <2>5, <2>7, <2>9, <2>10
<1> QED BY <1>3, <1>4


\* R is a strict total order of S.
Orders(R, S) ==
  /\ \A x, y \in S : x # y => <<x, y>> \in R \/ <<y, x>> \in R
  /\ \A x \in S : <<x, x>> \notin R
  /\ \A x, y, z \in S : <<x, y>> \in R /\ <<y, z>> \in R => <<x, z>> \in R
First(R, T, m) == m \in T /\ \A x \in T : x # m => <<m, x>> \in R
Lists(s, T, R) ==
  s \in [1..Cardinality(T) -> T] /\ \A i, j \in 1..Cardinality(T) : i < j => <<s[i], s[j]>> \in R

LEMMA FirstExists ==
  ASSUME NEW R, NEW S, Orders(R, S), NEW T \in SUBSET S, IsFiniteSet(T), T # {}
  PROVE  \E m : First(R, T, m)
<1>1. PICK d : d = Cardinality(T)
  OBVIOUS
<1> DEFINE P == {n \in 0..d : \A U \in SUBSET S :
                   IsFiniteSet(U) /\ Cardinality(U) = n /\ U # {} => \E m : First(R, U, m)}
<1>2. d \in Nat
  BY <1>1, FS_CardinalityType
<1>3. 0 \in P
  <2>1. \A U \in SUBSET S : IsFiniteSet(U) /\ Cardinality(U) = 0 => U = {}
    BY FS_EmptySet
  <2> QED BY <1>2, <2>1
<1>4. ASSUME NEW n \in 0..d, n < d, n \in P PROVE n + 1 \in P
  <2>1. ASSUME NEW U \in SUBSET S, IsFiniteSet(U), Cardinality(U) = n + 1, U # {}
        PROVE  \E m : First(R, U, m)
    <3>1. PICK x \in U : TRUE
      BY <2>1
    <3>2. PICK V : V = U \ {x}
      BY Zenon
    <3>3. V \in SUBSET S /\ IsFiniteSet(V) /\ Cardinality(V) = n
      <4>1. IsFiniteSet(V) /\ Cardinality(V) = (n + 1) - 1
        BY <2>1, <3>1, <3>2, FS_RemoveElement, Zenon
      <4> QED BY <1>2, <3>2, <4>1
    <3>4. CASE V = {}
      <4>1. First(R, U, x)
        BY <3>1, <3>2, <3>4 DEF First
      <4> QED BY <4>1
    <3>5. CASE V # {}
      <4>1. PICK m : First(R, V, m)
        BY <1>4, <3>3, <3>5
      <4>2. m \in V /\ m \in S /\ x \in S /\ x # m /\ \A y \in V : y # m => <<m, y>> \in R
        BY <3>1, <3>2, <3>3, <4>1 DEF First
      <4>3. CASE <<m, x>> \in R
        <5>1. First(R, U, m)
          BY <3>2, <4>2, <4>3 DEF First
        <5> QED BY <5>1
      <4>4. CASE <<x, m>> \in R
        <5>1. ASSUME NEW y \in U, y # x PROVE <<x, y>> \in R
          <6>1. CASE y = m
            BY <4>4, <6>1
          <6>2. CASE y # m
            <7>1. y \in V /\ y \in S /\ <<m, y>> \in R
              BY <2>1, <3>2, <4>2, <5>1, <6>2
            <7> QED BY <4>2, <4>4, <7>1 DEF Orders
          <6> QED BY <6>1, <6>2
        <5>2. First(R, U, x)
          BY <3>1, <5>1 DEF First
        <5> QED BY <5>2
      <4>5. <<m, x>> \in R \/ <<x, m>> \in R
        BY <4>2 DEF Orders
      <4> QED BY <4>3, <4>4, <4>5
    <3> QED BY <3>4, <3>5
  <2>2. n + 1 \in 0..d
    BY <1>2, <1>4
  <2> QED BY <2>1, <2>2
<1>5. 0..d \subseteq P
  <2> HIDE DEF P
  <2> QED BY <1>2, <1>3, <1>4, Climbing
<1>6. d \in P
  BY <1>2, <1>5
<1> QED BY <1>1, <1>6

LEMMA ListExists ==
  ASSUME NEW R, NEW S, Orders(R, S), IsFiniteSet(S)
  PROVE  \E s : Lists(s, S, R)
<1>1. PICK d : d = Cardinality(S)
  OBVIOUS
<1> DEFINE P == {n \in 0..d : \A T \in SUBSET S :
                   IsFiniteSet(T) /\ Cardinality(T) = n => \E s : Lists(s, T, R)}
<1>2. d \in Nat
  BY <1>1, FS_CardinalityType
<1>3. 0 \in P
  <2>1. ASSUME NEW T \in SUBSET S, IsFiniteSet(T), Cardinality(T) = 0
        PROVE  Lists(<<>>, T, R)
    <3>1. <<>> \in [1..0 -> T] /\ 1..0 = {}
      OBVIOUS
    <3> QED BY <2>1, <3>1 DEF Lists
  <2> QED BY <1>2, <2>1
<1>4. ASSUME NEW n \in 0..d, n < d, n \in P PROVE n + 1 \in P
  <2>1. ASSUME NEW T \in SUBSET S, IsFiniteSet(T), Cardinality(T) = n + 1
        PROVE  \E s : Lists(s, T, R)
    <3>1. T # {}
      BY <1>2, <2>1, FS_EmptySet
    <3>2. PICK m : First(R, T, m)
      BY <2>1, <3>1, FirstExists
    <3>3. m \in T /\ \A x \in T : x # m => <<m, x>> \in R
      BY <3>2 DEF First
    <3>4. PICK U : U = T \ {m}
      BY Zenon
    <3>5. IsFiniteSet(U) /\ Cardinality(U) = n /\ U \in SUBSET S
      <4>1. IsFiniteSet(U) /\ Cardinality(U) = (n + 1) - 1
        BY <2>1, <3>3, <3>4, FS_RemoveElement, Zenon
      <4> QED BY <1>2, <3>4, <4>1
    <3>6. PICK t : Lists(t, U, R)
      BY <1>4, <3>5
    <3>7. t \in [1..n -> U] /\ \A i, j \in 1..n : i < j => <<t[i], t[j]>> \in R
      BY <3>5, <3>6 DEF Lists
    <3>8. \A x \in U : x \in T /\ <<m, x>> \in R
      BY <3>3, <3>4
    <3>9. PICK s : s = [i \in 1..(n + 1) |-> IF i = 1 THEN m ELSE t[i - 1]]
      BY Zenon
    <3>10. ASSUME NEW i \in 1..(n + 1), i # 1
           PROVE  i - 1 \in 1..n /\ s[i] = t[i - 1] /\ s[i] \in U
      BY <3>7, <3>9, <3>10
    <3>11. s \in [1..(n + 1) -> T] /\ s[1] = m
      <4>1. 1 \in 1..(n + 1)
        BY <1>2
      <4>2. s[1] = m
        BY <3>9, <4>1
      <4>3. ASSUME NEW i \in 1..(n + 1) PROVE s[i] \in T
        BY <3>3, <3>8, <3>10, <4>2, Zenon
      <4>4. s = [i \in 1..(n + 1) |-> s[i]]
        BY <3>9
      <4> QED BY ONLY <4>2, <4>3, <4>4
    <3>12. ASSUME NEW i \in 1..(n + 1), NEW j \in 1..(n + 1), i < j PROVE <<s[i], s[j]>> \in R
      <4>1. j # 1
        BY <3>12
      <4>2. CASE i = 1
        BY <3>8, <3>10, <3>11, <4>1, <4>2
      <4>3. CASE i # 1
        <5>1. i - 1 < j - 1
          BY <3>12
        <5> QED BY <3>7, <3>10, <4>1, <4>3, <5>1
      <4> QED BY <4>2, <4>3
    <3>13. Lists(s, T, R)
      BY <2>1, <3>11, <3>12 DEF Lists
    <3> QED BY <3>13
  <2>2. n + 1 \in 0..d
    BY <1>2, <1>4
  <2> QED BY <2>1, <2>2
<1>5. 0..d \subseteq P
  <2> HIDE DEF P
  <2> QED BY <1>2, <1>3, <1>4, Climbing
<1>6. d \in P
  BY <1>2, <1>5
<1> QED BY <1>1, <1>6

CloserIn(c, x, y) ==
  \/ x[1] < y[1]
  \/ x[1] = y[1] /\ Precedes(c[x[2]], c[y[2]])
  \/ x[1] = y[1] /\ c[x[2]] = c[y[2]] /\ x[2] < y[2]
RankedIn(c, S) == CHOOSE s \in [1..Cardinality(S) -> S] :
                    \A i, j \in DOMAIN s : i < j => CloserIn(c, s[i], s[j])
Scores(c, S) == IsFiniteSet(S) /\ S \subseteq Nat \X DOMAIN c

LEMMA ClosenessOrders ==
  ASSUME NEW c \in Seq(Seq(Chars)), NEW S, Scores(c, S),
         NEW R, R = {p \in S \X S : CloserIn(c, p[1], p[2])}
  PROVE  Orders(R, S)
<1>1. \A x \in S : x = <<x[1], x[2]>> /\ x[1] \in Nat /\ x[2] \in Nat /\ c[x[2]] \in Seq(Chars)
  <2>1. \A i \in DOMAIN c : i \in Nat /\ c[i] \in Seq(Chars)
    OBVIOUS
  <2> QED BY <2>1 DEF Scores
<1>2. \A x, y \in S : <<x, y>> \in R <=> CloserIn(c, x, y)
  OBVIOUS
<1>3. ASSUME NEW x \in S, NEW y \in S, x # y PROVE CloserIn(c, x, y) \/ CloserIn(c, y, x)
  <2>1. x[1] # y[1] \/ x[2] # y[2]
    BY <1>1, <1>3
  <2>2. x[1] \in Nat /\ x[2] \in Nat /\ y[1] \in Nat /\ y[2] \in Nat
    BY <1>1
  <2>3. c[x[2]] # c[y[2]] => Precedes(c[x[2]], c[y[2]]) \/ Precedes(c[y[2]], c[x[2]])
    BY <1>1, PrecedesTotal
  <2> QED BY <2>1, <2>2, <2>3 DEF CloserIn
<1>4. ASSUME NEW x \in S PROVE ~CloserIn(c, x, x)
  <2>1. x[1] \in Nat /\ x[2] \in Nat /\ ~Precedes(c[x[2]], c[x[2]])
    BY <1>1, PrecedesIrreflexive
  <2> QED BY <2>1 DEF CloserIn
<1>5. ASSUME NEW x \in S, NEW y \in S, NEW z \in S, CloserIn(c, x, y), CloserIn(c, y, z)
      PROVE  CloserIn(c, x, z)
  <2>1. /\ x[1] \in Nat /\ x[2] \in Nat /\ y[1] \in Nat /\ y[2] \in Nat /\ z[1] \in Nat /\ z[2] \in Nat
    BY <1>1
  <2>2. Precedes(c[x[2]], c[y[2]]) /\ Precedes(c[y[2]], c[z[2]]) => Precedes(c[x[2]], c[z[2]])
    BY <1>1, PrecedesTransitive, Zenon
  <2> QED BY <1>5, <2>1, <2>2 DEF CloserIn
<1> QED BY <1>2, <1>3, <1>4, <1>5 DEF Orders

\* s lists S, each once and the closest first.
Ranking(c, S, s) ==
  /\ Cardinality(S) \in Nat /\ s \in [1..Cardinality(S) -> S]
  /\ \A i, j \in 1..Cardinality(S) : i < j => CloserIn(c, s[i], s[j])
  /\ \A i, j \in 1..Cardinality(S) : i # j => s[i] # s[j]
  /\ \A x \in S : \E i \in 1..Cardinality(S) : s[i] = x

LEMMA RankedIs ==
  ASSUME NEW c \in Seq(Seq(Chars)), NEW S, Scores(c, S), NEW s, s = RankedIn(c, S)
  PROVE  Ranking(c, S, s)
<1>1. PICK R : R = {p \in S \X S : CloserIn(c, p[1], p[2])}
  BY Zenon
<1>2. Orders(R, S)
  BY <1>1, ClosenessOrders
<1>3. PICK n : n = Cardinality(S)
  OBVIOUS
<1>4. n \in Nat /\ IsFiniteSet(S)
  BY <1>3, FS_CardinalityType DEF Scores
<1>5. PICK r : Lists(r, S, R)
  BY <1>2, <1>4, ListExists
<1>6. r \in [1..n -> S] /\ \A i, j \in DOMAIN r : i < j => CloserIn(c, r[i], r[j])
  <2>1. r \in [1..n -> S] /\ \A i, j \in 1..n : i < j => <<r[i], r[j]>> \in R
    BY <1>3, <1>5 DEF Lists
  <2> QED BY <1>1, <2>1, Zenon
<1>7. s \in [1..n -> S] /\ \A i, j \in 1..n : i < j => CloserIn(c, s[i], s[j])
  <2>1. s \in [1..n -> S] /\ \A i, j \in DOMAIN s : i < j => CloserIn(c, s[i], s[j])
    BY <1>3, <1>6, Zenon DEF RankedIn
  <2> QED BY <2>1
<1>8. ASSUME NEW i \in 1..n, NEW j \in 1..n, i # j PROVE s[i] # s[j]
  <2>1. s[i] \in S /\ s[j] \in S /\ (i < j \/ j < i)
    BY <1>4, <1>7, <1>8
  <2>2. ~CloserIn(c, s[i], s[i]) /\ ~CloserIn(c, s[j], s[j])
    BY <1>1, <1>2, <2>1, Zenon DEF Orders
  <2>3. CloserIn(c, s[i], s[j]) \/ CloserIn(c, s[j], s[i])
    BY <1>7, <2>1
  <2> QED BY <2>2, <2>3
<1>9. s \in Injection(1..n, S)
  BY <1>7, <1>8 DEF Injection, IsInjective
<1>10. IsFiniteSet(1..n) /\ Cardinality(1..n) = n
  BY <1>4, FS_Interval
<1>11. s \in Surjection(1..n, S)
  BY <1>3, <1>4, <1>9, <1>10, FS_Injection
<1>12. \A x \in S : \E i \in 1..n : s[i] = x
  BY <1>11 DEF Surjection
<1> QED BY <1>3, <1>4, <1>7, <1>8, <1>12 DEF Ranking

-----------------------------------------------------------------------------
(* What is cut off the ranking.                                            *)

LEMMA MatchingScores ==
  ASSUME NEW c \in Seq(Seq(Chars)), NEW t \in Searches
  PROVE  Scores(c, MatchingIn(c, t))
<1>1. PICK M, f, J : /\ M = MatchingIn(c, t) /\ J = {j \in DOMAIN c : DistanceIn(c, t, j) # {}}
                     /\ f = [i \in J |-> <<Lowest(DistanceIn(c, t, i)), i>>]
  BY Zenon
<1>2. f \in Surjection(J, M)
  BY <1>1, Zenon DEF Surjection, MatchingIn
<1>3. IsFiniteSet(J)
  <2>1. Len(c) \in Nat /\ DOMAIN c = 1..Len(c) /\ J \in SUBSET (DOMAIN c)
    BY <1>1
  <2>2. IsFiniteSet(1..Len(c))
    BY <2>1, FS_Interval
  <2> QED BY <2>1, <2>2, FS_Subset
<1>4. IsFiniteSet(M)
  BY <1>2, <1>3, FS_Surjection
<1>5. ASSUME NEW x \in M PROVE x \in Nat \X DOMAIN c
  <2>1. PICK i \in DOMAIN c : DistanceIn(c, t, i) # {} /\ x = <<Lowest(DistanceIn(c, t, i)), i>>
    BY <1>1 DEF MatchingIn
  <2>2. DistanceIn(c, t, i) \in SUBSET Nat
    BY SearchAssumption DEF DistanceIn
  <2>3. Lowest(DistanceIn(c, t, i)) \in Nat
    BY <2>1, <2>2, LowestExists, Zenon
  <2> QED BY <2>1, <2>3
<1> QED BY <1>1, <1>4, <1>5 DEF Scores

LEMMA PrefixedScores ==
  ASSUME NEW c \in Seq(Seq(Chars)), NEW t \in Searches
  PROVE  Scores(c, PrefixedIn(c, t))
<1>1. PICK M, f, J : /\ M = PrefixedIn(c, t)
                     /\ J = {j \in DOMAIN c : \E u \in Units(c[j]) : IsPrefix(t.q, u)}
                     /\ f = [i \in J |-> <<Lowest(PrefixIn(c, t, i)), i>>]
  BY Zenon
<1>2. f \in Surjection(J, M)
  BY <1>1, Zenon DEF Surjection, PrefixedIn
<1>3. IsFiniteSet(J)
  <2>1. Len(c) \in Nat /\ DOMAIN c = 1..Len(c) /\ J \in SUBSET (DOMAIN c)
    BY <1>1
  <2>2. IsFiniteSet(1..Len(c))
    BY <2>1, FS_Interval
  <2> QED BY <2>1, <2>2, FS_Subset
<1>4. IsFiniteSet(M)
  BY <1>2, <1>3, FS_Surjection
<1>5. ASSUME NEW x \in M PROVE x \in Nat \X DOMAIN c
  <2>1. PICK i \in DOMAIN c : (\E u \in Units(c[i]) : IsPrefix(t.q, u)) /\ x = <<Lowest(PrefixIn(c, t, i)), i>>
    BY <1>1 DEF PrefixedIn
  <2>2. c[i] \in Seq(Chars)
    OBVIOUS
  <2>3. \A u \in Units(c[i]) : Len(u) \in Nat
    BY <2>2, UnitsAre
  <2>4. PrefixIn(c, t, i) \in SUBSET Nat /\ PrefixIn(c, t, i) # {}
    BY <2>1, <2>3, Zenon DEF PrefixIn
  <2>5. Lowest(PrefixIn(c, t, i)) \in Nat
    BY <2>4, LowestExists, Zenon
  <2> QED BY <2>1, <2>5
<1> QED BY <1>1, <1>4, <1>5 DEF Scores

\* The set T holds what the list s of n different values has up to m.
Covers(s, n, m, T) ==
  /\ n \in Nat /\ m \in 0..n /\ DOMAIN s = 1..n
  /\ \A i, j \in 1..n : i # j => s[i] # s[j]
  /\ \A x : x \in T <=> \E i \in 1..m : s[i] = x

LEMMA SegmentCounts ==
  ASSUME NEW s, NEW n, NEW m, NEW T, Covers(s, n, m, T)
  PROVE  IsFiniteSet(T) /\ Cardinality(T) = m
<1> n \in Nat /\ m \in 0..n /\ DOMAIN s = 1..n
  BY DEF Covers
<1> (\A i, j \in 1..n : i # j => s[i] # s[j]) /\ (\A x : x \in T <=> \E i \in 1..m : s[i] = x)
  BY DEF Covers
<1>1. PICK f : f = [i \in 1..m |-> s[i]]
  BY Zenon
<1>2. \A i \in 1..m : i \in 1..n
  OBVIOUS
<1>3. f \in [1..m -> T]
  BY <1>1
<1>4. f \in Surjection(1..m, T)
  BY <1>1, <1>3 DEF Surjection
<1>5. f \in Injection(1..m, T)
  BY <1>1, <1>2, <1>3 DEF Injection, IsInjective
<1>6. IsFiniteSet(1..m) /\ Cardinality(1..m) = m
  BY FS_Interval
<1> QED BY <1>4, <1>5, <1>6, FS_Surjection

LEMMA InitialSegment ==
  ASSUME NEW n \in Nat, NEW J \in SUBSET (1..n), \A i \in 1..n, j \in J : i < j => i \in J
  PROVE  \E k \in 0..n : J = 1..k
<1>1. PICK G : G = (1..(n + 1)) \ J
  BY Zenon
<1>2. G \in SUBSET Nat /\ n + 1 \in G
  BY <1>1
<1>3. PICK m : m = Lowest(G)
  OBVIOUS
<1>4. m \in G /\ \A x \in G : m <= x
  BY <1>2, <1>3, LowestExists
<1>5. m \in 1..(n + 1) /\ m \notin J
  BY <1>1, <1>4
<1>6. PICK k : k = m - 1
  OBVIOUS
<1>7. k \in 0..n
  BY <1>5, <1>6
<1>8. ASSUME NEW i \in 1..k PROVE i \in J
  <2>1. i \in 1..(n + 1) /\ ~(m <= i)
    BY <1>5, <1>6
  <2> QED BY <1>1, <1>4, <2>1
<1>9. ASSUME NEW j \in J PROVE j \in 1..k
  <2>1. j # m /\ j \in 1..n
    BY <1>5
  <2>2. ~(m < j)
    <3>1. ASSUME m < j PROVE m \in 1..n
      BY <1>5, <2>1, <3>1
    <3> QED BY <1>5, <3>1
  <2> QED BY <1>5, <1>6, <2>1, <2>2
<1> QED BY <1>7, <1>8, <1>9, Zenon

\* r is the ranking s of S, cut after its first rows.
Cut(r, s, S, limit) ==
  /\ Len(r) = AtMost(limit, Cardinality(S)) /\ Len(r) \in Nat /\ DOMAIN r = 1..Len(r)
  /\ \A i \in 1..Len(r) : r[i] = s[i] /\ i \in 1..Cardinality(S)

LEMMA TruncatedIs ==
  ASSUME NEW S, NEW n \in Nat, n = Cardinality(S), NEW s \in [1..n -> S],
         NEW limit \in Nat, NEW r, r = Truncated(s, limit)
  PROVE  Cut(r, s, S, limit)
<1>1. s \in Seq(S) /\ Len(s) = n
  OBVIOUS
<1>2. PICK a : a = AtMost(limit, n)
  OBVIOUS
<1>3. a \in Nat /\ a <= n
  BY <1>2 DEF AtMost
<1>4. r = SubSeq(s, 1, a)
  BY <1>1, <1>2 DEF Truncated, AtMost
<1>5. Len(r) = a /\ DOMAIN r = 1..a /\ \A i \in 1..a : r[i] = s[i]
  BY <1>1, <1>3, <1>4
<1> QED BY <1>2, <1>3, <1>5 DEF Cut

\* The exact rows come first.
LEMMA ExactFirst ==
  ASSUME NEW c \in Seq(Seq(Chars)), NEW S, Scores(c, S), NEW s, Ranking(c, S, s),
         NEW limit \in Nat, NEW r, Cut(r, s, S, limit), NEW got, got = ToSet(r)
  PROVE  /\ got \in SUBSET S
         /\ \A i, j \in DOMAIN r : i < j => CloserIn(c, r[i], r[j])
         /\ Cardinality(Exact(got)) = AtMost(limit, Cardinality(Exact(S)))
<1>1. PICK n : n = Cardinality(S)
  OBVIOUS
<1>2. /\ n \in Nat /\ s \in [1..n -> S]
      /\ \A i, j \in 1..n : i < j => CloserIn(c, s[i], s[j])
      /\ \A i, j \in 1..n : i # j => s[i] # s[j]
      /\ \A x \in S : \E i \in 1..n : s[i] = x
  BY <1>1 DEF Ranking
<1>3. PICK a : a = AtMost(limit, n)
  OBVIOUS
<1>4. a \in 0..n
  BY <1>2, <1>3 DEF AtMost
<1>5. DOMAIN r = 1..a /\ \A i \in 1..a : r[i] = s[i]
  BY <1>1, <1>3 DEF Cut
<1>6. \A x : x \in got <=> \E i \in 1..a : s[i] = x
  BY <1>5, Zenon DEF ToSet
<1>7. PICK J : J = {i \in 1..n : s[i][1] = 0}
  BY Zenon
<1>8. ASSUME NEW i \in 1..n, NEW j \in J, i < j PROVE i \in J
  <2>1. s[i] \in S /\ s[j] \in S /\ CloserIn(c, s[i], s[j]) /\ s[j][1] = 0
    BY <1>2, <1>7, <1>8
  <2>2. s[i][1] \in Nat
    BY <2>1 DEF Scores
  <2>3. s[i][1] = 0
    BY <2>1, <2>2 DEF CloserIn
  <2> QED BY <1>7, <2>3
<1>9. J \in SUBSET (1..n)
  BY <1>7
<1>10. PICK k \in 0..n : J = 1..k
  BY <1>2, <1>8, <1>9, InitialSegment, Zenon
<1>11. PICK E, F : E = Exact(S) /\ F = Exact(got)
  OBVIOUS
<1>12. \A i \in 1..n : s[i][1] = 0 <=> i \in 1..k
  BY <1>7, <1>10, Zenon
<1>13. \A x : x \in E <=> \E i \in 1..k : s[i] = x
  <2>1. ASSUME NEW x \in E PROVE \E i \in 1..k : s[i] = x
    <3>1. x \in S /\ x[1] = 0
      BY <1>11 DEF Exact
    <3> QED BY <1>2, <1>12, <3>1
  <2>2. ASSUME NEW i \in 1..k PROVE s[i] \in E
    <3>1. i \in 1..n
      BY <1>2, <1>10
    <3> QED BY <1>2, <1>11, <1>12, <3>1 DEF Exact
  <2> QED BY <2>1, <2>2
<1>14. Cardinality(E) = k
  <2>1. Covers(s, n, k, E)
    BY <1>2, <1>10, <1>13 DEF Covers
  <2> QED BY <2>1, SegmentCounts
<1>15. PICK b : b = AtMost(limit, k)
  OBVIOUS
<1>16. b \in 0..n /\ \A i \in Nat : i \in 1..b <=> i \in 1..a /\ i \in 1..k
  BY <1>2, <1>3, <1>15 DEF AtMost
<1>17. \A x : x \in F <=> \E i \in 1..b : s[i] = x
  <2>1. ASSUME NEW x \in F PROVE \E i \in 1..b : s[i] = x
    <3>1. x \in got /\ x[1] = 0
      BY <1>11 DEF Exact
    <3>2. PICK i \in 1..a : s[i] = x
      BY <1>6, <3>1
    <3>3. i \in Nat /\ i \in 1..n
      BY <1>2, <1>4
    <3> QED BY <1>12, <1>16, <3>1, <3>2, <3>3
  <2>2. ASSUME NEW i \in 1..b PROVE s[i] \in F
    <3>1. i \in Nat
      BY <1>2, <1>16
    <3>2. i \in 1..a /\ i \in 1..k
      BY <1>16, <3>1
    <3>3. i \in 1..n
      BY <1>2, <1>4, <3>2
    <3> QED BY <1>6, <1>11, <1>12, <3>2, <3>3 DEF Exact
  <2> QED BY <2>1, <2>2
<1>18. Cardinality(F) = b
  <2>1. Covers(s, n, b, F)
    BY <1>2, <1>16, <1>17 DEF Covers
  <2> QED BY <2>1, SegmentCounts
<1>19. got \in SUBSET S
  BY <1>2, <1>4, <1>6
<1>20. ASSUME NEW i \in DOMAIN r, NEW j \in DOMAIN r, i < j PROVE CloserIn(c, r[i], r[j])
  BY <1>2, <1>4, <1>5, <1>20
<1> QED BY <1>11, <1>14, <1>15, <1>18, <1>19, <1>20

-----------------------------------------------------------------------------
(* The answer.                                                             *)

CapOf(t) == IF t.limit * ScanFactor >= ScanFloor THEN t.limit * ScanFactor ELSE ScanFloor
FuzzyAnswer(c, t, rows, got, M) ==
  /\ got \subseteq M
  /\ Len(rows) = AtMost(t.limit, Cardinality(M))
  /\ Cardinality(Exact(got)) = AtMost(t.limit, Cardinality(Exact(M)))
  /\ (Cardinality(M) < CapOf(t) /\ Cardinality(Exact(M)) < t.limit) =>
       rows = Truncated(RankedIn(c, M), t.limit)
AnswerOf(c, t, rows) ==
  /\ \A i, j \in DOMAIN rows : i < j => CloserIn(c, rows[i], rows[j])
  /\ t.job = "fuzzy" => FuzzyAnswer(c, t, rows, ToSet(rows), MatchingIn(c, t))
  /\ t.job = "prefix" => rows = Truncated(RankedIn(c, PrefixedIn(c, t)), t.limit)

LEMMA CapIs ==
  ASSUME NEW t \in Searches
  PROVE  t.limit \in Nat /\ CapOf(t) \in Nat /\ t.limit <= CapOf(t)
<1>1. PICK l, f : l = t.limit /\ f = ScanFactor
  OBVIOUS
<1>2. l \in Nat /\ f \in Nat /\ f >= 1 /\ ScanFloor \in Nat
  BY <1>1, SearchAssumption
<1>3. l * f \in Nat /\ l <= l * f
  <2>1. PICK g \in Nat : f = g + 1
    <3>1. f = (f - 1) + 1 /\ f - 1 \in Nat
      BY <1>2
    <3> QED BY <3>1
  <2>2. l * g \in Nat /\ l * f = l * g + l
    BY <1>2, <2>1
  <2> QED BY <1>2, <2>2
<1> QED BY <1>1, <1>2, <1>3 DEF CapOf

LEMMA ScoresWithin ==
  ASSUME NEW c, NEW M, Scores(c, M), NEW S \in SUBSET M
  PROVE  /\ Scores(c, S) /\ Scores(c, Exact(S))
         /\ Cardinality(S) \in Nat /\ Cardinality(Exact(S)) \in Nat
         /\ Cardinality(Exact(S)) <= Cardinality(S)
         /\ Cardinality(S) <= Cardinality(M)
<1>1. IsFiniteSet(S) /\ Cardinality(S) <= Cardinality(M)
  BY FS_Subset DEF Scores
<1>2. Exact(S) \in SUBSET S
  BY DEF Exact
<1>3. IsFiniteSet(Exact(S)) /\ Cardinality(Exact(S)) <= Cardinality(S)
  BY <1>1, <1>2, FS_Subset
<1>4. Cardinality(S) \in Nat /\ Cardinality(Exact(S)) \in Nat
  BY <1>1, <1>3, FS_CardinalityType
<1> QED BY <1>1, <1>2, <1>3, <1>4 DEF Scores

\* What a scan may have missed when it ends.
Enough(t, S, M) ==
  /\ Exact(M) \subseteq S \/ Cardinality(Exact(S)) >= t.limit
  /\ S = M \/ Cardinality(S) >= CapOf(t) \/ Cardinality(Exact(S)) >= t.limit

LEMMA RankingCut ==
  ASSUME NEW c \in Seq(Seq(Chars)), NEW t \in Searches, NEW S, Scores(c, S),
         NEW rows, rows = Truncated(RankedIn(c, S), t.limit)
  PROVE  /\ ToSet(rows) \in SUBSET S /\ Len(rows) = AtMost(t.limit, Cardinality(S))
         /\ \A i, j \in DOMAIN rows : i < j => CloserIn(c, rows[i], rows[j])
         /\ Cardinality(Exact(ToSet(rows))) = AtMost(t.limit, Cardinality(Exact(S)))
<1>1. PICK s : s = RankedIn(c, S)
  OBVIOUS
<1>2. Ranking(c, S, s)
  BY <1>1, RankedIs
<1>3. PICK n, l : n = Cardinality(S) /\ l = t.limit
  OBVIOUS
<1>4. n \in Nat /\ s \in [1..n -> S]
  BY <1>2, <1>3 DEF Ranking
<1>5. l \in Nat
  BY <1>3, CapIs
<1>6. Cut(rows, s, S, l)
  BY <1>1, <1>3, <1>4, <1>5, TruncatedIs, Zenon
<1>7. Len(rows) = AtMost(l, n)
  BY <1>3, <1>6 DEF Cut
<1>8. /\ ToSet(rows) \in SUBSET S
      /\ \A i, j \in DOMAIN rows : i < j => CloserIn(c, rows[i], rows[j])
      /\ Cardinality(Exact(ToSet(rows))) = AtMost(l, Cardinality(Exact(S)))
  BY <1>2, <1>5, <1>6, ExactFirst
<1> QED BY <1>3, <1>7, <1>8

LEMMA FuzzyAnswers ==
  ASSUME NEW c \in Seq(Seq(Chars)), NEW t \in Searches, t.job = "fuzzy",
         NEW S \in SUBSET MatchingIn(c, t), Enough(t, S, MatchingIn(c, t)),
         NEW rows, rows = Truncated(RankedIn(c, S), t.limit)
  PROVE  AnswerOf(c, t, rows)
<1>1. PICK M, l, got : M = MatchingIn(c, t) /\ l = t.limit /\ got = ToSet(rows)
  OBVIOUS
<1>2. Scores(c, M) /\ Scores(c, S)
  BY <1>1, MatchingScores, ScoresWithin, Zenon
<1>3. /\ got \in SUBSET S /\ Len(rows) = AtMost(l, Cardinality(S))
      /\ \A i, j \in DOMAIN rows : i < j => CloserIn(c, rows[i], rows[j])
      /\ Cardinality(Exact(got)) = AtMost(l, Cardinality(Exact(S)))
  BY <1>1, <1>2, RankingCut
<1>4. PICK ns, es, nm, em, cap :
        /\ ns = Cardinality(S) /\ es = Cardinality(Exact(S))
        /\ nm = Cardinality(M) /\ em = Cardinality(Exact(M)) /\ cap = CapOf(t)
  OBVIOUS
<1>5. ns \in Nat /\ es \in Nat /\ nm \in Nat /\ em \in Nat /\ es <= ns /\ ns <= nm /\ es <= em
  <2>1. ns \in Nat /\ es \in Nat /\ es <= ns /\ ns <= nm
    BY <1>1, <1>2, <1>4, ScoresWithin
  <2>2. nm \in Nat /\ em \in Nat /\ Scores(c, Exact(M))
    BY <1>2, <1>4, ScoresWithin
  <2>3. Exact(S) \in SUBSET Exact(M)
    BY <1>1 DEF Exact
  <2>4. es <= em
    BY <1>4, <2>2, <2>3, ScoresWithin
  <2> QED BY <2>1, <2>2, <2>4
<1>6. l \in Nat /\ cap \in Nat /\ l <= cap
  BY <1>1, <1>4, CapIs
<1>7. es = em \/ es >= l
  <2>1. ASSUME Exact(M) \subseteq S PROVE Exact(M) = Exact(S)
    BY <1>1, <2>1 DEF Exact
  <2> QED BY <1>1, <1>4, <2>1 DEF Enough
<1>8. S = M \/ ns >= cap \/ es >= l
  BY <1>1, <1>4 DEF Enough
<1>9. AtMost(l, ns) = AtMost(l, nm)
  <2>1. ns = nm \/ ns >= l
    BY <1>4, <1>5, <1>6, <1>8
  <2> QED BY <1>5, <1>6, <2>1 DEF AtMost
<1>10. AtMost(l, es) = AtMost(l, em)
  BY <1>5, <1>6, <1>7 DEF AtMost
<1>11. nm < cap /\ em < l => S = M
  BY <1>5, <1>6, <1>8
<1>12. FuzzyAnswer(c, t, rows, got, M)
  BY <1>1, <1>3, <1>4, <1>9, <1>10, <1>11 DEF FuzzyAnswer
<1> QED BY <1>1, <1>3, <1>12 DEF AnswerOf

LEMMA PrefixAnswers ==
  ASSUME NEW c \in Seq(Seq(Chars)), NEW t \in Searches, t.job = "prefix",
         NEW rows, rows = Truncated(RankedIn(c, PrefixedIn(c, t)), t.limit)
  PROVE  AnswerOf(c, t, rows)
<1>1. PICK S : S = PrefixedIn(c, t)
  OBVIOUS
<1>2. Scores(c, S)
  BY <1>1, PrefixedScores
<1>3. \A i, j \in DOMAIN rows : i < j => CloserIn(c, rows[i], rows[j])
  BY <1>1, <1>2, RankingCut
<1> QED BY <1>3 DEF AnswerOf

-----------------------------------------------------------------------------
(* The scan.                                                               *)

ScanShape(c, sc) == sc \in [at : 1..(Len(c) + 1), phase : {1, 2}, exact : Nat, scored : SUBSET (Nat \X Nat)]
FuzzyScanned(c, t, sc) ==
  /\ sc.scored \subseteq MatchingIn(c, t) /\ \A x \in sc.scored : x[2] < sc.at
  /\ \A x \in MatchingIn(c, t) : x[2] < sc.at /\ (sc.phase = 1 \/ x[1] = 0) => x \in sc.scored
  /\ sc.exact = Cardinality(Exact(sc.scored))
  /\ sc.phase = 2 => sc.exact >= t.limit \/ Cardinality(sc.scored) >= CapOf(t)
PrefixScanned(c, t, sc) == sc.scored = {x \in PrefixedIn(c, t) : x[2] < sc.at}
Scanned(c, t, sc) ==
  /\ ScanShape(c, sc)
  /\ t.job = "fuzzy" => FuzzyScanned(c, t, sc)
  /\ t.job = "prefix" => PrefixScanned(c, t, sc)

LEMMA ScanStarts ==
  ASSUME NEW c \in Seq(Seq(Chars)), NEW t \in Searches,
         NEW sc, sc = [at |-> 1, phase |-> 1, exact |-> 0, scored |-> {}]
  PROVE  Scanned(c, t, sc)
<1>1. sc.at = 1 /\ sc.phase = 1 /\ sc.exact = 0 /\ sc.scored = {} /\ Len(c) \in Nat
  OBVIOUS
<1>2. ScanShape(c, sc)
  BY <1>1 DEF ScanShape
<1>3. \A x \in MatchingIn(c, t) : x[2] \in DOMAIN c
  <2>1. Scores(c, MatchingIn(c, t))
    BY MatchingScores
  <2> QED BY <2>1 DEF Scores
<1>4. \A x \in PrefixedIn(c, t) : x[2] \in DOMAIN c
  <2>1. Scores(c, PrefixedIn(c, t))
    BY PrefixedScores
  <2> QED BY <2>1 DEF Scores
<1>5. \A i \in DOMAIN c : ~(i < 1)
  OBVIOUS
<1>6. Cardinality(Exact({})) = 0
  BY FS_EmptySet DEF Exact
<1>7. FuzzyScanned(c, t, sc)
  BY <1>1, <1>3, <1>5, <1>6 DEF FuzzyScanned
<1>8. PrefixScanned(c, t, sc)
  BY <1>1, <1>4, <1>5 DEF PrefixScanned
<1> QED BY <1>2, <1>7, <1>8 DEF Scanned

LEMMA FuzzyScanEnds ==
  ASSUME NEW c \in Seq(Seq(Chars)), NEW t \in Searches, t.job = "fuzzy",
         NEW sc, ScanShape(c, sc), FuzzyScanned(c, t, sc),
         sc.at > Len(c) \/ (sc.phase = 2 /\ sc.exact >= t.limit)
  PROVE  /\ sc.scored \in SUBSET MatchingIn(c, t)
         /\ Enough(t, sc.scored, MatchingIn(c, t))
<1>1. PICK M, S, at : M = MatchingIn(c, t) /\ S = sc.scored /\ at = sc.at
  OBVIOUS
<1>2. at \in Nat /\ sc.phase \in {1, 2}
  BY <1>1 DEF ScanShape
<1>3. S \in SUBSET M /\ sc.exact = Cardinality(Exact(S))
  BY <1>1 DEF FuzzyScanned
<1>4. CASE sc.phase = 2 /\ sc.exact >= t.limit
  BY <1>1, <1>3, <1>4 DEF Enough
<1>5. CASE at > Len(c)
  <2>1. Scores(c, M)
    BY <1>1, MatchingScores
  <2>2. \A x \in M : x[2] < at
    <3>1. \A x \in M : x[2] \in 1..Len(c)
      BY <2>1 DEF Scores
    <3> QED BY <1>2, <1>5, <3>1
  <2>3. \A x \in M : sc.phase = 1 \/ x[1] = 0 => x \in S
    BY <1>1, <2>2 DEF FuzzyScanned
  <2>4. Exact(M) \subseteq S
    BY <2>3 DEF Exact
  <2>5. CASE sc.phase = 1
    <3>1. S = M
      BY <1>3, <2>3, <2>5, Zenon
    <3> QED BY <1>1, <2>4, <3>1 DEF Enough
  <2>6. CASE sc.phase = 2
    <3>1. sc.exact >= t.limit \/ Cardinality(S) >= CapOf(t)
      BY <1>1, <2>6 DEF FuzzyScanned
    <3> QED BY <1>1, <1>3, <2>4, <3>1 DEF Enough
  <2> QED BY <1>2, <2>5, <2>6
<1> QED BY <1>1, <1>4, <1>5

-----------------------------------------------------------------------------
(* A row more.                                                             *)

\* What row i adds to M, the scored rows of the whole table.
RowOf(M, i) == {x \in M : x[2] = i}

LEMMA MatchingRow ==
  ASSUME NEW c \in Seq(Seq(Chars)), NEW t \in Searches, NEW i \in DOMAIN c, NEW D, D = DistanceIn(c, t, i)
  PROVE  RowOf(MatchingIn(c, t), i) = IF D = {} THEN {} ELSE {<<Lowest(D), i>>}
<1>1. ASSUME NEW x \in RowOf(MatchingIn(c, t), i) PROVE D # {} /\ x = <<Lowest(D), i>>
  <2>1. PICK j \in DOMAIN c : DistanceIn(c, t, j) # {} /\ x = <<Lowest(DistanceIn(c, t, j)), j>>
    BY <1>1 DEF RowOf, MatchingIn
  <2>2. j = i
    BY <1>1, <2>1 DEF RowOf
  <2> QED BY <2>1, <2>2
<1>2. ASSUME D # {} PROVE <<Lowest(D), i>> \in RowOf(MatchingIn(c, t), i)
  BY <1>2 DEF RowOf, MatchingIn
<1> QED BY <1>1, <1>2, Zenon

LEMMA PrefixedRow ==
  ASSUME NEW c \in Seq(Seq(Chars)), NEW t \in Searches, NEW i \in DOMAIN c, NEW L, L = PrefixIn(c, t, i)
  PROVE  RowOf(PrefixedIn(c, t), i) = IF L = {} THEN {} ELSE {<<Lowest(L), i>>}
<1>1. \A j : (\E u \in Units(c[j]) : IsPrefix(t.q, u)) <=> PrefixIn(c, t, j) # {}
  BY Zenon DEF PrefixIn
<1>2. ASSUME NEW x \in RowOf(PrefixedIn(c, t), i) PROVE L # {} /\ x = <<Lowest(L), i>>
  <2>1. PICK j \in DOMAIN c : PrefixIn(c, t, j) # {} /\ x = <<Lowest(PrefixIn(c, t, j)), j>>
    BY <1>1, <1>2 DEF RowOf, PrefixedIn
  <2>2. j = i
    BY <1>2, <2>1 DEF RowOf
  <2> QED BY <2>1, <2>2
<1>3. ASSUME L # {} PROVE <<Lowest(L), i>> \in RowOf(PrefixedIn(c, t), i)
  BY <1>1, <1>3, Zenon DEF RowOf, PrefixedIn
<1> QED BY <1>2, <1>3, Zenon

\* One exact row more is counted as one.
LEMMA ExactCounts ==
  ASSUME NEW c, NEW S, Scores(c, S), NEW i \in Nat, \A x \in S : x[2] < i,
         NEW k \in Nat
  PROVE  Cardinality(Exact(S \cup {<<k, i>>})) = Cardinality(Exact(S)) + IF k = 0 THEN 1 ELSE 0
<1>1. PICK x : x = <<k, i>>
  BY Zenon
<1>2. x \notin S
  BY <1>1
<1>3. PICK E : E = Exact(S)
  OBVIOUS
<1>4. IsFiniteSet(E) /\ x \notin E
  <2>1. E \in SUBSET S
    BY <1>3 DEF Exact
  <2> QED BY <1>2, <2>1, FS_Subset DEF Scores
<1>5. Cardinality(E) \in Nat
  BY <1>4, FS_CardinalityType
<1>6. CASE k = 0
  <2>1. Exact(S \cup {x}) = E \cup {x}
    BY <1>1, <1>3, <1>6 DEF Exact
  <2>2. Cardinality(E \cup {x}) = Cardinality(E) + 1
    BY <1>4, FS_AddElement
  <2> QED BY <1>1, <1>3, <1>6, <2>1, <2>2, Zenon
<1>7. CASE k # 0
  <2>1. Exact(S \cup {x}) = E
    BY <1>1, <1>3, <1>7 DEF Exact
  <2> QED BY <1>1, <1>3, <1>5, <1>7, <2>1
<1> QED BY <1>6, <1>7

\* Row i is scored: sc becomes sd, and row i adds the rows N to the scored ones.
FuzzyStep(c, t, sc, sd, i, N) ==
  /\ sc.at = i /\ i \in DOMAIN c /\ sd.at = i + 1
  /\ sd.scored = sc.scored \cup N /\ N \subseteq RowOf(MatchingIn(c, t), i)
  /\ \A x \in RowOf(MatchingIn(c, t), i) : sc.phase = 1 \/ x[1] = 0 => x \in N
  /\ sd.exact = sc.exact + IF \E x \in N : x[1] = 0 THEN 1 ELSE 0
  /\ sd.phase = 1 => sc.phase = 1
  /\ sd.phase = 2 => sc.phase = 2 \/ sd.exact >= t.limit \/ Cardinality(sd.scored) >= CapOf(t)

LEMMA FuzzyScanGoesOn ==
  ASSUME NEW c \in Seq(Seq(Chars)), NEW t \in Searches,
         NEW sc, ScanShape(c, sc), FuzzyScanned(c, t, sc),
         NEW sd, sd = [at |-> sd.at, phase |-> sd.phase, exact |-> sd.exact, scored |-> sd.scored],
         sd.phase \in {1, 2}, NEW i, NEW N, FuzzyStep(c, t, sc, sd, i, N)
  PROVE  ScanShape(c, sd) /\ FuzzyScanned(c, t, sd)
<1>1. PICK M, S, T : M = MatchingIn(c, t) /\ S = sc.scored /\ T = sd.scored
  OBVIOUS
<1>2. /\ S \subseteq M /\ \A x \in S : x[2] < i
      /\ \A x \in M : x[2] < i /\ (sc.phase = 1 \/ x[1] = 0) => x \in S
      /\ sc.exact = Cardinality(Exact(S))
      /\ sc.phase = 2 => sc.exact >= t.limit \/ Cardinality(S) >= CapOf(t)
  BY <1>1 DEF FuzzyScanned, FuzzyStep
<1>3. /\ sc.at = i /\ i \in DOMAIN c /\ sd.at = i + 1
      /\ T = S \cup N /\ N \subseteq RowOf(M, i)
      /\ \A x \in RowOf(M, i) : sc.phase = 1 \/ x[1] = 0 => x \in N
      /\ sd.exact = sc.exact + IF \E x \in N : x[1] = 0 THEN 1 ELSE 0
      /\ sd.phase = 1 => sc.phase = 1
      /\ sd.phase = 2 => sc.phase = 2 \/ sd.exact >= t.limit \/ Cardinality(T) >= CapOf(t)
  BY <1>1 DEF FuzzyStep
<1>4. i \in Nat /\ i \in 1..Len(c) /\ Len(c) \in Nat
  BY <1>3
<1>5. sc.exact \in Nat
  BY DEF ScanShape
<1>6. Scores(c, M)
  BY <1>1, MatchingScores
<1>7. \A x \in M : x \in Nat \X Nat
  BY <1>6 DEF Scores
<1>8. \A x \in N : x \in M /\ x[2] = i
  BY <1>3 DEF RowOf
<1>9. T \in SUBSET M
  BY <1>2, <1>3, <1>8
<1>10. Scores(c, S) /\ Scores(c, T) /\ Cardinality(S) <= Cardinality(T)
       /\ Cardinality(S) \in Nat /\ Cardinality(T) \in Nat
  <2>1. Scores(c, T)
    BY <1>6, <1>9, ScoresWithin, Zenon
  <2>2. S \in SUBSET T
    BY <1>3
  <2> QED BY <2>1, <2>2, ScoresWithin, Zenon
<1>11. ASSUME NEW x \in T PROVE x[2] < i + 1
  BY <1>2, <1>3, <1>4, <1>7, <1>8, <1>9, <1>11
<1>12. ASSUME NEW x \in M, x[2] < i + 1, sd.phase = 1 \/ x[1] = 0 PROVE x \in T
  <2>1. sc.phase = 1 \/ x[1] = 0
    BY <1>3, <1>12
  <2>2. CASE x[2] = i
    <3>1. x \in RowOf(M, i)
      BY <2>2 DEF RowOf
    <3> QED BY <1>3, <2>1, <3>1
  <2>3. CASE x[2] # i
    <3>1. x[2] < i
      BY <1>4, <1>7, <1>12, <2>3
    <3> QED BY <1>2, <1>3, <2>1, <3>1
  <2> QED BY <2>2, <2>3
<1>13. N = {} \/ \E k \in Nat : N = {<<k, i>>}
  <2>1. PICK D : D = DistanceIn(c, t, i)
    OBVIOUS
  <2>2. RowOf(M, i) = IF D = {} THEN {} ELSE {<<Lowest(D), i>>}
    BY <1>1, <1>3, <2>1, MatchingRow, Zenon
  <2>3. D \in SUBSET Nat
    BY <2>1, SearchAssumption DEF DistanceIn
  <2>4. D # {} => Lowest(D) \in Nat
    BY <2>3, LowestExists
  <2> QED BY <1>3, <2>2, <2>4
<1>14. sd.exact = Cardinality(Exact(T)) /\ sd.exact \in Nat /\ sd.exact >= sc.exact
  <2>1. CASE N = {}
    BY <1>2, <1>3, <1>5, <2>1
  <2>2. ASSUME NEW k \in Nat, N = {<<k, i>>} PROVE sd.exact = Cardinality(Exact(T))
    <3>1. Cardinality(Exact(S \cup {<<k, i>>})) = Cardinality(Exact(S)) + IF k = 0 THEN 1 ELSE 0
      BY <1>2, <1>4, <1>10, ExactCounts, Zenon
    <3>2. (\E x \in N : x[1] = 0) <=> k = 0
      BY <2>2
    <3> QED BY <1>2, <1>3, <2>2, <3>1, <3>2
  <2>3. sd.exact \in Nat /\ sd.exact >= sc.exact
    BY <1>3, <1>5
  <2> QED BY <1>13, <2>1, <2>2, <2>3
<1>15. ASSUME sd.phase = 2 PROVE sd.exact >= t.limit \/ Cardinality(T) >= CapOf(t)
  <2>1. t.limit \in Nat /\ CapOf(t) \in Nat
    BY CapIs
  <2> QED BY <1>2, <1>3, <1>5, <1>10, <1>14, <1>15, <2>1
<1>16. ScanShape(c, sd)
  <2>1. sd.at \in 1..(Len(c) + 1) /\ sd.scored \in SUBSET (Nat \X Nat)
    BY <1>1, <1>3, <1>4, <1>7, <1>9
  <2> QED BY <1>14, <2>1 DEF ScanShape
<1>17. FuzzyScanned(c, t, sd)
  BY <1>1, <1>3, <1>9, <1>11, <1>12, <1>14, <1>15 DEF FuzzyScanned
<1> QED BY <1>16, <1>17

LEMMA PrefixScanGoesOn ==
  ASSUME NEW c \in Seq(Seq(Chars)), NEW t \in Searches,
         NEW sc, ScanShape(c, sc), PrefixScanned(c, t, sc),
         NEW i \in DOMAIN c, sc.at = i, NEW L, L = PrefixIn(c, t, i),
         NEW sd, sd = [sc EXCEPT !.at = i + 1, !.scored = IF L = {} THEN @ ELSE @ \cup {<<Lowest(L), i>>}]
  PROVE  ScanShape(c, sd) /\ PrefixScanned(c, t, sd)
<1>1. PICK M, S : M = PrefixedIn(c, t) /\ S = sc.scored
  OBVIOUS
<1>2. i \in Nat /\ i \in 1..Len(c) /\ Len(c) \in Nat
  OBVIOUS
<1>3. /\ sd.at = i + 1 /\ sd.phase = sc.phase /\ sd.exact = sc.exact
      /\ sd.scored = S \cup RowOf(M, i)
      /\ sd = [at |-> sd.at, phase |-> sd.phase, exact |-> sd.exact, scored |-> sd.scored]
  <2>1. sc = [at |-> sc.at, phase |-> sc.phase, exact |-> sc.exact, scored |-> sc.scored]
    BY DEF ScanShape
  <2>2. RowOf(M, i) = IF L = {} THEN {} ELSE {<<Lowest(L), i>>}
    BY <1>1, PrefixedRow, Zenon
  <2> QED BY <1>1, <2>1, <2>2, Zenon
<1>4. Scores(c, M)
  BY <1>1, PrefixedScores
<1>5. \A x \in M : x \in Nat \X Nat
  BY <1>4 DEF Scores
<1>6. S = {x \in M : x[2] < i}
  BY <1>1 DEF PrefixScanned
<1>7. \A x \in M : x[2] < i + 1 <=> x[2] < i \/ x[2] = i
  BY <1>2, <1>5
<1>8. sd.scored = {x \in M : x[2] < i + 1}
  BY <1>3, <1>6, <1>7 DEF RowOf
<1>9. ScanShape(c, sd)
  <2>1. sc.phase \in {1, 2} /\ sc.exact \in Nat
    BY DEF ScanShape
  <2>2. sd.at \in 1..(Len(c) + 1) /\ sd.scored \in SUBSET (Nat \X Nat)
    BY <1>2, <1>3, <1>5, <1>8
  <2> QED BY <1>3, <2>1, <2>2, Zenon DEF ScanShape
<1> QED BY <1>1, <1>3, <1>8, <1>9 DEF PrefixScanned

-----------------------------------------------------------------------------
(* The search keeps its invariant.                                         *)

SearchInv ==
  \/ topic # "names" /\ hits = NoHits
  \/ /\ topic = "names" /\ corpus \in Corpora /\ quest \in Searches
     /\ hits = NoHits => Scanned(corpus, quest, scan)
     /\ hits # NoHits => AnswerOf(corpus, quest, hits.rows)

LEMMA SearchInvFinds == SearchInv => SearchFindsClosest
<1>1. \A x, y : Closer(x, y) <=> CloserIn(corpus, x, y)
  BY DEF Closer, CloserIn
<1>2. \A S : Ranked(S) = RankedIn(corpus, S)
  BY <1>1 DEF Ranked, RankedIn
<1>3. Cap = CapOf(quest)
  BY DEF Cap, CapOf
<1>4. Matching = MatchingIn(corpus, quest)
  BY DEF Matching, MatchingIn, Distance, DistanceIn
<1>5. {<<Lowest({Len(u) : u \in {v \in Units(corpus[i]) : IsPrefix(quest.q, v)}}), i>> :
          i \in {j \in DOMAIN corpus : \E u \in Units(corpus[j]) : IsPrefix(quest.q, u)}}
        = PrefixedIn(corpus, quest)
  BY DEF PrefixedIn, PrefixIn
<1>6. ASSUME SearchInv, hits # NoHits
      PROVE  AnswerOf(corpus, quest, hits.rows)
  BY <1>6 DEF SearchInv
<1> QED BY <1>1, <1>2, <1>3, <1>4, <1>5, <1>6, Zenon DEF SearchFindsClosest, AnswerOf, FuzzyAnswer

LEMMA SearchInvInit == Init => SearchInv
<1>1. CASE topic = "names" /\ SearchInit
  <2>1. corpus \in Seq(Seq(Chars)) /\ quest \in Searches /\ corpus \in Corpora
    BY <1>1, SearchAssumption DEF SearchInit
  <2>2. Scanned(corpus, quest, scan)
    BY <1>1, <2>1, ScanStarts DEF SearchInit
  <2> QED BY <1>1, <2>1, <2>2 DEF SearchInv, SearchInit
<1>2. CASE topic # "names" /\ SearchIdle
  BY <1>2 DEF SearchInv, SearchIdle
<1> QED BY <1>1, <1>2 DEF Init

LEMMA OneRow ==
  ASSUME NEW p \in BOOLEAN, NEW k, NEW i, NEW N, N = IF p THEN {<<k, i>>} ELSE {}
  PROVE  (\E x \in N : x[1] = 0) <=> p /\ k = 0
<1>1. CASE p
  <2>1. N = {<<k, i>>}
    BY <1>1
  <2>2. \A x \in N : x[1] = k
    BY <2>1
  <2>3. <<k, i>> \in N
    BY <2>1
  <2> QED BY <1>1, <2>2, <2>3, Zenon
<1>2. CASE ~p
  BY <1>2
<1> QED BY <1>1, <1>2

\* What a row found in phase 1 makes of the scan; what an equal one does in phase 2.
ScoredIn1(c, t, sc, sd, i, near) ==
  /\ sc.at = i /\ sc.phase = 1
  /\ sd = [at |-> sd.at, phase |-> sd.phase, exact |-> sd.exact, scored |-> sd.scored]
  /\ sd.at = i + 1
  /\ sd.phase = IF near # {} /\ (sd.exact >= t.limit \/ Cardinality(sd.scored) >= CapOf(t)) THEN 2 ELSE 1
  /\ sd.exact = sc.exact + IF near # {} /\ Lowest(near) = 0 THEN 1 ELSE 0
  /\ sd.scored = sc.scored \cup IF near = {} THEN {} ELSE {<<Lowest(near), i>>}
ScoredIn2(c, t, sc, sd, i, equal) ==
  /\ sc.at = i /\ sc.phase = 2
  /\ sd = [at |-> sd.at, phase |-> sd.phase, exact |-> sd.exact, scored |-> sd.scored]
  /\ sd.at = i + 1 /\ sd.phase = 2
  /\ sd.exact = IF equal THEN sc.exact + 1 ELSE sc.exact
  /\ sd.scored = IF equal THEN sc.scored \cup {<<0, i>>} ELSE sc.scored

LEMMA ScoredIn1Steps ==
  ASSUME NEW c \in Seq(Seq(Chars)), NEW t \in Searches, NEW i \in DOMAIN c,
         NEW near, near = NearIn(c, t, i),
         NEW sc, NEW sd, ScoredIn1(c, t, sc, sd, i, near)
  PROVE  sd.phase \in {1, 2} /\ \E N : FuzzyStep(c, t, sc, sd, i, N)
<1>1. PICK D, d, p, N : D = DistanceIn(c, t, i) /\ d = Lowest(near) /\ p = (near # {})
                        /\ N = IF p THEN {<<d, i>>} ELSE {}
  BY Zenon
<1>2. /\ near = {} <=> D = {}
      /\ D # {} => Lowest(near) = Lowest(D)
  <2>1. RowScored(c, t, i, near, D)
    BY <1>1, RowScores
  <2> QED BY <2>1 DEF RowScored
<1>3. RowOf(MatchingIn(c, t), i) = IF D = {} THEN {} ELSE {<<Lowest(D), i>>}
  BY <1>1, MatchingRow, Zenon
<1>4. RowOf(MatchingIn(c, t), i) = N
  BY <1>1, <1>2, <1>3, Zenon
<1>5. (\E x \in N : x[1] = 0) <=> p /\ d = 0
  <2>1. p \in BOOLEAN
    BY <1>1
  <2> QED BY <1>1, <2>1, OneRow, Zenon
<1>6. /\ sc.at = i /\ sc.phase = 1 /\ sd.at = i + 1
      /\ sd.phase = IF p /\ (sd.exact >= t.limit \/ Cardinality(sd.scored) >= CapOf(t)) THEN 2 ELSE 1
      /\ sd.exact = sc.exact + IF p /\ d = 0 THEN 1 ELSE 0
      /\ sd.scored = sc.scored \cup N
  BY <1>1, Zenon DEF ScoredIn1
<1>7. FuzzyStep(c, t, sc, sd, i, N)
  BY <1>4, <1>5, <1>6 DEF FuzzyStep
<1> QED BY <1>6, <1>7

LEMMA ScoredIn2Steps ==
  ASSUME NEW c \in Seq(Seq(Chars)), NEW t \in Searches, NEW i \in DOMAIN c,
         NEW equal, equal = (t.q \in Units(c[i])),
         NEW sc, ScanShape(c, sc), NEW sd, ScoredIn2(c, t, sc, sd, i, equal)
  PROVE  \E N : FuzzyStep(c, t, sc, sd, i, N)
<1>1. PICK D, near, N : D = DistanceIn(c, t, i) /\ near = NearIn(c, t, i)
                        /\ N = IF equal THEN {<<0, i>>} ELSE {}
  BY Zenon
<1>2. equal <=> D # {} /\ Lowest(D) = 0
  <2>1. RowScored(c, t, i, near, D)
    BY <1>1, RowScores
  <2> QED BY <2>1, Zenon DEF RowScored
<1>3. RowOf(MatchingIn(c, t), i) = IF D = {} THEN {} ELSE {<<Lowest(D), i>>}
  BY <1>1, MatchingRow, Zenon
<1>4. N \subseteq RowOf(MatchingIn(c, t), i)
  BY <1>1, <1>2, <1>3
<1>5. \A x \in RowOf(MatchingIn(c, t), i) : x[1] = 0 => x \in N
  BY <1>1, <1>2, <1>3
<1>6. (\E x \in N : x[1] = 0) <=> equal
  <2>1. equal \in BOOLEAN
    OBVIOUS
  <2> QED BY <1>1, <2>1, OneRow, Zenon
<1>7. /\ sc.at = i /\ sc.phase = 2 /\ sd.at = i + 1 /\ sd.phase = 2
      /\ sd.exact = sc.exact + IF equal THEN 1 ELSE 0
      /\ sd.scored = sc.scored \cup N
  BY <1>1 DEF ScoredIn2, ScanShape
<1>8. FuzzyStep(c, t, sc, sd, i, N)
  BY <1>4, <1>5, <1>6, <1>7 DEF FuzzyStep
<1> QED BY <1>8

LEMMA FuzzyScanStays ==
  ASSUME NEW c \in Seq(Seq(Chars)), NEW t \in Searches, t.job = "fuzzy",
         NEW sc, Scanned(c, t, sc), sc.at <= Len(c),
         NEW sd, NEW i, i = sc.at,
         \/ \E near : near = NearIn(c, t, i)
                      /\ ScoredIn1(c, t, sc, sd, i, near)
         \/ \E equal : equal = (t.q \in Units(c[i])) /\ ScoredIn2(c, t, sc, sd, i, equal)
  PROVE  Scanned(c, t, sd)
<1>1. ScanShape(c, sc) /\ FuzzyScanned(c, t, sc)
  BY DEF Scanned
<1>2. i \in DOMAIN c
  BY <1>1 DEF ScanShape
<1>3. sd = [at |-> sd.at, phase |-> sd.phase, exact |-> sd.exact, scored |-> sd.scored]
  BY DEF ScoredIn1, ScoredIn2
<1>4. sd.phase \in {1, 2} /\ \E N : FuzzyStep(c, t, sc, sd, i, N)
  <2>1. ASSUME NEW near, near = NearIn(c, t, i),
               ScoredIn1(c, t, sc, sd, i, near)
        PROVE  sd.phase \in {1, 2} /\ \E N : FuzzyStep(c, t, sc, sd, i, N)
    BY <1>2, <2>1, ScoredIn1Steps
  <2>2. ASSUME NEW equal, equal = (t.q \in Units(c[i])), ScoredIn2(c, t, sc, sd, i, equal)
        PROVE  sd.phase \in {1, 2} /\ \E N : FuzzyStep(c, t, sc, sd, i, N)
    <3>1. sd.phase = 2
      BY <2>2 DEF ScoredIn2
    <3>2. \E N : FuzzyStep(c, t, sc, sd, i, N)
      BY <1>1, <1>2, <2>2, ScoredIn2Steps, Zenon
    <3> QED BY <3>1, <3>2
  <2> QED BY <2>1, <2>2
<1>5. PICK N : FuzzyStep(c, t, sc, sd, i, N)
  BY <1>4
<1>6. ScanShape(c, sd) /\ FuzzyScanned(c, t, sd)
  BY <1>1, <1>3, <1>4, <1>5, FuzzyScanGoesOn
<1> QED BY <1>6 DEF Scanned

LEMMA FuzzyRowKeeps ==
  ASSUME SearchInv, topic = "names", FuzzyRow
  PROVE  Scanned(corpus, quest, scan')
<1>1. PICK c, t, sc, sd : c = corpus /\ t = quest /\ sc = scan /\ sd = scan'
  OBVIOUS
<1>2. /\ c \in Seq(Seq(Chars)) /\ t \in Searches /\ t.job = "fuzzy"
      /\ Scanned(c, t, sc) /\ sc.at <= Len(c) /\ sc.phase = 1
  BY <1>1, SearchAssumption DEF SearchInv, FuzzyRow, Searching, AtRow
<1>3. PICK i, near : i = sc.at /\ near = NearIn(c, t, i)
  OBVIOUS
<1>4. ScoredIn1(c, t, sc, sd, i, near)
  BY <1>1, <1>2, <1>3 DEF FuzzyRow, Scan, NearIn, Cap, CapOf, ScoredIn1
<1>5. Scanned(c, t, sd)
  BY <1>2, <1>3, <1>4, FuzzyScanStays
<1> QED BY <1>1, <1>5

LEMMA EqualRowKeeps ==
  ASSUME SearchInv, topic = "names", EqualRow
  PROVE  Scanned(corpus, quest, scan')
<1>1. PICK c, t, sc, sd : c = corpus /\ t = quest /\ sc = scan /\ sd = scan'
  OBVIOUS
<1>2. /\ c \in Seq(Seq(Chars)) /\ t \in Searches /\ t.job = "fuzzy"
      /\ Scanned(c, t, sc) /\ sc.at <= Len(c) /\ sc.phase = 2
  BY <1>1, SearchAssumption DEF SearchInv, EqualRow, Searching, AtRow
<1>3. PICK i, equal : i = sc.at /\ equal = (t.q \in Units(c[i]))
  OBVIOUS
<1>4. sd = [sc EXCEPT !.at = @ + 1, !.exact = IF equal THEN @ + 1 ELSE @,
                      !.scored = IF equal THEN @ \cup {<<0, i>>} ELSE @]
  BY <1>1, <1>3, Zenon DEF EqualRow, Scan
<1>5. sc = [at |-> sc.at, phase |-> sc.phase, exact |-> sc.exact, scored |-> sc.scored]
  BY <1>2 DEF Scanned, ScanShape
<1>6. ScoredIn2(c, t, sc, sd, i, equal)
  BY <1>2, <1>3, <1>4, <1>5, Zenon DEF ScoredIn2
<1>7. Scanned(c, t, sd)
  BY <1>2, <1>3, <1>6, FuzzyScanStays
<1> QED BY <1>1, <1>7

LEMMA PrefixRowKeeps ==
  ASSUME SearchInv, topic = "names", PrefixRow
  PROVE  Scanned(corpus, quest, scan')
<1>1. PICK c, t, sc, sd : c = corpus /\ t = quest /\ sc = scan /\ sd = scan'
  OBVIOUS
<1>2. /\ c \in Seq(Seq(Chars)) /\ t \in Searches /\ t.job = "prefix"
      /\ ScanShape(c, sc) /\ PrefixScanned(c, t, sc) /\ sc.at <= Len(c)
  BY <1>1, SearchAssumption DEF SearchInv, Scanned, PrefixRow, Searching, AtRow
<1>3. PICK i, name : i = sc.at /\ name = c[i]
  OBVIOUS
<1>4. i \in DOMAIN c
  BY <1>2, <1>3 DEF ScanShape
<1>5. PICK name_ok : name_ok = (t.q = <<>> \/ (FirstByte(name) = Head(t.q) /\ IsPrefix(t.q, name)))
  OBVIOUS
<1>6. PICK lens : lens = {Len(u) : u \in {v \in name_tokens(name) : IsPrefix(t.q, v)}}
                           \cup (IF name_ok THEN {Len(name)} ELSE {})
  BY Zenon
<1>7. lens = PrefixIn(c, t, i)
  BY <1>2, <1>3, <1>4, <1>5, <1>6, PrefixScores
<1>8. sd = [sc EXCEPT !.at = i + 1, !.scored = IF lens = {} THEN @ ELSE @ \cup {<<Lowest(lens), i>>}]
  BY <1>1, <1>3, <1>5, <1>6, Zenon DEF PrefixRow, Scan
<1>9. ScanShape(c, sd) /\ PrefixScanned(c, t, sd)
  BY <1>2, <1>3, <1>4, <1>7, <1>8, PrefixScanGoesOn, Zenon
<1>10. Scanned(c, t, sd)
  BY <1>2, <1>9 DEF Scanned
<1> QED BY <1>1, <1>10

LEMMA RankedHere ==
  \A S, limit : Truncated(Ranked(S), limit) = Truncated(RankedIn(corpus, S), limit)
<1>1. \A x, y : Closer(x, y) <=> CloserIn(corpus, x, y)
  BY DEF Closer, CloserIn
<1>2. \A S : Ranked(S) = RankedIn(corpus, S)
  BY <1>1 DEF Ranked, RankedIn
<1> QED BY <1>2

LEMMA EndsKeep ==
  ASSUME SearchInv, topic = "names", FuzzyEnds \/ PrefixEnds
  PROVE  hits' # NoHits /\ AnswerOf(corpus, quest, hits'.rows)
<1>1. PICK c, t, sc, rows : c = corpus /\ t = quest /\ sc = scan /\ rows = hits'.rows
  OBVIOUS
<1>2. /\ c \in Seq(Seq(Chars)) /\ t \in Searches /\ Scanned(c, t, sc)
  BY <1>1, SearchAssumption DEF SearchInv, FuzzyEnds, PrefixEnds, Searching
<1>3. Found(sc.scored)
  BY <1>1 DEF FuzzyEnds, PrefixEnds
<1>4. hits' = [found |-> TRUE, rows |-> Truncated(Ranked(sc.scored), t.limit)]
  BY <1>1, <1>3 DEF Found
<1>5. hits' # NoHits
  <2>1. hits'.found = TRUE /\ NoHits.found = FALSE
    BY <1>4 DEF NoHits
  <2> QED BY <2>1
<1>6. rows = Truncated(RankedIn(c, sc.scored), t.limit)
  BY <1>1, <1>4, RankedHere
<1>7. CASE FuzzyEnds
  <2>1. t.job = "fuzzy" /\ (~(sc.at <= Len(c)) \/ (sc.phase = 2 /\ sc.exact >= t.limit))
    BY <1>1, <1>7 DEF FuzzyEnds, Searching, AtRow
  <2>2. ScanShape(c, sc) /\ FuzzyScanned(c, t, sc)
    BY <1>2, <2>1 DEF Scanned
  <2>3. sc.at \in Nat /\ Len(c) \in Nat
    BY <1>2, <2>2 DEF ScanShape
  <2>4. sc.at > Len(c) \/ (sc.phase = 2 /\ sc.exact >= t.limit)
    BY <2>1, <2>3
  <2>5. sc.scored \in SUBSET MatchingIn(c, t) /\ Enough(t, sc.scored, MatchingIn(c, t))
    BY <1>2, <2>1, <2>2, <2>4, FuzzyScanEnds
  <2>6. AnswerOf(c, t, rows)
    BY <1>2, <1>6, <2>1, <2>5, FuzzyAnswers
  <2> QED BY <1>1, <1>5, <2>6
<1>8. CASE PrefixEnds
  <2>1. t.job = "prefix" /\ ~(sc.at <= Len(c))
    BY <1>1, <1>8 DEF PrefixEnds, Searching, AtRow
  <2>2. ScanShape(c, sc) /\ PrefixScanned(c, t, sc)
    BY <1>2, <2>1 DEF Scanned
  <2>3. sc.at \in Nat /\ Len(c) \in Nat /\ Scores(c, PrefixedIn(c, t))
    BY <1>2, <2>2, PrefixedScores DEF ScanShape
  <2>4. \A x \in PrefixedIn(c, t) : x[2] \in 1..Len(c)
    BY <1>2, <2>3 DEF Scores
  <2>5. \A x \in PrefixedIn(c, t) : x[2] < sc.at
    BY <2>1, <2>3, <2>4
  <2>6. sc.scored = PrefixedIn(c, t)
    BY <2>2, <2>5 DEF PrefixScanned
  <2>7. AnswerOf(c, t, rows)
    BY <1>2, <1>6, <2>1, <2>6, PrefixAnswers
  <2> QED BY <1>1, <1>5, <2>7
<1> QED BY <1>7, <1>8

LEMMA SearchInvNext == SearchInv /\ [Next]_vars => SearchInv'
<1> SUFFICES ASSUME SearchInv, [Next]_vars PROVE SearchInv'
  OBVIOUS
<1>1. CASE UNCHANGED <<topic, searchVars>>
  BY <1>1 DEF SearchInv, searchVars, NoHits
<1>2. ASSUME topic = "names", topic' = topic, SearchNext PROVE SearchInv'
  <2>1. /\ corpus' = corpus /\ quest' = quest
        /\ corpus \in Corpora /\ quest \in Searches
    BY <1>2 DEF SearchInv, SearchNext, FuzzyRow, EqualRow, FuzzyEnds, PrefixRow, PrefixEnds, Scan, Found
  <2>2. CASE FuzzyRow \/ EqualRow \/ PrefixRow
    <3>1. Scanned(corpus, quest, scan')
      BY <1>2, <2>2, FuzzyRowKeeps, EqualRowKeeps, PrefixRowKeeps
    <3>2. hits = NoHits /\ hits' = hits
      BY <2>2 DEF FuzzyRow, EqualRow, PrefixRow, Searching, Scan
    <3> QED BY <1>2, <2>1, <3>1, <3>2 DEF SearchInv, NoHits
  <2>3. CASE FuzzyEnds \/ PrefixEnds
    <3>1. hits' # NoHits /\ AnswerOf(corpus, quest, hits'.rows)
      BY <1>2, <2>3, EndsKeep
    <3> QED BY <1>2, <2>1, <3>1 DEF SearchInv, NoHits
  <2> QED BY <1>2, <2>2, <2>3 DEF SearchNext
<1> QED BY <1>1, <1>2 DEF Next, vars

-----------------------------------------------------------------------------
(* The theorems.                                                           *)

\* Whatever index.db the processes find, however many open it at once, and
\* wherever one is killed or a statement fails: a migration level that says
\* all is done is true, and a Store that has opened has its tables.
THEOREM UpgradesAreSafe == Spec => []UpgradeIsSafe
<1> DEFINE Inv == topic = "upgrade" => UpgradeInv
<1>1. Init => Inv
  BY UpgradeInitially DEF Init
<1>2. Inv /\ [Next]_vars => Inv'
  <2> SUFFICES ASSUME Inv, [Next]_vars PROVE Inv'
    OBVIOUS
  <2>1. topic' = topic /\ (topic = "upgrade" => [UpgradeNext]_upgradeVars)
    BY DEF Next, vars
  <2> QED
    BY <2>1, UpgradeStep
<1>3. Inv => UpgradeIsSafe
  BY DEF UpgradeIsSafe, UpgradeInv
<1> QED
  BY <1>1, <1>2, <1>3, PTL DEF Spec

\* However many processes have the databases open and run index compress: a
\* reader never meets half a symbol table unless two savers have met, and
\* unless a table was replaced either, what is read is what was written.
THEOREM SignaturesAlwaysDecode == Spec => []SignaturesDecode
<1> DEFINE Inv == topic = "signatures" => CodecInv
<1>1. Init => Inv
  BY CodecInitially DEF Init
<1>2. Inv /\ [Next]_vars => Inv'
  <2> SUFFICES ASSUME Inv, [Next]_vars PROVE Inv'
    OBVIOUS
  <2>1. topic' = topic /\ (topic = "signatures" => [CodecNext]_codecVars)
    BY DEF Next, vars
  <2> QED
    BY <2>1, CodecStep
<1>3. Inv => SignaturesDecode
  BY CodecSafe DEF SignaturesDecode
<1> QED
  BY <1>1, <1>2, <1>3, PTL DEF Spec

\* Whatever the file holds, however many commands edit it at once and whoever
\* else writes it: an edit that nobody disturbed has exchanged the symbol's
\* lines for its body and nothing else, and the index describes the result.
THEOREM EditsAreClean == Spec => []CleanEdit
<1> DEFINE Inv == topic = "edit" => EditInv
<1>1. Init => Inv
  BY EditInitially DEF Init
<1>2. Inv /\ [Next]_vars => Inv'
  <2> SUFFICES ASSUME Inv, [Next]_vars PROVE Inv'
    OBVIOUS
  <2>1. topic' = topic /\ (topic = "edit" => [EditNext]_editVars)
    BY DEF Next, vars
  <2> QED
    BY <2>1, EditStep
<1>3. Inv => CleanEdit
  BY EditSafe DEF CleanEdit
<1> QED
  BY <1>1, <1>2, <1>3, PTL DEF Spec

\* What affected and importers answer, on every graph: the symbols and files within the
\* depth, with their least distance, and the edges that lead nearer.
THEOREM ImpactAlwaysExact == Spec => []ImpactIsExact
<1>1. Init => ImpactInv
  <2> SUFFICES ASSUME Init PROVE ImpactInv
    OBVIOUS
  <2>1. CASE GraphInit
    BY <2>1, ImpactInitially
  <2>2. CASE GraphIdle
    BY <2>2 DEF GraphIdle, ImpactInv, ImpactTyped, ImpactIsExact, Running, Answered
  <2> QED BY <2>1, <2>2 DEF Init
<1>2. ImpactInv /\ [Next]_vars => ImpactInv'
  <2> SUFFICES ASSUME ImpactInv, [Next]_vars PROVE ImpactInv'
    OBVIOUS
  <2>1. [GraphNext]_graphVars
    BY DEF Next, vars, graphVars
  <2> QED BY <2>1, ImpactStep
<1>3. ImpactInv => ImpactIsExact
  BY DEF ImpactInv
<1> QED BY <1>1, <1>2, <1>3, PTL DEF Spec

(* why answers with a path of the graph from the first symbol to the second,*)
(* no longer than any other, or with none when the call graph has no path   *)
(* within the depth; walk lists each symbol within the depth once, each     *)
(* with its distance, nearest first (graph.rs: shortest_path, walk).        *)
THEOREM PathsAlwaysExact == Spec => []PathsAreExact
<1>1. Init => PathsInv
  <2> SUFFICES ASSUME Init PROVE PathsInv
    OBVIOUS
  <2>1. CASE GraphInit
    BY <2>1, PathsInitially
  <2>2. CASE GraphIdle
    BY <2>2 DEF GraphIdle, PathsInv, PathsAreExact, WalksAreExact, WhyIsShortest, Running, Answered
  <2> QED BY <2>1, <2>2 DEF Init
<1>2. PathsInv /\ [Next]_vars => PathsInv'
  <2> SUFFICES ASSUME PathsInv, [Next]_vars PROVE PathsInv'
    OBVIOUS
  <2>1. [GraphNext]_graphVars
    BY DEF Next, vars, graphVars
  <2> QED BY <2>1, PathsStep
<1>3. PathsInv => PathsAreExact
  BY DEF PathsInv
<1> QED BY <1>1, <1>2, <1>3, PTL DEF Spec

\* fuzzy lists names within the edit budget of the query, of the name or of a
\* segment, as many as there are up to the limit, the closest first, and drops no
\* exact one however early the scan stops; where neither the cap nor the limit stops
\* it, it ranks the whole table.  prefix ranks every name with a unit that begins with the query
\* (fts.rs: fuzzy, prefix, Lev::dp).
THEOREM SearchAlwaysFindsClosest == Spec => []SearchFindsClosest
<1>1. Init => SearchInv
  BY SearchInvInit
<1>2. SearchInv /\ [Next]_vars => SearchInv'
  BY SearchInvNext
<1>3. SearchInv => SearchFindsClosest
  BY SearchInvFinds
<1> QED BY <1>1, <1>2, <1>3, PTL DEF Spec

\* cycles lists the classes of two and more symbols that reach each other along the
\* calls, each once and whole, and whatever calls something is reached from an orphan,
\* from one of them or from a symbol that calls itself (graph.rs: tarjan_scc, cycles).
THEOREM CyclesAlwaysComponents == Spec => []CyclesAreComponents
<1>1. Init => CyclesInv
  <2> SUFFICES ASSUME Init PROVE CyclesInv
    OBVIOUS
  <2>1. CASE GraphInit
    BY <2>1, CyclesInitially
  <2>2. CASE GraphIdle
    BY <2>2 DEF GraphIdle, CyclesInv, CyclesAreComponents, Running, Answered
  <2> QED BY <2>1, <2>2 DEF Init
<1>2. CyclesInv /\ [Next]_vars => CyclesInv'
  <2> SUFFICES ASSUME CyclesInv, [Next]_vars PROVE CyclesInv'
    OBVIOUS
  <2>1. [GraphNext]_graphVars
    BY DEF Next, vars, graphVars
  <2> QED BY <2>1, CyclesStep
<1>3. CyclesInv => CyclesAreComponents
  BY DEF CyclesInv
<1> QED BY <1>1, <1>2, <1>3, PTL DEF Spec
=============================================================================
