--------------------------- MODULE IndexerProofs ---------------------------
(***************************************************************************)
(* Any number of indexing processes, crashing and failing at any step:     *)
(* types and the database's integrity hold in every reachable state, and a *)
(* refresh deletes no row of a file that is there.  One process at a time: *)
(* what the index says of a file is of one text, and a rebuild leaves the  *)
(* tree in it.  Then write_file calls beside the processes, whose steps    *)
(* keep all that, and what a call leaves behind, and answers, when no      *)
(* process was at work meanwhile.                                          *)
(***************************************************************************)
EXTENDS WriteFile, WellFoundedInduction, TLAPS

-----------------------------------------------------------------------------
(* What every transaction of the store keeps, for any paths, names and     *)
(* texts: one lemma per operator of SymbolStore that writes the tables.    *)

\* A rowid is one more than the largest one, so "largest" has to exist.
IdsBounded == \E m \in Nat : \A i \in RowIds : i <= m

StoreInv == StoreTypeOK /\ IdsBounded /\ RefIntegrity /\ SentinelsAnchored

(***************************************************************************)
(* A bounded non-empty set of numbers has a maximum.                       *)
(***************************************************************************)
LEMMA MaxExists ==
  ASSUME NEW S \in SUBSET Nat, S # {}, NEW m \in Nat, \A i \in S : i <= m
  PROVE  Max(S) \in S /\ \A i \in S : Max(S) >= i
<1> DEFINE gaps == {m - i : i \in S}
<1>1. gaps \subseteq Nat /\ gaps # {}
  <2>1. \A i \in S : m - i \in Nat
    OBVIOUS
  <2> QED BY <2>1
<1>2. IsWellFoundedOn({ss \in Nat \X Nat : ss[1] < ss[2]}, Nat)
  BY NatLessThanWellFounded DEF OpToRel
<1>3. PICK g \in gaps : \A h \in gaps :
        ~ (<<h, g>> \in {ss \in Nat \X Nat : ss[1] < ss[2]})
  <2> HIDE DEF gaps
  <2> QED BY <1>1, <1>2, WFMin
<1>4. PICK i \in S : g = m - i
  BY <1>3
<1>5. \A j \in S : i >= j
  <2> SUFFICES ASSUME NEW j \in S, i < j PROVE FALSE
    OBVIOUS
  <2>1. m - j \in gaps /\ m - j \in Nat /\ g \in Nat /\ m - j < g
    BY <1>4
  <2> QED BY <2>1, <1>3
<1> QED BY <1>4, <1>5 DEF Max

(***************************************************************************)
(* The id of a new row is a row id no row has.                             *)
(***************************************************************************)
LEMMA NextRowIdFresh ==
  ASSUME StoreTypeOK, IdsBounded
  PROVE  /\ NextRowId \in RowId
         /\ \A i \in RowIds : i < NextRowId
<1>1. RowIds \subseteq RowId
  BY DEF StoreTypeOK, RowIds, Row
<1>2. PICK m \in Nat : \A i \in RowIds : i <= m
  BY DEF IdsBounded
<1>3. CASE RowIds = {}
  BY <1>3 DEF NextRowId, RowId
<1>4. CASE RowIds # {}
  <2>1. Max(RowIds) \in RowIds /\ \A i \in RowIds : Max(RowIds) >= i
    <3> HIDE DEF RowIds
    <3> QED BY <1>1, <1>2, <1>4, MaxExists DEF RowId
  <2>2. NextRowId = Max(RowIds) + 1
    BY <1>4 DEF NextRowId
  <2>3. \A i \in RowIds \cup {Max(RowIds)} : i \in Nat
    BY <1>1, <2>1 DEF RowId
  <2> HIDE DEF RowIds, NextRowId
  <2> QED BY <2>1, <2>2, <2>3 DEF RowId
<1> QED BY <1>3, <1>4

LEMMA RowIdForType ==
  ASSUME StoreTypeOK, IdsBounded, NEW path
  PROVE  /\ RowIdFor(path) \in RowId
         /\ \A q \in DOMAIN files : files[q].id = RowIdFor(path) => q = path \/ path \in DOMAIN files
<1>1. CASE path \in DOMAIN files
  BY <1>1 DEF StoreTypeOK, RowIdFor, Row
<1>2. CASE path \notin DOMAIN files
  <2>1. RowIdFor(path) = NextRowId
    BY <1>2 DEF RowIdFor
  <2>2. \A q \in DOMAIN files : files[q].id \in RowIds /\ files[q].id \in RowId
    BY DEF RowIds, StoreTypeOK, Row
  <2> QED BY <2>1, <2>2, NextRowIdFresh DEF RowId
<1> QED BY <1>1, <1>2

(***************************************************************************)
(* INSERT .. ON CONFLICT(path) DO UPDATE keeps every row's id and gives a  *)
(* new row an id of its own.                                               *)
(***************************************************************************)
LEMMA WithRowKeepsIds ==
  ASSUME StoreTypeOK, IdsBounded, RefIntegrity,
         NEW path \in RowPaths, NEW sha \in Contents \cup {NoContent}, NEW mtime \in Nat,
         files' = WithRow(path, sha, mtime)
  PROVE  /\ DOMAIN files' = DOMAIN files \cup {path}
         /\ files' \in [DOMAIN files' -> Row]
         /\ \A q \in DOMAIN files : files'[q].id = files[q].id
         /\ files'[path].id = RowIdFor(path)
         /\ RowIds' = RowIds \cup {RowIdFor(path)}
         /\ \A p, q \in DOMAIN files' : files'[p].id = files'[q].id => p = q
         /\ IdsBounded'
<1> DEFINE new == [id |-> RowIdFor(path), sha |-> sha, mtime |-> mtime]
<1>1. new \in Row /\ new.id = RowIdFor(path)
  BY RowIdForType DEF Row
<1>2. files' = [q \in DOMAIN files \cup {path} |-> IF q = path THEN new ELSE files[q]]
  BY DEF WithRow
<1>3. /\ DOMAIN files' = DOMAIN files \cup {path}
      /\ files'[path] = new
      /\ \A q \in DOMAIN files : q # path => files'[q] = files[q]
  <2> HIDE DEF new
  <2> QED BY <1>2
<1>4. path \in DOMAIN files => RowIdFor(path) = files[path].id
  BY DEF RowIdFor
<1>5. \A q \in DOMAIN files' : files'[q] \in Row
  <2> HIDE DEF new
  <2> QED BY <1>1, <1>3 DEF StoreTypeOK
<1>6. files' \in [DOMAIN files' -> Row]
  <2> HIDE DEF new
  <2> QED BY <1>2, <1>3, <1>5
<1>7. \A q \in DOMAIN files : files'[q].id = files[q].id
  BY <1>1, <1>3, <1>4
<1>8. files'[path].id = RowIdFor(path)
  BY <1>1, <1>3
<1>9. RowIds' = RowIds \cup {RowIdFor(path)}
  <2> HIDE DEF new
  <2> QED BY <1>3, <1>4, <1>7, <1>8 DEF RowIds
<1>10. \A p, q \in DOMAIN files' : files'[p].id = files'[q].id => p = q
  <2> HIDE DEF new
  <2>1. \A q \in DOMAIN files : files[q].id = RowIdFor(path) => q = path
    BY RowIdForType, <1>4 DEF RefIntegrity
  <2> QED BY <1>3, <1>7, <1>8, <2>1 DEF RefIntegrity
<1>11. IdsBounded'
  <2>1. PICK m \in Nat : \A i \in RowIds : i <= m
    BY DEF IdsBounded
  <2>2. RowIdFor(path) \in Nat /\ RowIds \subseteq Nat
    BY RowIdForType DEF RowIds, StoreTypeOK, Row, RowId
  <2>3. \A i \in RowIds' : i <= m + RowIdFor(path)
    <3> HIDE DEF new, RowIds
    <3> QED BY <1>9, <2>1, <2>2
  <2>4. m + RowIdFor(path) \in Nat
    BY <2>2
  <2> QED BY <2>3, <2>4 DEF IdsBounded
<1> QED BY <1>3, <1>6, <1>7, <1>8, <1>9, <1>10, <1>11

(***************************************************************************)
(* The transactions.                                                       *)
(***************************************************************************)
LEMMA upsert_fileKeeps ==
  ASSUME StoreInv,
         NEW path \in RowPaths, NEW sha \in Contents \cup {NoContent}, NEW mtime \in Nat,
         upsert_file(path, sha, mtime)
  PROVE  StoreInv'
<1> USE DEF StoreInv, upsert_file
<1>1. /\ DOMAIN files' = DOMAIN files \cup {path}
      /\ files' \in [DOMAIN files' -> Row]
      /\ \A q \in DOMAIN files : files'[q].id = files[q].id
      /\ RowIds' = RowIds \cup {RowIdFor(path)}
      /\ \A p, q \in DOMAIN files' : files'[p].id = files'[q].id => p = q
      /\ IdsBounded'
  BY WithRowKeepsIds
<1>2. StoreTypeOK'
  BY <1>1 DEF StoreTypeOK
<1>3. RefIntegrity'
  BY <1>1 DEF RefIntegrity
<1>4. SentinelsAnchored'
  BY <1>1 DEF SentinelsAnchored
<1> QED BY <1>1, <1>2, <1>3, <1>4

LEMMA replace_symbolsKeeps ==
  ASSUME StoreInv, NEW fid, NEW c \in Contents, replace_symbols(fid, c)
  PROVE  StoreInv'
<1> USE DEF StoreInv
<1> DEFINE gone == SymbolsOf(fid)
           new  == {<<fid, n>> : n \in Defs[c]}
<1>1. /\ symbols' = (symbols \ gone) \cup new
      /\ edges' = {e \in edges : e[1] \notin gone /\ e[2] \notin gone}
      /\ unresolved' = unresolved \ gone
      /\ UNCHANGED <<files, meta>>
  BY DEF replace_symbols
<1>2. RowIds' = RowIds /\ IdsBounded'
  BY <1>1 DEF RowIds, IdsBounded
<1>3. RowIds \subseteq RowId
  BY DEF RowIds, StoreTypeOK, Row
<1>4. \A s \in new : s[1] \in RowIds /\ s \in Symbol
  <2>1. CASE Defs[c] = {}
    BY <2>1
  <2>2. CASE fid \in RowIds
    <3>1. Defs[c] \subseteq Names
      BY StoreAssumption
    <3> QED BY <2>2, <3>1, <1>3 DEF Symbol
  <2> QED BY <2>1, <2>2 DEF replace_symbols, CanReplaceSymbols
<1> HIDE DEF gone, new
<1>5. StoreTypeOK'
  BY <1>1, <1>4 DEF StoreTypeOK
<1>6. RefIntegrity'
  BY <1>1, <1>2, <1>4 DEF RefIntegrity
<1>7. SentinelsAnchored'
  BY <1>1 DEF SentinelsAnchored
<1> QED BY <1>2, <1>5, <1>6, <1>7

\* The sentinel rows replace_edges inserts, and the row it needs for them.
LEMMA SentinelsTyped ==
  ASSUME StoreInv, NEW fid, NEW c \in Contents
  PROVE  /\ Callees(fid, c) \subseteq Names
         /\ \A n \in Unknown(fid, c) : SentinelFor(n) \in Symbol
<1>1. Calls[c] \subseteq Names \X Names
  BY StoreAssumption
<1>2. Callees(fid, c) \subseteq Names
  BY <1>1 DEF Callees, KeptCalls
<1>3. RowIdFor(Anchor) \in RowId
  BY RowIdForType DEF StoreInv
<1> QED BY <1>2, <1>3 DEF Unknown, SentinelFor, Symbol

LEMMA replace_edgesKeeps ==
  ASSUME StoreInv, NEW fid, NEW c \in Contents, replace_edges(fid, c)
  PROVE  StoreInv'
<1> USE DEF StoreInv
<1> DEFINE sentinels == {SentinelFor(n) : n \in Unknown(fid, c)}
           dropped == {e \in edges : e[1] \notin SymbolsOf(fid)}
<1>1. PICK dst \in Resolutions(fid, c) :
        /\ files' = IF sentinels = {} THEN files ELSE WithRow(Anchor, NoContent, 0)
        /\ symbols' = symbols \cup sentinels
        /\ unresolved' = unresolved \cup sentinels
        /\ edges' = dropped \cup {<< <<fid, x[1]>>, dst[x[2]] >> : x \in KeptCalls(fid, c)}
        /\ UNCHANGED meta
  BY DEF replace_edges
<1>2. \A s \in sentinels : s \in Symbol /\ s[1] = RowIdFor(Anchor)
  BY SentinelsTyped DEF SentinelFor
<1>3. \A x \in KeptCalls(fid, c) : <<fid, x[1]>> \in symbols
  BY DEF KeptCalls
<1>4. \A n \in Callees(fid, c) : dst[n] \in symbols \cup sentinels
  <2> SUFFICES ASSUME NEW n \in Callees(fid, c) PROVE dst[n] \in symbols \cup sentinels
    OBVIOUS
  <2>1. CASE n \in Unknown(fid, c)
    BY <2>1 DEF Resolutions
  <2>2. CASE n \notin Unknown(fid, c)
    BY <2>2 DEF Resolutions, Named
  <2> QED BY <2>1, <2>2
<1>5. dropped \subseteq edges
  OBVIOUS
<1>6. \A e \in edges' : \/ e \in edges
                        \/ /\ e = <<e[1], e[2]>>
                           /\ e[1] \in symbols
                           /\ e[2] \in symbols \cup sentinels
  <2>1. \A x \in KeptCalls(fid, c) : x[2] \in Callees(fid, c)
    BY DEF Callees
  <2> HIDE DEF sentinels, dropped
  <2> QED BY <1>1, <1>3, <1>4, <1>5, <2>1
<1>7. CASE sentinels = {}
  <2>1. files' = files /\ symbols' = symbols /\ unresolved' = unresolved
    BY <1>1, <1>7
  <2>2. \A e \in edges' : e \in edges \/ (e = <<e[1], e[2]>> /\ e[1] \in symbols /\ e[2] \in symbols)
    BY <1>6, <1>7
  <2>3. StoreTypeOK'
    BY <1>1, <2>1, <2>2 DEF StoreTypeOK
  <2>4. RowIds' = RowIds /\ IdsBounded'
    BY <2>1 DEF RowIds, IdsBounded
  <2>5. RefIntegrity' /\ SentinelsAnchored'
    BY <2>1, <2>2, <2>4 DEF RefIntegrity, SentinelsAnchored
  <2> QED BY <2>3, <2>4, <2>5
<1>8. CASE sentinels # {}
  <2> HIDE DEF sentinels, dropped
  <2>1. /\ DOMAIN files' = DOMAIN files \cup {Anchor}
        /\ files' \in [DOMAIN files' -> Row]
        /\ \A q \in DOMAIN files : files'[q].id = files[q].id
        /\ files'[Anchor].id = RowIdFor(Anchor)
        /\ RowIds' = RowIds \cup {RowIdFor(Anchor)}
        /\ \A p, q \in DOMAIN files' : files'[p].id = files'[q].id => p = q
        /\ IdsBounded'
    <3>1. Anchor \in RowPaths /\ NoContent \in Contents \cup {NoContent} /\ 0 \in Nat
      BY DEF RowPaths
    <3>2. files' = WithRow(Anchor, NoContent, 0)
      BY <1>1, <1>8
    <3> QED BY <3>1, <3>2, WithRowKeepsIds
  <2>2. StoreTypeOK'
    <3>1. symbols' \subseteq Symbol /\ unresolved' \subseteq Symbol
      BY <1>1, <1>2 DEF StoreTypeOK
    <3>2. edges' \subseteq Symbol \X Symbol
      BY <1>1, <1>6, <3>1 DEF StoreTypeOK
    <3> QED BY <1>1, <2>1, <3>1, <3>2 DEF StoreTypeOK, RowPaths
  <2>3. RefIntegrity'
    <3>1. \A s \in symbols' : s[1] \in RowIds'
      BY <1>1, <1>2, <2>1 DEF RefIntegrity
    <3>2. \A e \in edges' : e[1] \in symbols' /\ e[2] \in symbols'
      BY <1>1, <1>6 DEF RefIntegrity
    <3> QED BY <1>1, <2>1, <3>1, <3>2 DEF RefIntegrity
  <2>4. SentinelsAnchored'
    <3>1. \A s \in unresolved : s[1] = files'[Anchor].id
      BY <2>1 DEF SentinelsAnchored
    <3> QED BY <1>1, <1>2, <2>1, <3>1 DEF SentinelsAnchored
  <2> QED BY <2>1, <2>2, <2>3, <2>4
<1> QED BY <1>7, <1>8

LEMMA touch_mtimeKeeps ==
  ASSUME StoreInv, NEW path, NEW mtime \in Nat, touch_mtime(path, mtime)
  PROVE  StoreInv'
<1> USE DEF StoreInv
<1>1. CASE path \in DOMAIN files
  <2> DEFINE row == [files[path] EXCEPT !.mtime = mtime]
  <2>1. files' = [files EXCEPT ![path] = row]
    BY <1>1 DEF touch_mtime
  <2>2. row \in Row /\ row.id = files[path].id
    BY <1>1 DEF StoreTypeOK, Row
  <2> HIDE DEF row
  <2>3. /\ DOMAIN files' = DOMAIN files
        /\ files' \in [DOMAIN files -> Row]
        /\ \A q \in DOMAIN files : files'[q].id = files[q].id
    BY <1>1, <2>1, <2>2 DEF StoreTypeOK
  <2>4. RowIds' = RowIds
    BY <2>3 DEF RowIds
  <2>5. IdsBounded'
    BY <2>4 DEF IdsBounded
  <2>6. UNCHANGED <<symbols, edges, unresolved, meta>>
    BY DEF touch_mtime
  <2>7. StoreTypeOK'
    BY <2>3, <2>6 DEF StoreTypeOK
  <2>8. RefIntegrity'
    BY <2>3, <2>4, <2>6 DEF RefIntegrity
  <2>9. SentinelsAnchored'
    BY <2>3, <2>6 DEF SentinelsAnchored
  <2> QED BY <2>5, <2>7, <2>8, <2>9
<1>2. CASE path \notin DOMAIN files
  <2>1. UNCHANGED store
    BY <1>2 DEF touch_mtime, store
  <2> QED BY <2>1 DEF store, StoreTypeOK, IdsBounded, RowIds, RefIntegrity, SentinelsAnchored
<1> QED BY <1>1, <1>2

\* The cascade of a deleted file row: what stays has its row.
LEMMA delete_fileKeeps ==
  ASSUME StoreInv, NEW path, delete_file(path)
  PROVE  StoreInv'
<1> USE DEF StoreInv
<1>1. CASE path \in DOMAIN files /\ path # Anchor
  <2> DEFINE gone == SymbolsOf(files[path].id)
  <2>1. /\ files' = [q \in DOMAIN files \ {path} |-> files[q]]
        /\ symbols' = symbols \ gone
        /\ edges' = {e \in edges : e[1] \notin gone /\ e[2] \notin gone}
        /\ unresolved' = unresolved \ gone
        /\ UNCHANGED meta
    BY <1>1 DEF delete_file, CascadeSymbols
  <2>2. /\ DOMAIN files' = DOMAIN files \ {path}
        /\ \A q \in DOMAIN files' : files'[q] = files[q]
        /\ files' \in [DOMAIN files' -> Row]
    BY <2>1 DEF StoreTypeOK
  <2>3. RowIds' \subseteq RowIds
    BY <2>2 DEF RowIds
  <2>4. \A s \in symbols \ gone : s[1] \in RowIds'
    <3> SUFFICES ASSUME NEW s \in symbols \ gone PROVE s[1] \in RowIds'
      OBVIOUS
    <3>1. PICK q \in DOMAIN files : s[1] = files[q].id
      BY DEF RefIntegrity, RowIds
    <3>2. q # path
      BY <3>1 DEF SymbolsOf
    <3> QED BY <2>2, <3>1, <3>2 DEF RowIds
  <2> HIDE DEF gone
  <2>5. IdsBounded'
    BY <2>3 DEF IdsBounded
  <2>6. StoreTypeOK'
    BY <2>1, <2>2 DEF StoreTypeOK
  <2>7. RefIntegrity'
    BY <2>1, <2>2, <2>4 DEF RefIntegrity
  <2>8. SentinelsAnchored'
    BY <1>1, <2>1, <2>2 DEF SentinelsAnchored
  <2> QED BY <2>5, <2>6, <2>7, <2>8
<1>2. CASE ~(path \in DOMAIN files /\ path # Anchor)
  <2>1. UNCHANGED store
    BY <1>2 DEF delete_file, store, tables
  <2> QED BY <2>1 DEF store, StoreTypeOK, IdsBounded, RowIds, RefIntegrity, SentinelsAnchored
<1> QED BY <1>1, <1>2

\* The empty tables, whatever the flags.
LEMMA EmptyStoreInv ==
  ASSUME EmptyStore
  PROVE  StoreInv
<1>0. files = NoRows /\ symbols = {} /\ edges = {} /\ unresolved = {} /\ meta \in Meta
  BY DEF EmptyStore, Meta
<1>1. DOMAIN files = {}
  BY <1>0 DEF NoRows
<1>2. RowIds = {}
  BY <1>1 DEF RowIds
<1>3. files \in [DOMAIN files -> Row]
  BY <1>0, <1>1 DEF NoRows
<1>4. IdsBounded
  <2>1. 0 \in Nat /\ \A i \in RowIds : i <= 0
    BY <1>2
  <2> QED BY <2>1 DEF IdsBounded
<1> QED BY <1>0, <1>1, <1>2, <1>3, <1>4
    DEF StoreInv, StoreTypeOK, RefIntegrity, SentinelsAnchored

LEMMA EmptiedTables ==
  ASSUME files' = NoRows, symbols' = {}, edges' = {}, unresolved' = {}, meta' \in Meta
  PROVE  StoreInv'
<1>1. DOMAIN files' = {} /\ files' \in [DOMAIN files' -> Row]
  BY DEF NoRows
<1>2. RowIds' = {}
  BY <1>1 DEF RowIds
<1>3. IdsBounded'
  <2>1. 0 \in Nat /\ \A i \in RowIds' : i <= 0
    BY <1>2
  <2> QED BY <2>1 DEF IdsBounded
<1> QED BY <1>1, <1>2, <1>3
    DEF StoreInv, StoreTypeOK, RefIntegrity, SentinelsAnchored

LEMMA clear_allKeeps ==
  ASSUME StoreInv, clear_all
  PROVE  StoreInv'
<1>1. files' = NoRows /\ symbols' = {} /\ unresolved' = {} /\ meta' \in Meta
  BY DEF clear_all, CascadeSymbols, StoreInv, StoreTypeOK, RefIntegrity
<1>2. edges' = {}
  BY DEF clear_all, CascadeSymbols, StoreInv, RefIntegrity
<1> QED BY <1>1, <1>2, EmptiedTables

LEMMA fresh_dbKeeps ==
  ASSUME fresh_db
  PROVE  StoreInv'
BY EmptiedTables DEF fresh_db, Meta

LEMMA meta_setKeeps ==
  ASSUME StoreInv, NEW key \in {"edges_populated", "schema_v4_built"}, meta_set(key)
  PROVE  StoreInv'
<1>1. UNCHANGED <<files, symbols, edges, unresolved>> /\ meta' \in Meta
  BY DEF meta_set, tables, StoreInv, StoreTypeOK, Meta
<1> QED BY <1>1
    DEF StoreInv, StoreTypeOK, IdsBounded, RowIds, RefIntegrity, SentinelsAnchored

LEMMA UnchangedKeeps ==
  ASSUME StoreInv, UNCHANGED store
  PROVE  StoreInv'
BY DEF store, StoreInv, StoreTypeOK, IdsBounded, RowIds, RefIntegrity, SentinelsAnchored

-----------------------------------------------------------------------------
(* What each transaction leaves of the other files.                        *)

EdgesFrom(i) == {d \in edges : d[1][1] = i}

SameRows(D) == \A f \in D : f \in DOMAIN files' /\ files'[f] = files[f]

LEMMA upsert_fileOthers ==
  ASSUME StoreInv, NEW path \in Paths, NEW sha \in Contents, NEW mtime \in Nat,
         upsert_file(path, sha, mtime)
  PROVE  /\ DOMAIN files' = DOMAIN files \cup {path}
         /\ SameRows(DOMAIN files \ {path})
         /\ files'[path].id = RowIdFor(path)
         /\ files'[path].sha = sha /\ files'[path].mtime = mtime
         /\ path \in DOMAIN files => files'[path].id = files[path].id
         /\ path \notin DOMAIN files => SymbolsOf(RowIdFor(path)) = {}
         /\ UNCHANGED <<symbols, edges>>
<1> DEFINE new == [id |-> RowIdFor(path), sha |-> sha, mtime |-> mtime]
<1>0. new.id = RowIdFor(path) /\ new.sha = sha /\ new.mtime = mtime
  OBVIOUS
<1>1. files' = [q \in DOMAIN files \cup {path} |-> IF q = path THEN new ELSE files[q]]
  BY DEF upsert_file, WithRow
<1> HIDE DEF new
<1>2. /\ DOMAIN files' = DOMAIN files \cup {path} /\ files'[path] = new
      /\ \A q \in DOMAIN files \ {path} : files'[q] = files[q]
  BY <1>1
<1>3. path \in DOMAIN files => RowIdFor(path) = files[path].id
  BY DEF RowIdFor
<1>4. ASSUME path \notin DOMAIN files PROVE SymbolsOf(RowIdFor(path)) = {}
  <2>1. RowIdFor(path) = NextRowId /\ \A i \in RowIds : i < NextRowId
    BY <1>4, NextRowIdFresh DEF RowIdFor, StoreInv
  <2>2. NextRowId \notin RowIds
    <3>1. NextRowId \in Nat
      BY NextRowIdFresh DEF RowId, StoreInv
    <3> QED BY <2>1, <3>1
  <2> QED BY <2>1, <2>2 DEF SymbolsOf, StoreInv, RefIntegrity
<1> QED BY <1>0, <1>2, <1>3, <1>4 DEF SameRows, upsert_file

LEMMA replace_symbolsOthers ==
  ASSUME StoreInv, NEW fid, NEW c \in Contents, replace_symbols(fid, c)
  PROVE  /\ UNCHANGED files
         /\ SymbolsOf(fid)' = {<<fid, n>> : n \in Defs[c]}
         /\ \A i : i # fid => SymbolsOf(i)' = SymbolsOf(i)
         /\ edges' \subseteq edges
         /\ EdgesFrom(fid)' = {}
         /\ SymbolsOf(fid) = {} => edges' = edges
<1> DEFINE new == {<<fid, n>> : n \in Defs[c]}
<1>1. /\ symbols' = (symbols \ SymbolsOf(fid)) \cup new
      /\ edges' = {e \in edges : e[1] \notin SymbolsOf(fid) /\ e[2] \notin SymbolsOf(fid)}
      /\ UNCHANGED files
  BY DEF replace_symbols
<1>2. \A s \in new : s[1] = fid
  OBVIOUS
<1> HIDE DEF new
<1>3. SymbolsOf(fid)' = new
  BY <1>1, <1>2 DEF SymbolsOf
<1>4. ASSUME NEW i, i # fid PROVE SymbolsOf(i)' = SymbolsOf(i)
  BY <1>1, <1>2, <1>4 DEF SymbolsOf
<1>5. EdgesFrom(fid)' = {}
  <2>1. \A e \in edges : e[1] \in symbols
    BY DEF StoreInv, RefIntegrity
  <2> QED BY <1>1, <2>1 DEF EdgesFrom, SymbolsOf
<1>6. SymbolsOf(fid) = {} => edges' = edges
  BY <1>1
<1> QED BY <1>1, <1>3, <1>4, <1>5, <1>6 DEF new

LEMMA replace_edgesOthers ==
  ASSUME StoreInv, NEW path \in list_files, NEW fid, fid = files[path].id,
         NEW c \in Contents, replace_edges(fid, c)
  PROVE  /\ list_files' = list_files
         /\ SameRows(list_files)
         /\ \A f \in list_files : SymbolsOf(files[f].id)' = SymbolsOf(files[f].id)
         /\ \A i : i # fid => EdgesFrom(i)' = EdgesFrom(i)
         /\ {<<e[1][2], e[2][2]>> : e \in EdgesFrom(fid)'} = KeptCalls(fid, c)
<1> DEFINE sentinels == {SentinelFor(n) : n \in Unknown(fid, c)}
           new(dst)  == {<< <<fid, x[1]>>, dst[x[2]] >> : x \in KeptCalls(fid, c)}
<1>1. PICK dst \in Resolutions(fid, c) :
        /\ files' = IF sentinels = {} THEN files ELSE WithRow(Anchor, NoContent, 0)
        /\ symbols' = symbols \cup sentinels
        /\ edges' = {e \in edges : e[1] \notin SymbolsOf(fid)} \cup new(dst)
  BY DEF replace_edges
<1>2. \A n \in Callees(fid, c) : dst[n][2] = n
  <2> SUFFICES ASSUME NEW n \in Callees(fid, c) PROVE dst[n][2] = n
    OBVIOUS
  <2>1. dst[n] = SentinelFor(n) \/ dst[n] \in Named(n)
    BY DEF Resolutions
  <2> QED BY <2>1 DEF SentinelFor, Named
<1>3. \A f \in list_files : files[f].id # RowIdFor(Anchor)
  <2>1. CASE Anchor \in DOMAIN files
    BY <2>1 DEF RowIdFor, list_files, StoreInv, RefIntegrity
  <2>2. CASE Anchor \notin DOMAIN files
    <3>1. RowIdFor(Anchor) = NextRowId /\ NextRowId \in Nat /\ \A i \in RowIds : i < NextRowId
      BY <2>2, NextRowIdFresh DEF RowIdFor, RowId, StoreInv
    <3>2. \A f \in list_files : files[f].id \in RowIds
      BY DEF RowIds, list_files
    <3> QED BY <3>1, <3>2
  <2> QED BY <2>1, <2>2
<1>4. list_files' = list_files /\ \A f \in list_files : f \in DOMAIN files' /\ files'[f] = files[f]
  <2>1. CASE sentinels = {}
    BY <1>1, <2>1 DEF list_files
  <2>2. CASE sentinels # {}
    <3>1. files' = WithRow(Anchor, NoContent, 0)
      BY <1>1, <2>2
    <3>2. /\ DOMAIN files' = DOMAIN files \cup {Anchor}
          /\ \A q \in DOMAIN files \ {Anchor} : files'[q] = files[q]
      BY <3>1 DEF WithRow
    <3> QED BY <3>2 DEF list_files
  <2> QED BY <2>1, <2>2
<1>5. \A s \in sentinels : s[1] = RowIdFor(Anchor)
  BY DEF SentinelFor
<1> HIDE DEF sentinels
<1>6. \A f \in list_files : SymbolsOf(files[f].id)' = SymbolsOf(files[f].id)
  <2> SUFFICES ASSUME NEW f \in list_files PROVE SymbolsOf(files[f].id)' = SymbolsOf(files[f].id)
    OBVIOUS
  <2>1. files'[f].id = files[f].id /\ files[f].id # RowIdFor(Anchor)
    BY <1>3, <1>4
  <2> QED BY <1>1, <1>5, <2>1 DEF SymbolsOf
<1>7. \A e \in new(dst) : e[1][1] = fid
  OBVIOUS
<1>8. \A e \in edges : e[1][1] = fid => e[1] \in SymbolsOf(fid)
  BY DEF StoreInv, RefIntegrity, SymbolsOf
<1>9. {<<e[1][2], e[2][2]>> : e \in new(dst)} = KeptCalls(fid, c)
  <2>1. \A x \in KeptCalls(fid, c) : x = <<x[1], x[2]>> /\ dst[x[2]][2] = x[2]
    <3>1. \A x \in KeptCalls(fid, c) : x \in Names \X Names
      BY StoreAssumption DEF KeptCalls
    <3>2. \A x \in KeptCalls(fid, c) : x[2] \in Callees(fid, c)
      BY DEF Callees
    <3> QED BY <3>1, <3>2, <1>2
  <2> HIDE DEF new
  <2>2. ASSUME NEW e \in new(dst) PROVE <<e[1][2], e[2][2]>> \in KeptCalls(fid, c)
    <3>1. PICK x \in KeptCalls(fid, c) : e = << <<fid, x[1]>>, dst[x[2]] >>
      BY DEF new
    <3> QED BY <3>1, <2>1
  <2>3. ASSUME NEW x \in KeptCalls(fid, c)
        PROVE  \E e \in new(dst) : x = <<e[1][2], e[2][2]>>
    <3>1. << <<fid, x[1]>>, dst[x[2]] >> \in new(dst)
      BY DEF new
    <3> QED BY <2>1, <3>1
  <2> QED BY <2>2, <2>3
<1> HIDE DEF new
<1>10. EdgesFrom(fid)' = new(dst)
  BY <1>1, <1>7, <1>8 DEF EdgesFrom
<1>11. \A i : i # fid => EdgesFrom(i)' = EdgesFrom(i)
  <2> SUFFICES ASSUME NEW i, i # fid PROVE EdgesFrom(i)' = EdgesFrom(i)
    OBVIOUS
  <2>1. \A e \in edges : e[1][1] = i => e[1] \notin SymbolsOf(fid)
    BY DEF SymbolsOf
  <2> QED BY <1>1, <1>7, <2>1 DEF EdgesFrom
<1> QED BY <1>4, <1>6, <1>9, <1>10, <1>11 DEF SameRows

LEMMA touch_mtimeOthers ==
  ASSUME StoreInv, NEW path, NEW mtime, touch_mtime(path, mtime)
  PROVE  /\ DOMAIN files' = DOMAIN files
         /\ SameRows(DOMAIN files \ {path})
         /\ \A f \in DOMAIN files : files'[f].id = files[f].id /\ files'[f].sha = files[f].sha
         /\ path \in DOMAIN files => files'[path].mtime = mtime
         /\ UNCHANGED <<symbols, edges>>
BY DEF touch_mtime, SameRows, StoreInv, StoreTypeOK, Row

LEMMA delete_fileOthers ==
  ASSUME StoreInv, NEW path, delete_file(path)
  PROVE  /\ DOMAIN files' = DOMAIN files \ ({path} \ {Anchor}) /\ SameRows(DOMAIN files')
         /\ \A f \in DOMAIN files' : SymbolsOf(files[f].id)' = SymbolsOf(files[f].id)
         /\ edges' \subseteq edges
<1>1. CASE path \in DOMAIN files /\ path # Anchor
  <2>1. /\ DOMAIN files' = DOMAIN files \ {path}
        /\ \A q \in DOMAIN files' : files'[q] = files[q]
        /\ symbols' = symbols \ SymbolsOf(files[path].id)
        /\ edges' \subseteq edges
    BY <1>1 DEF delete_file, CascadeSymbols
  <2>2. \A f \in DOMAIN files' : SymbolsOf(files[f].id)' = SymbolsOf(files[f].id)
    <3> SUFFICES ASSUME NEW f \in DOMAIN files'
                 PROVE  SymbolsOf(files[f].id)' = SymbolsOf(files[f].id)
      OBVIOUS
    <3>1. files'[f].id = files[f].id /\ files[f].id # files[path].id
      BY <1>1, <2>1 DEF StoreInv, RefIntegrity
    <3> QED BY <2>1, <3>1 DEF SymbolsOf
  <2>3. DOMAIN files' = DOMAIN files \ ({path} \ {Anchor}) /\ DOMAIN files' \subseteq DOMAIN files
    BY <1>1, <2>1
  <2> QED BY <2>1, <2>2, <2>3 DEF SameRows
<1>2. CASE ~(path \in DOMAIN files /\ path # Anchor)
  BY <1>2 DEF delete_file, tables, SameRows, SymbolsOf
<1> QED BY <1>1, <1>2

-----------------------------------------------------------------------------
(* The indexing processes.                                                 *)

Snapshots == UNION {[D -> Row] : D \in SUBSET RowPaths}
Extract   == [sha : Contents \ Unindexable, mtime : Nat \cup {NoMtime}]
Extracts  == UNION {[D -> Extract] : D \in SUBSET Paths}
FileWrite == [path : RowPaths, sha : Contents \cup {NoContent}, mtime : Nat, fid : Nat]
Process   ==
  [pc : Stages, job : Commands \cup {"idle"}, phase : {"none", "wipe", "build", "refresh"},
   todo : SUBSET Paths, snap : Snapshots, seen : SUBSET Paths, ext : Extracts, cur : FileWrite,
   removed : SUBSET RowPaths, pending : BOOLEAN, stale : SUBSET Paths]

EnvTypeOK ==
  /\ disk \in [Paths -> Contents \cup {NoContent}]
  /\ now \in Nat
  /\ written \in [Paths -> 0..now]
  /\ failures \in 0..MaxFailures

\* A process at work on a file knows its path, and in the middle of the
\* file's three transactions it holds a real text.
InFile(x) ==
  /\ x.pc \in {"read", "touch", "upsert", "symbols", "edges"} => x.cur.path \in Paths
  /\ x.pc \in {"upsert", "symbols", "edges"} => x.cur.sha \in Contents

ProcessesOK == ix \in [Indexers -> Process] /\ \A p \in Indexers : InFile(ix[p])

IInv == EnvTypeOK /\ ProcessesOK /\ StoreInv

-----------------------------------------------------------------------------
LEMMA IdleTyped == Idle \in Process /\ [Idle EXCEPT !.pc = "orphan"] \in Process
                   /\ InFile(Idle) /\ InFile([Idle EXCEPT !.pc = "orphan"])
<1>1. NoRows \in Snapshots /\ NoRows \in Extracts
  <2>1. NoRows \in [{} -> Row] /\ NoRows \in [{} -> Extract]
    BY DEF NoRows
  <2> HIDE DEF NoRows, Row, Extract
  <2> QED BY <2>1 DEF Snapshots, Extracts
<1>2. NoFile \in FileWrite
  BY DEF NoFile, FileWrite, RowPaths
<1> HIDE DEF NoFile, FileWrite, NoRows, Snapshots, Extracts
<1> QED BY <1>1, <1>2 DEF Idle, Process, Stages, InFile

\* Changing one process changes nothing for the others.
LEMMA OneProcess ==
  ASSUME ProcessesOK, NEW p \in Indexers, NEW x \in Process, InFile(x),
         ix' = [ix EXCEPT ![p] = x]
  PROVE  ProcessesOK'
BY DEF ProcessesOK

\* A jump to a stage that is not in the middle of a file.
LEMMA GotoKeeps ==
  ASSUME ProcessesOK, NEW p \in Indexers,
         NEW l \in Stages \ {"read", "touch", "upsert", "symbols", "edges"}, Goto(p, l)
  PROVE  ProcessesOK'
<1> DEFINE x == [ix[p] EXCEPT !.pc = l]
<1>1. ix[p] \in Process
  BY DEF ProcessesOK
<1>2. x \in Process /\ InFile(x)
  BY <1>1 DEF Process, InFile
<1>3. ix' = [ix EXCEPT ![p] = x]
  BY DEF Goto
<1> HIDE DEF x
<1> QED BY <1>2, <1>3, OneProcess

LEMMA EnvUnchanged ==
  ASSUME EnvTypeOK, UNCHANGED <<env, failures>>
  PROVE  EnvTypeOK'
BY DEF EnvTypeOK, env

\* Steps that leave the store and the tree alone.
LEMMA OnlyProcess ==
  ASSUME IInv, ProcessesOK', UNCHANGED <<store, env, failures>>
  PROVE  IInv'
<1>1. EnvTypeOK'
  BY EnvUnchanged DEF IInv
<1>2. StoreInv'
  BY UnchangedKeeps DEF IInv
<1> QED BY <1>1, <1>2 DEF IInv

-----------------------------------------------------------------------------
(* The user.                                                               *)

LEMMA EditKeeps ==
  ASSUME IInv, NEW f \in Paths, NEW c \in Contents \cup {NoContent}, Edit(f, c)
  PROVE  IInv'
<1>1. PICK t \in {now, now + 1} : now' = t /\ written' = [written EXCEPT ![f] = t]
  BY DEF Edit
<1>2. now \in Nat /\ now' \in Nat /\ now <= now' /\ written \in [Paths -> 0..now]
  BY <1>1 DEF IInv, EnvTypeOK
<1>3. written' \in [Paths -> 0..now']
  <2>1. \A g \in Paths : written[g] \in 0..now'
    BY <1>2
  <2> QED BY <1>1, <1>2, <2>1
<1>4. EnvTypeOK'
  BY <1>2, <1>3 DEF IInv, EnvTypeOK, Edit
<1>5. ProcessesOK'
  <2>1. ix' = Noticed(f)
    BY DEF Edit
  <2>2. \A p \in Indexers : ix[p] \in Process /\ InFile(ix[p])
    BY DEF IInv, ProcessesOK
  <2> DEFINE n(p) == [ix[p] EXCEPT !.stale = @ \cup {f},
                        !.pending = (ix[p].job = "watch" /\ ix[p].phase = "refresh")]
  <2>3. ASSUME NEW p \in Indexers PROVE n(p) \in Process /\ InFile(n(p))
    <3>1. ix[p] \in Process /\ InFile(ix[p])
      BY <2>2
    <3>2. (ix[p].job = "watch" /\ ix[p].phase = "refresh") \in BOOLEAN
      OBVIOUS
    <3>3. ix[p].stale \cup {f} \in SUBSET Paths
      BY <3>1 DEF Process
    <3> QED BY <3>1, <3>2, <3>3 DEF Process, InFile
  <2>4. ix' = [p \in Indexers |-> IF ix[p].pc \in {"idle", "orphan"} THEN ix[p] ELSE n(p)]
    BY <2>1 DEF Noticed
  <2> HIDE DEF n
  <2> QED BY <2>2, <2>3, <2>4 DEF ProcessesOK
<1>6. StoreInv'
  BY UnchangedKeeps DEF IInv, Edit
<1> QED BY <1>4, <1>5, <1>6 DEF IInv

-----------------------------------------------------------------------------
(* Starting and ending a command.                                          *)

LEMMA StartKeeps ==
  ASSUME IInv, NEW p \in Indexers, Start(p)
  PROVE  IInv'
<1>0. PICK job \in Commands : StartCli(p, job) \/ WipeAndRebuild(p, job) \/ StartMcp(p, job)
  BY DEF Start
<1> DEFINE ready == [Idle EXCEPT !.pc = "ready", !.job = job]
           wipe  == [Idle EXCEPT !.pc = "extract", !.job = job, !.phase = "wipe",
                                 !.todo = {f \in Paths : disk[f] # NoContent}]
<1>1. Idle \in Process
  BY IdleTyped
<1>2. ready \in Process /\ InFile(ready)
  BY <1>1 DEF Process, Stages, InFile
<1>3. wipe \in Process /\ InFile(wipe)
  BY <1>1 DEF Process, Stages, InFile
<1> HIDE DEF ready, wipe
<1>4. CASE StartCli(p, job) \/ StartMcp(p, job)
  <2>1. ix' = [ix EXCEPT ![p] = ready] /\ UNCHANGED <<store, env, failures>>
    BY <1>4 DEF StartCli, StartMcp, ready
  <2> QED BY <2>1, <1>2, OneProcess, OnlyProcess DEF IInv
<1>5. CASE WipeAndRebuild(p, job)
  <2>1. /\ ix' = [Orphaned EXCEPT ![p] = wipe]
        /\ fresh_db
        /\ UNCHANGED <<env, failures>>
    BY <1>5 DEF WipeAndRebuild, wipe
  <2>2. /\ Orphaned \in [Indexers -> Process]
        /\ \A q \in Indexers : InFile(Orphaned[q])
    <3> DEFINE o == [Idle EXCEPT !.pc = "orphan"]
    <3>1. o \in Process /\ InFile(o)
      BY IdleTyped
    <3>2. Orphaned = [q \in Indexers |-> IF ix[q].pc = "idle" THEN ix[q] ELSE o]
      BY DEF Orphaned
    <3> HIDE DEF o
    <3> QED BY <3>1, <3>2 DEF IInv, ProcessesOK
  <2>3. ProcessesOK'
    BY <2>1, <2>2, <1>3 DEF ProcessesOK
  <2>4. StoreInv' /\ EnvTypeOK'
    BY <2>1, fresh_dbKeeps, EnvUnchanged DEF IInv
  <2> QED BY <2>3, <2>4 DEF IInv
<1> QED BY <1>0, <1>4, <1>5

LEMMA ExitKeeps ==
  ASSUME IInv, NEW p \in Indexers, Exit(p)
  PROVE  IInv'
BY IdleTyped, OneProcess, OnlyProcess DEF Exit, IInv

LEMMA GiveUpKeeps ==
  ASSUME ProcessesOK, NEW p \in Indexers, GiveUp(p)
  PROVE  ProcessesOK'
<1> DEFINE x == [ix[p] EXCEPT !.pc = "watch"]
<1>1. ix[p] \in Process
  BY DEF ProcessesOK
<1>2. x \in Process /\ InFile(x)
  BY <1>1 DEF Process, Stages, InFile
<1>3. ix' = [ix EXCEPT ![p] = x] \/ ix' = [ix EXCEPT ![p] = Idle]
  BY DEF GiveUp
<1> HIDE DEF x
<1> QED BY <1>2, <1>3, IdleTyped, OneProcess

LEMMA FailureKeeps ==
  ASSUME IInv, NEW p \in Indexers, Error(p) \/ Crash(p)
  PROVE  IInv'
<1>1. EnvTypeOK'
  BY IndexerAssumption DEF Error, Crash, IInv, EnvTypeOK, env
<1>2. ProcessesOK'
  BY GiveUpKeeps, IdleTyped, OneProcess DEF Error, Crash, IInv
<1>3. StoreInv'
  BY UnchangedKeeps DEF Error, Crash, IInv
<1> QED BY <1>1, <1>2, <1>3 DEF IInv

-----------------------------------------------------------------------------
(* full_index.                                                             *)

\* Adding, changing or taking one entry of a partial function keeps its type.
LEMMA ExtractsClosed ==
  ASSUME NEW e \in Extracts, NEW f \in Paths, NEW v \in Extract
  PROVE  /\ DOMAIN e \subseteq Paths /\ \A q \in DOMAIN e : e[q] \in Extract
         /\ [q \in DOMAIN e \cup {f} |-> IF q = f THEN v ELSE e[q]] \in Extracts
         /\ [q \in DOMAIN e \ {f} |-> e[q]] \in Extracts
         /\ f \in DOMAIN e => [e EXCEPT ![f] = v] \in Extracts
<1>1. PICK D \in SUBSET Paths : e \in [D -> Extract]
  BY DEF Extracts
<1>2. DOMAIN e \subseteq Paths /\ \A q \in DOMAIN e : e[q] \in Extract
  BY <1>1
<1>3. [q \in D \cup {f} |-> IF q = f THEN v ELSE e[q]] \in [D \cup {f} -> Extract]
  BY <1>1
<1>4. [q \in D \ {f} |-> e[q]] \in [D \ {f} -> Extract]
  BY <1>1
<1>5. [e EXCEPT ![f] = v] \in [D -> Extract]
  BY <1>1
<1>6. D = DOMAIN e /\ D \cup {f} \in SUBSET Paths /\ D \ {f} \in SUBSET Paths
  BY <1>1
<1> HIDE DEF Extract
<1> QED BY <1>2, <1>3, <1>4, <1>5, <1>6 DEF Extracts

LEMMA StartFullKeeps ==
  ASSUME IInv, NEW p \in Indexers, StartFull(p)
  PROVE  IInv'
<1> DEFINE x == [ix[p] EXCEPT !.pc = "extract", !.phase = "build", !.stale = {},
                              !.todo = {f \in Paths : disk[f] # NoContent}]
<1>1. ix[p] \in Process
  BY DEF IInv, ProcessesOK
<1>2. x \in Process /\ InFile(x)
  BY <1>1 DEF Process, Stages, InFile
<1>3. ix' = [ix EXCEPT ![p] = x] /\ clear_all /\ UNCHANGED <<env, failures>>
  BY DEF StartFull
<1> HIDE DEF x
<1> QED BY <1>2, <1>3, OneProcess, clear_allKeeps, EnvUnchanged DEF IInv

LEMMA ReadForBuildKeeps ==
  ASSUME IInv, NEW p \in Indexers, NEW f \in Paths, ReadForBuild(p, f)
  PROVE  IInv'
<1> DEFINE e == ix[p].ext
           v == [sha |-> disk[f], mtime |-> NoMtime]
           e2 == IF disk[f] \in Contents \ Unindexable
                   THEN [q \in DOMAIN e \cup {f} |-> IF q = f THEN v ELSE e[q]] ELSE e
           x == [ix[p] EXCEPT !.todo = @ \ {f}, !.ext = e2]
<1>1. ix[p] \in Process /\ InFile(ix[p]) /\ e \in Extracts
  BY DEF IInv, ProcessesOK, Process
<1>2. e2 \in Extracts
  <2>1. CASE disk[f] \in Contents \ Unindexable
    <3>1. v \in Extract
      BY <2>1 DEF Extract
    <3> HIDE DEF v, e
    <3> QED BY <2>1, <3>1, <1>1, ExtractsClosed
  <2>2. CASE disk[f] \notin Contents \ Unindexable
    BY <2>2, <1>1
  <2> QED BY <2>1, <2>2
<1>3. ix' = [ix EXCEPT ![p] = x] /\ UNCHANGED <<store, env, failures>>
  BY DEF ReadForBuild
<1>4. ix[p].todo \ {f} \in SUBSET Paths
  BY <1>1 DEF Process
<1> HIDE DEF e2
<1>5. x \in Process /\ InFile(x)
  BY <1>1, <1>2, <1>4 DEF Process, InFile
<1> HIDE DEF x
<1> QED BY <1>3, <1>5, OneProcess, OnlyProcess DEF IInv

LEMMA StatForBuildKeeps ==
  ASSUME IInv, NEW p \in Indexers, NEW f \in Paths, StatForBuild(p, f)
  PROVE  IInv'
<1> DEFINE e == ix[p].ext
           m == IF disk[f] = NoContent THEN 0 ELSE written[f]
           v == [e[f] EXCEPT !.mtime = m]
           e2 == [e EXCEPT ![f] = v]
           x == [ix[p] EXCEPT !.ext = e2]
<1>1. ix[p] \in Process /\ InFile(ix[p]) /\ e \in Extracts /\ f \in DOMAIN e
  BY DEF IInv, ProcessesOK, Process, StatForBuild
<1>2. m \in Nat
  BY DEF IInv, EnvTypeOK
<1>3. e[f] \in Extract
  <2> HIDE DEF e
  <2>1. NoMtime \in Nat \cup {NoMtime}
    OBVIOUS
  <2>2. PICK D \in SUBSET Paths : e \in [D -> Extract]
    BY <1>1 DEF Extracts
  <2> QED BY <1>1, <2>2
<1>4. v \in Extract
  BY <1>2, <1>3 DEF Extract
<1>5. e2 \in Extracts
  <2> HIDE DEF e, v
  <2> QED BY <1>1, <1>4, ExtractsClosed
<1>6. ix' = [ix EXCEPT ![p] = x] /\ UNCHANGED <<store, env, failures>>
  BY DEF StatForBuild
<1> HIDE DEF e2
<1>7. x \in Process /\ InFile(x)
  BY <1>1, <1>5 DEF Process, InFile
<1> HIDE DEF x
<1> QED BY <1>6, <1>7, OneProcess, OnlyProcess DEF IInv

LEMMA PickExtractedKeeps ==
  ASSUME IInv, NEW p \in Indexers, NEW f \in Paths, PickExtracted(p, f)
  PROVE  IInv'
<1> DEFINE e == ix[p].ext
           e2 == [q \in DOMAIN e \ {f} |-> e[q]]
           w == [path |-> f, sha |-> e[f].sha, mtime |-> e[f].mtime, fid |-> 0]
           x == [ix[p] EXCEPT !.pc = "upsert", !.ext = e2, !.cur = w]
<1>1. ix[p] \in Process /\ e \in Extracts /\ f \in DOMAIN e /\ e[f].mtime # NoMtime
  BY DEF IInv, ProcessesOK, Process, PickExtracted, Extracted
<1>2. e[f] \in Extract
  <2> HIDE DEF e
  <2>1. PICK D \in SUBSET Paths : e \in [D -> Extract]
    BY <1>1 DEF Extracts
  <2> QED BY <1>1, <2>1
<1>3. w \in FileWrite /\ w.sha \in Contents /\ w.path = f
  BY <1>1, <1>2 DEF Extract, FileWrite, RowPaths
<1>4. e2 \in Extracts
  <2> HIDE DEF e
  <2> QED BY <1>1, <1>2, ExtractsClosed
<1>5. ix' = [ix EXCEPT ![p] = x] /\ UNCHANGED <<store, env, failures>>
  BY DEF PickExtracted
<1> HIDE DEF e2, w
<1>6. x \in Process /\ InFile(x)
  BY <1>1, <1>3, <1>4 DEF Process, InFile, Stages
<1> HIDE DEF x
<1> QED BY <1>5, <1>6, OneProcess, OnlyProcess DEF IInv

LEMMA BuildKeeps ==
  ASSUME IInv, NEW p \in Indexers, Build(p)
  PROVE  IInv'
<1>1. CASE StartFull(p)
  BY <1>1, StartFullKeeps
<1>2. CASE ServeLookup(p) \/ EndWrites(p)
  <2>1. PICK l \in {"done", "flag"} : Goto(p, l) /\ UNCHANGED <<store, env, failures>>
    BY <1>2 DEF ServeLookup, EndWrites
  <2>2. l \in Stages \ {"read", "touch", "upsert", "symbols", "edges"}
    BY DEF Stages
  <2> QED BY <2>1, <2>2, GotoKeeps, OnlyProcess DEF IInv
<1>3. CASE FlagEdges(p) \/ MarkBuilt(p)
  <2>1. PICK l \in {"done", "mark", "ready"}, key \in {"edges_populated", "schema_v4_built"} :
          Goto(p, l) /\ meta_set(key) /\ UNCHANGED <<env, failures>>
    BY <1>3 DEF FlagEdges, MarkBuilt
  <2>2. l \in Stages \ {"read", "touch", "upsert", "symbols", "edges"}
    BY DEF Stages
  <2> QED BY <2>1, <2>2, GotoKeeps, meta_setKeeps, EnvUnchanged DEF IInv
<1>4. ASSUME NEW f \in Paths,
             ReadForBuild(p, f) \/ StatForBuild(p, f) \/ PickExtracted(p, f)
      PROVE  IInv'
  BY <1>4, ReadForBuildKeeps, StatForBuildKeeps, PickExtractedKeeps
<1> QED BY <1>1, <1>2, <1>3, <1>4 DEF Build

-----------------------------------------------------------------------------
(* refresh_delta.                                                          *)

LEMMA StartRefreshKeeps ==
  ASSUME IInv, NEW p \in Indexers, StartRefresh(p)
  PROVE  IInv'
<1> DEFINE x == [ix[p] EXCEPT !.pc = "walk", !.phase = "refresh", !.pending = FALSE,
                              !.snap = files, !.todo = Paths, !.seen = {},
                              !.removed = {}, !.stale = {}]
<1>1. ix[p] \in Process
  BY DEF IInv, ProcessesOK
<1>2. files \in Snapshots
  <2> HIDE DEF Row
  <2> QED BY DEF Snapshots, IInv, StoreInv, StoreTypeOK
<1>3. x \in Process /\ InFile(x)
  BY <1>1, <1>2 DEF Process, Stages, InFile
<1>4. ix' = [ix EXCEPT ![p] = x] /\ UNCHANGED <<store, env, failures>>
  BY DEF StartRefresh
<1> HIDE DEF x
<1> QED BY <1>3, <1>4, OneProcess, OnlyProcess DEF IInv

LEMMA VisitKeeps ==
  ASSUME IInv, NEW p \in Indexers, NEW f \in Paths,
         VisitGone(p, f) \/ VisitUnchanged(p, f) \/ VisitChanged(p, f)
  PROVE  IInv'
<1>1. /\ ix[p] \in Process /\ InFile(ix[p])
      /\ ix[p].todo \ {f} \in SUBSET Paths /\ ix[p].seen \cup {f} \in SUBSET Paths
  BY DEF IInv, ProcessesOK, Process
<1>2. CASE VisitGone(p, f)
  <2> DEFINE x == [ix[p] EXCEPT !.todo = @ \ {f}]
  <2>1. x \in Process /\ InFile(x)
    BY <1>1 DEF Process, InFile
  <2>2. ix' = [ix EXCEPT ![p] = x] /\ UNCHANGED <<store, env, failures>>
    BY <1>2 DEF VisitGone
  <2> HIDE DEF x
  <2> QED BY <2>1, <2>2, OneProcess, OnlyProcess DEF IInv
<1>3. CASE VisitUnchanged(p, f)
  <2> DEFINE x == [ix[p] EXCEPT !.todo = @ \ {f}, !.seen = @ \cup {f}]
  <2>1. x \in Process /\ InFile(x)
    BY <1>1 DEF Process, InFile
  <2>2. ix' = [ix EXCEPT ![p] = x] /\ UNCHANGED <<store, env, failures>>
    BY <1>3 DEF VisitUnchanged
  <2> HIDE DEF x
  <2> QED BY <2>1, <2>2, OneProcess, OnlyProcess DEF IInv
<1>4. CASE VisitChanged(p, f)
  <2> DEFINE w == [NoFile EXCEPT !.path = f, !.mtime = written[f]]
             x == [ix[p] EXCEPT !.todo = @ \ {f}, !.seen = @ \cup {f}, !.pc = "read", !.cur = w]
  <2>1. w \in FileWrite /\ w.path = f
    <3>1. written[f] \in Nat
      BY DEF IInv, EnvTypeOK
    <3> QED BY <3>1 DEF FileWrite, NoFile, RowPaths
  <2>2. ix' = [ix EXCEPT ![p] = x] /\ UNCHANGED <<store, env, failures>>
    BY <1>4 DEF VisitChanged
  <2> HIDE DEF w
  <2>3. x \in Process /\ InFile(x)
    BY <1>1, <2>1 DEF Process, InFile, Stages
  <2> HIDE DEF x
  <2> QED BY <2>2, <2>3, OneProcess, OnlyProcess DEF IInv
<1> QED BY <1>2, <1>3, <1>4

LEMMA ReadChangedKeeps ==
  ASSUME IInv, NEW p \in Indexers, ReadChanged(p)
  PROVE  IInv'
<1> DEFINE f == ix[p].cur.path
           w == [ix[p].cur EXCEPT !.sha = disk[f]]
<1>1. ix[p] \in Process /\ ix[p].cur \in FileWrite /\ f \in Paths
  BY DEF IInv, ProcessesOK, Process, InFile, ReadChanged
<1>2. PICK l \in {"touch", "upsert", "walk"} :
        /\ l = "upsert" => disk[f] \in Contents
        /\ ix' = [ix EXCEPT ![p].cur.sha = disk[f], ![p].pc = l]
        /\ UNCHANGED <<store, env, failures>>
  BY DEF ReadChanged
<1> DEFINE x == [ix[p] EXCEPT !.cur = w, !.pc = l]
<1>3. w \in FileWrite /\ w.sha = disk[f] /\ w.path \in Paths
  BY <1>1 DEF FileWrite, IInv, EnvTypeOK
<1>4. ix' = [ix EXCEPT ![p] = x]
  BY <1>2
<1> HIDE DEF w
<1>5. x \in Process /\ InFile(x)
  BY <1>1, <1>2, <1>3 DEF Process, InFile, Stages
<1> HIDE DEF x
<1> QED BY <1>2, <1>4, <1>5, OneProcess, OnlyProcess DEF IInv

LEMMA DeleteGoneKeeps ==
  ASSUME IInv, NEW p \in Indexers, NEW f \in RowPaths, DeleteGone(p, f)
  PROVE  IInv'
<1> DEFINE x == [ix[p] EXCEPT !.removed = @ \cup {f}]
<1>1. ix[p] \in Process /\ InFile(ix[p]) /\ ix[p].removed \cup {f} \in SUBSET RowPaths
  BY DEF IInv, ProcessesOK, Process
<1>2. x \in Process /\ InFile(x)
  BY <1>1 DEF Process, InFile
<1>3. ix' = [ix EXCEPT ![p] = x] /\ delete_file(f) /\ UNCHANGED <<env, failures>>
  BY DEF DeleteGone
<1> HIDE DEF x
<1> QED BY <1>2, <1>3, OneProcess, delete_fileKeeps, EnvUnchanged DEF IInv

LEMMA RefreshKeeps ==
  ASSUME IInv, NEW p \in Indexers, Refresh(p)
  PROVE  IInv'
<1>1. CASE StartWatch(p)
  <2> DEFINE x == [ix[p] EXCEPT !.pc = "watch", !.phase = "refresh"]
  <2>0. ix[p] \in Process
    BY DEF IInv, ProcessesOK
  <2>1. x \in Process /\ InFile(x)
    BY <2>0 DEF Process, Stages, InFile
  <2>2. ix' = [ix EXCEPT ![p] = x] /\ UNCHANGED <<store, env, failures>>
    BY <1>1 DEF StartWatch
  <2> HIDE DEF x
  <2> QED BY <2>1, <2>2, OneProcess, OnlyProcess DEF IInv
<1>2. CASE StartRefresh(p)
  BY <1>2, StartRefreshKeeps
<1>3. CASE ReadChanged(p)
  BY <1>3, ReadChangedKeeps
<1>4. CASE TouchFile(p)
  <2>1. ix[p].cur.mtime \in Nat
    BY DEF IInv, ProcessesOK, Process, FileWrite
  <2>2. touch_mtime(ix[p].cur.path, ix[p].cur.mtime) /\ Goto(p, "walk") /\ UNCHANGED <<env, failures>>
    BY <1>4 DEF TouchFile
  <2>3. "walk" \in Stages \ {"read", "touch", "upsert", "symbols", "edges"}
    BY DEF Stages
  <2> QED BY <2>1, <2>2, <2>3, touch_mtimeKeeps, GotoKeeps, EnvUnchanged DEF IInv
<1>5. CASE EndWalk(p) \/ EndRefresh(p)
  <2>1. PICK l \in {"sweep", "watch", "done"} : Goto(p, l) /\ UNCHANGED <<store, env, failures>>
    BY <1>5 DEF EndWalk, EndRefresh
  <2>2. l \in Stages \ {"read", "touch", "upsert", "symbols", "edges"}
    BY DEF Stages
  <2> QED BY <2>1, <2>2, GotoKeeps, OnlyProcess DEF IInv
<1>6. ASSUME NEW f \in Paths, VisitGone(p, f) \/ VisitUnchanged(p, f) \/ VisitChanged(p, f)
      PROVE  IInv'
  BY <1>6, VisitKeeps
<1>7. ASSUME NEW f \in RowPaths, DeleteGone(p, f)
      PROVE  IInv'
  BY <1>7, DeleteGoneKeeps
<1> QED BY <1>1, <1>2, <1>3, <1>4, <1>5, <1>6, <1>7 DEF Refresh

-----------------------------------------------------------------------------
(* Writing one file.                                                       *)

LEMMA WriteKeeps ==
  ASSUME IInv, NEW p \in Indexers, Write(p)
  PROVE  IInv'
<1> DEFINE c == ix[p].cur
<1>1. ix[p] \in Process /\ c \in FileWrite /\ InFile(ix[p])
  BY DEF IInv, ProcessesOK, Process
<1>2. CASE UpsertFile(p)
  <2> DEFINE w == [c EXCEPT !.fid = RowIdFor(c.path)]
             x == [ix[p] EXCEPT !.pc = "symbols", !.cur = w]
  <2>1. c.path \in RowPaths /\ c.sha \in Contents \cup {NoContent} /\ c.mtime \in Nat
    BY <1>1 DEF FileWrite
  <2>2. StoreInv'
    BY <1>2, <2>1, upsert_fileKeeps DEF UpsertFile, IInv
  <2>3. w \in FileWrite /\ w.sha = c.sha /\ w.path = c.path
    BY <1>1, RowIdForType DEF IInv, StoreInv, FileWrite, RowId
  <2>4. ix' = [ix EXCEPT ![p] = x] /\ ix[p].pc = "upsert" /\ UNCHANGED <<env, failures>>
    BY <1>2 DEF UpsertFile
  <2> HIDE DEF w
  <2>5. x \in Process /\ InFile(x)
    BY <1>1, <2>3, <2>4 DEF Process, InFile, Stages
  <2> HIDE DEF x
  <2> QED BY <2>2, <2>4, <2>5, OneProcess, EnvUnchanged DEF IInv
<1>3. CASE ReplaceSymbols(p)
  <2> DEFINE x == [ix[p] EXCEPT !.pc = "edges"]
  <2>1. c.sha \in Contents
    BY <1>1, <1>3 DEF ReplaceSymbols, InFile
  <2>2. StoreInv'
    BY <1>3, <2>1, replace_symbolsKeeps DEF ReplaceSymbols, IInv
  <2>3. ix' = [ix EXCEPT ![p] = x] /\ UNCHANGED <<env, failures>>
    BY <1>3 DEF ReplaceSymbols, Goto
  <2>4. x \in Process /\ InFile(x)
    BY <1>1, <1>3 DEF Process, InFile, Stages, ReplaceSymbols
  <2> HIDE DEF x
  <2> QED BY <2>2, <2>3, <2>4, OneProcess, EnvUnchanged DEF IInv
<1>4. CASE ReplaceEdges(p)
  <2>1. c.sha \in Contents
    BY <1>1, <1>4 DEF ReplaceEdges, InFile
  <2>2. StoreInv'
    BY <1>4, <2>1, replace_edgesKeeps DEF ReplaceEdges, IInv
  <2>3. PICK l \in {"walk", "extract"} : Goto(p, l) /\ UNCHANGED <<env, failures>>
    BY <1>4 DEF ReplaceEdges
  <2>4. l \in Stages \ {"read", "touch", "upsert", "symbols", "edges"}
    BY DEF Stages
  <2> QED BY <2>2, <2>3, <2>4, GotoKeeps, EnvUnchanged DEF IInv
<1>5. CASE SymbolsRejected(p)
  BY <1>5, GiveUpKeeps, OnlyProcess DEF SymbolsRejected, IInv
<1> QED BY <1>2, <1>3, <1>4, <1>5 DEF Write

-----------------------------------------------------------------------------
LEMMA InitIInv ==
  ASSUME Init
  PROVE  IInv
<1>1. StoreInv
  BY EmptyStoreInv DEF Init
<1>2. EnvTypeOK
  BY IndexerAssumption DEF Init, EnvTypeOK
<1>3. ProcessesOK
  BY IdleTyped DEF Init, ProcessesOK
<1> QED BY <1>1, <1>2, <1>3 DEF IInv

LEMMA NextIInv ==
  ASSUME IInv, [Next]_vars
  PROVE  IInv'
<1>1. ASSUME NEW f \in Paths, NEW c \in Contents \cup {NoContent}, Edit(f, c)
      PROVE  IInv'
  BY <1>1, EditKeeps
<1>2. ASSUME NEW p \in Indexers, Start(p) \/ Work(p) \/ Exit(p) \/ Error(p) \/ Crash(p)
      PROVE  IInv'
  BY <1>2, StartKeeps, WriteKeeps, BuildKeeps, RefreshKeeps, ExitKeeps, FailureKeeps DEF Work
<1>3. CASE UNCHANGED vars
  <2>1. UNCHANGED <<store, env, ix, failures>>
    BY <1>3 DEF vars
  <2>2. ProcessesOK'
    BY <2>1 DEF IInv, ProcessesOK
  <2> QED BY <2>1, <2>2, OnlyProcess
<1> QED BY <1>1, <1>2, <1>3 DEF Next

LEMMA IInvTypeOK ==
  ASSUME IInv
  PROVE  TypeOK
<1>1. ASSUME NEW e, NEW D, NEW T, e \in [D -> T]
      PROVE  e \in [DOMAIN e -> T] /\ DOMAIN e = D
  BY <1>1
<1>2. ASSUME NEW p \in Indexers
      PROVE  /\ ix[p].snap \in [DOMAIN ix[p].snap -> Row] /\ DOMAIN ix[p].snap \subseteq RowPaths
             /\ ix[p].ext \in [DOMAIN ix[p].ext -> Extract] /\ DOMAIN ix[p].ext \subseteq Paths
  <2>1. ix[p].snap \in Snapshots /\ ix[p].ext \in Extracts
    BY DEF IInv, ProcessesOK, Process
  <2>2. PICK D \in SUBSET RowPaths : ix[p].snap \in [D -> Row]
    BY <2>1 DEF Snapshots
  <2>3. PICK E \in SUBSET Paths : ix[p].ext \in [E -> Extract]
    BY <2>1 DEF Extracts
  <2> HIDE DEF Row, Extract
  <2> QED BY <2>2, <2>3, <1>1
<1>3. ASSUME NEW p \in Indexers
      PROVE  ix[p] \in [pc : Stages, job : Commands \cup {"idle"},
                        phase : {"none", "wipe", "build", "refresh"},
                        todo : SUBSET Paths, snap : {ix[p].snap}, seen : SUBSET Paths,
                        ext : {ix[p].ext},
                        cur : [path : RowPaths, sha : Contents \cup {NoContent},
                               mtime : Nat, fid : Nat],
                        removed : SUBSET RowPaths, pending : BOOLEAN, stale : SUBSET Paths]
  <2>1. ix[p] \in Process
    BY DEF IInv, ProcessesOK
  <2> QED BY <2>1 DEF Process, FileWrite
<1>4. DOMAIN ix = Indexers
  BY DEF IInv, ProcessesOK
<1> QED BY <1>2, <1>3, <1>4 DEF IInv, EnvTypeOK, StoreInv, TypeOK, Extract

\* IInv holds in every reachable state, whatever the number of processes,
\* their commands, and the steps they crash or fail at.
THEOREM InductiveInvariant == Spec => []IInv
BY InitIInv, NextIInv, PTL DEF Spec

\* Every reachable state is of the declared types: rowids handed out are
\* numbers, what a process carries between its steps is what the source's
\* structures hold.
THEOREM TypeCorrect == Spec => []TypeOK
BY InductiveInvariant, IInvTypeOK, PTL

\* However many processes index, refresh, watch, crash and fail on one
\* database, no foreign key dangles and no rowid names two files.
THEOREM Integrity == Spec => []RefIntegrity
<1>1. IInv => RefIntegrity
  BY DEF IInv, StoreInv
<1> QED BY <1>1, InductiveInvariant, PTL

\* Under the same conditions all sentinel rows hang off the one anchor row.
THEOREM Anchored == Spec => []SentinelsAnchored
<1>1. IInv => SentinelsAnchored
  BY DEF IInv, StoreInv
<1> QED BY <1>1, InductiveInvariant, PTL

-----------------------------------------------------------------------------
(* What one step does to the record of the process that takes it.          *)

Alone(p)     == \A q \in Indexers \ {p} : ix'[q] = ix[q]
\* The fields the following invariants are about, the stage aside.
KeepsExt(p)  == ix'[p].ext = ix[p].ext
KeepsWalk(p) == ix'[p].todo = ix[p].todo /\ ix'[p].seen = ix[p].seen
KeepsCur(p)  == ix'[p].cur = ix[p].cur
KeepsRun(p)  ==
  /\ ix'[p].job = ix[p].job /\ ix'[p].phase = ix[p].phase
  /\ ix'[p].snap = ix[p].snap /\ ix'[p].stale = ix[p].stale
KeepsGone(p) == ix'[p].removed = ix[p].removed
KeepsAll(p)  == KeepsExt(p) /\ KeepsWalk(p) /\ KeepsCur(p) /\ KeepsRun(p) /\ KeepsGone(p)

LEMMA GotoStep ==
  ASSUME ProcessesOK, NEW p \in Indexers, NEW l \in Stages, Goto(p, l)
  PROVE  Alone(p) /\ ix'[p].pc = l /\ KeepsAll(p)
BY DEF ProcessesOK, Goto, Process, Alone, KeepsAll, KeepsExt, KeepsWalk, KeepsCur, KeepsRun,
       KeepsGone

LEMMA IdleStep ==
  ASSUME ProcessesOK, NEW p \in Indexers, ix' = [ix EXCEPT ![p] = Idle]
  PROVE  Alone(p) /\ ix'[p] = Idle
BY DEF ProcessesOK, Alone

LEMMA StartCommandStep ==
  ASSUME ProcessesOK, NEW p \in Indexers, NEW job, StartCli(p, job) \/ StartMcp(p, job)
  PROVE  /\ Alone(p) /\ ix'[p].pc = "ready" /\ ix'[p].phase = "none" /\ ix'[p].job = job
         /\ ix'[p].todo = {} /\ ix'[p].ext = NoRows /\ ix'[p].stale = {}
BY DEF ProcessesOK, Process, Alone, StartCli, StartMcp, Idle

LEMMA WipeStep ==
  ASSUME ProcessesOK, NEW p \in Indexers, NEW job, WipeAndRebuild(p, job)
  PROVE  /\ \A q \in Indexers \ {p} : ix'[q].pc \in {"idle", "orphan"}
         /\ ix'[p].pc = "extract" /\ ix'[p].phase = "wipe" /\ ix'[p].ext = NoRows
         /\ ix'[p].todo = {f \in Paths : disk[f] # NoContent} /\ ix'[p].stale = {}
BY DEF ProcessesOK, Process, WipeAndRebuild, Orphaned, Idle

LEMMA StartFullStep ==
  ASSUME ProcessesOK, NEW p \in Indexers, StartFull(p)
  PROVE  /\ Alone(p) /\ ix'[p].pc = "extract" /\ ix'[p].phase = "build"
         /\ ix'[p].todo = {f \in Paths : disk[f] # NoContent} /\ ix'[p].stale = {}
         /\ KeepsExt(p) /\ ix[p].pc = "ready"
BY DEF ProcessesOK, Process, Alone, StartFull, KeepsExt

LEMMA ReadForBuildStep ==
  ASSUME ProcessesOK, NEW p \in Indexers, NEW f \in Paths, ReadForBuild(p, f)
  PROVE  /\ Alone(p) /\ ix[p].pc = "extract" /\ ix'[p].pc = "extract"
         /\ f \in ix[p].todo /\ ix'[p].todo = ix[p].todo \ {f}
         /\ ix'[p].ext = IF disk[f] \in Contents \ Unindexable
              THEN [q \in DOMAIN ix[p].ext \cup {f} |->
                      IF q = f THEN [sha |-> disk[f], mtime |-> NoMtime] ELSE ix[p].ext[q]]
              ELSE ix[p].ext
         /\ ix'[p].seen = ix[p].seen /\ KeepsCur(p) /\ KeepsRun(p)
BY DEF ProcessesOK, ReadForBuild, Process, Alone, KeepsCur, KeepsRun

LEMMA StatForBuildStep ==
  ASSUME ProcessesOK, NEW p \in Indexers, NEW f \in Paths, StatForBuild(p, f)
  PROVE  /\ Alone(p) /\ ix[p].pc = "extract" /\ ix'[p].pc = "extract"
         /\ DOMAIN ix'[p].ext = DOMAIN ix[p].ext
         /\ \A g \in DOMAIN ix[p].ext : ix'[p].ext[g].sha = ix[p].ext[g].sha
         /\ KeepsWalk(p) /\ KeepsCur(p) /\ KeepsRun(p)
BY DEF ProcessesOK, StatForBuild, Process, Alone, KeepsWalk, KeepsCur, KeepsRun

LEMMA PickExtractedStep ==
  ASSUME ProcessesOK, NEW p \in Indexers, NEW f \in Paths, PickExtracted(p, f)
  PROVE  /\ Alone(p) /\ ix[p].pc = "extract" /\ ix'[p].pc = "upsert"
         /\ ix[p].todo = {} /\ f \in DOMAIN ix[p].ext
         /\ ix'[p].ext = [q \in DOMAIN ix[p].ext \ {f} |-> ix[p].ext[q]]
         /\ ix'[p].cur.path = f /\ ix'[p].cur.sha = ix[p].ext[f].sha
         /\ KeepsWalk(p) /\ KeepsRun(p)
<1> DEFINE w == [path |-> f, sha |-> ix[p].ext[f].sha, mtime |-> ix[p].ext[f].mtime, fid |-> 0]
<1>1. w.path = f /\ w.sha = ix[p].ext[f].sha
  OBVIOUS
<1>2. ix' = [ix EXCEPT ![p].pc = "upsert", ![p].ext = [q \in DOMAIN @ \ {f} |-> @[q]], ![p].cur = w]
  BY DEF PickExtracted
<1> HIDE DEF w
<1>3. ix'[p].cur = w
  BY <1>2 DEF ProcessesOK, Process
<1>4. /\ Alone(p) /\ ix'[p].pc = "upsert" /\ KeepsWalk(p) /\ KeepsRun(p)
      /\ ix'[p].ext = [q \in DOMAIN ix[p].ext \ {f} |-> ix[p].ext[q]]
  BY <1>2 DEF ProcessesOK, Process, Alone, KeepsWalk, KeepsRun
<1> QED BY <1>1, <1>3, <1>4 DEF PickExtracted, Extracted

LEMMA StartWatchStep ==
  ASSUME ProcessesOK, NEW p \in Indexers, StartWatch(p)
  PROVE  /\ Alone(p) /\ ix'[p].pc = "watch" /\ ix'[p].phase = "refresh"
         /\ ix'[p].job = ix[p].job
BY DEF ProcessesOK, StartWatch, Process, Alone

LEMMA StartRefreshStep ==
  ASSUME ProcessesOK, NEW p \in Indexers, StartRefresh(p)
  PROVE  /\ Alone(p) /\ ix'[p].pc = "walk" /\ ix'[p].phase = "refresh"
         /\ ix'[p].todo = Paths /\ ix'[p].seen = {} /\ ix'[p].stale = {}
         /\ ix'[p].snap = files /\ ix'[p].removed = {} /\ ix'[p].job = ix[p].job
BY DEF ProcessesOK, StartRefresh, Process, Alone

LEMMA VisitGoneStep ==
  ASSUME ProcessesOK, NEW p \in Indexers, NEW f \in Paths, VisitGone(p, f)
  PROVE  /\ Alone(p) /\ ix[p].pc = "walk" /\ ix'[p].pc = "walk"
         /\ ix'[p].todo = ix[p].todo \ {f} /\ disk[f] = NoContent
         /\ ix'[p].seen = ix[p].seen /\ KeepsExt(p) /\ KeepsCur(p) /\ KeepsRun(p) /\ KeepsGone(p)
BY DEF ProcessesOK, VisitGone, Process, Alone, KeepsExt, KeepsCur, KeepsRun, KeepsGone

LEMMA VisitUnchangedStep ==
  ASSUME ProcessesOK, NEW p \in Indexers, NEW f \in Paths, VisitUnchanged(p, f)
  PROVE  /\ Alone(p) /\ ix[p].pc = "walk" /\ ix'[p].pc = "walk"
         /\ ix'[p].todo = ix[p].todo \ {f} /\ ix'[p].seen = ix[p].seen \cup {f}
         /\ KeepsExt(p) /\ KeepsCur(p) /\ KeepsRun(p) /\ KeepsGone(p)
BY DEF ProcessesOK, VisitUnchanged, Process, Alone, KeepsExt, KeepsCur, KeepsRun, KeepsGone

LEMMA VisitChangedStep ==
  ASSUME ProcessesOK, NEW p \in Indexers, NEW f \in Paths, VisitChanged(p, f)
  PROVE  /\ Alone(p) /\ ix[p].pc = "walk" /\ ix'[p].pc = "read"
         /\ ix'[p].todo = ix[p].todo \ {f} /\ ix'[p].seen = ix[p].seen \cup {f}
         /\ ix'[p].cur.path = f /\ ix'[p].cur.mtime = written[f]
         /\ KeepsExt(p) /\ KeepsRun(p) /\ KeepsGone(p)
<1>1. \A t : [NoFile EXCEPT !.path = f, !.mtime = t].path = f
             /\ [NoFile EXCEPT !.path = f, !.mtime = t].mtime = t
  BY DEF NoFile
<1> QED BY <1>1 DEF ProcessesOK, VisitChanged, Process, Alone, KeepsExt, KeepsRun, KeepsGone

LEMMA ReadChangedStep ==
  ASSUME ProcessesOK, NEW p \in Indexers, ReadChanged(p)
  PROVE  /\ Alone(p) /\ ix[p].pc = "read" /\ ix'[p].pc \in {"touch", "upsert", "walk"}
         /\ ix'[p].cur.path = ix[p].cur.path /\ ix'[p].cur.mtime = ix[p].cur.mtime
         /\ ix'[p].cur.sha = disk[ix[p].cur.path]
         /\ KeepsExt(p) /\ KeepsWalk(p) /\ KeepsRun(p) /\ KeepsGone(p)
BY DEF ProcessesOK, ReadChanged, Process, FileWrite, Alone, KeepsExt, KeepsWalk, KeepsRun, KeepsGone

LEMMA DeleteGoneStep ==
  ASSUME ProcessesOK, NEW p \in Indexers, NEW f \in RowPaths, DeleteGone(p, f)
  PROVE  /\ Alone(p) /\ ix[p].pc = "sweep" /\ ix'[p].pc = "sweep"
         /\ KeepsExt(p) /\ KeepsWalk(p) /\ KeepsCur(p) /\ KeepsRun(p)
         /\ ix'[p].removed = ix[p].removed \cup {f}
BY DEF ProcessesOK, DeleteGone, Process, Alone, KeepsExt, KeepsWalk, KeepsCur, KeepsRun

LEMMA UpsertFileStep ==
  ASSUME ProcessesOK, NEW p \in Indexers, UpsertFile(p)
  PROVE  /\ Alone(p) /\ ix[p].pc = "upsert" /\ ix'[p].pc = "symbols"
         /\ ix'[p].cur.path = ix[p].cur.path /\ ix'[p].cur.sha = ix[p].cur.sha
         /\ ix'[p].cur.fid = RowIdFor(ix[p].cur.path)
         /\ KeepsExt(p) /\ KeepsWalk(p) /\ KeepsRun(p) /\ KeepsGone(p)
BY DEF ProcessesOK, UpsertFile, Process, Alone, FileWrite, KeepsExt, KeepsWalk, KeepsRun, KeepsGone

LEMMA GiveUpStep ==
  ASSUME ProcessesOK, NEW p \in Indexers, GiveUp(p)
  PROVE  /\ Alone(p)
         /\ \/ ix'[p].pc = "watch" /\ KeepsAll(p)
            \/ ix'[p] = Idle
BY DEF ProcessesOK, GiveUp, Process, Alone, KeepsAll, KeepsExt, KeepsWalk, KeepsCur, KeepsRun,
       KeepsGone

LEMMA EditStep ==
  ASSUME ProcessesOK, NEW f \in Paths, NEW c, Edit(f, c), NEW p \in Indexers
  PROVE  /\ ix'[p].pc = ix[p].pc /\ ix'[p].job = ix[p].job /\ ix'[p].phase = ix[p].phase
         /\ ix'[p].snap = ix[p].snap
         /\ KeepsExt(p) /\ KeepsWalk(p) /\ KeepsCur(p) /\ KeepsGone(p)
         /\ ix'[p].stale = IF ix[p].pc \in {"idle", "orphan"} THEN ix[p].stale ELSE ix[p].stale \cup {f}
BY DEF ProcessesOK, Edit, Noticed, Process, KeepsExt, KeepsWalk, KeepsCur, KeepsGone

-----------------------------------------------------------------------------
(* Where a process is in its command, and what a refresh has looked at.    *)

Control(x) ==
  /\ x.pc \in {"walk", "read", "touch", "sweep"} => x.phase = "refresh"
  /\ x.pc \in {"extract", "flag", "mark"} => x.phase \in {"wipe", "build"}
  /\ x.pc \in {"upsert", "symbols", "edges"} => x.phase \in {"wipe", "build", "refresh"}
  /\ x.pc = "sweep" => x.todo = {}
  /\ x.pc \in {"ready", "flag", "mark"} => x.ext = NoRows
  /\ x.pc \in {"flag", "mark"} => x.todo = {}

Refreshing(x) ==
  /\ x.pc \in {"walk", "read", "touch", "upsert", "symbols", "edges", "sweep"}
  /\ x.phase = "refresh"

\* A file the walk is through with and has not met was not there, unless the
\* user has touched it since.
Looked(x) ==
  Refreshing(x) => \A f \in Paths \ (x.todo \cup x.seen \cup x.stale) : disk[f] = NoContent

LookedInv == \A p \in Indexers : Control(ix[p]) /\ Looked(ix[p])

LEMMA OneLooks ==
  ASSUME LookedInv, NEW p \in Indexers, Alone(p), UNCHANGED disk,
         Control(ix[p])', Looked(ix[p])'
  PROVE  LookedInv'
BY DEF LookedInv, Alone, Control, Looked, Refreshing

LEMMA EditLooks ==
  ASSUME IInv, LookedInv, NEW f \in Paths, NEW c \in Contents \cup {NoContent}, Edit(f, c)
  PROVE  LookedInv'
<1> SUFFICES ASSUME NEW p \in Indexers PROVE Control(ix[p])' /\ Looked(ix[p])'
  BY DEF LookedInv
<1>1. /\ ix'[p].pc = ix[p].pc /\ ix'[p].phase = ix[p].phase
      /\ KeepsExt(p) /\ KeepsWalk(p)
      /\ ix'[p].stale = IF ix[p].pc \in {"idle", "orphan"} THEN ix[p].stale
                        ELSE ix[p].stale \cup {f}
  BY EditStep DEF IInv
<1>2. \A g \in Paths \ {f} : disk'[g] = disk[g]
  BY DEF Edit, IInv, EnvTypeOK
<1>3. Control(ix[p]) /\ Looked(ix[p])
  BY DEF LookedInv
<1>4. Control(ix[p])'
  BY <1>1, <1>3 DEF Control, KeepsExt, KeepsWalk
<1>5. Looked(ix[p])'
  BY <1>1, <1>2, <1>3 DEF Looked, Refreshing, KeepsWalk
<1> QED BY <1>4, <1>5

LEMMA StartLooks ==
  ASSUME IInv, LookedInv, NEW p \in Indexers, Start(p)
  PROVE  LookedInv'
<1>0. PICK job \in Commands : StartCli(p, job) \/ WipeAndRebuild(p, job) \/ StartMcp(p, job)
  BY DEF Start
<1>1. CASE StartCli(p, job) \/ StartMcp(p, job)
  <2>1. Alone(p) /\ ix'[p].pc = "ready" /\ ix'[p].ext = NoRows
    BY <1>1, StartCommandStep DEF IInv
  <2>2. Control(ix[p])' /\ Looked(ix[p])'
    BY <2>1 DEF Control, Looked, Refreshing
  <2> QED BY <1>1, <2>1, <2>2, OneLooks DEF StartCli, StartMcp, env
<1>2. CASE WipeAndRebuild(p, job)
  <2>1. /\ \A q \in Indexers \ {p} : ix'[q].pc \in {"idle", "orphan"}
        /\ ix'[p].pc = "extract" /\ ix'[p].phase = "wipe"
    BY <1>2, WipeStep DEF IInv
  <2> QED BY <2>1 DEF LookedInv, Control, Looked, Refreshing
<1> QED BY <1>0, <1>1, <1>2

LEMMA BuildLooks ==
  ASSUME IInv, LookedInv, NEW p \in Indexers, Build(p)
  PROVE  LookedInv'
<1> USE DEF KeepsAll, KeepsExt, KeepsWalk, KeepsRun, KeepsCur
<1>0. ProcessesOK /\ UNCHANGED disk /\ Control(ix[p]) /\ Looked(ix[p])
  BY DEF IInv, LookedInv, Build, StartFull, ServeLookup, EndWrites, FlagEdges, MarkBuilt,
         ReadForBuild, StatForBuild, PickExtracted, env
<1> SUFFICES Alone(p) /\ Control(ix[p])' /\ Looked(ix[p])'
  BY <1>0, OneLooks
<1>1. CASE StartFull(p)
  <2>1. Alone(p) /\ ix'[p].pc = "extract" /\ ix'[p].phase = "build"
    BY <1>0, <1>1, StartFullStep
  <2> QED BY <2>1 DEF Control, Looked, Refreshing
<1>2. CASE ServeLookup(p)
  <2>1. Alone(p) /\ ix'[p].pc = "done"
    BY <1>0, <1>2, GotoStep DEF ServeLookup, Stages
  <2> QED BY <2>1 DEF Control, Looked, Refreshing
<1>3. CASE EndWrites(p)
  <2>1. Alone(p) /\ ix'[p].pc = "flag" /\ KeepsAll(p)
    BY <1>0, <1>3, GotoStep DEF EndWrites, Stages
  <2>2. ix[p].pc = "extract" /\ ix[p].todo = {} /\ ix[p].ext = NoRows
    BY <1>3 DEF EndWrites, Extracted
  <2> QED BY <1>0, <2>1, <2>2 DEF Control, Looked, Refreshing
<1>4. CASE FlagEdges(p)
  <2>1. PICK l \in {"done", "mark"} : ix[p].pc = "flag" /\ Goto(p, l)
    BY <1>4 DEF FlagEdges
  <2>2. Alone(p) /\ ix'[p].pc = l /\ KeepsAll(p)
    BY <1>0, <2>1, GotoStep DEF Stages
  <2> QED BY <1>0, <2>1, <2>2 DEF Control, Looked, Refreshing
<1>5. CASE MarkBuilt(p)
  <2>1. PICK l \in {"done", "ready"} : ix[p].pc = "mark" /\ Goto(p, l)
    BY <1>5 DEF MarkBuilt
  <2>2. Alone(p) /\ ix'[p].pc = l /\ KeepsAll(p)
    BY <1>0, <2>1, GotoStep DEF Stages
  <2> QED BY <1>0, <2>1, <2>2 DEF Control, Looked, Refreshing
<1>6. ASSUME NEW f \in Paths, ReadForBuild(p, f) \/ StatForBuild(p, f)
      PROVE  Alone(p) /\ Control(ix[p])' /\ Looked(ix[p])'
  <2>1. /\ Alone(p) /\ ix[p].pc = "extract" /\ ix'[p].pc = "extract" /\ KeepsRun(p)
    BY <1>0, <1>6, ReadForBuildStep, StatForBuildStep
  <2> QED BY <1>0, <2>1 DEF Control, Looked, Refreshing
<1>7. ASSUME NEW f \in Paths, PickExtracted(p, f)
      PROVE  Alone(p) /\ Control(ix[p])' /\ Looked(ix[p])'
  <2>1. /\ Alone(p) /\ ix[p].pc = "extract" /\ ix'[p].pc = "upsert" /\ KeepsRun(p)
    BY <1>0, <1>7, PickExtractedStep
  <2> QED BY <1>0, <2>1 DEF Control, Looked, Refreshing
<1> QED BY <1>1, <1>2, <1>3, <1>4, <1>5, <1>6, <1>7 DEF Build

LEMMA RefreshLooks ==
  ASSUME IInv, LookedInv, NEW p \in Indexers, Refresh(p)
  PROVE  LookedInv'
<1> USE DEF KeepsAll, KeepsExt, KeepsWalk, KeepsRun, KeepsCur
<1>0. ProcessesOK /\ UNCHANGED disk /\ Control(ix[p]) /\ Looked(ix[p])
  BY DEF IInv, LookedInv, Refresh, StartWatch, StartRefresh, ReadChanged, TouchFile, EndWalk,
         EndRefresh, VisitGone, VisitUnchanged, VisitChanged, DeleteGone, env
<1> SUFFICES Alone(p) /\ Control(ix[p])' /\ Looked(ix[p])'
  BY <1>0, OneLooks
<1>1. CASE StartWatch(p)
  <2>1. Alone(p) /\ ix'[p].pc = "watch"
    BY <1>0, <1>1, StartWatchStep
  <2> QED BY <2>1 DEF Control, Looked, Refreshing
<1>2. CASE StartRefresh(p)
  <2>1. /\ Alone(p) /\ ix'[p].pc = "walk" /\ ix'[p].phase = "refresh"
        /\ ix'[p].todo = Paths
    BY <1>0, <1>2, StartRefreshStep
  <2> QED BY <2>1 DEF Control, Looked, Refreshing
<1>3. CASE ReadChanged(p)
  <2>1. /\ Alone(p) /\ ix[p].pc = "read" /\ ix'[p].pc \in {"touch", "upsert", "walk"}
        /\ KeepsWalk(p) /\ KeepsRun(p)
    BY <1>0, <1>3, ReadChangedStep
  <2> QED BY <1>0, <2>1 DEF Control, Looked, Refreshing
<1>4. CASE TouchFile(p)
  <2>1. Alone(p) /\ ix[p].pc = "touch" /\ ix'[p].pc = "walk" /\ KeepsAll(p)
    BY <1>0, <1>4, GotoStep DEF TouchFile, Stages
  <2> QED BY <1>0, <2>1 DEF Control, Looked, Refreshing
<1>5. CASE EndWalk(p)
  <2>1. Alone(p) /\ ix[p].pc = "walk" /\ ix[p].todo = {} /\ ix'[p].pc = "sweep" /\ KeepsAll(p)
    BY <1>0, <1>5, GotoStep DEF EndWalk, Stages
  <2> QED BY <1>0, <2>1 DEF Control, Looked, Refreshing
<1>6. CASE EndRefresh(p)
  <2>1. PICK l \in {"watch", "done"} : Goto(p, l)
    BY <1>6 DEF EndRefresh
  <2>2. Alone(p) /\ ix'[p].pc = l
    BY <1>0, <2>1, GotoStep DEF Stages
  <2> QED BY <2>2 DEF Control, Looked, Refreshing
<1>7. ASSUME NEW f \in Paths, VisitGone(p, f)
      PROVE  Alone(p) /\ Control(ix[p])' /\ Looked(ix[p])'
  <2>1. /\ Alone(p) /\ ix[p].pc = "walk" /\ ix'[p].pc = "walk"
        /\ ix'[p].todo = ix[p].todo \ {f} /\ disk[f] = NoContent
        /\ ix'[p].seen = ix[p].seen /\ KeepsRun(p)
    BY <1>0, <1>7, VisitGoneStep
  <2> QED BY <1>0, <2>1 DEF Control, Looked, Refreshing
<1>8. ASSUME NEW f \in Paths, VisitUnchanged(p, f) \/ VisitChanged(p, f)
      PROVE  Alone(p) /\ Control(ix[p])' /\ Looked(ix[p])'
  <2>1. /\ Alone(p) /\ ix[p].pc = "walk" /\ ix'[p].pc \in {"walk", "read"}
        /\ ix'[p].todo = ix[p].todo \ {f} /\ ix'[p].seen = ix[p].seen \cup {f}
        /\ KeepsRun(p)
    BY <1>0, <1>8, VisitUnchangedStep, VisitChangedStep
  <2> QED BY <1>0, <2>1 DEF Control, Looked, Refreshing
<1>9. ASSUME NEW f \in RowPaths, DeleteGone(p, f)
      PROVE  Alone(p) /\ Control(ix[p])' /\ Looked(ix[p])'
  <2>1. Alone(p) /\ ix[p].pc = "sweep" /\ ix'[p].pc = "sweep" /\ KeepsWalk(p) /\ KeepsRun(p)
    BY <1>0, <1>9, DeleteGoneStep
  <2> QED BY <1>0, <2>1 DEF Control, Looked, Refreshing
<1> QED BY <1>1, <1>2, <1>3, <1>4, <1>5, <1>6, <1>7, <1>8, <1>9 DEF Refresh

\* The process ends, or waits for the next event.
LEMMA GiveUpLooks ==
  ASSUME IInv, LookedInv, NEW p \in Indexers, UNCHANGED disk,
         GiveUp(p) \/ ix' = [ix EXCEPT ![p] = Idle]
  PROVE  LookedInv'
<1>1. Alone(p) /\ (ix'[p].pc = "watch" \/ ix'[p] = Idle)
  BY GiveUpStep, IdleStep DEF IInv
<1>2. ix'[p].pc \in {"watch", "idle"}
  BY <1>1 DEF Idle
<1>3. Control(ix[p])' /\ Looked(ix[p])'
  BY <1>2 DEF Control, Looked, Refreshing
<1> QED BY <1>1, <1>3, OneLooks

LEMMA WriteLooks ==
  ASSUME IInv, LookedInv, NEW p \in Indexers, Write(p)
  PROVE  LookedInv'
<1> USE DEF KeepsAll, KeepsExt, KeepsWalk, KeepsRun, KeepsCur
<1>0. ProcessesOK /\ UNCHANGED disk /\ Control(ix[p]) /\ Looked(ix[p])
  BY DEF IInv, LookedInv, Write, UpsertFile, ReplaceSymbols, ReplaceEdges, SymbolsRejected, env
<1>1. CASE UpsertFile(p)
  <2>1. /\ Alone(p) /\ ix[p].pc = "upsert" /\ ix'[p].pc = "symbols"
        /\ KeepsWalk(p) /\ KeepsRun(p)
    BY <1>0, <1>1, UpsertFileStep
  <2>2. Control(ix[p])' /\ Looked(ix[p])'
    BY <1>0, <2>1 DEF Control, Looked, Refreshing
  <2> QED BY <1>0, <2>1, <2>2, OneLooks
<1>2. CASE ReplaceSymbols(p)
  <2>1. Alone(p) /\ ix[p].pc = "symbols" /\ ix'[p].pc = "edges" /\ KeepsAll(p)
    BY <1>0, <1>2, GotoStep DEF ReplaceSymbols, Stages
  <2>2. Control(ix[p])' /\ Looked(ix[p])'
    BY <1>0, <2>1 DEF Control, Looked, Refreshing
  <2> QED BY <1>0, <2>1, <2>2, OneLooks
<1>3. CASE ReplaceEdges(p)
  <2>1. PICK l \in {"walk", "extract"} :
          /\ ix[p].pc = "edges" /\ Goto(p, l)
          /\ l = IF ix[p].phase = "refresh" THEN "walk" ELSE "extract"
    BY <1>3 DEF ReplaceEdges
  <2>2. Alone(p) /\ ix'[p].pc = l /\ KeepsAll(p)
    BY <1>0, <2>1, GotoStep DEF Stages
  <2>3. Control(ix[p])' /\ Looked(ix[p])'
    BY <1>0, <2>1, <2>2 DEF Control, Looked, Refreshing
  <2> QED BY <1>0, <2>2, <2>3, OneLooks
<1>4. CASE SymbolsRejected(p)
  BY <1>0, <1>4, GiveUpLooks DEF SymbolsRejected
<1> QED BY <1>1, <1>2, <1>3, <1>4 DEF Write

LEMMA NextLooked ==
  ASSUME IInv, LookedInv, [Next]_vars
  PROVE  LookedInv'
<1>1. ASSUME NEW f \in Paths, NEW c \in Contents \cup {NoContent}, Edit(f, c)
      PROVE  LookedInv'
  BY <1>1, EditLooks
<1>2. ASSUME NEW p \in Indexers, Start(p) \/ Work(p)
      PROVE  LookedInv'
  BY <1>2, StartLooks, WriteLooks, BuildLooks, RefreshLooks DEF Work
<1>3. ASSUME NEW p \in Indexers, Exit(p) \/ Error(p) \/ Crash(p)
      PROVE  LookedInv'
  BY <1>3, GiveUpLooks DEF Exit, Error, Crash, env
<1>4. CASE UNCHANGED vars
  BY <1>4 DEF vars, env, LookedInv, Control, Looked, Refreshing
<1> QED BY <1>1, <1>2, <1>3, <1>4 DEF Next

LEMMA InitLooked ==
  ASSUME Init
  PROVE  LookedInv
BY DEF Init, LookedInv, Control, Looked, Refreshing, Idle

LEMMA LookedAlways == Spec => [](IInv /\ LookedInv)
BY InitIInv, NextIInv, InitLooked, NextLooked, PTL DEF Spec

\* Rows go all at once, or one by one at the end of a refresh.
LEMMA RowsGo ==
  ASSUME IInv, [Next]_vars
  PROVE  \/ files' = NoRows
         \/ DOMAIN files \subseteq DOMAIN files'
         \/ \E p \in Indexers, f \in RowPaths : DeleteGone(p, f)
<1>1. ASSUME NEW f \in Paths, NEW c \in Contents \cup {NoContent}, Edit(f, c)
      PROVE  files' = files
  BY <1>1 DEF Edit, store
<1>2. ASSUME NEW p \in Indexers, Start(p) \/ Exit(p) \/ Error(p) \/ Crash(p)
      PROVE  files' = files \/ files' = NoRows
  BY <1>2 DEF Start, StartCli, StartMcp, WipeAndRebuild, fresh_db, Exit, Error, Crash, store
<1>3. ASSUME NEW p \in Indexers, Write(p)
      PROVE  DOMAIN files \subseteq DOMAIN files'
  <2>1. CASE UpsertFile(p)
    BY <2>1 DEF UpsertFile, upsert_file, WithRow
  <2>2. CASE ReplaceSymbols(p) \/ SymbolsRejected(p)
    BY <2>2 DEF ReplaceSymbols, replace_symbols, SymbolsRejected, store
  <2>3. CASE ReplaceEdges(p)
    BY <2>3 DEF ReplaceEdges, replace_edges, WithRow
  <2> QED BY <1>3, <2>1, <2>2, <2>3 DEF Write
<1>4. ASSUME NEW p \in Indexers, Build(p)
      PROVE  files' = files \/ files' = NoRows
  BY <1>4 DEF Build, StartFull, clear_all, ServeLookup, EndWrites, FlagEdges, MarkBuilt, meta_set,
       tables, ReadForBuild, StatForBuild, PickExtracted, store
<1>5. ASSUME NEW p \in Indexers, Refresh(p)
      PROVE  \/ DOMAIN files \subseteq DOMAIN files'
             \/ \E f \in RowPaths : DeleteGone(p, f)
  <2>1. CASE TouchFile(p)
    BY <2>1 DEF TouchFile, touch_mtime
  <2>2. CASE StartWatch(p) \/ StartRefresh(p) \/ ReadChanged(p) \/ EndWalk(p) \/ EndRefresh(p)
    BY <2>2 DEF StartWatch, StartRefresh, ReadChanged, EndWalk, EndRefresh, store
  <2>3. ASSUME NEW f \in Paths, VisitGone(p, f) \/ VisitUnchanged(p, f) \/ VisitChanged(p, f)
        PROVE  files' = files
    BY <2>3 DEF VisitGone, VisitUnchanged, VisitChanged, store
  <2> QED BY <1>5, <2>1, <2>2, <2>3 DEF Refresh
<1>6. CASE UNCHANGED vars
  BY <1>6 DEF vars, store
<1> QED BY <1>1, <1>2, <1>3, <1>4, <1>5, <1>6 DEF Next, Work

\* A row the sweep deletes belongs to a file that was not there or that the
\* user has touched.
LEMMA SweepsGone ==
  ASSUME IInv, LookedInv, NEW p \in Indexers, NEW g \in RowPaths, DeleteGone(p, g),
         NEW f \in list_files \ DOMAIN files'
  PROVE  disk[f] = NoContent \/ f \in ix[p].stale
<1>1. ix[p].pc = "sweep" /\ g \notin ix[p].seen /\ delete_file(g)
  BY DEF DeleteGone, Gone
<1>2. f = g
  BY <1>1 DEF delete_file, tables, list_files
<1>3. f \in Paths
  BY DEF list_files, IInv, StoreInv, StoreTypeOK, RowPaths
<1> QED BY <1>1, <1>2, <1>3 DEF LookedInv, Control, Looked, Refreshing

\* However the refreshes of several processes interleave with rebuilds,
\* edits and crashes, none deletes the row of a file that was on disk all
\* the time.
THEOREM RefreshesDeleteOnlyGone == Spec => OnlyGoneFilesDeleted
<1>1. IInv /\ LookedInv /\ [Next]_vars
        => [\A f \in list_files \ DOMAIN files' :
              files' = NoRows \/ disk[f] = NoContent \/ \E p \in Indexers : f \in ix[p].stale]_vars
  BY RowsGo, SweepsGone DEF list_files
<1> QED BY <1>1, LookedAlways, PTL DEF Spec, OnlyGoneFilesDeleted

-----------------------------------------------------------------------------
(* One process at a time: what the index says of a file is of one version. *)

OneIndexer == \A p, q \in Indexers : p = q

NamesUnder(i) == {s[2] : s \in SymbolsOf(i)}
CallsUnder(i) == {<<e[1][2], e[2][2]>> : e \in EdgesFrom(i)}

OneVersion(f) ==
  LET i == files[f].id IN
  \/ NamesUnder(i) = {}
  \/ \E c \in Contents : NamesUnder(i) = Defs[c] /\ CallsUnder(i) \subseteq Calls[c]

\* In the middle of a file's transactions its row is there, and once its
\* symbols are written they are those of the text in hand.
AtRow(x) ==
  /\ x.pc \in {"symbols", "edges"} =>
       x.cur.path \in DOMAIN files /\ files[x.cur.path].id = x.cur.fid
  /\ x.pc = "edges" => SymbolsOf(x.cur.fid) = {<<x.cur.fid, n>> : n \in Defs[x.cur.sha]}

VersionInv ==
  /\ \A f \in list_files : OneVersion(f)
  /\ \A p \in Indexers : AtRow(ix[p])

LEMMA VersionInvSuffices ==
  ASSUME VersionInv
  PROVE  OneVersionPerFile
BY DEF VersionInv, OneVersion, OneVersionPerFile, SymbolNames, CallsOf, NamesUnder, CallsUnder,
       EdgesFrom

\* A file keeps its version when it keeps its row and its symbols and gets no
\* new edge.
LEMMA VersionKept ==
  ASSUME NEW f, OneVersion(f), files'[f].id = files[f].id,
         SymbolsOf(files[f].id)' = SymbolsOf(files[f].id),
         \A e \in EdgesFrom(files[f].id)' : e \in edges
  PROVE  OneVersion(f)'
<1> DEFINE i == files[f].id
<1>1. NamesUnder(i)' = NamesUnder(i)
  BY DEF NamesUnder
<1>2. CallsUnder(i)' \subseteq CallsUnder(i)
  BY DEF CallsUnder, EdgesFrom
<1> QED BY <1>1, <1>2 DEF OneVersion

\* Steps that leave the tables' contents alone and end or begin no write.
LEMMA TablesStand ==
  ASSUME VersionInv, OneIndexer, NEW p \in Indexers,
         UNCHANGED <<files, symbols, edges>>, ix'[p].pc \notin {"symbols", "edges"}
  PROVE  VersionInv'
<1>1. ASSUME NEW f \in list_files' PROVE OneVersion(f)'
  <2>1. OneVersion(f)
    BY DEF VersionInv, list_files
  <2> QED BY <2>1 DEF OneVersion, NamesUnder, CallsUnder, SymbolsOf, EdgesFrom
<1> QED BY <1>1 DEF VersionInv, AtRow, OneIndexer

\* The tables are emptied.
LEMMA TablesEmptied ==
  ASSUME OneIndexer, NEW p \in Indexers, files' = NoRows, ix'[p].pc \notin {"symbols", "edges"}
  PROVE  VersionInv'
BY DEF VersionInv, AtRow, OneIndexer, list_files, NoRows

LEMMA WriteVersions ==
  ASSUME IInv, VersionInv, OneIndexer, NEW p \in Indexers, Write(p)
  PROVE  VersionInv'
<1> DEFINE c == ix[p].cur
<1>0. /\ ProcessesOK /\ StoreInv /\ ix[p] \in Process /\ c \in FileWrite /\ InFile(ix[p])
      /\ AtRow(ix[p]) /\ \A q \in Indexers : q = p
  BY DEF IInv, ProcessesOK, Process, VersionInv, OneIndexer
<1> SUFFICES (\A f \in list_files' : OneVersion(f)') /\ AtRow(ix[p])'
  BY <1>0 DEF VersionInv
<1>1. CASE UpsertFile(p)
  <2>1. /\ c.path \in Paths /\ c.sha \in Contents /\ c.mtime \in Nat
        /\ upsert_file(c.path, c.sha, c.mtime)
    BY <1>0, <1>1 DEF UpsertFile, InFile, FileWrite
  <2>2. /\ DOMAIN files' = DOMAIN files \cup {c.path}
        /\ SameRows(DOMAIN files \ {c.path})
        /\ files'[c.path].id = RowIdFor(c.path)
        /\ c.path \in DOMAIN files => files'[c.path].id = files[c.path].id
        /\ c.path \notin DOMAIN files => SymbolsOf(RowIdFor(c.path)) = {}
        /\ UNCHANGED <<symbols, edges>>
    BY <1>0, <2>1, upsert_fileOthers
  <2>3. /\ ix'[p].pc = "symbols" /\ ix'[p].cur.path = c.path
        /\ ix'[p].cur.fid = RowIdFor(c.path)
    BY <1>0, <1>1, UpsertFileStep
  <2>4. AtRow(ix[p])'
    BY <2>2, <2>3 DEF AtRow
  <2>5. ASSUME NEW f \in list_files' PROVE OneVersion(f)'
    <3>1. CASE f \in DOMAIN files
      <4>1. files'[f].id = files[f].id /\ OneVersion(f)
        BY <2>2, <2>5, <3>1 DEF SameRows, VersionInv, list_files
      <4> QED BY <2>2, <4>1 DEF OneVersion, NamesUnder, CallsUnder, SymbolsOf, EdgesFrom
    <3>2. CASE f \notin DOMAIN files
      <4>1. f = c.path
        BY <2>2, <2>5, <3>2 DEF list_files
      <4>2. SymbolsOf(files[f].id)' = {}
        BY <2>2, <3>2, <4>1 DEF SymbolsOf
      <4> QED BY <4>2 DEF OneVersion, NamesUnder
    <3> QED BY <3>1, <3>2
  <2> QED BY <2>4, <2>5
<1>2. CASE ReplaceSymbols(p)
  <2> PICK fid, sha : fid = c.fid /\ sha = c.sha
    OBVIOUS
  <2>1. /\ c.path \in Paths /\ sha \in Contents /\ replace_symbols(fid, sha)
        /\ c.path \in DOMAIN files /\ files[c.path].id = fid
    BY <1>0, <1>2 DEF ReplaceSymbols, InFile, AtRow
  <2>2. /\ UNCHANGED files
        /\ SymbolsOf(fid)' = {<<fid, n>> : n \in Defs[sha]}
        /\ \A i : i # fid => SymbolsOf(i)' = SymbolsOf(i)
        /\ edges' \subseteq edges
        /\ EdgesFrom(fid)' = {}
    BY <1>0, <2>1, replace_symbolsOthers
  <2>3. ix'[p].pc = "edges" /\ ix'[p].cur = c
    BY <1>0, <1>2, GotoStep DEF ReplaceSymbols, Stages, KeepsAll, KeepsCur
  <2>4. AtRow(ix[p])'
    BY <2>1, <2>2, <2>3 DEF AtRow
  <2>5. ASSUME NEW f \in list_files' PROVE OneVersion(f)'
    <3>1. f \in list_files /\ files'[f].id = files[f].id /\ OneVersion(f)
      BY <2>2 DEF VersionInv, list_files
    <3>2. CASE f = c.path
      <4>1. NamesUnder(fid)' = Defs[sha] /\ CallsUnder(fid)' = {}
        <5> PICK S : S = SymbolsOf(fid)'
          OBVIOUS
        <5>0. S = {<<fid, n>> : n \in Defs[sha]}
          BY <2>2
        <5>3. \A n \in Defs[sha] : <<fid, n>> \in S /\ <<fid, n>>[2] = n
          BY <5>0
        <5>4. \A s \in S : s[2] \in Defs[sha]
          BY <5>0
        <5>5. \A n \in Defs[sha] : n \in {s[2] : s \in S}
          BY <5>3
        <5>6. \A n \in {s[2] : s \in S} : n \in Defs[sha]
          BY <5>4
        <5>1. {s[2] : s \in S} = Defs[sha]
          BY <5>5, <5>6
        <5> QED BY <2>2, <5>1 DEF NamesUnder, CallsUnder
      <4> QED BY <2>1, <3>1, <3>2, <4>1 DEF OneVersion
    <3>3. CASE f # c.path
      <4>1. files[f].id # fid
        BY <1>0, <2>1, <3>1, <3>3 DEF StoreInv, RefIntegrity, list_files
      <4>2. SymbolsOf(files[f].id)' = SymbolsOf(files[f].id)
        BY <2>2, <4>1, <3>1
      <4> QED BY <2>2, <3>1, <4>2, VersionKept DEF EdgesFrom
    <3> QED BY <3>2, <3>3
  <2> QED BY <2>4, <2>5
<1>3. CASE ReplaceEdges(p)
  <2> PICK fid, sha : fid = c.fid /\ sha = c.sha
    OBVIOUS
  <2>1. /\ c.path \in list_files /\ sha \in Contents /\ replace_edges(fid, sha)
        /\ files[c.path].id = fid
        /\ SymbolsOf(fid) = {<<fid, n>> : n \in Defs[sha]}
    BY <1>0, <1>3, StoreAssumption DEF ReplaceEdges, InFile, AtRow, list_files
  <2>2. /\ list_files' = list_files
        /\ SameRows(list_files)
        /\ \A f \in list_files : SymbolsOf(files[f].id)' = SymbolsOf(files[f].id)
        /\ \A i : i # fid => EdgesFrom(i)' = EdgesFrom(i)
        /\ {<<e[1][2], e[2][2]>> : e \in EdgesFrom(fid)'} = KeptCalls(fid, sha)
    BY <1>0, <2>1, replace_edgesOthers
  <2>3. PICK l \in {"walk", "extract"} : Goto(p, l)
    BY <1>3 DEF ReplaceEdges
  <2>4. ix'[p].pc = l
    BY <1>0, <2>3, GotoStep DEF Stages
  <2>5. AtRow(ix[p])'
    BY <2>4 DEF AtRow
  <2>6. ASSUME NEW f \in list_files' PROVE OneVersion(f)'
    <3>1. f \in list_files /\ files'[f].id = files[f].id /\ OneVersion(f)
      BY <2>2 DEF VersionInv, SameRows
    <3>2. CASE f = c.path
      <4>1. NamesUnder(fid)' = Defs[sha]
        <5>1. SymbolsOf(fid)' = {<<fid, n>> : n \in Defs[sha]}
          BY <2>1, <2>2, <3>1, <3>2 DEF SymbolsOf
        <5> PICK S : S = SymbolsOf(fid)'
          OBVIOUS
        <5>0. S = {<<fid, n>> : n \in Defs[sha]}
          BY <5>1
        <5>3. \A n \in Defs[sha] : <<fid, n>> \in S /\ <<fid, n>>[2] = n
          BY <5>0
        <5>4. \A s \in S : s[2] \in Defs[sha]
          BY <5>0
        <5>5. \A n \in Defs[sha] : n \in {s[2] : s \in S}
          BY <5>3
        <5>6. \A n \in {s[2] : s \in S} : n \in Defs[sha]
          BY <5>4
        <5>2. {s[2] : s \in S} = Defs[sha]
          BY <5>5, <5>6
        <5> QED BY <5>2 DEF NamesUnder
      <4>2. CallsUnder(fid)' \subseteq Calls[sha]
        BY <2>2 DEF CallsUnder, KeptCalls
      <4> QED BY <2>1, <3>1, <3>2, <4>1, <4>2 DEF OneVersion
    <3>3. CASE f # c.path
      <4>1. files[f].id # fid
        BY <1>0, <2>1, <3>1, <3>3 DEF StoreInv, RefIntegrity, list_files
      <4>2. EdgesFrom(files[f].id)' \subseteq edges
        BY <2>2, <3>1, <4>1 DEF EdgesFrom
      <4> QED BY <2>2, <3>1, <4>2, VersionKept
    <3> QED BY <3>2, <3>3
  <2> QED BY <2>5, <2>6
<1>4. CASE SymbolsRejected(p)
  <2>1. ix'[p].pc \in {"watch", "idle"}
    BY <1>0, <1>4, GiveUpStep DEF SymbolsRejected, Idle
  <2>2. VersionInv'
    BY <1>4, <2>1, TablesStand DEF SymbolsRejected, store
  <2> QED BY <2>2 DEF VersionInv
<1> QED BY <1>1, <1>2, <1>3, <1>4 DEF Write

LEMMA BuildVersions ==
  ASSUME IInv, VersionInv, OneIndexer, NEW p \in Indexers, Build(p)
  PROVE  VersionInv'
<1>0. ProcessesOK
  BY DEF IInv
<1>1. CASE StartFull(p)
  BY <1>0, <1>1, StartFullStep, TablesEmptied DEF StartFull, clear_all
<1>2. CASE ServeLookup(p) \/ EndWrites(p) \/ FlagEdges(p) \/ MarkBuilt(p)
  <2>1. PICK l \in {"done", "flag", "mark", "ready"} : Goto(p, l)
    BY <1>2 DEF ServeLookup, EndWrites, FlagEdges, MarkBuilt
  <2>2. UNCHANGED <<files, symbols, edges>>
    BY <1>2 DEF ServeLookup, EndWrites, FlagEdges, MarkBuilt, meta_set, tables, store
  <2>3. ix'[p].pc = l
    BY <1>0, <2>1, GotoStep DEF Stages
  <2> QED BY <2>2, <2>3, TablesStand
<1>3. ASSUME NEW f \in Paths, ReadForBuild(p, f) \/ StatForBuild(p, f) \/ PickExtracted(p, f)
      PROVE  VersionInv'
  <2>1. UNCHANGED <<files, symbols, edges>>
    BY <1>3 DEF ReadForBuild, StatForBuild, PickExtracted, store
  <2>2. ix'[p].pc \in {"extract", "upsert"}
    BY <1>0, <1>3, ReadForBuildStep, StatForBuildStep, PickExtractedStep
  <2> QED BY <2>1, <2>2, TablesStand
<1> QED BY <1>1, <1>2, <1>3 DEF Build

LEMMA RefreshVersions ==
  ASSUME IInv, VersionInv, OneIndexer, NEW p \in Indexers, Refresh(p)
  PROVE  VersionInv'
<1>0. ProcessesOK /\ StoreInv /\ \A q \in Indexers : q = p
  BY DEF IInv, OneIndexer
<1>1. CASE StartWatch(p) \/ StartRefresh(p) \/ ReadChanged(p)
  <2>1. UNCHANGED <<files, symbols, edges>>
    BY <1>1 DEF StartWatch, StartRefresh, ReadChanged, store
  <2>2. ix'[p].pc \in {"watch", "walk", "touch", "upsert"}
    BY <1>0, <1>1, StartWatchStep, StartRefreshStep, ReadChangedStep
  <2> QED BY <2>1, <2>2, TablesStand
<1>2. CASE EndWalk(p) \/ EndRefresh(p)
  <2>1. PICK l \in {"sweep", "watch", "done"} : Goto(p, l) /\ UNCHANGED store
    BY <1>2 DEF EndWalk, EndRefresh
  <2>2. ix'[p].pc = l
    BY <1>0, <2>1, GotoStep DEF Stages
  <2> QED BY <2>1, <2>2, TablesStand DEF store
<1>3. ASSUME NEW f \in Paths, VisitGone(p, f) \/ VisitUnchanged(p, f) \/ VisitChanged(p, f)
      PROVE  VersionInv'
  <2>1. UNCHANGED <<files, symbols, edges>>
    BY <1>3 DEF VisitGone, VisitUnchanged, VisitChanged, store
  <2>2. ix'[p].pc \in {"walk", "read"}
    BY <1>0, <1>3, VisitGoneStep, VisitUnchangedStep, VisitChangedStep
  <2> QED BY <2>1, <2>2, TablesStand
<1>4. CASE TouchFile(p)
  <2>1. /\ DOMAIN files' = DOMAIN files
        /\ \A f \in DOMAIN files : files'[f].id = files[f].id
        /\ UNCHANGED <<symbols, edges>>
    BY <1>0, <1>4, touch_mtimeOthers DEF TouchFile
  <2>2. ix'[p].pc = "walk"
    BY <1>0, <1>4, GotoStep DEF TouchFile, Stages
  <2>3. ASSUME NEW f \in list_files' PROVE OneVersion(f)'
    <3>1. files'[f].id = files[f].id /\ OneVersion(f)
      BY <2>1 DEF VersionInv, list_files
    <3> QED BY <2>1, <3>1 DEF OneVersion, NamesUnder, CallsUnder, SymbolsOf, EdgesFrom
  <2> QED BY <1>0, <2>2, <2>3 DEF VersionInv, AtRow
<1>5. ASSUME NEW g \in RowPaths, DeleteGone(p, g)
      PROVE  VersionInv'
  <2>1. /\ DOMAIN files' \subseteq DOMAIN files /\ SameRows(DOMAIN files')
        /\ \A f \in DOMAIN files' : SymbolsOf(files[f].id)' = SymbolsOf(files[f].id)
        /\ edges' \subseteq edges
    BY <1>0, <1>5, delete_fileOthers DEF DeleteGone
  <2>2. ix'[p].pc = "sweep"
    BY <1>0, <1>5, DeleteGoneStep
  <2>3. ASSUME NEW f \in list_files' PROVE OneVersion(f)'
    <3>1. f \in DOMAIN files' /\ files'[f].id = files[f].id /\ OneVersion(f)
      BY <2>1 DEF SameRows, VersionInv, list_files
    <3> QED BY <2>1, <3>1, VersionKept DEF EdgesFrom
  <2> QED BY <1>0, <2>2, <2>3 DEF VersionInv, AtRow
<1> QED BY <1>1, <1>2, <1>3, <1>4, <1>5 DEF Refresh

LEMMA NextVersions ==
  ASSUME IInv, VersionInv, OneIndexer, [Next]_vars
  PROVE  VersionInv'
<1>0. ProcessesOK
  BY DEF IInv
<1>1. ASSUME NEW g \in Paths, NEW c \in Contents \cup {NoContent}, Edit(g, c)
      PROVE  VersionInv'
  <2>1. UNCHANGED <<files, symbols, edges>>
    BY <1>1 DEF Edit, store
  <2>2. ASSUME NEW p \in Indexers PROVE AtRow(ix[p])'
    <3>1. ix'[p].pc = ix[p].pc /\ ix'[p].cur = ix[p].cur
      BY <1>0, <1>1, EditStep DEF KeepsCur
    <3> QED BY <2>1, <3>1 DEF VersionInv, AtRow, SymbolsOf
  <2>3. ASSUME NEW f \in list_files' PROVE OneVersion(f)'
    <3>1. OneVersion(f)
      BY <2>1 DEF VersionInv, list_files
    <3> QED BY <2>1, <3>1 DEF OneVersion, NamesUnder, CallsUnder, SymbolsOf, EdgesFrom
  <2> QED BY <2>2, <2>3 DEF VersionInv
<1>2. ASSUME NEW p \in Indexers, Start(p)
      PROVE  VersionInv'
  <2>0. PICK job \in Commands : StartCli(p, job) \/ WipeAndRebuild(p, job) \/ StartMcp(p, job)
    BY <1>2 DEF Start
  <2>1. CASE StartCli(p, job) \/ StartMcp(p, job)
    <3>1. ix'[p].pc = "ready" /\ UNCHANGED store
      BY <1>0, <2>1, StartCommandStep DEF StartCli, StartMcp
    <3> QED BY <3>1, TablesStand DEF store
  <2>2. CASE WipeAndRebuild(p, job)
    <3>1. ix'[p].pc = "extract" /\ files' = NoRows
      BY <1>0, <2>2, WipeStep DEF WipeAndRebuild, fresh_db
    <3> QED BY <3>1, TablesEmptied
  <2> QED BY <2>0, <2>1, <2>2
<1>3. ASSUME NEW p \in Indexers, Exit(p) \/ Error(p) \/ Crash(p)
      PROVE  VersionInv'
  <2>1. UNCHANGED store /\ (GiveUp(p) \/ ix' = [ix EXCEPT ![p] = Idle])
    BY <1>3 DEF Exit, Error, Crash
  <2>2. ix'[p].pc \in {"watch", "idle"}
    BY <1>0, <2>1, GiveUpStep, IdleStep DEF Idle
  <2> QED BY <2>1, <2>2, TablesStand DEF store
<1>4. ASSUME NEW p \in Indexers, Work(p)
      PROVE  VersionInv'
  BY <1>4, WriteVersions, BuildVersions, RefreshVersions DEF Work
<1>5. CASE UNCHANGED vars
  <2>1. UNCHANGED <<files, symbols, edges, ix>>
    BY <1>5 DEF vars, store
  <2>2. ASSUME NEW f \in list_files' PROVE OneVersion(f)'
    <3>1. OneVersion(f)
      BY <2>1 DEF VersionInv, list_files
    <3> QED BY <2>1, <3>1 DEF OneVersion, NamesUnder, CallsUnder, SymbolsOf, EdgesFrom
  <2> QED BY <2>1, <2>2 DEF VersionInv, AtRow, SymbolsOf
<1> QED BY <1>1, <1>2, <1>3, <1>4, <1>5 DEF Next

LEMMA InitVersions ==
  ASSUME Init
  PROVE  VersionInv
BY DEF Init, EmptyStore, NoRows, list_files, VersionInv, AtRow, Idle

\* With one process at a time, whatever step a crash or a failed statement
\* cuts short, the names and the calls the index has of a file are of one
\* text.
THEOREM OneVersionAlways ==
  ASSUME OneIndexer
  PROVE  Spec => []OneVersionPerFile
<1>1. Init => IInv /\ VersionInv
  BY InitIInv, InitVersions
<1>2. IInv /\ VersionInv /\ [Next]_vars => IInv' /\ VersionInv'
  BY NextIInv, NextVersions
<1>3. IInv /\ VersionInv => OneVersionPerFile
  BY VersionInvSuffices
<1> QED BY <1>1, <1>2, <1>3, PTL DEF Spec

-----------------------------------------------------------------------------
(* One process at a time: full_index writes the tree, whatever was there   *)
(* before it cleared the tables.                                           *)

Building(x) ==
  \/ x.pc \in {"extract", "flag", "mark"}
  \/ x.pc \in {"upsert", "symbols", "edges"} /\ x.phase # "refresh"

\* Everything the extractor finds in the file's text is in the tables.
Complete(f) ==
  /\ NamesUnder(files[f].id) = Defs[files[f].sha]
  /\ CallsUnder(files[f].id) = AllCalls(files[f].sha)

\* A file is in one place: still to be read, extracted, in hand, or in the
\* table; the tables are empty of it before it is written.
Placed(x) ==
  /\ list_files \cap (x.todo \cup DOMAIN x.ext) = {}
  /\ x.pc = "upsert" => x.cur.path \notin list_files \cup DOMAIN x.ext
  /\ x.pc \in {"upsert", "symbols", "edges"} => x.todo = {}
  /\ x.pc \in {"symbols", "edges"} =>
       x.cur.path \in list_files /\ files[x.cur.path].sha = x.cur.sha
  /\ x.pc = "symbols" => SymbolsOf(x.cur.fid) = {}

\* ... and wherever it is, it is there with its present text.
Current(x) ==
  \A f \in Paths \ x.stale :
    /\ f \in DOMAIN x.ext => Indexable(f) /\ x.ext[f].sha = disk[f]
    /\ x.pc = "upsert" /\ f = x.cur.path => Indexable(f) /\ x.cur.sha = disk[f]
    /\ f \in list_files => Indexable(f) /\ files[f].sha = disk[f]
    /\ Indexable(f) => \/ f \in x.todo \cup DOMAIN x.ext \cup list_files
                       \/ x.pc = "upsert" /\ f = x.cur.path

Written(x) ==
  \A f \in list_files : (x.pc \in {"symbols", "edges"} /\ f = x.cur.path) \/ Complete(f)

Rebuilt(x) == Building(x) => Placed(x) /\ Current(x) /\ Written(x)

BuildInv == \A p \in Indexers : Rebuilt(ix[p])

LEMMA BuildInvSuffices ==
  ASSUME LookedInv, BuildInv
  PROVE  FullIndexExact
<1> SUFFICES ASSUME NEW p \in Indexers, ix[p].pc \in {"flag", "mark"},
                    NEW f \in Paths \ ix[p].stale
             PROVE  /\ Indexable(f) <=> f \in list_files
                    /\ Indexable(f) => /\ files[f].sha = disk[f]
                                       /\ SymbolNames(f) = Defs[disk[f]]
                                       /\ CallsOf(f) = AllCalls(disk[f])
  BY DEF FullIndexExact
<1>1. Current(ix[p]) /\ Written(ix[p])
  BY DEF BuildInv, Rebuilt, Building
<1>2. ix[p].ext = NoRows /\ ix[p].todo = {}
  BY DEF LookedInv, Control
<1>3. DOMAIN ix[p].ext = {}
  BY <1>2 DEF NoRows
<1>4. /\ Indexable(f) => f \in list_files
      /\ f \in list_files => Indexable(f) /\ files[f].sha = disk[f]
  BY <1>1, <1>2, <1>3 DEF Current
<1>5. f \in list_files => Complete(f)
  BY <1>1 DEF Written
<1> QED BY <1>4, <1>5 DEF Complete, NamesUnder, CallsUnder, SymbolNames, CallsOf, EdgesFrom

LEMMA CompleteKept ==
  ASSUME NEW f, Complete(f), files'[f].id = files[f].id, files'[f].sha = files[f].sha,
         SymbolsOf(files[f].id)' = SymbolsOf(files[f].id),
         EdgesFrom(files[f].id)' = EdgesFrom(files[f].id)
  PROVE  Complete(f)'
BY DEF Complete, NamesUnder, CallsUnder

LEMMA SameTablesComplete ==
  ASSUME UNCHANGED <<files, symbols, edges>>
  PROVE  /\ list_files' = list_files
         /\ \A f : Complete(f)' = Complete(f)
         /\ \A i : SymbolsOf(i)' = SymbolsOf(i)
BY DEF list_files, Complete, NamesUnder, CallsUnder, SymbolsOf, EdgesFrom

\* A rebuild starts on empty tables with the whole tree to read.
LEMMA BuildBegins ==
  ASSUME NEW p \in Indexers, OneIndexer, files' = NoRows, ix'[p].pc = "extract",
         UNCHANGED disk,
         ix'[p].ext = NoRows, ix'[p].todo = {f \in Paths : disk[f] # NoContent}
  PROVE  BuildInv'
<1>1. list_files' = {} /\ DOMAIN ix'[p].ext = {}
  BY DEF list_files, NoRows
<1>2. \A f \in Paths : Indexable(f)' => f \in ix'[p].todo
  BY StoreAssumption DEF Indexable
<1>3. Placed(ix[p])'
  BY <1>1 DEF Placed
<1>4. Current(ix[p])'
  BY <1>1, <1>2 DEF Current
<1>5. Written(ix[p])'
  BY <1>1 DEF Written
<1> QED BY <1>3, <1>4, <1>5 DEF BuildInv, Rebuilt, OneIndexer

LEMMA NoBuild ==
  ASSUME NEW p \in Indexers, OneIndexer, ~Building(ix[p])'
  PROVE  BuildInv'
BY DEF BuildInv, Rebuilt, OneIndexer

LEMMA BuildRebuilds ==
  ASSUME IInv, LookedInv, BuildInv, OneIndexer, NEW p \in Indexers, Build(p)
  PROVE  BuildInv'
<1> USE DEF KeepsAll, KeepsExt, KeepsWalk, KeepsRun, KeepsCur
<1>0. /\ ProcessesOK /\ UNCHANGED disk /\ Control(ix[p]) /\ Rebuilt(ix[p])
      /\ \A q \in Indexers : q = p
  BY DEF IInv, LookedInv, BuildInv, OneIndexer, Build, StartFull, ServeLookup, EndWrites,
         FlagEdges, MarkBuilt, ReadForBuild, StatForBuild, PickExtracted, env
<1>1. CASE StartFull(p)
  <2>1. /\ ix'[p].pc = "extract" /\ ix'[p].ext = NoRows
        /\ ix'[p].todo = {f \in Paths : disk[f] # NoContent}
    BY <1>0, <1>1, StartFullStep DEF Control
  <2> QED BY <1>0, <1>1, <2>1, BuildBegins DEF StartFull, clear_all
<1>2. CASE ServeLookup(p) \/ MarkBuilt(p)
  <2>1. PICK l \in {"done", "ready"} : Goto(p, l)
    BY <1>2 DEF ServeLookup, MarkBuilt
  <2>2. ix'[p].pc = l
    BY <1>0, <2>1, GotoStep DEF Stages
  <2> QED BY <2>2, NoBuild DEF Building
<1>3. CASE EndWrites(p) \/ FlagEdges(p)
  <2>1. PICK l \in {"done", "flag", "mark"} : Goto(p, l) /\ ix[p].pc \in {"extract", "flag"}
    BY <1>3 DEF EndWrites, FlagEdges, Extracted
  <2>2. ix'[p].pc = l /\ KeepsAll(p)
    BY <1>0, <2>1, GotoStep DEF Stages
  <2>3. UNCHANGED <<files, symbols, edges>>
    BY <1>3 DEF EndWrites, FlagEdges, meta_set, tables, store
  <2>4. Placed(ix[p]) /\ Current(ix[p]) /\ Written(ix[p])
    BY <1>0, <2>1 DEF Rebuilt, Building
  <2>5. CASE l = "done"
    BY <2>2, <2>5, NoBuild DEF Building
  <2>6. CASE l # "done"
    <3>1. Placed(ix[p])'
      BY <2>1, <2>2, <2>3, <2>4, <2>6, SameTablesComplete DEF Placed
    <3>2. Current(ix[p])'
      BY <1>0, <2>1, <2>2, <2>3, <2>4, <2>6, SameTablesComplete DEF Current, Indexable
    <3>3. Written(ix[p])'
      BY <2>1, <2>2, <2>3, <2>4, <2>6, SameTablesComplete DEF Written
    <3> QED BY <1>0, <3>1, <3>2, <3>3 DEF BuildInv, Rebuilt
  <2> QED BY <2>5, <2>6
<1>4. ASSUME NEW g \in Paths, ReadForBuild(p, g) \/ StatForBuild(p, g) \/ PickExtracted(p, g)
      PROVE  Placed(ix[p])' /\ Current(ix[p])' /\ Written(ix[p])'
  <2>1. UNCHANGED <<files, symbols, edges>> /\ ix[p].pc = "extract"
    BY <1>4 DEF ReadForBuild, StatForBuild, PickExtracted, Extracted, store
  <2>2. Placed(ix[p]) /\ Current(ix[p]) /\ Written(ix[p])
    BY <1>0, <2>1 DEF Rebuilt, Building
  <2>3. CASE ReadForBuild(p, g)
    <3>1. /\ ix'[p].pc = "extract" /\ g \in ix[p].todo /\ ix'[p].todo = ix[p].todo \ {g}
          /\ ix'[p].ext = IF disk[g] \in Contents \ Unindexable
              THEN [q \in DOMAIN ix[p].ext \cup {g} |->
                      IF q = g THEN [sha |-> disk[g], mtime |-> NoMtime] ELSE ix[p].ext[q]]
              ELSE ix[p].ext
          /\ ix'[p].stale = ix[p].stale
      BY <1>0, <2>3, ReadForBuildStep
    <3>2. /\ DOMAIN ix'[p].ext = DOMAIN ix[p].ext \cup (IF Indexable(g) THEN {g} ELSE {})
          /\ \A q \in DOMAIN ix[p].ext \ {g} : ix'[p].ext[q] = ix[p].ext[q]
          /\ Indexable(g) => ix'[p].ext[g].sha = disk[g]
          /\ ~Indexable(g) => ix'[p].ext = ix[p].ext
      BY <3>1 DEF Indexable
    <3>3. Placed(ix[p])'
      BY <2>1, <2>2, <3>1, <3>2, SameTablesComplete DEF Placed
    <3>4. Current(ix[p])'
      BY <1>0, <2>1, <2>2, <3>1, <3>2, SameTablesComplete DEF Current, Indexable
    <3>5. Written(ix[p])'
      BY <2>1, <2>2, <3>1, SameTablesComplete DEF Written
    <3> QED BY <3>3, <3>4, <3>5
  <2>4. CASE StatForBuild(p, g)
    <3>1. /\ ix'[p].pc = "extract" /\ DOMAIN ix'[p].ext = DOMAIN ix[p].ext
          /\ \A q \in DOMAIN ix[p].ext : ix'[p].ext[q].sha = ix[p].ext[q].sha
          /\ KeepsWalk(p) /\ KeepsCur(p) /\ KeepsRun(p)
      BY <1>0, <2>4, StatForBuildStep
    <3>3. Placed(ix[p])'
      BY <2>1, <2>2, <3>1, SameTablesComplete DEF Placed
    <3>4. Current(ix[p])'
      BY <1>0, <2>1, <2>2, <3>1, SameTablesComplete DEF Current, Indexable
    <3>5. Written(ix[p])'
      BY <2>1, <2>2, <3>1, SameTablesComplete DEF Written
    <3> QED BY <3>3, <3>4, <3>5
  <2>5. CASE PickExtracted(p, g)
    <3>1. /\ ix'[p].pc = "upsert" /\ ix[p].todo = {} /\ g \in DOMAIN ix[p].ext
          /\ ix'[p].ext = [q \in DOMAIN ix[p].ext \ {g} |-> ix[p].ext[q]]
          /\ ix'[p].cur.path = g /\ ix'[p].cur.sha = ix[p].ext[g].sha
          /\ KeepsWalk(p) /\ KeepsRun(p)
      BY <1>0, <2>5, PickExtractedStep
    <3>2. /\ DOMAIN ix'[p].ext = DOMAIN ix[p].ext \ {g}
          /\ \A q \in DOMAIN ix[p].ext \ {g} : ix'[p].ext[q] = ix[p].ext[q]
      BY <3>1
    <3>3. Placed(ix[p])'
      BY <2>1, <2>2, <3>1, <3>2, SameTablesComplete DEF Placed
    <3>4. Current(ix[p])'
      BY <1>0, <2>1, <2>2, <3>1, <3>2, SameTablesComplete DEF Current, Indexable
    <3>5. Written(ix[p])'
      BY <2>1, <2>2, <3>1, SameTablesComplete DEF Written
    <3> QED BY <3>3, <3>4, <3>5
  <2> QED BY <1>4, <2>3, <2>4, <2>5
<1>5. ASSUME NEW g \in Paths, ReadForBuild(p, g) \/ StatForBuild(p, g) \/ PickExtracted(p, g)
      PROVE  BuildInv'
  BY <1>0, <1>4, <1>5 DEF BuildInv, Rebuilt
<1> QED BY <1>1, <1>2, <1>3, <1>5 DEF Build

\* The three transactions of a file that was not in the table.
LEMMA UpsertRebuilds ==
  ASSUME IInv, BuildInv, VersionInv, OneIndexer, NEW p \in Indexers, UpsertFile(p)
  PROVE  BuildInv'
<1> DEFINE c == ix[p].cur
<1>0. /\ ProcessesOK /\ StoreInv /\ UNCHANGED disk /\ Rebuilt(ix[p])
      /\ ix[p] \in Process /\ c \in FileWrite /\ InFile(ix[p])
      /\ \A q \in Indexers : q = p
  BY DEF IInv, ProcessesOK, Process, BuildInv, OneIndexer, UpsertFile, env
<1>1. /\ ix[p].pc = "upsert" /\ ix'[p].pc = "symbols"
      /\ ix'[p].cur.path = c.path /\ ix'[p].cur.sha = c.sha
      /\ ix'[p].cur.fid = RowIdFor(c.path)
      /\ KeepsExt(p) /\ KeepsWalk(p) /\ KeepsRun(p)
  BY <1>0, UpsertFileStep
<1>2. CASE ix[p].phase = "refresh"
  BY <1>1, <1>2, NoBuild DEF Building, KeepsRun
<1>3. CASE ix[p].phase # "refresh"
  <2>1. Placed(ix[p]) /\ Current(ix[p]) /\ Written(ix[p])
    BY <1>0, <1>1, <1>3 DEF Rebuilt, Building
  <2>2. /\ c.path \in Paths /\ c.sha \in Contents /\ c.mtime \in Nat
        /\ upsert_file(c.path, c.sha, c.mtime) /\ c.path \notin DOMAIN files
    BY <1>0, <1>1, <2>1, StoreAssumption DEF UpsertFile, InFile, FileWrite, Placed, list_files
  <2>3. /\ DOMAIN files' = DOMAIN files \cup {c.path}
        /\ SameRows(DOMAIN files \ {c.path})
        /\ files'[c.path].sha = c.sha
        /\ SymbolsOf(RowIdFor(c.path)) = {}
        /\ UNCHANGED <<symbols, edges>>
    BY <1>0, <2>2, upsert_fileOthers
  <2>4. list_files' = list_files \cup {c.path} /\ c.path \notin list_files
    BY <2>2, <2>3, StoreAssumption DEF list_files
  <2>5. \A f \in list_files : files'[f].id = files[f].id /\ files'[f].sha = files[f].sha
    BY <2>3, <2>4 DEF SameRows, list_files
  <2>6. Placed(ix[p])'
    <3>1. SymbolsOf(ix[p].cur.fid)' = {}
      BY <1>1, <2>3 DEF SymbolsOf
    <3> QED BY <1>1, <2>1, <2>3, <2>4, <3>1 DEF Placed, KeepsExt, KeepsWalk
  <2>7. Current(ix[p])'
    BY <1>0, <1>1, <2>1, <2>3, <2>4, <2>5 DEF Current, Indexable, KeepsExt, KeepsWalk, KeepsRun
  <2>8. Written(ix[p])'
    <3> SUFFICES ASSUME NEW f \in list_files', f # c.path PROVE Complete(f)'
      BY <1>1 DEF Written
    <3>1. f \in list_files /\ Complete(f)
      BY <1>1, <2>1, <2>4 DEF Written
    <3>2. files'[f].id = files[f].id /\ files'[f].sha = files[f].sha
      BY <2>5, <3>1
    <3>3. /\ SymbolsOf(files[f].id)' = SymbolsOf(files[f].id)
          /\ EdgesFrom(files[f].id)' = EdgesFrom(files[f].id)
      BY <2>3, <3>2 DEF SymbolsOf, EdgesFrom
    <3> QED BY <3>1, <3>2, <3>3, CompleteKept
  <2> QED BY <1>0, <2>6, <2>7, <2>8 DEF BuildInv, Rebuilt
<1> QED BY <1>2, <1>3

LEMMA SymbolsRebuild ==
  ASSUME IInv, BuildInv, VersionInv, OneIndexer, NEW p \in Indexers, ReplaceSymbols(p)
  PROVE  BuildInv'
<1> DEFINE c == ix[p].cur
<1> PICK fid, sha : fid = c.fid /\ sha = c.sha
  OBVIOUS
<1>0. /\ ProcessesOK /\ StoreInv /\ UNCHANGED disk /\ Rebuilt(ix[p]) /\ AtRow(ix[p])
      /\ ix[p] \in Process /\ InFile(ix[p])
      /\ \A q \in Indexers : q = p
  BY DEF IInv, ProcessesOK, BuildInv, VersionInv, OneIndexer, ReplaceSymbols, env
<1>1. ix[p].pc = "symbols" /\ ix'[p].pc = "edges" /\ KeepsAll(p)
  BY <1>0, GotoStep DEF ReplaceSymbols, Stages
<1>2. CASE ix[p].phase = "refresh"
  BY <1>1, <1>2, NoBuild DEF Building, KeepsAll, KeepsRun
<1>3. CASE ix[p].phase # "refresh"
  <2>1. Placed(ix[p]) /\ Current(ix[p]) /\ Written(ix[p])
    BY <1>0, <1>1, <1>3 DEF Rebuilt, Building
  <2>2. /\ sha \in Contents /\ replace_symbols(fid, sha) /\ SymbolsOf(fid) = {}
        /\ files[c.path].id = fid /\ c.path \in DOMAIN files
    BY <1>0, <1>1, <2>1 DEF ReplaceSymbols, InFile, Placed, AtRow
  <2>3. /\ UNCHANGED <<files, edges>>
        /\ \A i : i # fid => SymbolsOf(i)' = SymbolsOf(i)
    BY <1>0, <2>2, replace_symbolsOthers
  <2>4. list_files' = list_files
    BY <2>3 DEF list_files
  <2>5. Placed(ix[p])'
    BY <1>1, <2>1, <2>3, <2>4 DEF Placed, KeepsAll, KeepsExt, KeepsWalk, KeepsCur
  <2>6. Current(ix[p])'
    BY <1>0, <1>1, <2>1, <2>3, <2>4
       DEF Current, Indexable, KeepsAll, KeepsExt, KeepsWalk, KeepsCur, KeepsRun
  <2>7. Written(ix[p])'
    <3> SUFFICES ASSUME NEW f \in list_files', f # c.path PROVE Complete(f)'
      BY <1>1 DEF Written, KeepsAll, KeepsCur
    <3>1. f \in list_files /\ Complete(f)
      BY <2>1, <2>4 DEF Written
    <3>2. files'[f].id = files[f].id /\ files'[f].sha = files[f].sha /\ files[f].id # fid
      BY <1>0, <2>2, <2>3, <3>1 DEF StoreInv, RefIntegrity, list_files
    <3>3. /\ SymbolsOf(files[f].id)' = SymbolsOf(files[f].id)
          /\ EdgesFrom(files[f].id)' = EdgesFrom(files[f].id)
      BY <2>3, <3>2 DEF EdgesFrom
    <3> QED BY <3>1, <3>2, <3>3, CompleteKept
  <2> QED BY <1>0, <2>5, <2>6, <2>7 DEF BuildInv, Rebuilt
<1> QED BY <1>2, <1>3

\* Once its calls are written too, a file is complete.
LEMMA EdgesComplete ==
  ASSUME StoreInv, NEW path \in list_files, NEW fid, fid = files[path].id,
         NEW sha \in Contents, sha = files[path].sha,
         SymbolsOf(fid) = {<<fid, n>> : n \in Defs[sha]}, replace_edges(fid, sha)
  PROVE  Complete(path)'
<1>1. /\ files'[path].id = fid /\ files'[path].sha = sha
      /\ SymbolsOf(fid)' = SymbolsOf(fid)
      /\ {<<e[1][2], e[2][2]>> : e \in EdgesFrom(fid)'} = KeptCalls(fid, sha)
  <2>1. /\ SameRows(list_files)
        /\ \A f \in list_files : SymbolsOf(files[f].id)' = SymbolsOf(files[f].id)
        /\ {<<e[1][2], e[2][2]>> : e \in EdgesFrom(fid)'} = KeptCalls(fid, sha)
    BY replace_edgesOthers
  <2>2. files'[path] = files[path]
    BY <2>1 DEF SameRows
  <2>3. SymbolsOf(fid)' = SymbolsOf(fid)
    BY <2>1, <2>2 DEF SymbolsOf
  <2> QED BY <2>1, <2>2, <2>3
<1>2. NamesUnder(fid)' = Defs[sha]
  <2> PICK S : S = SymbolsOf(fid)'
    OBVIOUS
  <2>0. S = {<<fid, n>> : n \in Defs[sha]}
    BY <1>1
  <2>1. \A n \in Defs[sha] : <<fid, n>> \in S /\ <<fid, n>>[2] = n
    BY <2>0
  <2>2. \A s \in S : s[2] \in Defs[sha]
    BY <2>0
  <2>3. \A n \in Defs[sha] : n \in {s[2] : s \in S}
    BY <2>1
  <2>4. \A n \in {s[2] : s \in S} : n \in Defs[sha]
    BY <2>2
  <2> QED BY <2>3, <2>4 DEF NamesUnder
<1>3. KeptCalls(fid, sha) = AllCalls(sha)
  <2>1. \A n : <<fid, n>> \in symbols <=> n \in Defs[sha]
    <3>1. \A n : <<fid, n>> \in symbols <=> <<fid, n>> \in SymbolsOf(fid)
      BY DEF SymbolsOf
    <3> QED BY <3>1
  <2> QED BY <2>1 DEF KeptCalls, AllCalls
<1>4. CallsUnder(fid)' = AllCalls(sha)
  BY <1>1, <1>3 DEF CallsUnder
<1> QED BY <1>1, <1>2, <1>4 DEF Complete

LEMMA EdgesRebuild ==
  ASSUME IInv, LookedInv, BuildInv, VersionInv, OneIndexer, NEW p \in Indexers, ReplaceEdges(p)
  PROVE  BuildInv'
<1> DEFINE c == ix[p].cur
<1> PICK fid, sha : fid = c.fid /\ sha = c.sha
  OBVIOUS
<1>0. /\ ProcessesOK /\ StoreInv /\ UNCHANGED disk /\ Rebuilt(ix[p]) /\ AtRow(ix[p])
      /\ ix[p] \in Process /\ InFile(ix[p])
      /\ \A q \in Indexers : q = p
  BY DEF IInv, ProcessesOK, BuildInv, VersionInv, OneIndexer, ReplaceEdges, env
<1>1. PICK l \in {"walk", "extract"} :
        /\ ix[p].pc = "edges" /\ Goto(p, l)
        /\ l = IF ix[p].phase = "refresh" THEN "walk" ELSE "extract"
  BY DEF ReplaceEdges
<1>2. ix'[p].pc = l /\ KeepsAll(p)
  BY <1>0, <1>1, GotoStep DEF Stages
<1>3. CASE ix[p].phase = "refresh"
  BY <1>1, <1>2, <1>3, NoBuild DEF Building
<1>4. CASE ix[p].phase # "refresh"
  <2>1. Placed(ix[p]) /\ Current(ix[p]) /\ Written(ix[p])
    BY <1>0, <1>1, <1>4 DEF Rebuilt, Building
  <2>2. /\ sha \in Contents /\ replace_edges(fid, sha)
        /\ SymbolsOf(fid) = {<<fid, n>> : n \in Defs[sha]}
        /\ files[c.path].id = fid /\ c.path \in list_files /\ files[c.path].sha = sha
    BY <1>0, <1>1, <2>1 DEF ReplaceEdges, InFile, Placed, AtRow
  <2>3. /\ list_files' = list_files
        /\ SameRows(list_files)
        /\ \A f \in list_files : SymbolsOf(files[f].id)' = SymbolsOf(files[f].id)
        /\ \A i : i # fid => EdgesFrom(i)' = EdgesFrom(i)
        /\ {<<e[1][2], e[2][2]>> : e \in EdgesFrom(fid)'} = KeptCalls(fid, sha)
    BY <1>0, <2>2, replace_edgesOthers
  <2>4. \A f \in list_files : files'[f].id = files[f].id /\ files'[f].sha = files[f].sha
    BY <2>3 DEF SameRows
  <2>5. Placed(ix[p])'
    BY <1>1, <1>2, <1>4, <2>1, <2>3 DEF Placed, KeepsAll, KeepsExt, KeepsWalk
  <2>6. Current(ix[p])'
    BY <1>0, <1>1, <1>2, <1>4, <2>1, <2>3, <2>4
       DEF Current, Indexable, KeepsAll, KeepsExt, KeepsWalk, KeepsRun
  <2>7. ASSUME NEW f \in list_files' PROVE Complete(f)'
    <3>1. f \in list_files /\ files'[f].id = files[f].id /\ files'[f].sha = files[f].sha
      BY <2>3, <2>4
    <3>2. CASE f = c.path
      BY <1>0, <2>2, <3>2, EdgesComplete
    <3>3. CASE f # c.path
      <4>1. Complete(f) /\ files[f].id # fid
        BY <1>0, <2>1, <2>2, <3>1, <3>3 DEF Written, StoreInv, RefIntegrity, list_files
      <4>2. EdgesFrom(files[f].id)' = EdgesFrom(files[f].id)
        BY <2>3, <3>1, <4>1 DEF EdgesFrom
      <4> QED BY <2>3, <3>1, <4>1, <4>2, CompleteKept
    <3> QED BY <3>2, <3>3
  <2>8. Written(ix[p])'
    BY <2>7 DEF Written
  <2> QED BY <1>0, <2>5, <2>6, <2>8 DEF BuildInv, Rebuilt
<1> QED BY <1>3, <1>4

\* No step of a refresh is one of a rebuild.
LEMMA RefreshRebuilds ==
  ASSUME IInv, LookedInv, OneIndexer, NEW p \in Indexers, Refresh(p)
  PROVE  BuildInv'
<1>0. ProcessesOK /\ Control(ix[p])
  BY DEF IInv, LookedInv
<1>1. CASE StartWatch(p) \/ StartRefresh(p)
  <2>1. ix'[p].pc \in {"watch", "walk"}
    BY <1>0, <1>1, StartWatchStep, StartRefreshStep
  <2> QED BY <2>1, NoBuild DEF Building
<1>2. CASE ReadChanged(p)
  <2>1. ix[p].pc = "read" /\ ix'[p].pc \in {"touch", "upsert", "walk"} /\ KeepsRun(p)
    BY <1>0, <1>2, ReadChangedStep
  <2> QED BY <1>0, <2>1, NoBuild DEF Building, Control, KeepsRun
<1>3. CASE TouchFile(p) \/ EndWalk(p) \/ EndRefresh(p)
  <2>1. PICK l \in {"walk", "sweep", "watch", "done"} : Goto(p, l)
    BY <1>3 DEF TouchFile, EndWalk, EndRefresh
  <2>2. ix'[p].pc = l
    BY <1>0, <2>1, GotoStep DEF Stages
  <2> QED BY <2>2, NoBuild DEF Building
<1>4. ASSUME NEW f \in Paths, VisitGone(p, f) \/ VisitUnchanged(p, f) \/ VisitChanged(p, f)
      PROVE  BuildInv'
  <2>1. ix'[p].pc \in {"walk", "read"}
    BY <1>0, <1>4, VisitGoneStep, VisitUnchangedStep, VisitChangedStep
  <2> QED BY <2>1, NoBuild DEF Building
<1>5. ASSUME NEW g \in RowPaths, DeleteGone(p, g)
      PROVE  BuildInv'
  <2>1. ix'[p].pc = "sweep"
    BY <1>0, <1>5, DeleteGoneStep
  <2> QED BY <2>1, NoBuild DEF Building
<1> QED BY <1>1, <1>2, <1>3, <1>4, <1>5 DEF Refresh

LEMMA NextRebuilds ==
  ASSUME IInv, LookedInv, VersionInv, BuildInv, OneIndexer, [Next]_vars
  PROVE  BuildInv'
<1>0. ProcessesOK
  BY DEF IInv
<1>1. ASSUME NEW g \in Paths, NEW c \in Contents \cup {NoContent}, Edit(g, c)
      PROVE  BuildInv'
  <2> SUFFICES ASSUME NEW p \in Indexers, Building(ix[p])'
               PROVE  Placed(ix[p])' /\ Current(ix[p])' /\ Written(ix[p])'
    BY DEF BuildInv, Rebuilt
  <2>1. /\ ix'[p].pc = ix[p].pc /\ ix'[p].phase = ix[p].phase
        /\ KeepsExt(p) /\ KeepsWalk(p) /\ KeepsCur(p)
        /\ ix'[p].stale = IF ix[p].pc \in {"idle", "orphan"} THEN ix[p].stale
                          ELSE ix[p].stale \cup {g}
    BY <1>0, <1>1, EditStep
  <2>2. ix'[p].stale = ix[p].stale \cup {g}
    BY <2>1 DEF Building
  <2>3. UNCHANGED <<files, symbols, edges>> /\ \A f \in Paths \ {g} : disk'[f] = disk[f]
    BY <1>1 DEF Edit, store, IInv, EnvTypeOK
  <2>4. Placed(ix[p]) /\ Current(ix[p]) /\ Written(ix[p])
    BY <2>1 DEF BuildInv, Rebuilt, Building
  <2>5. Placed(ix[p])'
    BY <2>1, <2>3, <2>4, SameTablesComplete DEF Placed, KeepsExt, KeepsWalk, KeepsCur
  <2>6. Current(ix[p])'
    BY <2>1, <2>2, <2>3, <2>4, SameTablesComplete
       DEF Current, Indexable, KeepsExt, KeepsWalk, KeepsCur
  <2>7. Written(ix[p])'
    BY <2>1, <2>3, <2>4, SameTablesComplete DEF Written, KeepsCur
  <2> QED BY <2>5, <2>6, <2>7
<1>2. ASSUME NEW p \in Indexers, Start(p)
      PROVE  BuildInv'
  <2>0. PICK job \in Commands : StartCli(p, job) \/ WipeAndRebuild(p, job) \/ StartMcp(p, job)
    BY <1>2 DEF Start
  <2>1. CASE StartCli(p, job) \/ StartMcp(p, job)
    <3>1. ix'[p].pc = "ready"
      BY <1>0, <2>1, StartCommandStep
    <3> QED BY <3>1, NoBuild DEF Building
  <2>2. CASE WipeAndRebuild(p, job)
    <3>1. /\ ix'[p].pc = "extract" /\ ix'[p].ext = NoRows
          /\ ix'[p].todo = {f \in Paths : disk[f] # NoContent}
      BY <1>0, <2>2, WipeStep
    <3> QED BY <2>2, <3>1, BuildBegins DEF WipeAndRebuild, fresh_db, env
  <2> QED BY <2>0, <2>1, <2>2
<1>3. ASSUME NEW p \in Indexers, Exit(p) \/ Error(p) \/ Crash(p) \/ SymbolsRejected(p)
      PROVE  BuildInv'
  <2>1. GiveUp(p) \/ ix' = [ix EXCEPT ![p] = Idle]
    BY <1>3 DEF Exit, Error, Crash, SymbolsRejected
  <2>2. ix'[p].pc \in {"watch", "idle"}
    BY <1>0, <2>1, GiveUpStep, IdleStep DEF Idle
  <2> QED BY <2>2, NoBuild DEF Building
<1>4. ASSUME NEW p \in Indexers, Work(p)
      PROVE  BuildInv'
  BY <1>3, <1>4, UpsertRebuilds, SymbolsRebuild, EdgesRebuild, BuildRebuilds, RefreshRebuilds
     DEF Work, Write
<1>5. CASE UNCHANGED vars
  <2>1. UNCHANGED <<files, symbols, edges, ix, disk>>
    BY <1>5 DEF vars, store, env
  <2> SUFFICES ASSUME NEW p \in Indexers PROVE Rebuilt(ix[p])'
    BY DEF BuildInv
  <2>2. Rebuilt(ix[p])
    BY DEF BuildInv
  <2> QED BY <2>1, <2>2, SameTablesComplete
          DEF Rebuilt, Building, Placed, Current, Written, Indexable
<1> QED BY <1>1, <1>2, <1>3, <1>4, <1>5 DEF Next

LEMMA InitRebuilt ==
  ASSUME Init
  PROVE  BuildInv
BY DEF Init, BuildInv, Rebuilt, Building, Idle

\* With one process at a time full_index recovers from anything: when its
\* last file is written, every file nobody has edited since it cleared the
\* tables is there with its text, its names and all its calls, and no other.
THEOREM RebuildIsExact ==
  ASSUME OneIndexer
  PROVE  Spec => []FullIndexExact
<1> DEFINE Inv == IInv /\ LookedInv /\ VersionInv /\ BuildInv
<1>1. Init => Inv
  BY InitIInv, InitLooked, InitVersions, InitRebuilt
<1>2. Inv /\ [Next]_vars => Inv'
  BY NextIInv, NextLooked, NextVersions, NextRebuilds
<1>3. Inv => FullIndexExact
  BY BuildInvSuffices
<1> QED BY <1>1, <1>2, <1>3, PTL DEF Spec

-----------------------------------------------------------------------------
(* One process at a time, no two edits in one second, and no rebuild (its   *)
(* extractor reads a file before it stats it): a refresh catches up.       *)

\* The commands that never rebuild: an MCP client's refresh, and a watcher
\* that is not restarted on a database no rebuild has marked.
RefreshOnly ==
  \/ Commands \subseteq {"mcp_refresh"}
  \/ Commands \subseteq {"watch"} /\ MaxFailures = 0

Quiet(x) ==
  /\ x.job \in {"idle", "watch", "mcp_refresh"}
  /\ x.phase \in {"none", "refresh"}

\* A watcher that does not fail waits or refreshes for ever; before it there
\* are no rows.
Watching(x) ==
  /\ x.pc = "idle" => files = NoRows
  /\ x.pc # "idle" => x.job = "watch"
  /\ x.pc \notin {"idle", "ready"} => x.phase = "refresh"
  /\ x.pc \notin {"done", "orphan"}

\* The row's time is that of the text it was made of, or an earlier one.
RowFits(f) ==
  /\ files[f].mtime <= written[f]
  /\ files[f].mtime = written[f] => files[f].sha = disk[f]

InHand(x, f) == x.pc \in {"read", "touch", "upsert"} /\ f = x.cur.path

HandFits(x) ==
  /\ x.pc \in {"read", "touch", "upsert"} =>
       /\ x.cur.mtime <= written[x.cur.path]
       /\ x.cur.path \in x.seen \ x.todo
  /\ x.pc \in {"touch", "upsert"} =>
       /\ x.cur.mtime = written[x.cur.path] => x.cur.sha = disk[x.cur.path]
       /\ x.cur.path \notin x.stale => x.cur.sha = disk[x.cur.path]
  /\ x.pc = "touch" => x.cur.path \in DOMAIN x.snap /\ x.snap[x.cur.path].sha = x.cur.sha

\* The snapshot is right about the files that are not written yet, and the
\* files that were met are in the table with their present text.
SnapFits(x) ==
  Refreshing(x) =>
    /\ \A f \in Paths : f \in x.todo \/ InHand(x, f) =>
         /\ f \in list_files <=> f \in DOMAIN x.snap
         /\ f \in list_files => files[f] = x.snap[f]
    /\ list_files \subseteq DOMAIN x.snap \cup x.seen
    /\ x.pc # "sweep" => x.removed = {}
    /\ x.removed \cap list_files = {}
    /\ \A f \in x.seen \ x.stale :
         /\ disk[f] # NoContent
         /\ Indexable(f) /\ ~InHand(x, f) => f \in list_files /\ files[f].sha = disk[f]

CatchUpInv ==
  /\ \A f \in list_files : RowFits(f)
  /\ \A p \in Indexers :
       /\ Quiet(ix[p]) /\ HandFits(ix[p]) /\ SnapFits(ix[p])
       /\ Commands \subseteq {"watch"} /\ MaxFailures = 0 => Watching(ix[p])

LEMMA CatchUpInvSuffices ==
  ASSUME IInv, LookedInv, CatchUpInv
  PROVE  RefreshCatchesUp
<1> SUFFICES ASSUME NEW p \in Indexers, ix[p].pc = "sweep", Gone(p) = {},
                    NEW f \in Paths \ ix[p].stale
             PROVE  InSync(f)
  BY DEF RefreshCatchesUp
<1>1. Refreshing(ix[p]) /\ ix[p].todo = {}
  BY DEF LookedInv, Control, Refreshing
<1>2. SnapFits(ix[p]) /\ Looked(ix[p])
  BY DEF CatchUpInv, LookedInv
<1>3. ~InHand(ix[p], f)
  BY DEF InHand
<1>4. disk[f] = NoContent => f \notin list_files
  BY <1>1, <1>2 DEF SnapFits, Gone
<1>5. Indexable(f) => f \in list_files /\ files[f].sha = disk[f]
  BY <1>1, <1>2, <1>3, StoreAssumption DEF SnapFits, Looked, Indexable
<1> QED BY <1>4, <1>5 DEF InSync

\* What the proofs about a process's step need of the state before it.
LEMMA BeforeStep ==
  ASSUME IInv, LookedInv, CatchUpInv, OneIndexer, NEW p \in Indexers
  PROVE  /\ ProcessesOK /\ StoreInv /\ ix[p] \in Process /\ InFile(ix[p])
         /\ Control(ix[p]) /\ Quiet(ix[p]) /\ HandFits(ix[p]) /\ SnapFits(ix[p])
         /\ \A q \in Indexers : q = p
         /\ \A f \in Paths : written[f] \in Nat
BY DEF IInv, EnvTypeOK, ProcessesOK, LookedInv, CatchUpInv, OneIndexer

\* Steps after which the process is not refreshing, over the same rows.
LEMMA RestCatchesUp ==
  ASSUME CatchUpInv, OneIndexer, NEW p \in Indexers, UNCHANGED <<files, disk, written>>,
         ix'[p].pc \in {"idle", "ready", "watch", "done"}, Quiet(ix[p])',
         Commands \subseteq {"watch"} /\ MaxFailures = 0 => Watching(ix[p])'
  PROVE  CatchUpInv'
<1>1. \A f \in list_files' : RowFits(f)'
  BY DEF CatchUpInv, RowFits, list_files
<1>2. HandFits(ix[p])' /\ SnapFits(ix[p])'
  BY DEF HandFits, SnapFits, Refreshing
<1> QED BY <1>1, <1>2 DEF CatchUpInv, OneIndexer

LEMMA EditCatchesUp ==
  ASSUME IInv, LookedInv, CatchUpInv, OneIndexer, ~CoarseClock,
         NEW g \in Paths, NEW c \in Contents \cup {NoContent}, Edit(g, c)
  PROVE  CatchUpInv'
<1>1. /\ now' = now + 1 /\ written' = [written EXCEPT ![g] = now + 1]
      /\ disk' = [disk EXCEPT ![g] = c] /\ UNCHANGED store
  BY DEF Edit
<1>2. /\ written'[g] = now + 1 /\ written[g] \in 0..now /\ now \in Nat
      /\ \A f \in Paths \ {g} : written'[f] = written[f] /\ disk'[f] = disk[f]
  BY <1>1 DEF IInv, EnvTypeOK
<1>3. UNCHANGED files /\ list_files' = list_files
  BY <1>1 DEF store, list_files
<1>4. ASSUME NEW f \in list_files' PROVE RowFits(f)'
  <2>1. RowFits(f) /\ f \in Paths /\ files[f].mtime \in Nat
    BY <1>3 DEF CatchUpInv, list_files, IInv, StoreInv, StoreTypeOK, RowPaths, Row
  <2>2. CASE f = g
    BY <1>2, <1>3, <2>1, <2>2 DEF RowFits
  <2>3. CASE f # g
    BY <1>2, <1>3, <2>1, <2>3 DEF RowFits
  <2> QED BY <2>2, <2>3
<1>5. ASSUME NEW p \in Indexers
      PROVE  /\ Quiet(ix[p])' /\ HandFits(ix[p])' /\ SnapFits(ix[p])'
             /\ Commands \subseteq {"watch"} /\ MaxFailures = 0 => Watching(ix[p])'
  <2>0. /\ ix[p] \in Process /\ InFile(ix[p])
        /\ Quiet(ix[p]) /\ HandFits(ix[p]) /\ SnapFits(ix[p])
    BY BeforeStep
  <2>1. /\ ix'[p].pc = ix[p].pc /\ ix'[p].job = ix[p].job /\ ix'[p].phase = ix[p].phase
        /\ ix'[p].snap = ix[p].snap
        /\ KeepsExt(p) /\ KeepsWalk(p) /\ KeepsCur(p) /\ KeepsGone(p)
        /\ ix'[p].stale = IF ix[p].pc \in {"idle", "orphan"} THEN ix[p].stale
                          ELSE ix[p].stale \cup {g}
    BY EditStep DEF IInv
  <2>2. Quiet(ix[p])'
    BY <2>0, <2>1 DEF Quiet
  <2>3. HandFits(ix[p])'
    <3>1. CASE ix[p].pc \in {"read", "touch", "upsert"}
      <4>1. ix[p].cur.path \in Paths /\ ix[p].cur.mtime \in Nat
        BY <2>0, <3>1 DEF InFile, Process, FileWrite
      <4>2. ix[p].cur.mtime <= written[ix[p].cur.path]
        BY <2>0, <3>1 DEF HandFits
      <4>3. CASE ix[p].cur.path = g
        BY <1>2, <2>0, <2>1, <3>1, <4>1, <4>2, <4>3 DEF HandFits, KeepsCur, KeepsWalk
      <4>4. CASE ix[p].cur.path # g
        BY <1>2, <2>0, <2>1, <3>1, <4>1, <4>2, <4>4 DEF HandFits, KeepsCur, KeepsWalk
      <4> QED BY <4>3, <4>4
    <3>2. CASE ix[p].pc \notin {"read", "touch", "upsert"}
      BY <2>1, <3>2 DEF HandFits
    <3> QED BY <3>1, <3>2
  <2>4. SnapFits(ix[p])'
    <3> SUFFICES ASSUME Refreshing(ix[p])' PROVE SnapFits(ix[p])'
      BY DEF SnapFits
    <3>1. Refreshing(ix[p]) /\ ix'[p].stale = ix[p].stale \cup {g}
      BY <2>1 DEF Refreshing
    <3>2. \A f : InHand(ix[p], f)' <=> InHand(ix[p], f)
      BY <2>1 DEF InHand, KeepsCur
    <3>3. \A f \in ix'[p].seen \ ix'[p].stale : f \in ix[p].seen \ ix[p].stale /\ f \in Paths \ {g}
      BY <2>0, <2>1, <3>1 DEF KeepsWalk, Process
    <3> QED BY <1>2, <1>3, <2>0, <2>1, <3>1, <3>2, <3>3
            DEF SnapFits, Indexable, KeepsWalk, KeepsGone
  <2>5. ASSUME Commands \subseteq {"watch"}, MaxFailures = 0 PROVE Watching(ix[p])'
    BY <1>3, <2>1, <2>5 DEF CatchUpInv, Watching
  <2> QED BY <2>2, <2>3, <2>4, <2>5
<1> QED BY <1>4, <1>5 DEF CatchUpInv

\* No step of a rebuild is enabled.
LEMMA NoRebuild ==
  ASSUME RefreshOnly, NEW p \in Indexers, Quiet(ix[p]), Control(ix[p])
  PROVE  ~Build(p)
BY DEF Build, StartFull, ServeLookup, EndWrites, FlagEdges, MarkBuilt, ReadForBuild, StatForBuild,
       PickExtracted, Extracted, Quiet, Control

LEMMA StartCatchesUp ==
  ASSUME IInv, LookedInv, CatchUpInv, OneIndexer, RefreshOnly, NEW p \in Indexers, Start(p)
  PROVE  CatchUpInv'
<1>0. PICK job \in Commands : StartCli(p, job) \/ WipeAndRebuild(p, job) \/ StartMcp(p, job)
  BY DEF Start
<1>1. CASE StartCli(p, job) \/ StartMcp(p, job)
  <2>1. ix'[p].pc = "ready" /\ ix'[p].phase = "none" /\ ix'[p].job = job
    BY <1>1, StartCommandStep DEF IInv
  <2>2. Quiet(ix[p])'
    BY <2>1 DEF Quiet, RefreshOnly
  <2>3. ASSUME Commands \subseteq {"watch"}, MaxFailures = 0 PROVE Watching(ix[p])'
    BY <2>1, <2>3 DEF Watching
  <2>4. UNCHANGED <<files, disk, written>>
    BY <1>1 DEF StartCli, StartMcp, store, env
  <2> QED BY <2>1, <2>2, <2>3, <2>4, RestCatchesUp
<1>2. CASE WipeAndRebuild(p, job)
  <2>1. ix[p].pc = "idle" /\ job = "watch" /\ files # NoRows
    BY <1>2 DEF WipeAndRebuild, RefreshOnly, needs_reindex, CLICommands
  <2>2. Watching(ix[p])
    BY <2>1 DEF CatchUpInv, RefreshOnly
  <2> QED BY <2>1, <2>2 DEF Watching
<1> QED BY <1>0, <1>1, <1>2

\* The process ends, fails or is killed.
LEMMA EndCatchesUp ==
  ASSUME IInv, LookedInv, CatchUpInv, OneIndexer, RefreshOnly, NEW p \in Indexers,
         Exit(p) \/ Error(p) \/ Crash(p) \/ SymbolsRejected(p)
  PROVE  CatchUpInv'
<1>0. /\ ProcessesOK /\ Quiet(ix[p])
      /\ UNCHANGED <<files, disk, written>>
  BY DEF IInv, CatchUpInv, Exit, Error, Crash, SymbolsRejected, store, env
<1>1. \/ ix'[p].pc = "watch" /\ KeepsAll(p)
      \/ ix'[p] = Idle
  BY <1>0, GiveUpStep, IdleStep DEF Exit, Error, Crash, SymbolsRejected
<1>2. Quiet(ix[p])' /\ ix'[p].pc \in {"watch", "idle"}
  BY <1>0, <1>1 DEF Quiet, Idle, KeepsAll, KeepsRun
<1>3. ASSUME Commands \subseteq {"watch"}, MaxFailures = 0 PROVE Watching(ix[p])'
  <2>1. Watching(ix[p]) /\ failures = 0
    BY <1>3 DEF CatchUpInv, IInv, EnvTypeOK
  <2>2. SymbolsRejected(p)
    BY <1>3, <2>1 DEF Exit, Error, Crash, Watching
  <2>3. ix[p].job = "watch" /\ ix[p].phase = "refresh" /\ ix' = [ix EXCEPT ![p].pc = "watch"]
    BY <2>1, <2>2 DEF SymbolsRejected, GiveUp, Watching
  <2>4. ix'[p].pc = "watch" /\ ix'[p].job = "watch" /\ ix'[p].phase = "refresh"
    BY <1>0, <2>3 DEF ProcessesOK, Process
  <2> QED BY <2>4 DEF Watching
<1> QED BY <1>0, <1>2, <1>3, RestCatchesUp

\* A step of a refresh that keeps the process quiet, and a watcher watching.
LEMMA StillQuiet ==
  ASSUME CatchUpInv, NEW p \in Indexers, Quiet(ix[p]),
         ix'[p].job = ix[p].job, ix'[p].phase = ix[p].phase \/ ix'[p].phase = "refresh",
         ix[p].pc # "idle", ix'[p].pc \notin {"idle", "ready", "done", "orphan"},
         ix[p].pc = "ready" => ix'[p].phase = "refresh"
  PROVE  /\ Quiet(ix[p])'
         /\ Commands \subseteq {"watch"} /\ MaxFailures = 0 => Watching(ix[p])'
BY DEF CatchUpInv, Quiet, Watching

LEMMA RefreshCatches ==
  ASSUME IInv, LookedInv, CatchUpInv, OneIndexer, RefreshOnly, NEW p \in Indexers, Refresh(p)
  PROVE  CatchUpInv'
<1> USE DEF KeepsAll, KeepsExt, KeepsWalk, KeepsRun, KeepsCur, KeepsGone
<1>0. /\ ProcessesOK /\ StoreInv /\ ix[p] \in Process /\ InFile(ix[p])
      /\ Control(ix[p]) /\ Quiet(ix[p]) /\ HandFits(ix[p]) /\ SnapFits(ix[p])
      /\ \A q \in Indexers : q = p
      /\ \A f \in Paths : written[f] \in Nat
  BY BeforeStep
<1>1. UNCHANGED <<disk, written>>
  BY DEF Refresh, StartWatch, StartRefresh, ReadChanged, TouchFile, EndWalk,
         EndRefresh, VisitGone, VisitUnchanged, VisitChanged, DeleteGone, env
<1>2. ASSUME UNCHANGED files PROVE \A f \in list_files' : RowFits(f)'
  BY <1>1, <1>2 DEF CatchUpInv, RowFits, list_files
<1>3. CASE StartWatch(p)
  <2>1. /\ ix[p].pc = "ready" /\ ix'[p].pc = "watch" /\ ix'[p].phase = "refresh"
        /\ ix'[p].job = ix[p].job /\ UNCHANGED files
    BY <1>0, <1>3, StartWatchStep DEF StartWatch, store
  <2> QED BY <1>0, <1>1, <2>1, StillQuiet, RestCatchesUp
<1>4. CASE StartRefresh(p)
  <2>1. /\ ix[p].pc \in {"ready", "watch"} /\ ix'[p].pc = "walk" /\ ix'[p].phase = "refresh"
        /\ ix'[p].todo = Paths /\ ix'[p].seen = {} /\ ix'[p].stale = {}
        /\ ix'[p].snap = files /\ ix'[p].removed = {} /\ ix'[p].job = ix[p].job
        /\ UNCHANGED files
    BY <1>0, <1>4, StartRefreshStep DEF StartRefresh, store
  <2>2. HandFits(ix[p])'
    BY <2>1 DEF HandFits
  <2>3. SnapFits(ix[p])'
    BY <2>1, StoreAssumption DEF SnapFits, list_files, InHand
  <2> QED BY <1>0, <1>2, <2>1, <2>2, <2>3, StillQuiet DEF CatchUpInv
<1>5. CASE ReadChanged(p)
  <2> DEFINE f == ix[p].cur.path
  <2>1. /\ ix[p].pc = "read" /\ ix'[p].pc \in {"touch", "upsert", "walk"}
        /\ ix'[p].cur.path = f /\ ix'[p].cur.mtime = ix[p].cur.mtime
        /\ ix'[p].cur.sha = disk[f]
        /\ KeepsExt(p) /\ KeepsWalk(p) /\ KeepsRun(p) /\ KeepsGone(p)
    BY <1>0, <1>5, ReadChangedStep
  <2>2. /\ ix'[p].pc = "touch" => f \in DOMAIN ix[p].snap /\ ix[p].snap[f].sha = disk[f]
        /\ ix'[p].pc = "walk" => ~Indexable(f)
        /\ UNCHANGED files
    <3>1. PICK l : l = (CASE Stored(p, f) /\ ix[p].snap[f].sha = disk[f] -> "touch"
                          [] ~(Stored(p, f) /\ ix[p].snap[f].sha = disk[f])
                             /\ disk[f] \in Contents \ Unindexable -> "upsert"
                          [] OTHER -> "walk")
      OBVIOUS
    <3>2. ix'[p].pc = l /\ UNCHANGED files
      BY <1>0, <1>5, <3>1 DEF ReadChanged, ProcessesOK, Process, store
    <3> QED BY <3>1, <3>2 DEF Stored, Indexable
  <2>3. HandFits(ix[p])'
    BY <1>0, <1>1, <2>1, <2>2 DEF HandFits
  <2>4. SnapFits(ix[p])'
    <3>1. Refreshing(ix[p]) /\ f \in Paths
      BY <1>0, <2>1 DEF Refreshing, Control, InFile
    <3>2. \A g : InHand(ix[p], g)' => InHand(ix[p], g)
      BY <2>1 DEF InHand
    <3>3. \A g : InHand(ix[p], g) /\ ~InHand(ix[p], g)' => g = f /\ ~Indexable(f)
      BY <2>1, <2>2 DEF InHand
    <3> QED BY <1>0, <1>1, <2>1, <2>2, <3>1, <3>2, <3>3 DEF SnapFits, Indexable, list_files
  <2> QED BY <1>0, <1>2, <2>1, <2>2, <2>3, <2>4, StillQuiet DEF CatchUpInv
<1>6. CASE TouchFile(p)
  <2> DEFINE f == ix[p].cur.path
  <2>1. ix[p].pc = "touch" /\ ix'[p].pc = "walk" /\ KeepsAll(p)
    BY <1>0, <1>6, GotoStep DEF TouchFile, Stages
  <2>2. /\ Refreshing(ix[p]) /\ InHand(ix[p], f) /\ f \in Paths /\ f \in DOMAIN ix[p].snap
        /\ f \in list_files /\ f \in DOMAIN files /\ files[f].sha = ix[p].cur.sha
        /\ f \in ix[p].seen \ ix[p].todo
    BY <1>0, <2>1 DEF Refreshing, Control, InHand, InFile, HandFits, SnapFits, list_files
  <2>3. /\ DOMAIN files' = DOMAIN files
        /\ SameRows(DOMAIN files \ {f})
        /\ files'[f].sha = files[f].sha /\ files'[f].mtime = ix[p].cur.mtime
    BY <1>0, <1>6, <2>2, touch_mtimeOthers DEF TouchFile
  <2>4. list_files' = list_files /\ \A g \in list_files \ {f} : files'[g] = files[g]
    BY <2>3 DEF list_files, SameRows
  <2>5. ASSUME NEW g \in list_files' PROVE RowFits(g)'
    <3>1. CASE g = f
      BY <1>0, <1>1, <2>1, <2>2, <2>3, <3>1 DEF HandFits, RowFits
    <3>2. CASE g # f
      BY <1>1, <2>4, <3>2 DEF CatchUpInv, RowFits
    <3> QED BY <3>1, <3>2
  <2>6. HandFits(ix[p])'
    BY <2>1 DEF HandFits
  <2>7. SnapFits(ix[p])'
    <3>1. \A g : ~InHand(ix[p], g)'
      BY <2>1 DEF InHand
    <3>2. \A g : InHand(ix[p], g) <=> g = f
      BY <2>1 DEF InHand
    <3>3. f \notin ix[p].stale => files'[f].sha = disk[f]
      BY <1>0, <2>1, <2>2, <2>3 DEF HandFits
    <3> QED BY <1>0, <1>1, <2>1, <2>2, <2>3, <2>4, <3>1, <3>2, <3>3 DEF SnapFits, Indexable
  <2> QED BY <1>0, <2>1, <2>5, <2>6, <2>7, StillQuiet DEF CatchUpInv
<1>7. CASE EndWalk(p)
  <2>1. /\ ix[p].pc = "walk" /\ ix'[p].pc = "sweep" /\ KeepsAll(p)
        /\ UNCHANGED files
    BY <1>0, <1>7, GotoStep DEF EndWalk, Stages, store
  <2>2. HandFits(ix[p])'
    BY <2>1 DEF HandFits
  <2>3. SnapFits(ix[p])'
    BY <1>0, <1>1, <2>1 DEF SnapFits, InHand, Refreshing, Control, list_files, Indexable
  <2> QED BY <1>0, <1>2, <2>1, <2>2, <2>3, StillQuiet DEF CatchUpInv
<1>8. CASE EndRefresh(p)
  <2>1. PICK l \in {"watch", "done"} :
          /\ Goto(p, l) /\ ix[p].pc = "sweep" /\ UNCHANGED files
          /\ ix[p].job = "watch" => l = "watch"
    BY <1>8 DEF EndRefresh, store
  <2>2. ix'[p].pc = l /\ KeepsAll(p)
    BY <1>0, <2>1, GotoStep DEF Stages
  <2>3. Quiet(ix[p])'
    BY <1>0, <2>2 DEF Quiet
  <2>4. ASSUME Commands \subseteq {"watch"}, MaxFailures = 0 PROVE Watching(ix[p])'
    BY <2>1, <2>2, <2>4 DEF CatchUpInv, Watching
  <2> QED BY <1>1, <2>1, <2>2, <2>3, <2>4, RestCatchesUp
<1>9. ASSUME NEW f \in Paths, VisitGone(p, f) \/ VisitUnchanged(p, f) \/ VisitChanged(p, f)
      PROVE  CatchUpInv'
  <2>1. UNCHANGED files /\ ix[p].pc = "walk" /\ f \in ix[p].todo
    BY <1>9 DEF VisitGone, VisitUnchanged, VisitChanged, store
  <2>2. Refreshing(ix[p]) /\ \A g : ~InHand(ix[p], g)
    BY <1>0, <2>1 DEF Refreshing, Control, InHand
  <2>3. list_files' = list_files
    BY <2>1 DEF list_files
  <2>4. CASE VisitGone(p, f)
    <3>1. /\ ix'[p].pc = "walk" /\ ix'[p].todo = ix[p].todo \ {f} /\ ix'[p].seen = ix[p].seen
          /\ KeepsRun(p) /\ KeepsGone(p)
      BY <1>0, <2>4, VisitGoneStep
    <3>2. HandFits(ix[p])'
      BY <3>1 DEF HandFits
    <3>3. SnapFits(ix[p])'
      BY <1>0, <1>1, <2>1, <2>2, <2>3, <3>1 DEF SnapFits, InHand, Indexable
    <3> QED BY <1>0, <1>2, <2>1, <3>1, <3>2, <3>3, StillQuiet DEF CatchUpInv
  <2>5. CASE VisitUnchanged(p, f)
    <3>1. /\ ix'[p].pc = "walk" /\ ix'[p].todo = ix[p].todo \ {f}
          /\ ix'[p].seen = ix[p].seen \cup {f} /\ KeepsRun(p) /\ KeepsGone(p)
      BY <1>0, <2>5, VisitUnchangedStep
    <3>2. HandFits(ix[p])'
      BY <3>1 DEF HandFits
    <3>3. disk[f] # NoContent /\ f \in list_files /\ files[f].sha = disk[f]
      BY <1>0, <2>1, <2>2, <2>5 DEF VisitUnchanged, Stored, SnapFits, CatchUpInv, RowFits
    <3>4. SnapFits(ix[p])'
      BY <1>0, <1>1, <2>1, <2>2, <2>3, <3>1, <3>3 DEF SnapFits, InHand, Indexable
    <3> QED BY <1>0, <1>2, <2>1, <3>1, <3>2, <3>4, StillQuiet DEF CatchUpInv
  <2>6. CASE VisitChanged(p, f)
    <3>1. /\ ix'[p].pc = "read" /\ ix'[p].todo = ix[p].todo \ {f}
          /\ ix'[p].seen = ix[p].seen \cup {f} /\ KeepsRun(p) /\ KeepsGone(p)
          /\ ix'[p].cur.path = f /\ ix'[p].cur.mtime = written[f]
      BY <1>0, <2>6, VisitChangedStep
    <3>2. HandFits(ix[p])'
      BY <1>0, <1>1, <3>1 DEF HandFits
    <3>3. disk[f] # NoContent
      BY <2>6 DEF VisitChanged
    <3>4. SnapFits(ix[p])'
      BY <1>0, <1>1, <2>1, <2>2, <2>3, <3>1, <3>3 DEF SnapFits, InHand, Indexable
    <3> QED BY <1>0, <1>2, <2>1, <3>1, <3>2, <3>4, StillQuiet DEF CatchUpInv
  <2> QED BY <1>9, <2>4, <2>5, <2>6
<1>10. ASSUME NEW g \in RowPaths, DeleteGone(p, g)
       PROVE  CatchUpInv'
  <2>1. /\ ix[p].pc = "sweep" /\ ix'[p].pc = "sweep"
        /\ KeepsExt(p) /\ KeepsWalk(p) /\ KeepsCur(p) /\ KeepsRun(p)
        /\ ix'[p].removed = ix[p].removed \cup {g}
    BY <1>0, <1>10, DeleteGoneStep
  <2>2. g \notin ix[p].seen /\ ix[p].todo = {}
    BY <1>0, <1>10 DEF DeleteGone, Gone, Control
  <2>3. DOMAIN files' = DOMAIN files \ ({g} \ {Anchor}) /\ SameRows(DOMAIN files')
    BY <1>0, <1>10, delete_fileOthers DEF DeleteGone
  <2>4. list_files' = list_files \ {g} /\ \A f \in list_files' : files'[f] = files[f]
    BY <2>3 DEF list_files, SameRows
  <2>5. \A f \in list_files' : RowFits(f)'
    BY <1>1, <2>4 DEF CatchUpInv, RowFits
  <2>6. HandFits(ix[p])'
    BY <2>1 DEF HandFits
  <2>7. SnapFits(ix[p])'
    <3>1. Refreshing(ix[p]) /\ \A f : ~InHand(ix[p], f) /\ ~InHand(ix[p], f)'
      BY <1>0, <2>1 DEF Refreshing, Control, InHand
    <3> QED BY <1>0, <1>1, <2>1, <2>2, <2>4, <3>1 DEF SnapFits, Indexable
  <2> QED BY <1>0, <2>1, <2>5, <2>6, <2>7, StillQuiet DEF CatchUpInv
<1> QED BY <1>3, <1>4, <1>5, <1>6, <1>7, <1>8, <1>9, <1>10 DEF Refresh

LEMMA WriteCatchesUp ==
  ASSUME IInv, LookedInv, CatchUpInv, OneIndexer, RefreshOnly, NEW p \in Indexers,
         UpsertFile(p) \/ ReplaceSymbols(p) \/ ReplaceEdges(p)
  PROVE  CatchUpInv'
<1> USE DEF KeepsAll, KeepsExt, KeepsWalk, KeepsRun, KeepsCur, KeepsGone
<1> DEFINE c == ix[p].cur
<1>0. /\ ProcessesOK /\ StoreInv /\ ix[p] \in Process /\ InFile(ix[p])
      /\ Control(ix[p]) /\ Quiet(ix[p]) /\ HandFits(ix[p]) /\ SnapFits(ix[p])
      /\ \A q \in Indexers : q = p
      /\ \A f \in Paths : written[f] \in Nat
  BY BeforeStep
<1>1. UNCHANGED <<disk, written>>
  BY DEF UpsertFile, ReplaceSymbols, ReplaceEdges, env
<1>2. ix[p].phase = "refresh" /\ Refreshing(ix[p]) /\ c.path \in Paths /\ c.sha \in Contents
  BY <1>0 DEF UpsertFile, ReplaceSymbols, ReplaceEdges, Control, Quiet, Refreshing, InFile
<1>3. CASE UpsertFile(p)
  <2>1. /\ ix[p].pc = "upsert" /\ ix'[p].pc = "symbols"
        /\ KeepsWalk(p) /\ KeepsRun(p) /\ KeepsGone(p)
    BY <1>0, <1>3, UpsertFileStep
  <2>2. c.mtime \in Nat /\ upsert_file(c.path, c.sha, c.mtime)
    BY <1>0, <1>3 DEF UpsertFile, Process, FileWrite
  <2>3. /\ DOMAIN files' = DOMAIN files \cup {c.path}
        /\ SameRows(DOMAIN files \ {c.path})
        /\ files'[c.path].sha = c.sha /\ files'[c.path].mtime = c.mtime
    <3>1. PICK path, sha, mtime : path = c.path /\ sha = c.sha /\ mtime = c.mtime
      OBVIOUS
    <3>2. /\ DOMAIN files' = DOMAIN files \cup {path}
          /\ SameRows(DOMAIN files \ {path})
          /\ files'[path].sha = sha /\ files'[path].mtime = mtime
      <4>1. path \in Paths /\ sha \in Contents /\ mtime \in Nat
        BY <1>2, <2>2, <3>1
      <4>2. upsert_file(path, sha, mtime)
        BY <2>2, <3>1
      <4> QED BY <1>0, <4>1, <4>2, upsert_fileOthers
    <3> QED BY <3>1, <3>2
  <2>4. /\ list_files' = list_files \cup {c.path}
        /\ \A f \in list_files \ {c.path} : files'[f] = files[f]
    BY <1>2, <2>3, StoreAssumption DEF list_files, SameRows
  <2>5. ASSUME NEW f \in list_files' PROVE RowFits(f)'
    <3>1. CASE f = c.path
      BY <1>0, <1>1, <2>1, <2>3, <3>1 DEF HandFits, RowFits
    <3>2. CASE f # c.path
      BY <1>1, <2>4, <3>2 DEF CatchUpInv, RowFits
    <3> QED BY <3>1, <3>2
  <2>6. HandFits(ix[p])'
    BY <2>1 DEF HandFits
  <2>7. SnapFits(ix[p])'
    <3>1. /\ \A f : ~InHand(ix[p], f)'
          /\ \A f : InHand(ix[p], f) <=> f = c.path
      BY <2>1 DEF InHand
    <3>2. /\ c.path \in ix[p].seen \ ix[p].todo
          /\ c.path \notin ix[p].stale => files'[c.path].sha = disk[c.path]
      BY <1>0, <2>1, <2>3 DEF HandFits
    <3>3. ix[p].removed = {}
      BY <1>0, <1>2, <2>1 DEF SnapFits
    <3> QED BY <1>0, <1>1, <1>2, <2>1, <2>3, <2>4, <3>1, <3>2, <3>3 DEF SnapFits, Indexable
  <2> QED BY <1>0, <2>1, <2>5, <2>6, <2>7, StillQuiet DEF CatchUpInv
<1>4. CASE ReplaceSymbols(p) \/ ReplaceEdges(p)
  <2>1. PICK l \in {"edges", "walk"} : Goto(p, l) /\ ix[p].pc \in {"symbols", "edges"}
    BY <1>2, <1>4 DEF ReplaceSymbols, ReplaceEdges
  <2>2. ix'[p].pc = l /\ KeepsAll(p)
    BY <1>0, <2>1, GotoStep DEF Stages
  <2>3. list_files' = list_files /\ \A f \in list_files : files'[f] = files[f]
    <3>1. CASE ReplaceSymbols(p)
      BY <3>1 DEF ReplaceSymbols, replace_symbols, list_files
    <3>2. CASE ReplaceEdges(p)
      <4>1. files' = files \/ files' = WithRow(Anchor, NoContent, 0)
        BY <3>2 DEF ReplaceEdges, replace_edges
      <4>2. ASSUME files' = WithRow(Anchor, NoContent, 0)
            PROVE  /\ DOMAIN files' = DOMAIN files \cup {Anchor}
                   /\ \A q \in DOMAIN files \ {Anchor} : files'[q] = files[q]
        BY <4>2 DEF WithRow
      <4> QED BY <4>1, <4>2 DEF list_files
    <3> QED BY <1>4, <3>1, <3>2
  <2>4. \A f \in list_files' : RowFits(f)'
    BY <1>1, <2>3 DEF CatchUpInv, RowFits
  <2>5. HandFits(ix[p])'
    BY <2>2 DEF HandFits
  <2>6. SnapFits(ix[p])'
    <3>1. \A f : ~InHand(ix[p], f) /\ ~InHand(ix[p], f)'
      BY <2>1, <2>2 DEF InHand
    <3> QED BY <1>0, <1>1, <1>2, <2>1, <2>2, <2>3, <3>1 DEF SnapFits, Indexable
  <2> QED BY <1>0, <2>1, <2>2, <2>4, <2>5, <2>6, StillQuiet DEF CatchUpInv
<1> QED BY <1>3, <1>4

LEMMA NextCatchesUp ==
  ASSUME IInv, LookedInv, CatchUpInv, OneIndexer, ~CoarseClock, RefreshOnly, [Next]_vars
  PROVE  CatchUpInv'
<1>1. ASSUME NEW g \in Paths, NEW c \in Contents \cup {NoContent}, Edit(g, c)
      PROVE  CatchUpInv'
  BY <1>1, EditCatchesUp
<1>2. ASSUME NEW p \in Indexers,
             Start(p) \/ Exit(p) \/ Error(p) \/ Crash(p) \/ SymbolsRejected(p)
      PROVE  CatchUpInv'
  BY <1>2, StartCatchesUp, EndCatchesUp
<1>3. ASSUME NEW p \in Indexers, Work(p)
      PROVE  CatchUpInv'
  <2>1. ~Build(p)
    BY NoRebuild, BeforeStep
  <2> QED BY <1>2, <1>3, <2>1, WriteCatchesUp, RefreshCatches DEF Work, Write
<1>4. CASE UNCHANGED vars
  <2>1. UNCHANGED <<files, disk, written, ix>> /\ list_files' = list_files
    BY <1>4 DEF vars, store, env, list_files
  <2> QED BY <2>1 DEF CatchUpInv, RowFits, Quiet, HandFits, SnapFits, Watching, Refreshing,
                      InHand, Indexable
<1> QED BY <1>1, <1>2, <1>3, <1>4 DEF Next

LEMMA InitCatchUp ==
  ASSUME Init
  PROVE  CatchUpInv
BY DEF Init, EmptyStore, NoRows, list_files, Idle, CatchUpInv, Quiet, HandFits, SnapFits,
       Watching, Refreshing

\* A refresh that no other process disturbs and no rebuild has prepared the
\* ground for leaves every file nobody edited meanwhile with its present
\* text in the table, and no row of a file that is gone, when no two edits
\* of the user fall in one second.
THEOREM RefreshesCatchUp ==
  ASSUME OneIndexer, ~CoarseClock, RefreshOnly
  PROVE  Spec => []RefreshCatchesUp
<1> DEFINE Inv == IInv /\ LookedInv /\ CatchUpInv
<1>1. Init => Inv
  BY InitIInv, InitLooked, InitCatchUp
<1>2. Inv /\ [Next]_vars => Inv'
  BY NextIInv, NextLooked, NextCatchesUp
<1>3. Inv => RefreshCatchesUp
  BY CatchUpInvSuffices
<1> QED BY <1>1, <1>2, <1>3, PTL DEF Spec

-----------------------------------------------------------------------------
(* write_file: what a call has done so far.                                *)

ToolInv ==
  /\ ToolTypeOK
  /\ tool.pc \notin {"none"} => tool.path \in Paths /\ tool.text \in Contents

TInv == IInv /\ ToolInv

\* Changing only the stage of a call under way.
LEMMA NextStage ==
  ASSUME ToolInv, tool.pc # "none", NEW l \in ToolStages, tool' = [tool EXCEPT !.pc = l]
  PROVE  ToolInv'
<1>1. tool.path \in Paths /\ tool.text \in Contents
  BY DEF ToolInv
<1>2. ToolTypeOK'
  BY DEF ToolInv, ToolTypeOK
<1>3. tool'.path = tool.path /\ tool'.text = tool.text
  BY DEF ToolInv, ToolTypeOK
<1> QED BY <1>1, <1>2, <1>3 DEF ToolInv

LEMMA BesideKeeps ==
  ASSUME TInv, Beside
  PROVE  TInv'
<1>1. IInv'
  BY NextIInv DEF TInv, Beside
<1>2. CASE tool.pc = "none"
  BY <1>1, <1>2 DEF TInv, ToolInv, ToolTypeOK, Beside
<1>3. CASE tool.pc # "none"
  <2> DEFINE st == tool.stale \cup {f \in Paths : written'[f] # written[f]}
             al == tool.alone /\ written' # written
  <2>1. tool' = [tool EXCEPT !.stale = st, !.alone = al]
    BY <1>3 DEF Beside
  <2>2. st \in SUBSET Paths /\ al \in BOOLEAN
    BY DEF TInv, ToolInv, ToolTypeOK
  <2> HIDE DEF st, al
  <2> QED BY <1>1, <2>1, <2>2 DEF TInv, ToolInv, ToolTypeOK
<1> QED BY <1>2, <1>3

LEMMA NamesInFile ==
  ASSUME IInv, NEW f
  PROVE  symbols_in_file(f) \in SUBSET Names
BY DEF symbols_in_file, SymbolsOf, IInv, StoreInv, StoreTypeOK, Symbol

\* The steps that leave the index and the tree alone.
LEMMA QuietCallKeeps ==
  ASSUME TInv,
         \/ \E f \in Paths, c \in Contents : Snapshot(f, c)
         \/ Stamp \/ (\E n \in Names : QueryCallers(n) \/ QueryFails(n)) \/ Answer
  PROVE  TInv'
<1>1. UNCHANGED <<store, env, ix>> /\ (Succeeds \/ Dropped)
  BY DEF Snapshot, Stamp, QueryCallers, QueryFails, Answer, vars, Succeeds
<1>2. IInv'
  <2>1. failures' \in 0..MaxFailures
    BY <1>1, IndexerAssumption DEF Succeeds, Dropped, TInv, IInv, EnvTypeOK
  <2>2. EnvTypeOK'
    BY <1>1, <2>1 DEF TInv, IInv, EnvTypeOK, env
  <2>3. ProcessesOK' /\ StoreInv'
    BY <1>1, UnchangedKeeps DEF TInv, IInv, ProcessesOK
  <2> QED BY <2>2, <2>3 DEF IInv
<1>3. ASSUME NEW f \in Paths, NEW c \in Contents, Snapshot(f, c)
      PROVE  ToolInv'
  <2> DEFINE al == \A p \in Indexers : ix[p].pc = "idle"
  <2>1. al \in BOOLEAN /\ symbols_in_file(f) \in SUBSET Names
    BY NamesInFile DEF TInv
  <2>2. PICK before \in {symbols_in_file(f), {}} :
          tool' = [NoCall EXCEPT !.pc = "write", !.path = f, !.text = c, !.before = before,
                                 !.alone = al]
    BY <1>3 DEF Snapshot
  <2>3. before \in SUBSET Names
    BY <2>1
  <2> HIDE DEF al
  <2> QED BY <2>1, <2>2, <2>3 DEF ToolInv, ToolTypeOK, NoCall, ToolStages, RowPaths
<1>4. CASE Stamp
  <2> DEFINE l == IF tool.text \in Unindexable THEN "callers" ELSE "upsert"
             left == tool.before \ After
  <2>1. now \in Nat /\ l \in ToolStages \ {"none"} /\ left \in SUBSET Names
    BY DEF TInv, IInv, EnvTypeOK, ToolInv, ToolTypeOK, ToolStages
  <2>2. /\ tool.pc = "stamp"
        /\ tool' = [tool EXCEPT !.pc = l, !.mtime = now, !.todo = left]
    BY <1>4 DEF Stamp
  <2> HIDE DEF l, left
  <2> QED BY <1>2, <2>1, <2>2 DEF TInv, ToolInv, ToolTypeOK, ToolStages
<1>5. ASSUME NEW n \in Names, QueryCallers(n)
      PROVE  ToolInv'
  <2>1. PICK skipped : tool' = [tool EXCEPT !.todo = @ \ {n},
                                            !.broken = @ \cup (find_callers(n) \ skipped)]
    BY <1>5 DEF QueryCallers
  <2>2. find_callers(n) \in SUBSET Paths
    BY DEF find_callers
  <2> QED BY <2>1, <2>2 DEF TInv, ToolInv, ToolTypeOK, ToolStages
<1>7. ASSUME NEW n \in Names, QueryFails(n)
      PROVE  ToolInv'
  BY <1>7 DEF QueryFails, TInv, ToolInv, ToolTypeOK, ToolStages
<1>6. CASE Answer
  <2>1. tool.pc = "callers" /\ tool' = [tool EXCEPT !.pc = "answered"]
    BY <1>6 DEF Answer
  <2>2. "answered" \in ToolStages \ {"none"}
    BY DEF ToolStages
  <2> QED BY <1>2, <2>1, <2>2, NextStage DEF TInv
<1> QED BY <1>2, <1>3, <1>4, <1>5, <1>6, <1>7 DEF TInv

\* The steps that write.
LEMMA WritingCallKeeps ==
  ASSUME TInv, WriteDisk \/ UpsertWritten \/ SymbolsWritten \/ EdgesWritten \/ Return
  PROVE  TInv'
<1> USE DEF TInv
<1>1. tool.pc # "none" => tool.path \in Paths /\ tool.text \in Contents
  BY DEF ToolInv
<1>2. CASE WriteDisk
  <2>1. IInv'
    BY <1>1, <1>2, EditKeeps DEF WriteDisk
  <2> QED BY <1>2, <2>1 DEF WriteDisk, ToolInv, ToolTypeOK, ToolStages
<1>3. CASE UpsertWritten \/ SymbolsWritten \/ EdgesWritten
  <2>1. EnvTypeOK' /\ ProcessesOK'
    BY <1>3, EnvUnchanged DEF UpsertWritten, SymbolsWritten, EdgesWritten, Untouched,
                              IInv, ProcessesOK
  <2>2. StoreInv'
    <3>1. tool.path \in RowPaths /\ tool.text \in Contents /\ tool.mtime \in Nat
      BY <1>1, <1>3 DEF UpsertWritten, SymbolsWritten, EdgesWritten, ToolInv, ToolTypeOK
    <3> QED BY <1>3, <3>1, upsert_fileKeeps, replace_symbolsKeeps, replace_edgesKeeps
            DEF UpsertWritten, SymbolsWritten, EdgesWritten, IInv
  <2>3. RowIdFor(tool.path) \in Nat
    BY RowIdForType DEF IInv, StoreInv, RowId
  <2>4. ToolInv'
    BY <1>3, <2>3 DEF UpsertWritten, SymbolsWritten, EdgesWritten, ToolInv, ToolTypeOK, ToolStages
  <2> QED BY <2>1, <2>2, <2>4 DEF IInv
<1>4. CASE Return
  <2>1. ToolInv'
    BY <1>4 DEF Return, ToolInv, ToolTypeOK, NoCall, ToolStages, RowPaths
  <2>2. EnvTypeOK'
    <3>1. failures' \in 0..MaxFailures /\ UNCHANGED env
      BY <1>4, IndexerAssumption DEF Return, IInv, EnvTypeOK
    <3> QED BY <3>1 DEF IInv, EnvTypeOK, env
  <2>3. ProcessesOK' /\ StoreInv'
    BY <1>4, UnchangedKeeps DEF Return, IInv, ProcessesOK
  <2> QED BY <2>1, <2>2, <2>3 DEF IInv
<1> QED BY <1>2, <1>3, <1>4

-----------------------------------------------------------------------------
(* A call during which no process is at work on the index.                 *)

\* What such a call has written so far is in the tables as it was written.
WrittenSoFar ==
  tool.alone =>
    /\ tool.pc \in {"symbols", "edges"} =>
         /\ tool.path \in list_files
         /\ files[tool.path].id = tool.fid /\ files[tool.path].sha = tool.text
    /\ tool.pc = "edges" => SymbolsOf(tool.fid) = {<<tool.fid, n>> : n \in Defs[tool.text]}
    /\ tool.pc \in {"callers", "answered"} /\ tool.text \notin Unindexable =>
         tool.path \in list_files /\ files[tool.path].sha = tool.text /\ Complete(tool.path)

RemovedNames == tool.before \ After

\* The removed names that were looked up, and were found or not.
LookedUp == (RemovedNames \ tool.lost) \ tool.todo

\* The walk over the texts finds in g a call of a name of ns.
CallsOneOf(g, ns) == g \in Patterned /\ TextCalls[disk[g]] \cap Identifiers \cap ns # {}

\* The answer so far is right about every file that nobody touched.
RightSoFar ==
  /\ tool.broken \subseteq list_files
  /\ \A g \in list_files \ tool.stale :
       Indexable(g) => (g \in tool.broken <=> CallsOneOf(g, LookedUp))

\* What is still to be looked up was removed, and did not fail.
CallersSoFar ==
  /\ tool.todo \subseteq RemovedNames \ tool.lost \/ tool.pc \in {"none", "write", "stamp"}
  /\ tool.pc \in {"upsert", "symbols", "edges"} => tool.todo = RemovedNames
  /\ tool.pc \notin {"callers", "answered"} => tool.broken = {} /\ tool.lost = {}
  /\ tool.pc = "answered" => tool.todo = {}
  /\ tool.alone /\ tool.pc \in {"callers", "answered"} => RightSoFar

\* The only step of Next that changes an mtime.
LEMMA OnlyEditsWrite ==
  ASSUME Next, written' # written
  PROVE  \E f \in Paths, c \in Contents \cup {NoContent} : Edit(f, c)
<1>1. ASSUME NEW p \in Indexers, Start(p) PROVE UNCHANGED env
  BY <1>1 DEF Start, StartCli, WipeAndRebuild, StartMcp
<1>2. ASSUME NEW p \in Indexers, Exit(p) \/ Error(p) \/ Crash(p) PROVE UNCHANGED env
  BY <1>2 DEF Exit, Error, Crash
<1>3. ASSUME NEW p \in Indexers, Write(p) PROVE UNCHANGED env
  BY <1>3 DEF Write, UpsertFile, ReplaceSymbols, ReplaceEdges, SymbolsRejected
<1>4. ASSUME NEW p \in Indexers, Build(p) PROVE UNCHANGED env
  BY <1>4 DEF Build, StartFull, ServeLookup, EndWrites, FlagEdges, MarkBuilt, ReadForBuild,
              StatForBuild, PickExtracted
<1>5. ASSUME NEW p \in Indexers, Refresh(p) PROVE UNCHANGED env
  BY <1>5 DEF Refresh, StartWatch, StartRefresh, ReadChanged, TouchFile, EndWalk, EndRefresh,
              VisitGone, VisitUnchanged, VisitChanged, DeleteGone
<1> QED BY <1>1, <1>2, <1>3, <1>4, <1>5 DEF Next, Work, env

\* Beside an undisturbed call the user edits, which the call notes.
LEMMA BesideAlone ==
  ASSUME TInv, Beside, tool.pc # "none", tool'.alone
  PROVE  /\ UNCHANGED <<files, symbols, edges, meta>> /\ tool.alone
         /\ tool'.pc = tool.pc /\ tool'.path = tool.path /\ tool'.text = tool.text
         /\ tool'.fid = tool.fid /\ tool'.before = tool.before
         /\ tool'.todo = tool.todo /\ tool'.broken = tool.broken /\ tool'.lost = tool.lost
         /\ tool.stale \subseteq tool'.stale
         /\ \A g \in Paths \ tool'.stale : disk'[g] = disk[g]
<1> DEFINE new == {f \in Paths : written'[f] # written[f]}
<1>1. /\ tool'.alone = (tool.alone /\ written' # written) /\ tool'.stale = tool.stale \cup new
      /\ tool'.pc = tool.pc /\ tool'.path = tool.path /\ tool'.text = tool.text
      /\ tool'.fid = tool.fid /\ tool'.before = tool.before
      /\ tool'.todo = tool.todo /\ tool'.broken = tool.broken /\ tool'.lost = tool.lost
  <2> DEFINE al == tool.alone /\ written' # written
             st == tool.stale \cup new
  <2>1. tool' = [tool EXCEPT !.stale = st, !.alone = al]
    BY DEF Beside
  <2> HIDE DEF al, st
  <2>2. tool'.alone = al /\ tool'.stale = st
    BY <2>1 DEF TInv, ToolInv, ToolTypeOK
  <2>3. /\ tool'.pc = tool.pc /\ tool'.path = tool.path /\ tool'.text = tool.text
        /\ tool'.fid = tool.fid /\ tool'.before = tool.before
        /\ tool'.todo = tool.todo /\ tool'.broken = tool.broken /\ tool'.lost = tool.lost
    BY <2>1 DEF TInv, ToolInv, ToolTypeOK
  <2> QED BY <2>2, <2>3 DEF al, st
<1>2. tool.alone /\ written' # written
  BY <1>1
<1>3. PICK f \in Paths, c \in Contents \cup {NoContent} : Edit(f, c)
  BY <1>2, OnlyEditsWrite DEF Beside
<1>4. PICK t : written' = [written EXCEPT ![f] = t]
  BY <1>3 DEF Edit
<1>5. written \in [Paths -> 0..now] /\ disk \in [Paths -> Contents \cup {NoContent}]
  BY DEF TInv, IInv, EnvTypeOK
<1>6. f \in new
  BY <1>2, <1>4, <1>5
<1>7. \A g \in Paths \ {f} : disk'[g] = disk[g]
  BY <1>3, <1>5 DEF Edit
<1> QED BY <1>1, <1>2, <1>3, <1>6, <1>7 DEF Edit, store

\* An answer stays right while the tables stay and what the user edits is noted.
LEMMA RightStays ==
  ASSUME TInv, RightSoFar, LookedUp' = LookedUp, tool'.broken = tool.broken,
         list_files' = list_files, tool.stale \subseteq tool'.stale,
         \A g \in Paths \ tool'.stale : disk'[g] = disk[g]
  PROVE  RightSoFar'
<1>1. list_files \subseteq Paths
  BY DEF list_files, TInv, IInv, StoreInv, StoreTypeOK, RowPaths
<1> QED BY <1>1 DEF RightSoFar, CallsOneOf, Indexable

LEMMA NothingYet ==
  ASSUME tool'.broken = {}, LookedUp' = {}
  PROVE  RightSoFar'
BY DEF RightSoFar, CallsOneOf

LEMMA BesideLeaves ==
  ASSUME TInv, WrittenSoFar, Beside
  PROVE  /\ WrittenSoFar'
         /\ CallersSoFar => CallersSoFar'
<1>1. CASE tool.pc = "none"
  BY <1>1 DEF Beside, WrittenSoFar, CallersSoFar
<1>2. CASE tool.pc # "none"
  <2>1. /\ tool'.pc = tool.pc /\ tool'.text = tool.text /\ tool'.todo = tool.todo
        /\ tool'.before = tool.before /\ tool'.lost = tool.lost /\ tool'.broken = tool.broken
    <3> DEFINE al == tool.alone /\ written' # written
               st == tool.stale \cup {f \in Paths : written'[f] # written[f]}
    <3>1. tool' = [tool EXCEPT !.stale = st, !.alone = al]
      BY <1>2 DEF Beside
    <3> HIDE DEF al, st
    <3> QED BY <3>1 DEF TInv, ToolInv, ToolTypeOK
  <2>2. RemovedNames' = RemovedNames
    BY <2>1 DEF RemovedNames, After
  <2>3. WrittenSoFar'
    <3> SUFFICES ASSUME tool'.alone PROVE WrittenSoFar'
      BY DEF WrittenSoFar
    <3> QED BY <1>2, BesideAlone, SameTablesComplete DEF WrittenSoFar
  <2>4. ASSUME CallersSoFar, tool'.alone, tool.pc \in {"callers", "answered"}
        PROVE  RightSoFar'
    <3>1. RightSoFar
      BY <1>2, <2>4, BesideAlone DEF CallersSoFar
    <3>2. LookedUp' = LookedUp
      BY <2>1, <2>2 DEF LookedUp
    <3>3. list_files' = list_files
      BY <1>2, <2>4, BesideAlone DEF list_files
    <3> QED BY <1>2, <2>1, <2>4, <3>1, <3>2, <3>3, BesideAlone, RightStays
  <2> QED BY <2>1, <2>2, <2>3, <2>4 DEF CallersSoFar
<1> QED BY <1>1, <1>2

\* No command rebuilds: the edges are never marked as populated, and the
\* callers are looked for in the texts.
ByText == ~meta.edges_populated /\ \A p \in Indexers : Quiet(ix[p])

LEMMA RefreshByText ==
  ASSUME ProcessesOK, ByText, NEW p \in Indexers, Refresh(p)
  PROVE  ByText'
<1> USE DEF KeepsAll, KeepsRun
<1>1. UNCHANGED meta
  BY DEF Refresh, StartWatch, StartRefresh, ReadChanged, TouchFile, EndWalk, EndRefresh, VisitGone,
         VisitUnchanged, VisitChanged, DeleteGone, touch_mtime, delete_file, store
<1>2. /\ Alone(p) /\ ix'[p].job = ix[p].job
      /\ ix'[p].phase = ix[p].phase \/ ix'[p].phase = "refresh"
  <2>1. CASE EndWalk(p) \/ EndRefresh(p) \/ TouchFile(p)
    <3>1. PICK l \in Stages : Goto(p, l)
      BY <2>1 DEF EndWalk, EndRefresh, TouchFile, Stages
    <3> QED BY <3>1, GotoStep
  <2>2. ASSUME NEW f \in Paths, VisitGone(p, f) \/ VisitUnchanged(p, f) \/ VisitChanged(p, f)
        PROVE  Alone(p) /\ KeepsRun(p)
    BY <2>2, VisitGoneStep, VisitUnchangedStep, VisitChangedStep
  <2>3. ASSUME NEW f \in RowPaths, DeleteGone(p, f)
        PROVE  Alone(p) /\ KeepsRun(p)
    BY <2>3, DeleteGoneStep
  <2> QED BY <2>1, <2>2, <2>3, StartWatchStep, StartRefreshStep, ReadChangedStep DEF Refresh
<1> QED BY <1>1, <1>2 DEF ByText, Quiet, Alone

LEMMA NextByText ==
  ASSUME IInv, LookedInv, Commands \subseteq {"mcp_refresh"}, ByText, [Next]_vars
  PROVE  ByText'
<1> USE DEF KeepsAll, KeepsRun
<1>0. ProcessesOK
  BY DEF IInv
<1>1. ASSUME NEW f \in Paths, NEW c \in Contents \cup {NoContent}, Edit(f, c)
      PROVE  ByText'
  BY <1>0, <1>1, EditStep DEF ByText, Quiet, Edit, store
<1>2. ASSUME NEW p \in Indexers, Start(p)
      PROVE  ByText'
  <2>1. PICK job \in Commands : StartCli(p, job) \/ StartMcp(p, job)
    BY <1>2 DEF Start, WipeAndRebuild, CLICommands
  <2>2. Alone(p) /\ ix'[p].phase = "none" /\ ix'[p].job = "mcp_refresh"
    BY <1>0, <2>1, StartCommandStep
  <2> QED BY <2>1, <2>2 DEF ByText, Quiet, Alone, StartCli, StartMcp, store
<1>3. ASSUME NEW p \in Indexers, Exit(p) \/ Error(p) \/ Crash(p) \/ SymbolsRejected(p)
      PROVE  ByText'
  <2>1. UNCHANGED meta
    BY <1>3 DEF Exit, Error, Crash, SymbolsRejected, store
  <2>2. Alone(p) /\ (KeepsRun(p) \/ ix'[p] = Idle)
    BY <1>0, <1>3, GiveUpStep, IdleStep DEF Exit, Error, Crash, SymbolsRejected
  <2> QED BY <2>1, <2>2 DEF ByText, Quiet, Alone, Idle
<1>4. ASSUME NEW p \in Indexers, UpsertFile(p) \/ ReplaceSymbols(p) \/ ReplaceEdges(p)
      PROVE  ByText'
  <2>1. UNCHANGED meta
    BY <1>4 DEF UpsertFile, ReplaceSymbols, ReplaceEdges, upsert_file, replace_symbols,
                replace_edges
  <2>2. CASE UpsertFile(p)
    BY <1>0, <2>1, <2>2, UpsertFileStep DEF ByText, Quiet, Alone
  <2>3. CASE ReplaceSymbols(p) \/ ReplaceEdges(p)
    <3>1. PICK l \in Stages : Goto(p, l)
      BY <2>3 DEF ReplaceSymbols, ReplaceEdges, Stages
    <3> QED BY <1>0, <2>1, <3>1, GotoStep DEF ByText, Quiet, Alone
  <2> QED BY <1>4, <2>2, <2>3
<1>5. ASSUME NEW p \in Indexers, Work(p)
      PROVE  ByText'
  <2>1. ~Build(p)
    BY NoRebuild DEF RefreshOnly, LookedInv, ByText
  <2> QED BY <1>0, <1>3, <1>4, <1>5, <2>1, RefreshByText DEF Work, Write
<1>6. CASE UNCHANGED vars
  BY <1>6 DEF ByText, vars, store
<1> QED BY <1>1, <1>2, <1>3, <1>5, <1>6 DEF Next

-----------------------------------------------------------------------------
(* The call's own steps.                                                   *)

LEMMA SnapshotLeaves ==
  ASSUME TInv, NEW f \in Paths, NEW c \in Contents, Snapshot(f, c)
  PROVE  WrittenSoFar' /\ CallersSoFar'
<1>1. tool'.pc = "write" /\ tool'.broken = {} /\ tool'.lost = {}
  BY DEF Snapshot, NoCall
<1> QED BY <1>1 DEF WrittenSoFar, CallersSoFar

LEMMA WriteDiskLeaves ==
  ASSUME TInv, WriteDisk
  PROVE  /\ WrittenSoFar'
         /\ CallersSoFar => CallersSoFar'
<1>1. /\ tool.pc = "write" /\ tool'.pc = "stamp" /\ tool'.broken = tool.broken
      /\ tool'.lost = tool.lost
  BY DEF WriteDisk, TInv, ToolInv, ToolTypeOK
<1> QED BY <1>1 DEF WrittenSoFar, CallersSoFar

LEMMA StampLeaves ==
  ASSUME TInv, Stamp
  PROVE  /\ WrittenSoFar'
         /\ CallersSoFar => CallersSoFar'
<1>1. /\ tool'.pc = IF tool.text \in Unindexable THEN "callers" ELSE "upsert"
      /\ tool'.text = tool.text /\ tool'.before = tool.before
      /\ tool'.todo = RemovedNames /\ tool.pc = "stamp"
      /\ tool'.broken = tool.broken /\ tool'.lost = tool.lost
  BY DEF Stamp, TInv, ToolInv, ToolTypeOK, RemovedNames
<1>2. RemovedNames' = RemovedNames
  BY <1>1 DEF RemovedNames, After
<1>3. WrittenSoFar'
  BY <1>1 DEF WrittenSoFar
<1>4. ASSUME CallersSoFar PROVE CallersSoFar'
  <2>1. tool'.broken = {} /\ tool'.lost = {}
    BY <1>1, <1>4 DEF CallersSoFar
  <2>2. RightSoFar'
    BY <1>1, <1>2, <2>1, NothingYet DEF LookedUp
  <2> QED BY <1>1, <1>2, <2>1, <2>2 DEF CallersSoFar
<1> QED BY <1>3, <1>4

LEMMA UpsertLeaves ==
  ASSUME TInv, WrittenSoFar, UpsertWritten
  PROVE  /\ WrittenSoFar'
         /\ CallersSoFar => CallersSoFar'
<1>1. /\ tool.pc = "upsert" /\ tool'.pc = "symbols" /\ tool'.path = tool.path
      /\ tool'.text = tool.text /\ tool'.before = tool.before /\ tool'.todo = tool.todo
      /\ tool'.fid = RowIdFor(tool.path) /\ tool'.broken = tool.broken /\ tool'.lost = tool.lost
  BY DEF UpsertWritten, TInv, ToolInv, ToolTypeOK
<1>2. PICK path, sha, mtime : path = tool.path /\ sha = tool.text /\ mtime = tool.mtime
  OBVIOUS
<1>3. StoreInv /\ path \in Paths /\ sha \in Contents /\ mtime \in Nat
  BY <1>1, <1>2 DEF TInv, IInv, ToolInv, ToolTypeOK
<1>4. upsert_file(path, sha, mtime)
  BY <1>2 DEF UpsertWritten
<1>5. /\ DOMAIN files' = DOMAIN files \cup {path}
      /\ files'[path].id = RowIdFor(path) /\ files'[path].sha = sha
  BY <1>3, <1>4, upsert_fileOthers
<1>6. WrittenSoFar'
  BY <1>1, <1>2, <1>3, <1>5, StoreAssumption DEF WrittenSoFar, list_files
<1> QED BY <1>1, <1>6 DEF CallersSoFar, RemovedNames, After

LEMMA SymbolsLeaves ==
  ASSUME TInv, WrittenSoFar, SymbolsWritten
  PROVE  /\ WrittenSoFar'
         /\ CallersSoFar => CallersSoFar'
<1>1. /\ tool.pc = "symbols" /\ tool'.pc = "edges" /\ tool'.path = tool.path
      /\ tool'.text = tool.text /\ tool'.before = tool.before /\ tool'.todo = tool.todo
      /\ tool'.fid = tool.fid /\ tool'.alone = tool.alone
      /\ tool'.broken = tool.broken /\ tool'.lost = tool.lost
  BY DEF SymbolsWritten, TInv, ToolInv, ToolTypeOK
<1>2. PICK fid, sha : fid = tool.fid /\ sha = tool.text
  OBVIOUS
<1>3. StoreInv /\ sha \in Contents
  BY <1>1, <1>2 DEF TInv, IInv, ToolInv
<1>4. replace_symbols(fid, sha)
  BY <1>2 DEF SymbolsWritten
<1>5. UNCHANGED files /\ SymbolsOf(fid)' = {<<fid, n>> : n \in Defs[sha]}
  BY <1>3, <1>4, replace_symbolsOthers
<1>6. WrittenSoFar'
  BY <1>1, <1>2, <1>5 DEF WrittenSoFar, list_files
<1> QED BY <1>1, <1>6 DEF CallersSoFar, RemovedNames, After

LEMMA EdgesLeaves ==
  ASSUME TInv, WrittenSoFar, EdgesWritten
  PROVE  /\ WrittenSoFar'
         /\ CallersSoFar => CallersSoFar'
<1>1. /\ tool.pc = "edges" /\ tool'.pc = "callers" /\ tool'.path = tool.path
      /\ tool'.text = tool.text /\ tool'.before = tool.before /\ tool'.todo = tool.todo
      /\ tool'.alone = tool.alone /\ tool'.broken = tool.broken /\ tool'.lost = tool.lost
  BY DEF EdgesWritten, TInv, ToolInv, ToolTypeOK
<1>2. ASSUME tool.alone
      PROVE  /\ tool.path \in list_files' /\ files'[tool.path].sha = tool.text
             /\ Complete(tool.path)'
  <2>1. PICK path, fid, sha : path = tool.path /\ fid = tool.fid /\ sha = tool.text
    OBVIOUS
  <2>2. /\ StoreInv /\ sha \in Contents /\ path \in list_files
        /\ fid = files[path].id /\ sha = files[path].sha
        /\ SymbolsOf(fid) = {<<fid, n>> : n \in Defs[sha]}
    BY <1>1, <1>2, <2>1 DEF TInv, IInv, ToolInv, WrittenSoFar
  <2>3. replace_edges(fid, sha)
    BY <2>1 DEF EdgesWritten
  <2>4. Complete(path)'
    BY <2>2, <2>3, EdgesComplete
  <2>5. list_files' = list_files /\ SameRows(list_files)
    BY <2>2, <2>3, replace_edgesOthers
  <2>6. files'[path] = files[path]
    BY <2>2, <2>5 DEF SameRows
  <2>7. path = tool'.path
    BY <1>1, <2>1
  <2> QED BY <2>1, <2>2, <2>4, <2>5, <2>6, <2>7 DEF Complete
<1>3. WrittenSoFar'
  BY <1>1, <1>2 DEF WrittenSoFar, Complete
<1>4. ASSUME CallersSoFar PROVE CallersSoFar'
  <2>1. tool'.todo = RemovedNames' /\ tool'.broken = {} /\ tool'.lost = {}
    BY <1>1, <1>4 DEF CallersSoFar, RemovedNames, After
  <2>2. RightSoFar'
    BY <2>1, NothingYet DEF LookedUp
  <2> QED BY <1>1, <2>1, <2>2 DEF CallersSoFar
<1> QED BY <1>3, <1>4

\* One removed name is looked up.
LEMMA QueryLeaves ==
  ASSUME TInv, WrittenSoFar, NEW n \in Names, QueryCallers(n)
  PROVE  /\ WrittenSoFar'
         /\ ByText /\ CallersSoFar => CallersSoFar'
<1>1. PICK skipped \in SUBSET Skippable :
        tool' = [tool EXCEPT !.todo = @ \ {n}, !.broken = @ \cup (find_callers(n) \ skipped)]
  BY DEF QueryCallers
<1>2. /\ tool.pc = "callers" /\ tool'.pc = "callers" /\ tool'.path = tool.path
      /\ tool'.text = tool.text /\ tool'.before = tool.before /\ tool'.alone = tool.alone
      /\ tool'.stale = tool.stale /\ tool'.todo = tool.todo \ {n} /\ tool'.lost = tool.lost
      /\ tool'.broken = tool.broken \cup (find_callers(n) \ skipped) /\ n \in tool.todo
  BY <1>1 DEF QueryCallers, TInv, ToolInv, ToolTypeOK
<1>3. UNCHANGED <<files, symbols, edges, disk>>
  BY DEF QueryCallers, vars, store, env
<1>4. WrittenSoFar'
  BY <1>2, <1>3, SameTablesComplete DEF WrittenSoFar
<1>5. RemovedNames' = RemovedNames
  BY <1>2 DEF RemovedNames, After
<1>6. ASSUME ByText, CallersSoFar, tool.alone
      PROVE  RightSoFar'
  <2>1. n \in RemovedNames /\ n \notin tool.lost /\ RightSoFar
    BY <1>2, <1>6 DEF CallersSoFar
  <2>2. LookedUp' = LookedUp \cup {n}
    BY <1>2, <1>5, <2>1 DEF LookedUp
  <2>3. find_callers(n) = {g \in Paths : disk[g] # NoContent /\ n \in Identifiers /\ by_text(g, n)}
    BY <1>6 DEF find_callers, ByText
  <2>4. list_files \subseteq Paths /\ list_files' = list_files
    BY <1>3 DEF list_files, TInv, IInv, StoreInv, StoreTypeOK, RowPaths
  <2>5. find_callers(n) \subseteq list_files
    BY <2>3 DEF by_text
  <2>6. ASSUME NEW g \in list_files \ tool.stale, Indexable(g)
        PROVE  g \in tool'.broken <=> CallsOneOf(g, LookedUp \cup {n})
    <3>1. g \in tool.broken <=> CallsOneOf(g, LookedUp)
      BY <2>1, <2>6 DEF RightSoFar
    <3>2. g \in find_callers(n) \ skipped <=> CallsOneOf(g, {n})
      <4>1. g \in Paths /\ g \in list_files /\ disk[g] # NoContent /\ g \notin skipped
        BY <1>1, <2>4, <2>6, StoreAssumption DEF Skippable, Indexable
      <4>2. g \in find_callers(n) <=> n \in Identifiers /\ by_text(g, n)
        BY <2>3, <4>1
      <4>3. by_text(g, n) <=> g \in Patterned /\ n \in TextCalls[disk[g]]
        BY <4>1 DEF by_text
      <4> QED BY ONLY <4>1, <4>2, <4>3 DEF CallsOneOf
    <3>3. CallsOneOf(g, LookedUp \cup {n}) <=> CallsOneOf(g, LookedUp) \/ CallsOneOf(g, {n})
      BY DEF CallsOneOf
    <3> QED BY <1>2, <3>1, <3>2, <3>3
  <2>7. \A g : Indexable(g)' = Indexable(g) /\ \A ns : CallsOneOf(g, ns)' = CallsOneOf(g, ns)
    BY <1>3 DEF Indexable, CallsOneOf
  <2> QED BY <1>2, <2>1, <2>2, <2>4, <2>5, <2>6, <2>7 DEF RightSoFar
<1> QED BY <1>2, <1>4, <1>5, <1>6 DEF CallersSoFar

\* The lookup of one fails.
LEMMA FailLeaves ==
  ASSUME TInv, WrittenSoFar, NEW n \in Names, QueryFails(n)
  PROVE  /\ WrittenSoFar'
         /\ CallersSoFar => CallersSoFar'
<1>1. /\ tool.pc = "callers" /\ tool'.pc = "callers" /\ tool'.path = tool.path
      /\ tool'.text = tool.text /\ tool'.before = tool.before /\ tool'.alone = tool.alone
      /\ tool'.stale = tool.stale /\ tool'.todo = tool.todo \ {n}
      /\ tool'.lost = tool.lost \cup {n} /\ tool'.broken = tool.broken /\ n \in tool.todo
  BY DEF QueryFails, TInv, ToolInv, ToolTypeOK
<1>2. UNCHANGED <<files, symbols, edges, disk>>
  BY DEF QueryFails, store, env
<1>3. WrittenSoFar'
  BY <1>1, <1>2, SameTablesComplete DEF WrittenSoFar
<1>4. RemovedNames' = RemovedNames /\ LookedUp' = LookedUp
  BY <1>1 DEF RemovedNames, After, LookedUp
<1>5. ASSUME CallersSoFar, tool.alone PROVE RightSoFar'
  <2>1. RightSoFar
    BY <1>1, <1>5 DEF CallersSoFar
  <2> QED BY <1>1, <1>2, <1>4, <2>1, RightStays DEF list_files
<1> QED BY <1>1, <1>3, <1>4, <1>5 DEF CallersSoFar

LEMMA AnswerLeaves ==
  ASSUME TInv, WrittenSoFar, Answer
  PROVE  /\ WrittenSoFar'
         /\ CallersSoFar => CallersSoFar'
<1>1. /\ tool.pc = "callers" /\ tool'.pc = "answered" /\ tool'.path = tool.path
      /\ tool'.text = tool.text /\ tool'.before = tool.before /\ tool'.alone = tool.alone
      /\ tool'.stale = tool.stale /\ tool'.todo = tool.todo /\ tool'.broken = tool.broken
      /\ tool'.lost = tool.lost /\ tool.todo = {}
  BY DEF Answer, TInv, ToolInv, ToolTypeOK
<1>2. UNCHANGED <<files, symbols, edges, disk>>
  BY DEF Answer, vars, store, env
<1>3. WrittenSoFar'
  BY <1>1, <1>2, SameTablesComplete DEF WrittenSoFar
<1>4. RemovedNames' = RemovedNames /\ LookedUp' = LookedUp
  BY <1>1 DEF RemovedNames, After, LookedUp
<1>5. ASSUME CallersSoFar, tool.alone PROVE RightSoFar'
  <2>1. RightSoFar
    BY <1>1, <1>5 DEF CallersSoFar
  <2> QED BY <1>1, <1>2, <1>4, <2>1, RightStays DEF list_files
<1> QED BY <1>1, <1>3, <1>4, <1>5 DEF CallersSoFar

LEMMA ReturnLeaves ==
  ASSUME Return
  PROVE  WrittenSoFar' /\ CallersSoFar'
BY DEF Return, NoCall, WrittenSoFar, CallersSoFar

LEMMA CallLeaves ==
  ASSUME TInv, WrittenSoFar, [Beside \/ Call]_tvars
  PROVE  /\ WrittenSoFar'
         /\ ByText /\ CallersSoFar => CallersSoFar'
<1>1. CASE Beside
  BY <1>1, BesideLeaves
<1>2. CASE Call
  BY <1>2, SnapshotLeaves, WriteDiskLeaves, StampLeaves, UpsertLeaves, SymbolsLeaves, EdgesLeaves,
     QueryLeaves, FailLeaves, AnswerLeaves, ReturnLeaves DEF Call
<1>3. CASE UNCHANGED tvars
  <2>1. UNCHANGED <<files, symbols, edges, disk, tool>>
    BY <1>3 DEF tvars, vars, store, env
  <2>2. WrittenSoFar'
    BY <2>1, SameTablesComplete DEF WrittenSoFar
  <2>3. CallersSoFar => CallersSoFar'
    BY <2>1 DEF CallersSoFar, RightSoFar, LookedUp, CallsOneOf, RemovedNames, After, list_files,
                Indexable
  <2> QED BY <2>2, <2>3
<1> QED BY <1>1, <1>2, <1>3

\* What the processes do not see of a call: all of it but the edit, and that
\* is one of the user's.
LEMMA CallByText ==
  ASSUME TInv, LookedInv, ByText, Commands \subseteq {"mcp_refresh"}, [Beside \/ Call]_tvars
  PROVE  LookedInv' /\ ByText'
<1>1. CASE [Next]_vars
  BY <1>1, NextLooked, NextByText DEF TInv
<1>2. CASE \/ UpsertWritten \/ SymbolsWritten \/ EdgesWritten \/ Return
           \/ \E f \in Paths, c \in Contents : Snapshot(f, c)
           \/ \E n \in Names : QueryFails(n)
  <2>1. UNCHANGED <<ix, disk, meta>>
    BY <1>2 DEF UpsertWritten, SymbolsWritten, EdgesWritten, Return, Snapshot, QueryFails, Untouched,
                upsert_file, replace_symbols, replace_edges, env, store
  <2> QED BY <2>1 DEF LookedInv, Looked, ByText
<1>3. CASE WriteDisk
  <2>1. tool.path \in Paths /\ tool.text \in Contents \cup {NoContent} /\ Edit(tool.path, tool.text)
    BY <1>3 DEF WriteDisk, TInv, ToolInv
  <2> QED BY <1>1, <2>1 DEF Next
<1>4. CASE UNCHANGED vars
  BY <1>1, <1>4
<1> QED BY <1>1, <1>2, <1>3, <1>4 DEF Call, Beside, Stamp, QueryCallers, Answer, tvars

LEMMA InitTInv == InitTool => TInv
<1>1. ASSUME InitTool PROVE IInv
  BY <1>1, InitIInv DEF InitTool
<1>2. ASSUME InitTool PROVE ToolInv
  BY <1>2 DEF InitTool, ToolInv, ToolTypeOK, NoCall, ToolStages, RowPaths
<1> QED BY <1>1, <1>2 DEF TInv

LEMMA NextTInv == TInv /\ [Beside \/ Call]_tvars => TInv'
<1> SUFFICES ASSUME TInv, [Beside \/ Call]_tvars PROVE TInv'
  OBVIOUS
<1>1. CASE Beside
  BY <1>1, BesideKeeps
<1>2. CASE Call
  BY <1>2, QuietCallKeeps, WritingCallKeeps DEF Call
<1>3. CASE UNCHANGED tvars
  <2>1. IInv'
    BY <1>3, NextIInv DEF tvars, TInv
  <2> QED BY <1>3, <2>1 DEF tvars, TInv, ToolInv, ToolTypeOK
<1> QED BY <1>1, <1>2, <1>3

\* Beside any number of indexing processes, crashes and edits, write_file
\* calls leave no dangling foreign key, no shared rowid and no stray sentinel.
THEOREM ToolIntegrity == SpecTool => [](ToolTypeOK /\ RefIntegrity /\ SentinelsAnchored)
<1>1. TInv => ToolTypeOK /\ RefIntegrity /\ SentinelsAnchored
  BY DEF TInv, IInv, StoreInv, ToolInv
<1> QED BY <1>1, InitTInv, NextTInv, PTL DEF SpecTool

\* Whatever came before and whatever the user edits meanwhile: when a call
\* that no indexing process disturbed answers, the index holds the text it
\* was given, with all its definitions and calls.
THEOREM WrittenIsIndexed == SpecTool => []WrittenFileIsIndexed
<1>1. InitTool => TInv /\ WrittenSoFar
  BY InitTInv DEF InitTool, NoCall, WrittenSoFar
<1>2. TInv /\ WrittenSoFar /\ [Beside \/ Call]_tvars => TInv' /\ WrittenSoFar'
  BY NextTInv, CallLeaves
<1>3. TInv /\ WrittenSoFar => WrittenFileIsIndexed
  BY DEF WrittenSoFar, WrittenFileIsIndexed, Complete, NamesUnder, CallsUnder, SymbolNames,
         CallsOf, EdgesFrom
<1> QED BY <1>1, <1>2, <1>3, PTL DEF SpecTool

\* As long as nothing has populated the edges, the answer of an undisturbed
\* call names exactly the untouched files in which the patterns find a call of a
\* removed name, but for the names whose lookup failed.
THEOREM AnswersAreRight ==
  ASSUME Commands \subseteq {"mcp_refresh"}
  PROVE  SpecTool => []AnswerNamesCallers
<1> DEFINE Inv == TInv /\ WrittenSoFar /\ LookedInv /\ ByText /\ CallersSoFar
<1>1. InitTool => Inv
  BY InitTInv, InitLooked
     DEF InitTool, NoCall, WrittenSoFar, CallersSoFar, ByText, Init, EmptyStore, Idle, Quiet
<1>2. Inv /\ [Beside \/ Call]_tvars => Inv'
  BY NextTInv, CallLeaves, CallByText
<1>3. Inv => AnswerNamesCallers
  <2> SUFFICES ASSUME Inv, tool.pc = "answered", tool.alone
               PROVE  /\ tool.broken \subseteq list_files
                      /\ \A g \in list_files \ tool.stale : Indexable(g) =>
                           (g \in tool.broken <=>
                              /\ g \in Patterned
                              /\ TextCalls[disk[g]] \cap Identifiers
                                   \cap (tool.before \ (After \cup tool.lost)) # {})
    BY DEF AnswerNamesCallers
  <2>1. RightSoFar /\ tool.todo = {}
    BY DEF CallersSoFar
  <2>2. LookedUp = tool.before \ (After \cup tool.lost)
    BY <2>1 DEF LookedUp, RemovedNames
  <2> QED BY <2>1, <2>2 DEF RightSoFar, CallsOneOf
<1> QED BY <1>1, <1>2, <1>3, PTL DEF SpecTool
=============================================================================
