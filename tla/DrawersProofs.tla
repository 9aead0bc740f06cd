---------------------------- MODULE DrawersProofs ----------------------------
(***************************************************************************)
(* Both backends of a palace implement DrawerStore; what the two search    *)
(* indexes of SQLite hold; what a mining run reports.                      *)
(***************************************************************************)
EXTENDS Drawers, FiniteSetTheorems, TLAPS

RowIds == Nat \ {0}
Rows   == [src : Sources, body : Bodies, wing : Wings, at : Nat]
Key(r) == <<r.src, r.body>>
KeysOf(rows) == {Key(rows[i]) : i \in DOMAIN rows}

\* A table of drawers: finite, typed, one row per source and body.
RowsOK(rows) ==
  /\ rows = [i \in DOMAIN rows |-> rows[i]]
  /\ IsFiniteSet(DOMAIN rows) /\ DOMAIN rows \subseteq RowIds
  /\ \A i \in DOMAIN rows : rows[i] \in Rows
  /\ \A i, j \in DOMAIN rows : Key(rows[i]) = Key(rows[j]) => i = j

-----------------------------------------------------------------------------
(* Tables of drawers.                                                      *)

\* A finite non-empty set of naturals has a largest element: a smallest set
\* without one would have a smaller set without one.
LEMMA FiniteHasMax ==
  ASSUME NEW S \in SUBSET Nat, IsFiniteSet(S), S # {}
  PROVE  \E m \in S : \A x \in S : x <= m
<1> DEFINE HasMax(T) == \E m \in T : \A x \in T : x <= m
           Bad == {T \in SUBSET S : T # {} /\ ~HasMax(T)}
<1> SUFFICES ASSUME Bad # {} PROVE FALSE
  OBVIOUS
<1>1. SUBSET S = FiniteSubsetsOf(S)
  BY FS_FiniteSubsetsOfFinite
<1>2. IsWellFoundedOn(StrictSubsetOrdering(S), SUBSET S)
  BY <1>1, FS_StrictSubsetOrderingWellFounded
<1>3. Bad \subseteq SUBSET S
  OBVIOUS
<1> HIDE DEF Bad
<1>4. PICK T \in Bad : \A U \in Bad : ~(<<U, T>> \in StrictSubsetOrdering(S))
  BY <1>2, <1>3, WFMin
<1> USE DEF Bad
<1>5. PICK x \in T : TRUE
  OBVIOUS
<1>6. T \ {x} \in SUBSET S /\ <<T \ {x}, T>> \in StrictSubsetOrdering(S)
  BY <1>5 DEF StrictSubsetOrdering
<1>7. T \ {x} \notin Bad
  BY <1>4, <1>6
<1>8. CASE T \ {x} = {}
  <2>1. \A y \in T : y <= x
    BY <1>5, <1>8
  <2> QED BY <1>5, <2>1
<1>9. CASE HasMax(T \ {x})
  <2>1. PICK m \in T \ {x} : \A y \in T \ {x} : y <= m
    BY <1>9
  <2>2. CASE m <= x
    <3>1. \A y \in T : y <= x
      BY <2>1, <2>2
    <3> QED BY <1>5, <3>1
  <2>3. CASE ~(m <= x)
    <3>1. \A y \in T : y <= m
      BY <2>1, <2>3
    <3> QED BY <2>1, <3>1
  <2> QED BY <2>2, <2>3
<1> QED BY <1>6, <1>7, <1>8, <1>9

\* The id that SQLite gives a new row is free.
LEMMA NextRowidIsNew ==
  ASSUME NEW d, RowsOK(d.drawers)
  PROVE  NextRowid(d) \in RowIds \ Ids(d) /\ \A i \in Ids(d) : i < NextRowid(d)
<1> USE DEF RowsOK, RowIds, Ids
<1>1. CASE Ids(d) = {}
  BY <1>1 DEF NextRowid
<1>2. CASE Ids(d) # {}
  <2> DEFINE m == CHOOSE i \in Ids(d) : \A j \in Ids(d) : j <= i
  <2>1. m \in Ids(d) /\ \A j \in Ids(d) : j <= m
    BY <1>2, FiniteHasMax
  <2>2. NextRowid(d) = 1 + m
    BY <1>2 DEF NextRowid
  <2> HIDE DEF m
  <2> QED BY <2>1, <2>2
<1> QED BY <1>1, <1>2

LEMMA AddedRow ==
  ASSUME NEW rows, RowsOK(rows), NEW i \in RowIds \ DOMAIN rows, NEW r \in Rows,
         Key(r) \notin KeysOf(rows)
  PROVE  /\ RowsOK(With(rows, i, r))
         /\ DOMAIN With(rows, i, r) = DOMAIN rows \cup {i}
         /\ With(rows, i, r)[i] = r
         /\ \A j \in DOMAIN rows : With(rows, i, r)[j] = rows[j] /\ j # i
         /\ KeysOf(With(rows, i, r)) = KeysOf(rows) \cup {Key(r)}
<1> DEFINE new == With(rows, i, r)
<1>1. /\ new = [j \in DOMAIN new |-> new[j]]
      /\ DOMAIN new = DOMAIN rows \cup {i} /\ new[i] = r
      /\ \A j \in DOMAIN rows : new[j] = rows[j] /\ j # i
  BY DEF With
<1> HIDE DEF new
<1>2. IsFiniteSet(DOMAIN new)
  BY <1>1, FS_AddElement DEF RowsOK
<1>3. KeysOf(new) = KeysOf(rows) \cup {Key(r)}
  BY <1>1 DEF KeysOf
<1>4. \A j, k \in DOMAIN new : Key(new[j]) = Key(new[k]) => j = k
  BY <1>1 DEF RowsOK, KeysOf
<1>5. RowsOK(new)
  BY <1>1, <1>2, <1>4 DEF RowsOK
<1> QED BY <1>1, <1>3, <1>5 DEF new

LEMMA DroppedRows ==
  ASSUME NEW rows, RowsOK(rows), NEW A
  PROVE  /\ RowsOK(Without(rows, A))
         /\ DOMAIN Without(rows, A) = DOMAIN rows \ A
         /\ \A j \in DOMAIN rows \ A : Without(rows, A)[j] = rows[j]
<1> DEFINE new == Without(rows, A)
<1>1. /\ new = [j \in DOMAIN new |-> new[j]]
      /\ DOMAIN new = DOMAIN rows \ A
      /\ \A j \in DOMAIN rows \ A : new[j] = rows[j]
  BY DEF Without
<1> HIDE DEF new
<1>2. IsFiniteSet(DOMAIN new)
  BY <1>1, FS_Subset DEF RowsOK
<1>3. RowsOK(new)
  BY <1>1, <1>2 DEF RowsOK
<1> QED BY <1>1, <1>3 DEF new

-----------------------------------------------------------------------------
(* The drawers by key, as DrawerStore sees them.                           *)

LEMMA KeyedIs ==
  ASSUME NEW rows, RowsOK(rows)
  PROVE  /\ Keyed(rows) = [k \in KeysOf(rows) |-> Keyed(rows)[k]]
         /\ \A i \in DOMAIN rows :
              Keyed(rows)[Key(rows[i])] = [wing |-> rows[i].wing, at |-> rows[i].at, id |-> i]
<1>1. Keyed(rows) = [k \in KeysOf(rows) |-> Keyed(rows)[k]]
  BY DEF Keyed, KeysOf, Key
<1>2. ASSUME NEW i \in DOMAIN rows
      PROVE  Keyed(rows)[Key(rows[i])] = [wing |-> rows[i].wing, at |-> rows[i].at, id |-> i]
  <2> DEFINE k == Key(rows[i])
             c == CHOOSE j \in DOMAIN rows : k = <<rows[j].src, rows[j].body>>
  <2>1. c \in DOMAIN rows /\ k = Key(rows[c])
    BY DEF Key
  <2>2. c = i
    BY <2>1 DEF RowsOK
  <2>3. k \in {<<rows[j].src, rows[j].body>> : j \in DOMAIN rows}
    BY DEF Key
  <2>4. Keyed(rows)[k] = [wing |-> rows[c].wing, at |-> rows[c].at, id |-> c]
    BY <2>3 DEF Keyed
  <2> QED BY <2>2, <2>4
<1> QED BY <1>1, <1>2

LEMMA KeyedAdded ==
  ASSUME NEW rows, RowsOK(rows), NEW i \in RowIds \ DOMAIN rows, NEW r \in Rows,
         Key(r) \notin KeysOf(rows)
  PROVE  Keyed(With(rows, i, r)) =
           [x \in KeysOf(rows) \cup {Key(r)} |->
              IF x = Key(r) THEN Keyed(With(rows, i, r))[x] ELSE Keyed(rows)[x]]
<1> DEFINE new == With(rows, i, r)
<1>1. /\ RowsOK(new) /\ DOMAIN new = DOMAIN rows \cup {i} /\ new[i] = r
      /\ \A j \in DOMAIN rows : new[j] = rows[j] /\ j # i
      /\ KeysOf(new) = KeysOf(rows) \cup {Key(r)}
  BY AddedRow
<1> HIDE DEF new
<1>2. /\ Keyed(new) = [k \in KeysOf(new) |-> Keyed(new)[k]]
      /\ \A j \in DOMAIN new :
           Keyed(new)[Key(new[j])] = [wing |-> new[j].wing, at |-> new[j].at, id |-> j]
      /\ \A j \in DOMAIN rows :
           Keyed(rows)[Key(rows[j])] = [wing |-> rows[j].wing, at |-> rows[j].at, id |-> j]
  BY <1>1, KeyedIs
<1>3. ASSUME NEW x \in KeysOf(rows) PROVE Keyed(new)[x] = Keyed(rows)[x]
  <2>1. PICK j \in DOMAIN rows : x = Key(rows[j])
    BY DEF KeysOf
  <2>2. j \in DOMAIN new /\ new[j] = rows[j]
    BY <1>1
  <2>3. Keyed(new)[x] = [wing |-> rows[j].wing, at |-> rows[j].at, id |-> j]
    BY <1>2, <2>1, <2>2
  <2>4. Keyed(rows)[x] = [wing |-> rows[j].wing, at |-> rows[j].at, id |-> j]
    BY <1>2, <2>1
  <2> QED BY <2>3, <2>4
<1>4. \A x \in KeysOf(rows) \cup {Key(r)} :
        Keyed(new)[x] = IF x = Key(r) THEN Keyed(new)[x] ELSE Keyed(rows)[x]
  BY <1>3
<1> QED BY <1>1, <1>2, <1>4 DEF new

LEMMA DroppedKeys ==
  ASSUME NEW rows, RowsOK(rows), NEW A \in SUBSET DOMAIN rows
  PROVE  KeysOf(Without(rows, A)) = KeysOf(rows) \ {Key(rows[i]) : i \in A}
<1> DEFINE new == Without(rows, A)
<1>1. /\ RowsOK(new) /\ DOMAIN new = DOMAIN rows \ A
      /\ \A j \in DOMAIN rows \ A : new[j] = rows[j]
  BY DroppedRows
<1> HIDE DEF new
<1>2. \A x \in KeysOf(new) : x \in KeysOf(rows) /\ x \notin {Key(rows[i]) : i \in A}
  BY <1>1 DEF KeysOf, RowsOK
<1>3. \A x \in KeysOf(rows) : x \notin {Key(rows[i]) : i \in A} => x \in KeysOf(new)
  BY <1>1 DEF KeysOf
<1>4. KeysOf(new) = KeysOf(rows) \ {Key(rows[i]) : i \in A}
  BY <1>2, <1>3
<1> QED BY <1>4 DEF new

LEMMA KeyedDropped ==
  ASSUME NEW rows, RowsOK(rows), NEW A \in SUBSET DOMAIN rows
  PROVE  Keyed(Without(rows, A)) =
           [x \in KeysOf(rows) \ {Key(rows[i]) : i \in A} |-> Keyed(rows)[x]]
<1> DEFINE new == Without(rows, A)
<1>1. /\ RowsOK(new) /\ DOMAIN new = DOMAIN rows \ A
      /\ \A j \in DOMAIN rows \ A : new[j] = rows[j]
  BY DroppedRows
<1>3. KeysOf(new) = KeysOf(rows) \ {Key(rows[i]) : i \in A}
  BY DroppedKeys
<1> HIDE DEF new
<1>2. /\ Keyed(new) = [k \in KeysOf(new) |-> Keyed(new)[k]]
      /\ \A j \in DOMAIN new :
           Keyed(new)[Key(new[j])] = [wing |-> new[j].wing, at |-> new[j].at, id |-> j]
      /\ \A j \in DOMAIN rows :
           Keyed(rows)[Key(rows[j])] = [wing |-> rows[j].wing, at |-> rows[j].at, id |-> j]
  BY <1>1, KeyedIs
<1>4. ASSUME NEW x \in KeysOf(new) PROVE Keyed(new)[x] = Keyed(rows)[x]
  <2>1. PICK j \in DOMAIN new : x = Key(new[j])
    BY DEF KeysOf
  <2>2. j \in DOMAIN rows /\ new[j] = rows[j]
    BY <1>1
  <2>3. Keyed(new)[x] = [wing |-> rows[j].wing, at |-> rows[j].at, id |-> j]
    BY <1>2, <2>1, <2>2
  <2>4. Keyed(rows)[x] = [wing |-> rows[j].wing, at |-> rows[j].at, id |-> j]
    BY <1>2, <2>1, <2>2
  <2> QED BY <2>3, <2>4
<1> QED BY <1>2, <1>3, <1>4 DEF new

-----------------------------------------------------------------------------
(* A change of a table is a step of DrawerStore.                           *)

\* What the selectors of delete take.
Taken(rows) ==
       {DOMAIN rows} \cup {{i} : i \in DOMAIN rows}
  \cup {{i \in DOMAIN rows : rows[i].src = s} : s \in Sources}
  \cup {{i \in DOMAIN rows : rows[i].wing = w /\ rows[i].at < t} : w \in Wings, t \in Nat}

Inserted(rows, new) ==
  \E i \in RowIds \ DOMAIN rows, r \in Rows :
    Key(r) \notin KeysOf(rows) /\ new = With(rows, i, r)

Deleted(rows, new) == \E A \in Taken(rows) : new = Without(rows, A)

RowsNext(rows, new) == new = rows \/ Inserted(rows, new) \/ Deleted(rows, new)

\* DrawerStore's next-state relation, with the drawers as arguments.
Left(l, K) == [x \in DOMAIN l \ K |-> l[x]]
StoreNext(l, m) ==
  \/ m = l
  \/ \E k \in Sources \X Bodies :
       /\ k \in DOMAIN m /\ k \notin DOMAIN l
       /\ \A x \in DOMAIN l : l[x].id # m[k].id
       /\ m = [x \in DOMAIN l \cup {k} |-> IF x = k THEN m[k] ELSE l[x]]
  \/ m = Left(l, DOMAIN l)
  \/ \E s \in Sources : m = Left(l, {x \in DOMAIN l : x[1] = s})
  \/ \E y \in DOMAIN l : m = Left(l, {x \in DOMAIN l : l[x].id = l[y].id})
  \/ \E w \in Wings, y \in DOMAIN l :
       m = Left(l, {x \in DOMAIN l : l[x].wing = w /\ l[x].at < l[y].at + 1})

LEMMA KeysAreTyped ==
  ASSUME NEW rows, RowsOK(rows)
  PROVE  KeysOf(rows) \subseteq Sources \X Bodies
BY DEF RowsOK, KeysOf, Key, Rows

LEMMA InsertIsRemember ==
  ASSUME NEW rows, NEW new, RowsOK(rows), Inserted(rows, new)
  PROVE  RowsOK(new) /\ StoreNext(Keyed(rows), Keyed(new))
<1>1. PICK i \in RowIds \ DOMAIN rows, r \in Rows :
        Key(r) \notin KeysOf(rows) /\ new = With(rows, i, r)
  BY DEF Inserted
<1>2. /\ RowsOK(new) /\ DOMAIN new = DOMAIN rows \cup {i} /\ new[i] = r
      /\ KeysOf(new) = KeysOf(rows) \cup {Key(r)}
  BY <1>1, AddedRow
<1>3. Keyed(new) = [x \in KeysOf(rows) \cup {Key(r)} |->
                      IF x = Key(r) THEN Keyed(new)[x] ELSE Keyed(rows)[x]]
  BY <1>1, KeyedAdded
<1>4. Keyed(new)[Key(r)].id = i
  <2>1. Keyed(new)[Key(r)] = [wing |-> new[i].wing, at |-> new[i].at, id |-> i]
    BY <1>2, KeyedIs
  <2> QED BY <2>1
<1>5. ASSUME NEW x \in KeysOf(rows) PROVE Keyed(rows)[x].id # i
  <2>1. PICK j \in DOMAIN rows : x = Key(rows[j])
    BY DEF KeysOf
  <2>2. Keyed(rows)[x] = [wing |-> rows[j].wing, at |-> rows[j].at, id |-> j]
    BY <2>1, KeyedIs
  <2> QED BY <1>1, <2>2
<1>6. Key(r) \in Sources \X Bodies /\ DOMAIN Keyed(rows) = KeysOf(rows)
  BY KeyedIs DEF Key, Rows
<1>7. Key(r) \in DOMAIN Keyed(new)
  BY <1>3
<1> HIDE DEF Key
<1> QED BY <1>1, <1>2, <1>3, <1>4, <1>5, <1>6, <1>7 DEF StoreNext

LEMMA DeleteIsForget ==
  ASSUME NEW rows, NEW new, RowsOK(rows), Deleted(rows, new)
  PROVE  RowsOK(new) /\ StoreNext(Keyed(rows), Keyed(new))
<1> DEFINE l == Keyed(rows)
<1>1. PICK A \in Taken(rows) : new = Without(rows, A)
  BY DEF Deleted
<1>2. A \in SUBSET DOMAIN rows
  BY DEF Taken
<1> DEFINE K == {Key(rows[i]) : i \in A}
<1>3. RowsOK(new)
  BY <1>1, DroppedRows
<1>4. \A i \in DOMAIN rows :
        l[Key(rows[i])] = [wing |-> rows[i].wing, at |-> rows[i].at, id |-> i]
  BY KeyedIs
<1>5. /\ DOMAIN l = KeysOf(rows) /\ l = [x \in KeysOf(rows) |-> l[x]]
      /\ \A i \in DOMAIN rows :
           /\ Key(rows[i]) \in DOMAIN l
           /\ l[Key(rows[i])].wing = rows[i].wing /\ l[Key(rows[i])].at = rows[i].at
           /\ l[Key(rows[i])].id = i /\ Key(rows[i])[1] = rows[i].src
      /\ \A x \in DOMAIN l : \E i \in DOMAIN rows : x = Key(rows[i])
  <2>1. DOMAIN l = KeysOf(rows) /\ l = [x \in KeysOf(rows) |-> l[x]]
    BY KeyedIs
  <2>2. \A i \in DOMAIN rows : Key(rows[i]) \in KeysOf(rows) /\ Key(rows[i])[1] = rows[i].src
    BY DEF KeysOf, Key
  <2>3. \A x \in KeysOf(rows) : \E i \in DOMAIN rows : x = Key(rows[i])
    BY DEF KeysOf
  <2>4. ASSUME NEW i \in DOMAIN rows
        PROVE  /\ l[Key(rows[i])].wing = rows[i].wing /\ l[Key(rows[i])].at = rows[i].at
               /\ l[Key(rows[i])].id = i
    <3>1. l[Key(rows[i])] = [wing |-> rows[i].wing, at |-> rows[i].at, id |-> i]
      BY <1>4
    <3> HIDE DEF l
    <3> QED BY <3>1
  <2> HIDE DEF l
  <2> QED BY <2>1, <2>2, <2>3, <2>4
<1>6. \A i, j \in DOMAIN rows : Key(rows[i]) = Key(rows[j]) => i = j
  BY DEF RowsOK
<1>7. Keyed(new) = Left(l, K)
  <2>1. Keyed(new) = [x \in KeysOf(rows) \ K |-> l[x]]
    BY <1>1, <1>2, KeyedDropped
  <2> QED BY <1>5, <2>1 DEF Left
<1> HIDE DEF l
<1>8. CASE A = DOMAIN rows
  <2>1. K = DOMAIN l
    BY <1>5, <1>8 DEF KeysOf
  <2> QED BY <1>3, <1>7, <2>1 DEF StoreNext, l
<1>9. ASSUME NEW i \in DOMAIN rows, A = {i}
      PROVE  StoreNext(l, Keyed(new))
  <2>1. K = {x \in DOMAIN l : l[x].id = l[Key(rows[i])].id}
    BY <1>5, <1>6, <1>9
  <2>2. PICK y \in DOMAIN l : y = Key(rows[i])
    BY <1>5
  <2>3. Keyed(new) = Left(l, {x \in DOMAIN l : l[x].id = l[y].id})
    BY <1>7, <2>1, <2>2
  <2> QED BY <2>3 DEF StoreNext
<1>10. ASSUME NEW s \in Sources, A = {i \in DOMAIN rows : rows[i].src = s}
       PROVE  StoreNext(l, Keyed(new))
  <2>1. K = {x \in DOMAIN l : x[1] = s}
    BY <1>5, <1>10
  <2> QED BY <1>7, <2>1 DEF StoreNext
<1>11. ASSUME NEW w \in Wings, NEW t \in Nat,
              A = {i \in DOMAIN rows : rows[i].wing = w /\ rows[i].at < t}
       PROVE  StoreNext(l, Keyed(new))
  <2>1. CASE A = {}
    <3>1. Left(l, K) = l
      BY <1>5, <2>1 DEF Left
    <3> QED BY <1>7, <3>1 DEF StoreNext
  <2>2. CASE A # {}
    <3> DEFINE T == {rows[i].at : i \in A}
    <3>0. \A i \in DOMAIN rows : rows[i].at \in Nat
      BY DEF RowsOK, Rows
    <3>1. \A i \in A : rows[i].at \in Nat /\ rows[i].at < t /\ i \in DOMAIN rows
      BY <1>11, <3>0
    <3>2. T \in SUBSET Nat /\ T # {} /\ \A x \in T : x <= t
      BY <2>2, <3>1
    <3>3. IsFiniteSet(T)
      BY <3>2, FS_BoundedSetOfNaturals
    <3> HIDE DEF T
    <3>4. PICK m \in T : \A x \in T : x <= m
      BY <3>2, <3>3, FiniteHasMax
    <3> USE DEF T
    <3>5. PICK i \in A : m = rows[i].at
      BY <3>4
    <3> DEFINE y == Key(rows[i])
    <3>6. y \in DOMAIN l /\ l[y].at = m /\ m \in Nat /\ m < t
      BY <1>5, <3>1, <3>5
    <3>7. \A j \in A : rows[j].at <= m
      BY <3>4
    <3>8. \A j \in DOMAIN rows : j \in A <=> rows[j].wing = w /\ rows[j].at < m + 1
      <4> SUFFICES ASSUME NEW j \in DOMAIN rows
                   PROVE  j \in A <=> rows[j].wing = w /\ rows[j].at < m + 1
        OBVIOUS
      <4>1. rows[j].at \in Nat
        BY <3>0
      <4>2. j \in A => rows[j].wing = w /\ rows[j].at <= m
        BY <1>11, <3>7
      <4>3. rows[j].wing = w /\ rows[j].at < t => j \in A
        BY <1>11
      <4> QED BY <3>6, <4>1, <4>2, <4>3
    <3>9. K = {x \in DOMAIN l : l[x].wing = w /\ l[x].at < l[y].at + 1}
      BY <1>2, <1>5, <3>6, <3>8
    <3> QED BY <1>7, <3>6, <3>9 DEF StoreNext
  <2> QED BY <2>1, <2>2
<1> QED BY <1>3, <1>8, <1>9, <1>10, <1>11 DEF Taken, l

LEMMA RowsStep ==
  ASSUME NEW rows, NEW new, RowsOK(rows), RowsNext(rows, new)
  PROVE  RowsOK(new) /\ StoreNext(Keyed(rows), Keyed(new))
<1>1. CASE new = rows
  BY <1>1 DEF StoreNext
<1> QED BY <1>1, InsertIsRemember, DeleteIsForget DEF RowsNext

-----------------------------------------------------------------------------
(* The palace: both backends, and who has it open.                         *)

Form(d) ==
  d = [drawers |-> d.drawers, embs |-> d.embs, vecs |-> d.vecs, fts |-> d.fts,
       gen |-> d.gen, back |-> d.back, trig |-> d.trig]

\* memory.db: a drawer has an embedding, which is its body.
DbOK(d) ==
  /\ Form(d)
  /\ RowsOK(d.drawers)
  /\ d.embs = [i \in Ids(d) |-> d.drawers[i].body]
  /\ d.fts = [post |-> d.fts.post, docs |-> d.fts.docs, total |-> d.fts.total]
  /\ d.fts.total \in Nat /\ d.gen \in Nat /\ d.trig \in BOOLEAN

\* The in-memory backend: the index by key names the rows.
MemOK(m) ==
  /\ m = [next_id |-> m.next_id, rows |-> m.rows, sha_index |-> m.sha_index]
  /\ RowsOK(m.rows) /\ m.next_id \in Nat /\ \A i \in DOMAIN m.rows : i <= m.next_id
  /\ DOMAIN m.sha_index = KeysOf(m.rows)
  /\ \A i \in DOMAIN m.rows : m.sha_index[Key(m.rows[i])] = i

\* The backends hold the same drawers, each under ids of its own.
SameDrawers(a, b) ==
  /\ \A i \in DOMAIN a : \E j \in DOMAIN b : b[j] = a[i]
  /\ \A j \in DOMAIN b : \E i \in DOMAIN a : a[i] = b[j]

StoreInv == DbOK(db) /\ MemOK(mem) /\ SameDrawers(db.drawers, mem.rows) /\ clock \in Nat

Stages == {"closed", "filling", "probing", "reading", "syncing", "open"}

Mining(m) ==
  /\ m = [left |-> m.left, at |-> m.at, body |-> m.body, pre |-> m.pre, wrote |-> m.wrote,
          ins |-> m.ins, ded |-> m.ded, real |-> m.real, alone |-> m.alone]
  /\ m.left \in SUBSET Files /\ m.at \in Files \cup {NoFile}
  /\ m.at # NoFile => m.body \in Bodies
  /\ m.pre \in Nat /\ m.ins \in Nat /\ m.ded \in Nat /\ m.real \in Int
  /\ m.wrote \in BOOLEAN /\ m.alone \in BOOLEAN

Using(c) ==
  /\ c = [st |-> c.st, vec |-> c.vec, todo |-> c.todo, gen |-> c.gen, snap |-> c.snap,
          mine |-> c.mine]
  /\ c.st \in Stages /\ c.vec \in BOOLEAN /\ c.gen \in Nat
  /\ c.st # "filling" => c.todo = {}
  /\ c.st # "open" => c.mine.left = {} /\ c.mine.at = NoFile
  /\ Mining(c.mine)

ConnInv ==
  /\ conn = [p \in Procs |-> conn[p]]
  /\ \A p \in Procs : Using(conn[p])
  /\ tree \in [Files -> Bodies]
  /\ used = [writes |-> used.writes, opens |-> used.opens, edits |-> used.edits]
  /\ past = [hidden |-> past.hidden, torn |-> past.torn]
  /\ past.hidden \in BOOLEAN /\ past.torn \in BOOLEAN

PalaceInv == StoreInv /\ ConnInv

-----------------------------------------------------------------------------
(* What adding and deleting do to the tables.                              *)

Notices == [src : Sources, body : Bodies, wing : Wings]
NewRow(d, now) == [src |-> d.src, body |-> d.body, wing |-> d.wing, at |-> now]

\* The tables add leaves alone.
SameTables(d, new) ==
  /\ new.drawers = d.drawers /\ new.embs = d.embs /\ new.vecs = d.vecs /\ new.fts = d.fts
  /\ new.gen = d.gen /\ new.trig = d.trig

LEMMA AddFinds ==
  ASSUME NEW d, Form(d), NEW x, existing(d, x) # {}, NEW now, NEW vec,
         NEW new, new = add(d, x, now, vec)
  PROVE  Form(new) /\ SameTables(d, new) /\ new.back = IF vec THEN d.gen ELSE d.back
<1>1. new = [d EXCEPT !.back = IF vec THEN d.gen ELSE @]
  BY DEF add
<1> QED BY <1>1 DEF Form, SameTables

LEMMA AddInserts ==
  ASSUME NEW d, Form(d), NEW x, existing(d, x) = {}, NEW now, NEW vec,
         NEW new, new = add(d, x, now, vec), NEW id, id = NextRowid(d)
  PROVE  /\ Form(new) /\ new.trig = d.trig
         /\ new.drawers = With(d.drawers, id, NewRow(x, now))
         /\ new.embs = With(d.embs, id, x.body)
         /\ new.vecs = IF vec THEN With(d.vecs, id, x.body) ELSE d.vecs
         /\ new.fts = fts_insert(d.fts, id, x.body)
         /\ new.gen = Tick(d, 1) /\ new.back = IF vec THEN Tick(d, 1) ELSE d.back
<1> DEFINE r == NewRow(x, now)
           n == Tick(d, 1)
           f == fts_insert(d.fts, id, x.body)
           rows == With(d.drawers, id, r)
           embs == With(d.embs, id, x.body)
           vecs == IF vec THEN With(d.vecs, id, x.body) ELSE d.vecs
           back == IF vec THEN n ELSE d.back
<1>1. new = [d EXCEPT !.drawers = rows, !.embs = embs, !.vecs = vecs, !.fts = f,
                      !.gen = n, !.back = back]
  BY DEF add, NewRow
<1> HIDE DEF r, n, f, rows, embs, vecs, back
<1>2. /\ Form(new) /\ new.trig = d.trig /\ new.drawers = rows /\ new.embs = embs
      /\ new.vecs = vecs /\ new.fts = f /\ new.gen = n /\ new.back = back
  BY <1>1 DEF Form
<1> QED BY <1>2 DEF r, n, f, rows, embs, vecs, back

LEMMA DeleteDrops ==
  ASSUME NEW d, Form(d), NEW sel, NEW vec, NEW new, new = delete(d, sel, vec),
         NEW A, A = Selected(d.drawers, sel)
  PROVE  /\ Form(new) /\ new.trig = d.trig
         /\ new.drawers = Without(d.drawers, A) /\ new.embs = Without(d.embs, A)
         /\ new.vecs = IF vec THEN Without(d.vecs, A) ELSE d.vecs
         /\ new.fts = fts_delete(d.fts, A)
         /\ new.gen = Tick(d, Cardinality(A))
         /\ new.back = IF vec THEN Tick(d, Cardinality(A)) ELSE d.back
<1> DEFINE n == Tick(d, Cardinality(A))
           f == fts_delete(d.fts, A)
           rows == Without(d.drawers, A)
           embs == Without(d.embs, A)
           vecs == IF vec THEN Without(d.vecs, A) ELSE d.vecs
           back == IF vec THEN n ELSE d.back
<1>1. new = [d EXCEPT !.drawers = rows, !.embs = embs, !.vecs = vecs, !.fts = f,
                      !.gen = n, !.back = back]
  BY DEF delete
<1> HIDE DEF n, f, rows, embs, vecs, back
<1>2. /\ Form(new) /\ new.trig = d.trig /\ new.drawers = rows /\ new.embs = embs
      /\ new.vecs = vecs /\ new.fts = f /\ new.gen = n /\ new.back = back
  BY <1>1 DEF Form
<1> QED BY <1>2 DEF n, f, rows, embs, vecs, back

LEMMA ExistingIsKey ==
  ASSUME NEW d, NEW x
  PROVE  existing(d, x) = {} <=> Key(x) \notin KeysOf(d.drawers)
BY DEF existing, KeysOf, Key, Ids

LEMMA SameKeys ==
  ASSUME NEW a, NEW b, SameDrawers(a, b)
  PROVE  KeysOf(a) = KeysOf(b)
<1>1. \A k \in KeysOf(a) : k \in KeysOf(b)
  BY DEF SameDrawers, KeysOf
<1>2. \A k \in KeysOf(b) : k \in KeysOf(a)
  BY DEF SameDrawers, KeysOf
<1> QED BY <1>1, <1>2

\* INSERT in both backends.
LEMMA BothInsert ==
  ASSUME NEW a, NEW b, RowsOK(a), RowsOK(b), SameDrawers(a, b), NEW i \in RowIds \ DOMAIN a,
         NEW j \in RowIds \ DOMAIN b, NEW r \in Rows, Key(r) \notin KeysOf(a)
  PROVE  SameDrawers(With(a, i, r), With(b, j, r))
<1> DEFINE x == With(a, i, r)
           y == With(b, j, r)
<1>2. DOMAIN x = DOMAIN a \cup {i} /\ x[i] = r /\ \A k \in DOMAIN a : x[k] = a[k] /\ k # i
  BY DEF With
<1>6. DOMAIN y = DOMAIN b \cup {j} /\ y[j] = r /\ \A k \in DOMAIN b : y[k] = b[k] /\ k # j
  BY DEF With
<1> HIDE DEF x, y
<1>3. \A k \in DOMAIN x : \E l \in DOMAIN y : y[l] = x[k]
  BY <1>2, <1>6 DEF SameDrawers
<1>4. \A l \in DOMAIN y : \E k \in DOMAIN x : x[k] = y[l]
  BY <1>2, <1>6 DEF SameDrawers
<1>5. SameDrawers(x, y)
  BY <1>3, <1>4 DEF SameDrawers
<1> QED BY <1>5 DEF x, y

\* DELETE in both backends, of rows that are the same.
LEMMA BothDelete ==
  ASSUME NEW a, NEW b, RowsOK(a), RowsOK(b), SameDrawers(a, b), NEW A, NEW B,
         \A i \in DOMAIN a, j \in DOMAIN b : a[i] = b[j] => (i \in A <=> j \in B)
  PROVE  SameDrawers(Without(a, A), Without(b, B))
<1> DEFINE x == Without(a, A)
           y == Without(b, B)
<1>1. /\ DOMAIN x = DOMAIN a \ A /\ \A k \in DOMAIN a \ A : x[k] = a[k]
      /\ DOMAIN y = DOMAIN b \ B /\ \A k \in DOMAIN b \ B : y[k] = b[k]
  BY DroppedRows
<1> HIDE DEF x, y
<1>2. \A k \in DOMAIN x : \E l \in DOMAIN y : y[l] = x[k]
  BY <1>1 DEF SameDrawers
<1>3. \A l \in DOMAIN y : \E k \in DOMAIN x : x[k] = y[l]
  BY <1>1 DEF SameDrawers
<1>4. SameDrawers(x, y)
  BY <1>2, <1>3 DEF SameDrawers
<1> QED BY <1>4 DEF x, y

LEMMA MemAdds ==
  ASSUME NEW m, MemOK(m), NEW d \in Notices, NEW now \in Nat, Key(d) \notin KeysOf(m.rows),
         NEW new, new = mem_add(m, d, now), NEW i, i = m.next_id + 1
  PROVE  /\ MemOK(new) /\ i \in RowIds \ DOMAIN m.rows
         /\ new.rows = With(m.rows, i, NewRow(d, now))
<1> DEFINE r == NewRow(d, now)
<1>1. r \in Rows /\ Key(r) = Key(d)
  BY DEF Notices, Rows, NewRow, Key
<1>2. i \in RowIds \ DOMAIN m.rows
  BY DEF MemOK, RowIds, RowsOK
<1>3. new = [next_id |-> i, rows |-> With(m.rows, i, r), sha_index |-> With(m.sha_index, Key(d), i)]
  BY DEF mem_add, MemOK, NewRow, Key
<1> HIDE DEF r
<1>4. new.rows = With(m.rows, i, r) /\ new.sha_index = With(m.sha_index, Key(d), i)
      /\ new.next_id = i
  BY <1>3
<1>5. /\ RowsOK(new.rows) /\ DOMAIN new.rows = DOMAIN m.rows \cup {i} /\ new.rows[i] = r
      /\ \A j \in DOMAIN m.rows : new.rows[j] = m.rows[j] /\ j # i
      /\ KeysOf(new.rows) = KeysOf(m.rows) \cup {Key(r)}
  <2>1. PICK rows : rows = m.rows
    OBVIOUS
  <2>2. RowsOK(rows) /\ i \in RowIds \ DOMAIN rows /\ Key(r) \notin KeysOf(rows)
    BY <1>1, <1>2, <2>1 DEF MemOK
  <2>3. /\ RowsOK(With(rows, i, r))
        /\ DOMAIN With(rows, i, r) = DOMAIN rows \cup {i}
        /\ With(rows, i, r)[i] = r
        /\ \A j \in DOMAIN rows : With(rows, i, r)[j] = rows[j] /\ j # i
        /\ KeysOf(With(rows, i, r)) = KeysOf(rows) \cup {Key(r)}
    <3>1. r \in Rows
      BY <1>1
    <3>2. RowsOK(rows)
      BY <2>2
    <3>3. i \in RowIds \ DOMAIN rows
      BY <2>2
    <3>4. Key(r) \notin KeysOf(rows)
      BY <2>2
    <3>5. RowsOK(With(rows, i, r))
      BY <3>1, <3>2, <3>3, <3>4, AddedRow
    <3>6. /\ DOMAIN With(rows, i, r) = DOMAIN rows \cup {i}
          /\ With(rows, i, r)[i] = r
      BY <3>1, <3>2, <3>3, <3>4, AddedRow
    <3>7. \A j \in DOMAIN rows : With(rows, i, r)[j] = rows[j] /\ j # i
      BY <3>3 DEF With
    <3>8. KeysOf(With(rows, i, r)) = KeysOf(rows) \cup {Key(r)}
      BY <3>6, <3>7 DEF KeysOf
    <3> QED BY <3>5, <3>6, <3>7, <3>8
  <2> QED BY <1>4, <2>1, <2>3
<1>6. /\ DOMAIN new.sha_index = DOMAIN m.sha_index \cup {Key(d)}
      /\ new.sha_index[Key(d)] = i
      /\ \A k \in DOMAIN m.sha_index : k # Key(d) => new.sha_index[k] = m.sha_index[k]
  BY <1>4 DEF With
<1>7. DOMAIN new.sha_index = KeysOf(new.rows)
  BY <1>1, <1>5, <1>6 DEF MemOK
<1>8. ASSUME NEW j \in DOMAIN new.rows PROVE new.sha_index[Key(new.rows[j])] = j
  <2>1. CASE j = i
    BY <1>1, <1>5, <1>6, <2>1
  <2>2. CASE j # i
    <3>1. j \in DOMAIN m.rows /\ new.rows[j] = m.rows[j]
      BY <1>5, <2>2
    <3>2. Key(m.rows[j]) \in KeysOf(m.rows) /\ Key(m.rows[j]) # Key(d)
      BY <3>1 DEF KeysOf
    <3>3. m.sha_index[Key(m.rows[j])] = j /\ Key(m.rows[j]) \in DOMAIN m.sha_index
      BY <3>1, <3>2 DEF MemOK
    <3> QED BY <1>6, <3>1, <3>2, <3>3
  <2> QED BY <2>1, <2>2
<1>9. i \in Nat /\ \A j \in DOMAIN new.rows : j <= i
  BY <1>2, <1>5 DEF MemOK, RowIds, RowsOK
<1>10. MemOK(new)
  BY <1>3, <1>4, <1>5, <1>7, <1>8, <1>9 DEF MemOK
<1> QED BY <1>2, <1>4, <1>10 DEF r

LEMMA MemDeletes ==
  ASSUME NEW m, MemOK(m), NEW sel, NEW new, new = mem_delete(m, sel),
         NEW B, B = Selected(m.rows, sel)
  PROVE  MemOK(new) /\ new.rows = Without(m.rows, B)
<1>1. B \in SUBSET DOMAIN m.rows
  BY DEF Selected
<1> DEFINE K == {Key(m.rows[i]) : i \in B}
<1>2. new = [m EXCEPT !.rows = Without(@, B), !.sha_index = Without(@, K)]
  BY DEF mem_delete, Key
<1>3. /\ new = [next_id |-> new.next_id, rows |-> new.rows, sha_index |-> new.sha_index]
      /\ new.rows = Without(m.rows, B) /\ new.sha_index = Without(m.sha_index, K)
      /\ new.next_id = m.next_id
  BY <1>2 DEF MemOK
<1>4. /\ RowsOK(new.rows) /\ DOMAIN new.rows = DOMAIN m.rows \ B
      /\ \A j \in DOMAIN m.rows \ B : new.rows[j] = m.rows[j]
  <2>1. PICK rows : rows = m.rows
    OBVIOUS
  <2>2. RowsOK(rows)
    BY <2>1 DEF MemOK
  <2>3. /\ RowsOK(Without(rows, B)) /\ DOMAIN Without(rows, B) = DOMAIN rows \ B
        /\ \A j \in DOMAIN rows \ B : Without(rows, B)[j] = rows[j]
    BY <2>2, DroppedRows
  <2> QED BY <1>3, <2>1, <2>3
<1>5. KeysOf(new.rows) = KeysOf(m.rows) \ K
  BY <1>1, <1>3, DroppedKeys DEF MemOK
<1>6. DOMAIN new.sha_index = DOMAIN m.sha_index \ K
      /\ \A k \in DOMAIN m.sha_index \ K : new.sha_index[k] = m.sha_index[k]
  BY <1>3 DEF Without
<1>7. DOMAIN new.sha_index = KeysOf(new.rows)
  BY <1>5, <1>6 DEF MemOK
<1>8. ASSUME NEW j \in DOMAIN new.rows PROVE new.sha_index[Key(new.rows[j])] = j
  <2>1. Key(new.rows[j]) \in KeysOf(new.rows)
    BY DEF KeysOf
  <2>2. new.sha_index[Key(new.rows[j])] = m.sha_index[Key(new.rows[j])]
    BY <1>6, <1>7, <2>1
  <2>3. new.rows[j] = m.rows[j] /\ j \in DOMAIN m.rows
    BY <1>4
  <2> QED BY <2>2, <2>3 DEF MemOK
<1>9. m.next_id \in Nat /\ \A j \in DOMAIN new.rows : j <= m.next_id
  BY <1>4 DEF MemOK
<1>10. MemOK(new)
  BY <1>3, <1>4, <1>7, <1>8, <1>9 DEF MemOK
<1> QED BY <1>3, <1>10

-----------------------------------------------------------------------------
(* The steps that write.                                                   *)

LEMMA EmbsWith ==
  ASSUME NEW rows, NEW embs, embs = [i \in DOMAIN rows |-> rows[i].body],
         NEW i, i \notin DOMAIN rows, NEW r
  PROVE  With(embs, i, r.body) =
           [j \in DOMAIN With(rows, i, r) |-> With(rows, i, r)[j].body]
BY DEF With

LEMMA EmbsWithout ==
  ASSUME NEW rows, NEW embs, embs = [i \in DOMAIN rows |-> rows[i].body], NEW A
  PROVE  Without(embs, A) = [j \in DOMAIN Without(rows, A) |-> Without(rows, A)[j].body]
BY DEF Without

LEMMA AddWrites ==
  ASSUME StoreInv, NEW p \in Procs, NEW d \in Notices, Add(p, d), clock' = clock
  PROVE  StoreInv' /\ RowsNext(db.drawers, db'.drawers) /\ RowsNext(mem.rows, mem'.rows)
<1>0. DbOK(db) /\ MemOK(mem) /\ SameDrawers(db.drawers, mem.rows) /\ clock \in Nat
      /\ Form(db) /\ RowsOK(db.drawers) /\ RowsOK(mem.rows)
  BY DEF StoreInv, DbOK, MemOK
<1>1. db' = add(db, d, clock, conn[p].vec) /\ mem' = mem_add(mem, d, clock)
  BY DEF Add
<1>2. KeysOf(db.drawers) = KeysOf(mem.rows) /\ (existing(db, d) = {} <=> Key(d) \notin KeysOf(db.drawers))
  BY <1>0, SameKeys, ExistingIsKey
<1>3. CASE existing(db, d) # {}
  <2>1. Form(db') /\ SameTables(db, db')
    BY <1>0, <1>1, <1>3, AddFinds
  <2>2. DbOK(db')
    BY <1>0, <2>1 DEF DbOK, SameTables, Ids
  <2>3. mem' = mem
    BY <1>0, <1>1, <1>2, <1>3 DEF mem_add, MemOK, Key
  <2> QED BY <1>0, <2>1, <2>2, <2>3 DEF StoreInv, RowsNext, SameTables
<1>4. CASE existing(db, d) = {}
  <2> DEFINE r == NewRow(d, clock)
  <2>1. PICK i : i = NextRowid(db)
    OBVIOUS
  <2>2. i \in RowIds \ DOMAIN db.drawers
    BY <1>0, <2>1, NextRowidIsNew DEF Ids
  <2>3. r \in Rows /\ Key(r) = Key(d) /\ r.body = d.body
    BY <1>0 DEF Notices, Rows, NewRow, Key
  <2>4. /\ Form(db') /\ db'.trig = db.trig /\ db'.drawers = With(db.drawers, i, r)
        /\ db'.embs = With(db.embs, i, d.body)
        /\ db'.fts = fts_insert(db.fts, i, d.body) /\ db'.gen = Tick(db, 1)
    BY <1>0, <1>1, <1>4, <2>1, AddInserts
  <2>5. PICK j : j = mem.next_id + 1
    OBVIOUS
  <2>6. MemOK(mem') /\ j \in RowIds \ DOMAIN mem.rows /\ mem'.rows = With(mem.rows, j, r)
    BY <1>0, <1>1, <1>2, <1>4, <2>5, MemAdds
  <2> HIDE DEF r
  <2>7. Key(r) \notin KeysOf(db.drawers) /\ Key(r) \notin KeysOf(mem.rows)
    BY <1>2, <1>4, <2>3
  <2>8. RowsNext(db.drawers, db'.drawers) /\ RowsNext(mem.rows, mem'.rows)
    BY <2>2, <2>3, <2>4, <2>6, <2>7 DEF RowsNext, Inserted
  <2>9. RowsOK(db'.drawers)
    <3>1. PICK rows : rows = db.drawers
      OBVIOUS
    <3>2. RowsOK(With(rows, i, r))
      BY <1>0, <2>2, <2>3, <2>7, <3>1, AddedRow
    <3> QED BY <2>4, <3>1, <3>2
  <2>10. SameDrawers(db'.drawers, mem'.rows)
    BY <1>0, <2>2, <2>3, <2>4, <2>6, <2>7, BothInsert
  <2>11. db'.embs = [k \in Ids(db') |-> db'.drawers[k].body]
    BY <1>0, <2>2, <2>3, <2>4, EmbsWith DEF DbOK, Ids
  <2>12. /\ db'.fts = [post |-> db'.fts.post, docs |-> db'.fts.docs, total |-> db'.fts.total]
         /\ db'.fts.total \in Nat /\ db'.gen \in Nat /\ db'.trig \in BOOLEAN
    BY <1>0, <2>4 DEF DbOK, fts_insert, Tick
  <2>13. DbOK(db')
    BY <2>4, <2>9, <2>11, <2>12 DEF DbOK
  <2> QED BY <1>0, <2>6, <2>8, <2>10, <2>13 DEF StoreInv
<1> QED BY <1>3, <1>4

\* The two selections take the same drawers.
LEMMA SameSelection ==
  ASSUME StoreInv, NEW sel \in Selectors, NEW i \in DOMAIN db.drawers, NEW j \in DOMAIN mem.rows,
         db.drawers[i] = mem.rows[j]
  PROVE  i \in Selected(db.drawers, sel) <=> j \in Selected(mem.rows, InMem(sel))
<1>0. DbOK(db) /\ MemOK(mem) /\ SameDrawers(db.drawers, mem.rows)
      /\ RowsOK(db.drawers) /\ RowsOK(mem.rows)
  BY DEF StoreInv, DbOK, MemOK
<1>1. CASE sel.by # "id"
  <2>1. InMem(sel) = sel /\ sel.by \in {"all", "source", "before"}
    BY <1>1 DEF InMem, Selectors
  <2>2. CASE sel.by = "all"
    BY <2>1, <2>2 DEF Selected
  <2>3. CASE sel.by = "source"
    BY <2>1, <2>3 DEF Selected
  <2>4. CASE sel.by = "before"
    BY <2>1, <2>4 DEF Selected
  <2> QED BY <2>1, <2>2, <2>3, <2>4
<1>2. CASE sel.by = "id"
  <2>1. sel.id \in DOMAIN db.drawers
    BY <1>2 DEF Selectors, Ids
  <2>2. PICK k \in DOMAIN mem.rows : mem.rows[k] = db.drawers[sel.id]
    BY <1>0, <2>1 DEF SameDrawers
  <2>3. InMem(sel).by = "id" /\ InMem(sel).id = mem.sha_index[Key(db.drawers[sel.id])]
    BY <1>2 DEF InMem, Key
  <2>4. InMem(sel).id = k
    BY <1>0, <2>2, <2>3 DEF MemOK
  <2>5. i \in Selected(db.drawers, sel) <=> i = sel.id
    BY <1>2 DEF Selected
  <2>6. j \in Selected(mem.rows, InMem(sel)) <=> j = k
    BY <2>3, <2>4 DEF Selected
  <2>7. i = sel.id => Key(mem.rows[j]) = Key(mem.rows[k])
    BY <2>2
  <2>8. j = k => Key(db.drawers[i]) = Key(db.drawers[sel.id])
    BY <2>2
  <2> QED BY <1>0, <2>1, <2>5, <2>6, <2>7, <2>8 DEF RowsOK
<1> QED BY <1>1, <1>2

\* What is selected in either backend is what DrawerStore may forget.
LEMMA SelectionIsTaken ==
  ASSUME StoreInv, NEW sel \in Selectors
  PROVE  /\ Selected(db.drawers, sel) \in Taken(db.drawers)
         /\ Selected(mem.rows, InMem(sel)) \in Taken(mem.rows)
<1>1. CASE sel.by = "all"
  <2>1. InMem(sel) = sel
    BY <1>1 DEF InMem
  <2>2. \A rows : Selected(rows, sel) = DOMAIN rows
    BY <1>1 DEF Selected
  <2> QED BY <2>1, <2>2 DEF Taken
<1>2. CASE sel.by = "source"
  <2>1. sel.src \in Sources /\ InMem(sel) = sel
    BY <1>2 DEF Selectors, InMem
  <2>2. \A rows : Selected(rows, sel) = {i \in DOMAIN rows : rows[i].src = sel.src}
    BY <1>2 DEF Selected
  <2> QED BY <2>1, <2>2 DEF Taken
<1>3. CASE sel.by = "before"
  <2>1. sel.wing \in Wings /\ sel.before \in Nat /\ InMem(sel) = sel
    BY <1>3 DEF Selectors, InMem, StoreInv
  <2>2. \A rows : Selected(rows, sel) =
                    {i \in DOMAIN rows : rows[i].wing = sel.wing /\ rows[i].at < sel.before}
    BY <1>3 DEF Selected
  <2> QED BY <2>1, <2>2 DEF Taken
<1>4. CASE sel.by = "id"
  <2>1. sel.id \in DOMAIN db.drawers
    BY <1>4 DEF Selectors, Ids
  <2>2. Selected(db.drawers, sel) = {sel.id}
    BY <1>4, <2>1 DEF Selected
  <2>3. PICK k \in DOMAIN mem.rows : mem.rows[k] = db.drawers[sel.id]
    BY <2>1 DEF SameDrawers, StoreInv
  <2>4. InMem(sel).by = "id" /\ InMem(sel).id = mem.sha_index[Key(db.drawers[sel.id])]
    BY <1>4 DEF InMem, Key
  <2>5. InMem(sel).id = k
    BY <2>3, <2>4 DEF MemOK, StoreInv
  <2>6. Selected(mem.rows, InMem(sel)) = {k}
    BY <2>3, <2>4, <2>5 DEF Selected
  <2> QED BY <2>1, <2>2, <2>3, <2>6 DEF Taken
<1> QED BY <1>1, <1>2, <1>3, <1>4 DEF Selectors

LEMMA ForgetWrites ==
  ASSUME StoreInv, NEW p \in Procs, NEW sel \in Selectors, Forget(p, sel)
  PROVE  StoreInv' /\ RowsNext(db.drawers, db'.drawers) /\ RowsNext(mem.rows, mem'.rows)
<1>0. DbOK(db) /\ MemOK(mem) /\ SameDrawers(db.drawers, mem.rows) /\ clock \in Nat
      /\ Form(db) /\ RowsOK(db.drawers) /\ RowsOK(mem.rows)
  BY DEF StoreInv, DbOK, MemOK
<1>1. db' = delete(db, sel, conn[p].vec) /\ mem' = mem_delete(mem, InMem(sel)) /\ clock' = clock
      /\ ~delete_fails(db, sel)
  BY DEF Forget
<1>2. PICK A : A = Selected(db.drawers, sel)
  OBVIOUS
<1>3. PICK B : B = Selected(mem.rows, InMem(sel))
  OBVIOUS
<1>4. A \in Taken(db.drawers) /\ B \in Taken(mem.rows)
  BY <1>2, <1>3, SelectionIsTaken
<1>5. /\ Form(db') /\ db'.trig = db.trig /\ db'.drawers = Without(db.drawers, A)
      /\ db'.embs = Without(db.embs, A) /\ db'.fts = fts_delete(db.fts, A)
      /\ db'.gen = Tick(db, Cardinality(A))
  BY <1>0, <1>1, <1>2, DeleteDrops
<1>6. MemOK(mem') /\ mem'.rows = Without(mem.rows, B)
  BY <1>0, <1>1, <1>3, MemDeletes
<1>7. RowsNext(db.drawers, db'.drawers) /\ RowsNext(mem.rows, mem'.rows)
  BY <1>4, <1>5, <1>6 DEF RowsNext, Deleted
<1>8. \A i \in DOMAIN db.drawers, j \in DOMAIN mem.rows :
        db.drawers[i] = mem.rows[j] => (i \in A <=> j \in B)
  BY <1>2, <1>3, SameSelection
<1>9. SameDrawers(db'.drawers, mem'.rows)
  BY <1>0, <1>5, <1>6, <1>8, BothDelete
<1>10. RowsOK(db'.drawers)
  <2>1. PICK rows : rows = db.drawers
    OBVIOUS
  <2>2. RowsOK(Without(rows, A))
    BY <1>0, <2>1, DroppedRows
  <2> QED BY <1>5, <2>1, <2>2
<1>11. db'.embs = [k \in Ids(db') |-> db'.drawers[k].body]
  BY <1>0, <1>5, EmbsWithout DEF DbOK, Ids
<1>12. A \in SUBSET DOMAIN db.drawers /\ IsFiniteSet(DOMAIN db.drawers)
  BY <1>0, <1>2 DEF Selected, RowsOK
<1>13. Cardinality(A) \in Nat /\ Cardinality(A) <= db.fts.total
  BY <1>0, <1>1, <1>2, <1>12, FS_Subset, FS_CardinalityType DEF delete_fails, DbOK
<1>14. /\ db'.fts = [post |-> db'.fts.post, docs |-> db'.fts.docs, total |-> db'.fts.total]
       /\ db'.fts.total \in Nat /\ db'.gen \in Nat /\ db'.trig \in BOOLEAN
  <2> DEFINE n == Cardinality(A)
  <2>1. n \in Nat /\ n <= db.fts.total
    BY <1>13
  <2> HIDE DEF n
  <2>2. db'.fts = [db.fts EXCEPT !.docs = @ \ A, !.total = @ - n] /\ db'.gen = Tick(db, n)
    BY <1>5 DEF fts_delete, n
  <2>3. /\ db'.fts = [post |-> db'.fts.post, docs |-> db'.fts.docs, total |-> db'.fts.total]
        /\ db'.fts.total = db.fts.total - n
    BY <1>0, <2>2 DEF DbOK
  <2>4. db'.fts.total \in Nat
    BY <1>0, <2>1, <2>3 DEF DbOK
  <2>5. db'.gen \in Nat /\ db'.trig \in BOOLEAN
    BY <1>0, <1>5, <2>1, <2>2 DEF DbOK, Tick
  <2> QED BY <2>3, <2>4, <2>5
<1>15. DbOK(db')
  BY <1>5, <1>10, <1>11, <1>14 DEF DbOK
<1> QED BY <1>0, <1>1, <1>6, <1>7, <1>9, <1>15 DEF StoreInv

-----------------------------------------------------------------------------
(* The steps of a process, by what they make of its record.                *)

Only(p) == conn' = [q \in Procs |-> conn'[q]] /\ \A q \in Procs \ {p} : conn'[q] = conn[q]

State(st, vec, todo, gen, snap, mine) ==
  [st |-> st, vec |-> vec, todo |-> todo, gen |-> gen, snap |-> snap, mine |-> mine]

\* A process whose write commits: to the others it is a distraction.
Others(p) ==
  /\ conn' = [q \in Procs |-> conn'[q]]
  /\ \A q \in Procs \ {p} : LET c == conn[q] IN
       conn'[q] = State(c.st, c.vec, c.todo, c.gen, c.snap, [c.mine EXCEPT !.alone = FALSE])

Shape(c) ==
  c = [st |-> c.st, vec |-> c.vec, todo |-> c.todo, gen |-> c.gen, snap |-> c.snap,
       mine |-> c.mine]

LEMMA StateFields ==
  ASSUME NEW st, NEW vec, NEW todo, NEW gen, NEW snap, NEW mine,
         NEW x, x = State(st, vec, todo, gen, snap, mine)
  PROVE  /\ x.st = st /\ x.vec = vec /\ x.todo = todo /\ x.gen = gen /\ x.snap = snap
         /\ x.mine = mine
BY DEF State

LEMMA OneMoves ==
  ASSUME ConnInv, NEW p \in Procs, NEW c, conn' = [conn EXCEPT ![p] = c]
  PROVE  Only(p) /\ conn'[p] = c
BY DEF ConnInv, Only

LEMMA Shaped == ASSUME ConnInv, NEW p \in Procs PROVE Shape(conn[p])
BY DEF ConnInv, Using, Shape

\* The fields a step exchanges.
LEMMA NewTodo ==
  ASSUME NEW c, Shape(c), NEW x, NEW d, d = [c EXCEPT !.todo = x]
  PROVE  d = State(c.st, c.vec, x, c.gen, c.snap, c.mine)
<1>1. d = [st |-> c.st, vec |-> c.vec, todo |-> x, gen |-> c.gen, snap |-> c.snap, mine |-> c.mine]
  BY DEF Shape
<1> QED BY <1>1 DEF State

LEMMA NewStage ==
  ASSUME NEW c, Shape(c), NEW x, NEW d, d = [c EXCEPT !.st = x]
  PROVE  d = State(x, c.vec, c.todo, c.gen, c.snap, c.mine)
<1>1. d = [st |-> x, vec |-> c.vec, todo |-> c.todo, gen |-> c.gen, snap |-> c.snap, mine |-> c.mine]
  BY DEF Shape
<1> QED BY <1>1 DEF State

LEMMA NewMine ==
  ASSUME NEW c, Shape(c), NEW x, NEW d, d = [c EXCEPT !.mine = x]
  PROVE  d = State(c.st, c.vec, c.todo, c.gen, c.snap, x)
<1>1. d = [st |-> c.st, vec |-> c.vec, todo |-> c.todo, gen |-> c.gen, snap |-> c.snap, mine |-> x]
  BY DEF Shape
<1> QED BY <1>1 DEF State

LEMMA NewGen ==
  ASSUME NEW c, Shape(c), NEW x, NEW y, NEW d, d = [c EXCEPT !.gen = x, !.st = y]
  PROVE  d = State(y, c.vec, c.todo, x, c.snap, c.mine)
<1>1. d = [st |-> y, vec |-> c.vec, todo |-> c.todo, gen |-> x, snap |-> c.snap, mine |-> c.mine]
  BY DEF Shape
<1> QED BY <1>1 DEF State

LEMMA NewSnap ==
  ASSUME NEW c, Shape(c), NEW x, NEW y, NEW d, d = [c EXCEPT !.snap = x, !.st = y]
  PROVE  d = State(y, c.vec, c.todo, c.gen, x, c.mine)
<1>1. d = [st |-> y, vec |-> c.vec, todo |-> c.todo, gen |-> c.gen, snap |-> x, mine |-> c.mine]
  BY DEF Shape
<1> QED BY <1>1 DEF State

LEMMA NoSnap ==
  ASSUME NEW c, Shape(c), NEW y, NEW d, d = [c EXCEPT !.snap = NoEntries, !.gen = 0, !.st = y]
  PROVE  d = State(y, c.vec, c.todo, 0, NoEntries, c.mine)
<1>1. d = [st |-> y, vec |-> c.vec, todo |-> c.todo, gen |-> 0, snap |-> NoEntries, mine |-> c.mine]
  BY DEF Shape
<1> QED BY <1>1 DEF State

LEMMA OpenIs ==
  ASSUME ConnInv, NEW p \in Procs, NEW vec, Open(p, vec)
  PROVE  Only(p) /\ conn'[p] = State("filling", vec, {<<i, db.drawers[i].body>> : i \in Unindexed(db)},
                                     0, NoEntries, NoMine)
<1> DEFINE T == {<<i, db.drawers[i].body>> : i \in Unindexed(db)}
<1>1. conn' = [conn EXCEPT ![p] = [Closed EXCEPT !.st = "filling", !.vec = vec, !.todo = T]]
  BY DEF Open
<1> HIDE DEF T
<1>2. Only(p) /\ conn'[p] = State("filling", vec, T, 0, NoEntries, NoMine)
  BY <1>1 DEF ConnInv, Only, Closed, State
<1> QED BY <1>2 DEF T

LEMMA FillIs ==
  ASSUME ConnInv, NEW p \in Procs, NEW e \in conn[p].todo, Fill(p, e)
  PROVE  Only(p) /\ LET c == conn[p] IN
                    conn'[p] = State(c.st, c.vec, c.todo \ {e}, c.gen, c.snap, c.mine)
<1>1. PICK x : x = conn[p].todo \ {e}
  OBVIOUS
<1>2. conn' = [conn EXCEPT ![p] = [conn[p] EXCEPT !.todo = x]]
  BY <1>1 DEF Fill
<1>3. Only(p) /\ conn'[p] = [conn[p] EXCEPT !.todo = x]
  BY <1>2, OneMoves
<1> QED BY <1>1, <1>3, Shaped, NewTodo

LEMMA OpenedIs ==
  ASSUME ConnInv, NEW p \in Procs, Opened(p)
  PROVE  Only(p) /\ LET c == conn[p] IN
           conn'[p] = State(IF c.vec THEN "probing" ELSE "open", c.vec, c.todo, c.gen, c.snap, c.mine)
<1>1. PICK x : x = IF conn[p].vec THEN "probing" ELSE "open"
  OBVIOUS
<1>2. conn' = [conn EXCEPT ![p] = [conn[p] EXCEPT !.st = x]]
  BY <1>1 DEF Opened
<1>3. Only(p) /\ conn'[p] = [conn[p] EXCEPT !.st = x]
  BY <1>2, OneMoves
<1> QED BY <1>1, <1>3, Shaped, NewStage

LEMMA ProbeIs ==
  ASSUME ConnInv, NEW p \in Procs, Probe(p)
  PROVE  Only(p) /\ LET c == conn[p] IN
           conn'[p] = State(IF db.back # db.gen THEN "reading" ELSE "open", c.vec, c.todo, db.gen,
                            c.snap, c.mine)
<1>1. PICK x : x = IF db.back # db.gen THEN "reading" ELSE "open"
  OBVIOUS
<1>2. conn' = [conn EXCEPT ![p] = [conn[p] EXCEPT !.gen = db.gen, !.st = x]]
  BY <1>1 DEF Probe, ConnInv
<1>3. Only(p) /\ conn'[p] = [conn[p] EXCEPT !.gen = db.gen, !.st = x]
  BY <1>2, OneMoves
<1>4. PICK c : c = conn[p]
  OBVIOUS
<1>5. PICK d : d = conn'[p]
  OBVIOUS
<1>6. d = State(x, c.vec, c.todo, db.gen, c.snap, c.mine)
  BY <1>3, <1>4, <1>5, Shaped, NewGen
<1> QED BY <1>1, <1>3, <1>4, <1>5, <1>6

LEMMA ReadIs ==
  ASSUME ConnInv, NEW p \in Procs, ReadEmbeddings(p)
  PROVE  Only(p) /\ LET c == conn[p] IN
                    conn'[p] = State("syncing", c.vec, c.todo, c.gen, db.embs, c.mine)
<1>1. conn' = [conn EXCEPT ![p] = [conn[p] EXCEPT !.snap = db.embs, !.st = "syncing"]]
  BY DEF ReadEmbeddings, ConnInv
<1>2. Only(p) /\ conn'[p] = [conn[p] EXCEPT !.snap = db.embs, !.st = "syncing"]
  BY <1>1, OneMoves
<1> QED BY <1>2, Shaped, NewSnap

LEMMA ResyncIs ==
  ASSUME ConnInv, NEW p \in Procs, Resync(p)
  PROVE  Only(p) /\ LET c == conn[p] IN
                    conn'[p] = State("open", c.vec, c.todo, 0, NoEntries, c.mine)
<1>1. conn' = [conn EXCEPT ![p] = [conn[p] EXCEPT !.snap = NoEntries, !.gen = 0, !.st = "open"]]
  BY DEF Resync, ConnInv
<1>2. Only(p) /\ conn'[p] = [conn[p] EXCEPT !.snap = NoEntries, !.gen = 0, !.st = "open"]
  BY <1>1, OneMoves
<1> QED BY <1>2, Shaped, NoSnap

LEMMA CloseIs ==
  ASSUME ConnInv, NEW p \in Procs, Close(p)
  PROVE  Only(p) /\ conn'[p] = State("closed", FALSE, {}, 0, NoEntries, NoMine)
BY DEF Close, ConnInv, Only, State, Closed

LEMMA DistractIs ==
  ASSUME ConnInv, NEW p \in Procs, conn' = Distract(conn, p)
  PROVE  Others(p) /\ conn'[p] = conn[p]
<1>1. /\ conn' = [q \in Procs |-> conn'[q]] /\ conn'[p] = conn[p]
      /\ \A q \in Procs \ {p} : conn'[q] = [conn[q] EXCEPT !.mine = [@ EXCEPT !.alone = FALSE]]
  BY DEF Distract
<1>2. ASSUME NEW q \in Procs \ {p}
      PROVE  LET c == conn[q] IN
             conn'[q] = State(c.st, c.vec, c.todo, c.gen, c.snap, [c.mine EXCEPT !.alone = FALSE])
  <2>1. PICK m : m = [conn[q].mine EXCEPT !.alone = FALSE]
    OBVIOUS
  <2>2. conn'[q] = [conn[q] EXCEPT !.mine = m]
    BY <1>1, <2>1
  <2> QED BY <2>1, <2>2, Shaped, NewMine
<1> QED BY <1>1, <1>2 DEF Others

\* A step of a mining run changes what has been mined.
LEMMA MinesIs ==
  ASSUME ConnInv, NEW p \in Procs, NEW m, conn' = [conn EXCEPT ![p] = [conn[p] EXCEPT !.mine = m]]
  PROVE  Only(p) /\ LET c == conn[p] IN
                    conn'[p] = State(c.st, c.vec, c.todo, c.gen, c.snap, m)
<1>1. Only(p) /\ conn'[p] = [conn[p] EXCEPT !.mine = m]
  BY OneMoves
<1> QED BY <1>1, Shaped, NewMine

LEMMA MineIs ==
  ASSUME ConnInv, NEW p \in Procs, Mine(p)
  PROVE  Only(p) /\ LET c == conn[p] IN
           conn'[p] = State(c.st, c.vec, c.todo, c.gen, c.snap, [NoMine EXCEPT !.left = Files])
<1>1. PICK m : m = [NoMine EXCEPT !.left = Files]
  OBVIOUS
<1>2. conn' = [conn EXCEPT ![p] = [conn[p] EXCEPT !.mine = m]]
  BY <1>1 DEF Mine
<1> QED BY <1>1, <1>2, MinesIs

LEMMA MineFileIs ==
  ASSUME ConnInv, NEW p \in Procs, NEW s \in Files, MineFile(p, s)
  PROVE  Only(p) /\ LET c == conn[p] IN
           conn'[p] = State(c.st, c.vec, c.todo, c.gen, c.snap,
                            [c.mine EXCEPT !.left = @ \ {s}, !.at = s, !.body = tree[s],
                                           !.pre = count(db), !.wrote = FALSE])
<1>1. PICK m : m = [conn[p].mine EXCEPT !.left = @ \ {s}, !.at = s, !.body = tree[s],
                                        !.pre = count(db), !.wrote = FALSE]
  OBVIOUS
<1>2. conn' = [conn EXCEPT ![p] = [conn[p] EXCEPT !.mine = m]]
  BY <1>1 DEF MineFile
<1> QED BY <1>1, <1>2, MinesIs

LEMMA MineAddIs ==
  ASSUME ConnInv, NEW p \in Procs, MineAdd(p)
  PROVE  Others(p) /\ LET c == conn[p] IN
           conn'[p] = State(c.st, c.vec, c.todo, c.gen, c.snap,
                            [c.mine EXCEPT !.wrote = TRUE, !.real = @ + count(db') - count(db)])
<1>1. PICK m : m = [conn[p].mine EXCEPT !.wrote = TRUE, !.real = @ + count(db') - count(db)]
  OBVIOUS
<1>2. conn' = [Distract(conn, p) EXCEPT ![p] = [@ EXCEPT !.mine = m]]
  BY <1>1 DEF MineAdd
<1>3. /\ conn' = [q \in Procs |-> conn'[q]] /\ conn'[p] = [conn[p] EXCEPT !.mine = m]
      /\ \A q \in Procs \ {p} : conn'[q] = [conn[q] EXCEPT !.mine = [@ EXCEPT !.alone = FALSE]]
  BY <1>2 DEF Distract
<1>4. ASSUME NEW q \in Procs \ {p}
      PROVE  LET c == conn[q] IN
             conn'[q] = State(c.st, c.vec, c.todo, c.gen, c.snap, [c.mine EXCEPT !.alone = FALSE])
  <2>1. PICK n : n = [conn[q].mine EXCEPT !.alone = FALSE]
    OBVIOUS
  <2>2. conn'[q] = [conn[q] EXCEPT !.mine = n]
    BY <1>3, <2>1
  <2> QED BY <2>1, <2>2, Shaped, NewMine
<1>5. LET c == conn[p] IN conn'[p] = State(c.st, c.vec, c.todo, c.gen, c.snap, m)
  BY <1>3, Shaped, NewMine
<1> QED BY <1>1, <1>3, <1>4, <1>5 DEF Others

\* A run that has counted the drawers again.
Report(m, i, d) == [m EXCEPT !.at = NoFile, !.body = NoFile, !.pre = 0, !.ins = i, !.ded = d]

LEMMA MineCountIs ==
  ASSUME ConnInv, NEW p \in Procs, MineCount(p)
  PROVE  Only(p) /\ \E m : LET c == conn[p] IN
           /\ \/ count(db) > c.mine.pre /\ m = Report(c.mine, c.mine.ins + 1, c.mine.ded)
              \/ ~(count(db) > c.mine.pre) /\ m = Report(c.mine, c.mine.ins, c.mine.ded + 1)
           /\ conn'[p] = State(c.st, c.vec, c.todo, c.gen, c.snap, m)
<1>1. CASE count(db) > conn[p].mine.pre
  <2>1. PICK m : m = Report(conn[p].mine, conn[p].mine.ins + 1, conn[p].mine.ded)
    OBVIOUS
  <2>2. conn' = [conn EXCEPT ![p] = [conn[p] EXCEPT !.mine = m]]
    BY <1>1, <2>1 DEF MineCount, Report
  <2>3. Only(p) /\ LET c == conn[p] IN conn'[p] = State(c.st, c.vec, c.todo, c.gen, c.snap, m)
    BY <2>2, MinesIs
  <2> QED BY <1>1, <2>1, <2>3
<1>2. CASE ~(count(db) > conn[p].mine.pre)
  <2>1. PICK m : m = Report(conn[p].mine, conn[p].mine.ins, conn[p].mine.ded + 1)
    OBVIOUS
  <2>2. conn' = [conn EXCEPT ![p] = [conn[p] EXCEPT !.mine = m]]
    BY <1>2, <2>1 DEF MineCount, Report
  <2>3. Only(p) /\ LET c == conn[p] IN conn'[p] = State(c.st, c.vec, c.todo, c.gen, c.snap, m)
    BY <2>2, MinesIs
  <2> QED BY <1>2, <2>1, <2>3
<1> QED BY <1>1, <1>2

-----------------------------------------------------------------------------
(* The invariant of the palace.                                            *)

LEMMA FillTables ==
  ASSUME DbOK(db), NEW p \in Procs, NEW e, Fill(p, e)
  PROVE  /\ Form(db') /\ db'.fts = fts_insert(db.fts, e[1], e[2])
         /\ db'.drawers = db.drawers /\ db'.embs = db.embs /\ db'.vecs = db.vecs
         /\ db'.gen = db.gen /\ db'.back = db.back /\ db'.trig = db.trig
<1>1. PICK f : f = fts_insert(db.fts, e[1], e[2])
  OBVIOUS
<1>2. db' = [db EXCEPT !.fts = f]
  BY <1>1 DEF Fill
<1> QED BY <1>1, <1>2 DEF DbOK, Form

LEMMA OpenedTables ==
  ASSUME DbOK(db), NEW p \in Procs, Opened(p)
  PROVE  /\ Form(db') /\ db'.fts = db.fts
         /\ db'.drawers = db.drawers /\ db'.embs = db.embs /\ db'.vecs = db.vecs
         /\ db'.gen = db.gen /\ db'.back = db.back
         /\ db'.trig = IF conn[p].vec THEN TRUE ELSE db.trig
BY DEF Opened, install_triggers, DbOK, Form

LEMMA ResyncTables ==
  ASSUME DbOK(db), NEW p \in Procs, Resync(p)
  PROVE  /\ Form(db') /\ db'.fts = db.fts
         /\ db'.drawers = db.drawers /\ db'.embs = db.embs /\ db'.vecs = conn[p].snap
         /\ db'.gen = db.gen /\ db'.back = conn[p].gen /\ db'.trig = db.trig
BY DEF Resync, resync, DbOK, Form

LEMMA QuietStore ==
  ASSUME StoreInv, Form(db'), db'.drawers = db.drawers, db'.embs = db.embs,
         db'.fts = db.fts \/ \E e : db'.fts = fts_insert(db.fts, e[1], e[2]),
         db'.gen = db.gen, db'.trig \in BOOLEAN, mem' = mem, clock' = clock
  PROVE  StoreInv' /\ RowsNext(db.drawers, db'.drawers) /\ RowsNext(mem.rows, mem'.rows)
<1>1. /\ db'.fts = [post |-> db'.fts.post, docs |-> db'.fts.docs, total |-> db'.fts.total]
      /\ db'.fts.total \in Nat
  <2>1. CASE db'.fts = db.fts
    BY <2>1 DEF StoreInv, DbOK
  <2>2. ASSUME NEW e, db'.fts = fts_insert(db.fts, e[1], e[2])
        PROVE  /\ db'.fts = [post |-> db'.fts.post, docs |-> db'.fts.docs, total |-> db'.fts.total]
               /\ db'.fts.total \in Nat
    <3>1. db'.fts = [post |-> db.fts.post \cup {<<e[1], e[2]>>}, docs |-> db.fts.docs \cup {e[1]},
                     total |-> db.fts.total + 1]
      BY <2>2 DEF fts_insert
    <3> QED BY <3>1 DEF StoreInv, DbOK
  <2> QED BY <2>1, <2>2
<1>2. DbOK(db')
  BY <1>1 DEF StoreInv, DbOK, Ids
<1> QED BY <1>2 DEF StoreInv, RowsNext

\* The drawer a mining run adds.
LEMMA MineAddIsAdd ==
  ASSUME PalaceInv, NEW p \in Procs, MineAdd(p)
  PROVE  \E d \in Notices : d.src = conn[p].mine.at /\ Add(p, d)
<1>1. PICK d : d = [src |-> conn[p].mine.at, body |-> conn[p].mine.body, wing |-> Proj]
  OBVIOUS
<1>2. Add(p, d) /\ conn[p].mine.at # NoFile
  BY <1>1 DEF MineAdd
<1>3. conn[p].mine.at \in Sources /\ conn[p].mine.body \in Bodies
  BY <1>2, DrawersAssumption DEF PalaceInv, ConnInv, Using, Mining
<1>4. d \in Notices
  BY <1>1, <1>3, DrawersAssumption DEF Notices
<1> QED BY <1>1, <1>2, <1>4

LEMMA StoreStep ==
  ASSUME PalaceInv, [Next]_vars
  PROVE  StoreInv' /\ RowsNext(db.drawers, db'.drawers) /\ RowsNext(mem.rows, mem'.rows)
<1>0. StoreInv /\ ConnInv /\ DbOK(db) /\ Form(db) /\ db.trig \in BOOLEAN
  BY DEF PalaceInv, StoreInv, DbOK
<1>1. ASSUME db' = db, mem' = mem, clock' \in {clock, clock + 1}
      PROVE  StoreInv' /\ RowsNext(db.drawers, db'.drawers) /\ RowsNext(mem.rows, mem'.rows)
  BY <1>0, <1>1 DEF StoreInv, RowsNext
<1>2. ASSUME NEW p \in Procs, NEW e \in conn[p].todo, Fill(p, e)
      PROVE  StoreInv' /\ RowsNext(db.drawers, db'.drawers) /\ RowsNext(mem.rows, mem'.rows)
  <2>1. mem' = mem /\ clock' = clock
    BY <1>2 DEF Fill
  <2> QED BY <1>0, <1>2, <2>1, FillTables, QuietStore
<1>3. ASSUME NEW p \in Procs, Opened(p)
      PROVE  StoreInv' /\ RowsNext(db.drawers, db'.drawers) /\ RowsNext(mem.rows, mem'.rows)
  <2>1. mem' = mem /\ clock' = clock
    BY <1>3 DEF Opened
  <2>2. db'.trig \in BOOLEAN
    BY <1>0, <1>3, OpenedTables
  <2> QED BY <1>0, <1>3, <2>1, <2>2, OpenedTables, QuietStore
<1>4. ASSUME NEW p \in Procs, Resync(p)
      PROVE  StoreInv' /\ RowsNext(db.drawers, db'.drawers) /\ RowsNext(mem.rows, mem'.rows)
  <2>1. mem' = mem /\ clock' = clock
    BY <1>4 DEF Resync
  <2> QED BY <1>0, <1>4, <2>1, ResyncTables, QuietStore
<1>5. ASSUME NEW p \in Procs, NEW d \in Notes, Remember(p, d)
      PROVE  StoreInv' /\ RowsNext(db.drawers, db'.drawers) /\ RowsNext(mem.rows, mem'.rows)
  <2>1. Add(p, d) /\ clock' = clock /\ d \in Notices
    BY <1>5, DrawersAssumption DEF Remember, Notices
  <2> QED BY <1>0, <2>1, AddWrites
<1>6. ASSUME NEW p \in Procs, NEW sel \in Selectors, Forget(p, sel)
      PROVE  StoreInv' /\ RowsNext(db.drawers, db'.drawers) /\ RowsNext(mem.rows, mem'.rows)
  BY <1>0, <1>6, ForgetWrites
<1>7. ASSUME NEW p \in Procs, MineAdd(p)
      PROVE  StoreInv' /\ RowsNext(db.drawers, db'.drawers) /\ RowsNext(mem.rows, mem'.rows)
  <2>1. PICK d \in Notices : Add(p, d)
    BY <1>7, MineAddIsAdd
  <2>2. clock' = clock
    BY <1>7 DEF MineAdd
  <2> QED BY <1>0, <2>1, <2>2, AddWrites
<1>8. ASSUME NEW p \in Procs,
             \/ \E vec \in Builds[p] : Open(p, vec)
             \/ Probe(p) \/ ReadEmbeddings(p) \/ Close(p) \/ Mine(p) \/ MineCount(p)
             \/ \E s \in Files : MineFile(p, s)
      PROVE  db' = db /\ mem' = mem /\ clock' = clock
  BY <1>8 DEF Open, Probe, ReadEmbeddings, Close, Mine, MineCount, MineFile
<1>9. ASSUME \/ \E s \in Files, b \in Bodies : Edit(s, b)
             \/ Pass \/ UNCHANGED vars
      PROVE  db' = db /\ mem' = mem /\ clock' \in {clock, clock + 1}
  BY <1>9 DEF Edit, Pass, vars
<1> QED BY <1>1, <1>2, <1>3, <1>4, <1>5, <1>6, <1>7, <1>8, <1>9 DEF Next

\* A record of a process that is well formed.
LEMMA UsingState ==
  ASSUME NEW st \in Stages, NEW vec \in BOOLEAN, NEW todo, NEW gen \in Nat, NEW snap, NEW m,
         Mining(m), st # "filling" => todo = {}, st # "open" => m.left = {} /\ m.at = NoFile,
         NEW c, c = State(st, vec, todo, gen, snap, m)
  PROVE  Using(c)
BY DEF Using, State

LEMMA MiningBegins ==
  ASSUME NEW n, n = NoMine \/ n = [NoMine EXCEPT !.left = Files]
  PROVE  /\ Mining(n) /\ n.left = (IF n = NoMine THEN {} ELSE Files) /\ n.at = NoFile
         /\ n.ins = 0 /\ n.ded = 0 /\ n.real = 0
<1>1. PICK F \in {{}, Files} :
        n = [left |-> F, at |-> NoFile, body |-> NoFile, pre |-> 0, wrote |-> FALSE,
             ins |-> 0, ded |-> 0, real |-> 0, alone |-> TRUE]
  BY DEF NoMine
<1>2. n.left = F /\ n.at = NoFile /\ n.ins = 0 /\ n.ded = 0 /\ n.real = 0
  BY <1>1
<1>3. Mining(n)
  BY <1>1 DEF Mining
<1>4. CASE F = {}
  BY <1>1, <1>2, <1>3, <1>4 DEF NoMine
<1>5. CASE F # {}
  <2>1. NoMine.left = {}
    BY DEF NoMine
  <2> QED BY <1>2, <1>3, <1>5, <2>1
<1> QED BY <1>4, <1>5

\* What the steps of others, and of the run itself, make of a mining run.
LEMMA Distracted ==
  ASSUME NEW m, Mining(m), NEW n, n = [m EXCEPT !.alone = FALSE]
  PROVE  /\ Mining(n) /\ n.left = m.left /\ n.at = m.at /\ n.pre = m.pre /\ n.wrote = m.wrote
         /\ n.ins = m.ins /\ n.ded = m.ded /\ n.real = m.real /\ ~n.alone
BY DEF Mining

LEMMA TookFile ==
  ASSUME NEW m, Mining(m), NEW s \in Files, NEW b \in Bodies, NEW k \in Nat,
         NEW n, n = [m EXCEPT !.left = @ \ {s}, !.at = s, !.body = b, !.pre = k, !.wrote = FALSE]
  PROVE  /\ Mining(n) /\ n.left = m.left \ {s} /\ n.at = s /\ n.pre = k /\ ~n.wrote
         /\ n.ins = m.ins /\ n.ded = m.ded /\ n.real = m.real /\ n.alone = m.alone
BY DEF Mining

LEMMA WroteFile ==
  ASSUME NEW m, Mining(m), NEW k \in Int,
         NEW n, n = [m EXCEPT !.wrote = TRUE, !.real = k]
  PROVE  /\ Mining(n) /\ n.left = m.left /\ n.at = m.at /\ n.pre = m.pre /\ n.wrote
         /\ n.ins = m.ins /\ n.ded = m.ded /\ n.real = k /\ n.alone = m.alone
BY DEF Mining

LEMMA CountedFile ==
  ASSUME NEW m, Mining(m), NEW i \in Nat, NEW d \in Nat,
         NEW n, n = Report(m, i, d)
  PROVE  /\ Mining(n) /\ n.left = m.left /\ n.at = NoFile /\ n.ins = i /\ n.ded = d
         /\ n.real = m.real /\ n.alone = m.alone
BY DEF Mining, Report

\* The rest of the state that a process's record goes with.
RestOK ==
  /\ tree \in [Files -> Bodies]
  /\ used = [writes |-> used.writes, opens |-> used.opens, edits |-> used.edits]
  /\ past = [hidden |-> past.hidden, torn |-> past.torn]
  /\ past.hidden \in BOOLEAN /\ past.torn \in BOOLEAN

LEMMA OnlyKeeps ==
  ASSUME ConnInv, RestOK', NEW p \in Procs, Only(p), Using(conn'[p])
  PROVE  ConnInv'
BY DEF ConnInv, RestOK, Only

LEMMA OthersKeep ==
  ASSUME ConnInv, RestOK', NEW p \in Procs, Others(p), Using(conn'[p])
  PROVE  ConnInv'
<1>1. ASSUME NEW q \in Procs \ {p} PROVE Using(conn'[q])
  <2>1. PICK c : c = conn[q]
    OBVIOUS
  <2>2. PICK n : n = [c.mine EXCEPT !.alone = FALSE]
    OBVIOUS
  <2>3. conn'[q] = State(c.st, c.vec, c.todo, c.gen, c.snap, n)
    BY <2>1, <2>2 DEF Others
  <2>4. Using(c)
    BY <2>1 DEF ConnInv
  <2>5. Mining(n) /\ n.left = c.mine.left /\ n.at = c.mine.at
    BY <2>2, <2>4, Distracted DEF Using
  <2>6. /\ c.st \in Stages /\ c.vec \in BOOLEAN /\ c.gen \in Nat
        /\ c.st # "filling" => c.todo = {}
        /\ c.st # "open" => n.left = {} /\ n.at = NoFile
    BY <2>4, <2>5 DEF Using
  <2> QED BY <2>3, <2>5, <2>6, UsingState
<1> QED BY <1>1 DEF ConnInv, RestOK, Others

LEMMA RestStep ==
  ASSUME ConnInv, [Next]_vars
  PROVE  RestOK'
<1>0. RestOK
  BY DEF ConnInv, RestOK
<1>1. CASE UNCHANGED <<tree, used, past>>
  BY <1>0, <1>1 DEF RestOK
<1>2. ASSUME NEW p \in Procs, NEW vec, Open(p, vec) PROVE RestOK'
  BY <1>0, <1>2 DEF RestOK, Open
<1>3. ASSUME NEW p \in Procs, Close(p) PROVE RestOK'
  <2>1. past' = [past EXCEPT !.torn = @ \/ conn[p].todo # {}] /\ UNCHANGED <<tree, used>>
    BY <1>3 DEF Close
  <2>2. (past.torn \/ conn[p].todo # {}) \in BOOLEAN
    OBVIOUS
  <2> HIDE DEF RestOK
  <2>3. past'.hidden = past.hidden /\ past'.torn \in BOOLEAN
        /\ past' = [hidden |-> past'.hidden, torn |-> past'.torn]
    BY <1>0, <2>1, <2>2 DEF RestOK
  <2> QED BY <1>0, <2>1, <2>3 DEF RestOK
<1>4. ASSUME NEW p \in Procs, Written(p), UNCHANGED tree PROVE RestOK'
  <2>1. used' = [used EXCEPT !.writes = @ + 1]
        /\ past' = [past EXCEPT !.hidden = @ \/ (conn[p].vec /\ db.back # db.gen)]
    BY <1>4 DEF Written
  <2>2. past'.torn = past.torn /\ past'.hidden \in BOOLEAN
        /\ past' = [hidden |-> past'.hidden, torn |-> past'.torn]
    BY <1>0, <2>1 DEF RestOK
  <2>3. used' = [writes |-> used'.writes, opens |-> used'.opens, edits |-> used'.edits]
    BY <1>0, <2>1 DEF RestOK
  <2> QED BY <1>0, <1>4, <2>2, <2>3 DEF RestOK
<1>5. ASSUME NEW s \in Files, NEW b \in Bodies, Edit(s, b) PROVE RestOK'
  BY <1>0, <1>5 DEF RestOK, Edit
<1>6. ASSUME NEW p \in Procs,
             \/ \E e \in conn[p].todo : Fill(p, e)
             \/ Opened(p) \/ Probe(p) \/ ReadEmbeddings(p) \/ Resync(p) \/ Mine(p) \/ MineCount(p)
             \/ \E s \in Files : MineFile(p, s)
      PROVE  UNCHANGED <<tree, used, past>>
  BY <1>6 DEF Fill, Opened, Probe, ReadEmbeddings, Resync, Mine, MineCount, MineFile
<1>7. ASSUME NEW p \in Procs,
             \/ \E d \in Notes : Remember(p, d)
             \/ \E sel \in Selectors : Forget(p, sel)
             \/ MineAdd(p)
      PROVE  Written(p) /\ UNCHANGED tree
  BY <1>7 DEF Remember, Forget, MineAdd, Add
<1>8. ASSUME Pass \/ UNCHANGED vars PROVE UNCHANGED <<tree, used, past>>
  BY <1>8 DEF Pass, vars
<1> QED BY <1>1, <1>2, <1>3, <1>4, <1>5, <1>6, <1>7, <1>8 DEF Next

LEMMA CountIsNat == ASSUME NEW d, RowsOK(d.drawers) PROVE count(d) \in Nat
BY FS_CardinalityType DEF RowsOK, count, Ids

LEMMA ConnStep ==
  ASSUME PalaceInv, [Next]_vars
  PROVE  ConnInv'
<1>0. /\ ConnInv /\ db.gen \in Nat /\ count(db) \in Nat /\ RestOK'
      /\ \A p \in Procs : Using(conn[p]) /\ Mining(conn[p].mine) /\ conn[p].st \in Stages
                          /\ conn[p].vec \in BOOLEAN /\ conn[p].gen \in Nat
                          /\ (conn[p].st # "filling" => conn[p].todo = {})
                          /\ (conn[p].st # "open" =>
                                conn[p].mine.left = {} /\ conn[p].mine.at = NoFile)
  BY RestStep, CountIsNat DEF PalaceInv, ConnInv, Using, StoreInv, DbOK
<1>1. ASSUME NEW p \in Procs, NEW vec \in Builds[p], Open(p, vec) PROVE ConnInv'
  <2>1. vec \in BOOLEAN
    BY DrawersAssumption
  <2>2. Mining(NoMine) /\ NoMine.left = {} /\ NoMine.at = NoFile
    BY MiningBegins
  <2>3. "filling" \in Stages /\ 0 \in Nat
    BY DEF Stages
  <2>5. PICK todo : todo = {<<i, db.drawers[i].body>> : i \in Unindexed(db)}
    OBVIOUS
  <2>6. conn'[p] = State("filling", vec, todo, 0, NoEntries, NoMine)
    BY <1>0, <1>1, <2>5, OpenIs
  <2>4. Using(conn'[p])
    BY <2>1, <2>2, <2>3, <2>6, UsingState
  <2> QED BY <1>0, <1>1, <2>4, OpenIs, OnlyKeeps
<1>2. ASSUME NEW p \in Procs, NEW e \in conn[p].todo, Fill(p, e) PROVE ConnInv'
  <2>1. conn[p].st = "filling"
    BY <1>2 DEF Fill
  <2>2. PICK todo : todo = conn[p].todo \ {e}
    OBVIOUS
  <2>3. Using(conn'[p])
    BY <1>0, <1>2, <2>1, <2>2, FillIs, UsingState
  <2> QED BY <1>0, <1>2, <2>3, FillIs, OnlyKeeps
<1>3. ASSUME NEW p \in Procs, Opened(p) PROVE ConnInv'
  <2>1. conn[p].st = "filling" /\ conn[p].todo = {}
    BY <1>3 DEF Opened
  <2>2. PICK st : st = IF conn[p].vec THEN "probing" ELSE "open"
    OBVIOUS
  <2>3. st \in Stages
    BY <2>2 DEF Stages
  <2>4. Using(conn'[p])
    BY <1>0, <1>3, <2>1, <2>2, <2>3, OpenedIs, UsingState
  <2> QED BY <1>0, <1>3, <2>4, OpenedIs, OnlyKeeps
<1>4. ASSUME NEW p \in Procs, Probe(p) PROVE ConnInv'
  <2>1. conn[p].st = "probing"
    BY <1>4 DEF Probe
  <2>2. PICK st : st = IF db.back # db.gen THEN "reading" ELSE "open"
    OBVIOUS
  <2>3. st \in Stages
    BY <2>2 DEF Stages
  <2>4. Using(conn'[p])
    BY <1>0, <1>4, <2>1, <2>2, <2>3, ProbeIs, UsingState
  <2> QED BY <1>0, <1>4, <2>4, ProbeIs, OnlyKeeps
<1>5. ASSUME NEW p \in Procs, ReadEmbeddings(p) PROVE ConnInv'
  <2>1. conn[p].st = "reading" /\ "syncing" \in Stages
    BY <1>5 DEF ReadEmbeddings, Stages
  <2>2. Using(conn'[p])
    BY <1>0, <1>5, <2>1, ReadIs, UsingState
  <2> QED BY <1>0, <1>5, <2>2, ReadIs, OnlyKeeps
<1>6. ASSUME NEW p \in Procs, Resync(p) PROVE ConnInv'
  <2>1. conn[p].st = "syncing" /\ "open" \in Stages /\ 0 \in Nat
    BY <1>6 DEF Resync, Stages
  <2>2. Using(conn'[p])
    BY <1>0, <1>6, <2>1, ResyncIs, UsingState
  <2> QED BY <1>0, <1>6, <2>2, ResyncIs, OnlyKeeps
<1>7. ASSUME NEW p \in Procs, Close(p) PROVE ConnInv'
  <2>1. Mining(NoMine) /\ NoMine.left = {} /\ NoMine.at = NoFile
    BY MiningBegins
  <2>2. "closed" \in Stages /\ 0 \in Nat
    BY DEF Stages
  <2>4. PICK vec \in BOOLEAN : conn'[p] = State("closed", vec, {}, 0, NoEntries, NoMine)
    BY <1>0, <1>7, CloseIs
  <2>3. Using(conn'[p])
    BY <2>1, <2>2, <2>4, UsingState
  <2> QED BY <1>0, <1>7, <2>3, CloseIs, OnlyKeeps
<1>8. ASSUME NEW p \in Procs, conn' = Distract(conn, p) PROVE ConnInv'
  BY <1>0, <1>8, DistractIs, OthersKeep
<1>9. ASSUME NEW p \in Procs, Mine(p) PROVE ConnInv'
  <2>1. PICK m : m = [NoMine EXCEPT !.left = Files]
    OBVIOUS
  <2>2. Mining(m)
    BY <2>1, MiningBegins
  <2>3. conn[p].st = "open"
    BY <1>9 DEF Mine, Idle
  <2>4. Using(conn'[p])
    BY <1>0, <1>9, <2>1, <2>2, <2>3, MineIs, UsingState
  <2> QED BY <1>0, <1>9, <2>4, MineIs, OnlyKeeps
<1>10. ASSUME NEW p \in Procs, NEW s \in Files, MineFile(p, s) PROVE ConnInv'
  <2>6. PICK k \in Nat : k = count(db)
    BY <1>0
  <2>2. PICK b \in Bodies : b = tree[s]
    BY <1>0 DEF ConnInv
  <2>1. PICK m : m = [conn[p].mine EXCEPT !.left = @ \ {s}, !.at = s, !.body = b,
                                          !.pre = k, !.wrote = FALSE]
    OBVIOUS
  <2>3. Mining(m)
    BY <1>0, <2>1, TookFile
  <2>7. LET c == conn[p] IN conn'[p] = State(c.st, c.vec, c.todo, c.gen, c.snap, m)
    BY <1>0, <1>10, <2>1, <2>2, <2>6, MineFileIs
  <2>4. conn[p].st = "open"
    BY <1>0, <1>10 DEF MineFile
  <2>5. Using(conn'[p])
    BY <1>0, <2>3, <2>4, <2>7, UsingState
  <2> QED BY <1>0, <1>10, <2>5, MineFileIs, OnlyKeeps
<1>11. ASSUME NEW p \in Procs, MineAdd(p) PROVE ConnInv'
  <2>1. PICK k : k = conn[p].mine.real + count(db') - count(db)
    OBVIOUS
  <2>2. count(db') \in Nat
    BY StoreStep, CountIsNat DEF StoreInv, DbOK
  <2>3. k \in Int
    BY <1>0, <2>1, <2>2 DEF Mining
  <2>4. PICK m : m = [conn[p].mine EXCEPT !.wrote = TRUE, !.real = k]
    OBVIOUS
  <2>5. Mining(m)
    BY <1>0, <2>3, <2>4, WroteFile
  <2>6. conn[p].st = "open"
    BY <1>0, <1>11 DEF MineAdd
  <2>7. LET c == conn[p] IN conn'[p] = State(c.st, c.vec, c.todo, c.gen, c.snap, m)
    BY <1>0, <1>11, <2>1, <2>4, MineAddIs
  <2>8. Using(conn'[p])
    BY <1>0, <2>5, <2>6, <2>7, UsingState
  <2> QED BY <1>0, <1>11, <2>8, MineAddIs, OthersKeep
<1>12. ASSUME NEW p \in Procs, MineCount(p) PROVE ConnInv'
  <2>1. PICK m : LET c == conn[p] IN
          /\ \/ m = Report(c.mine, c.mine.ins + 1, c.mine.ded)
             \/ m = Report(c.mine, c.mine.ins, c.mine.ded + 1)
          /\ conn'[p] = State(c.st, c.vec, c.todo, c.gen, c.snap, m)
    BY <1>0, <1>12, MineCountIs
  <2>7. PICK n : n = conn[p].mine
    OBVIOUS
  <2>8. Mining(n)
    BY <1>0, <2>7
  <2>9. n.ins \in Nat /\ n.ded \in Nat
    BY <2>8 DEF Mining
  <2>10. PICK i, d : i = n.ins + 1 /\ d = n.ded + 1
    OBVIOUS
  <2>2. i \in Nat /\ d \in Nat
    BY <2>9, <2>10
  <2>11. m = Report(n, i, n.ded) \/ m = Report(n, n.ins, d)
    BY <2>1, <2>7, <2>10
  <2>3. Mining(m)
    <3>1. ASSUME m = Report(n, i, n.ded) PROVE Mining(m)
      BY <2>2, <2>8, <2>9, <3>1, CountedFile
    <3>2. ASSUME m = Report(n, n.ins, d) PROVE Mining(m)
      BY <2>2, <2>8, <2>9, <3>2, CountedFile
    <3> QED BY <2>11, <3>1, <3>2
  <2>4. conn[p].st = "open"
    BY <1>0, <1>12 DEF MineCount
  <2>5. LET c == conn[p] IN conn'[p] = State(c.st, c.vec, c.todo, c.gen, c.snap, m)
    BY <2>1
  <2>6. Using(conn'[p])
    BY <1>0, <2>3, <2>4, <2>5, UsingState
  <2> QED BY <1>0, <1>12, <2>6, MineCountIs, OnlyKeeps
<1>13. CASE conn' = conn
  BY <1>0, <1>13 DEF ConnInv, RestOK
<1>14. ASSUME \/ \E s \in Files, b \in Bodies : Edit(s, b)
              \/ Pass \/ UNCHANGED vars
       PROVE  conn' = conn
  BY <1>14 DEF Edit, Pass, vars
<1>15. ASSUME NEW p \in Procs,
              \/ \E d \in Notes : Remember(p, d)
              \/ \E sel \in Selectors : Forget(p, sel)
       PROVE  conn' = Distract(conn, p)
  BY <1>15 DEF Remember, Forget
<1> QED BY <1>1, <1>2, <1>3, <1>4, <1>5, <1>6, <1>7, <1>8, <1>9, <1>10, <1>11, <1>12, <1>13,
           <1>14, <1>15 DEF Next

\* A database of an earlier release: drawers and embeddings, nothing indexed.
LEMMA FirstDb ==
  ASSUME NEW d \in {EmptyDb} \cup Legacy
  PROVE  /\ DbOK(d) /\ d.fts = EmptyFts /\ d.vecs = NoEntries
         /\ d.gen = 0 /\ d.back = -1 /\ d.trig = FALSE
<1>1. CASE d = EmptyDb
  <2>1. d = [drawers |-> NoEntries, embs |-> NoEntries, vecs |-> NoEntries, fts |-> EmptyFts,
             gen |-> 0, back |-> -1, trig |-> FALSE]
    BY <1>1 DEF EmptyDb
  <2>2. DOMAIN NoEntries = {} /\ NoEntries = [i \in {} |-> NoEntries[i]] /\ IsFiniteSet({})
    BY FS_EmptySet DEF NoEntries
  <2>3. RowsOK(d.drawers)
    BY <2>1, <2>2 DEF RowsOK
  <2>4. d.embs = [i \in Ids(d) |-> d.drawers[i].body]
    BY <2>1, <2>2 DEF Ids, NoEntries
  <2>5. EmptyFts = [post |-> {}, docs |-> {}, total |-> 0]
    BY DEF EmptyFts
  <2> QED BY <2>1, <2>3, <2>4, <2>5 DEF DbOK, Form
<1>2. CASE d \in Legacy
  <2>1. LegacyDb(d)
    BY <1>2, DrawersAssumption
  <2>2. PICK rows : rows = d.drawers
    OBVIOUS
  <2>3. PICK embs : embs = [i \in DOMAIN rows |-> rows[i].body]
    OBVIOUS
  <2>4. d = [EmptyDb EXCEPT !.drawers = rows, !.embs = embs]
    BY <2>1, <2>2, <2>3 DEF LegacyDb, Ids
  <2>5. d = [drawers |-> rows, embs |-> embs, vecs |-> NoEntries, fts |-> EmptyFts,
             gen |-> 0, back |-> -1, trig |-> FALSE]
    BY <2>4 DEF EmptyDb
  <2>6. /\ IsFiniteSet(DOMAIN rows) /\ DOMAIN rows \subseteq RowIds
        /\ rows \in [DOMAIN rows -> Rows]
        /\ \A i, j \in DOMAIN rows : rows[i].src = rows[j].src /\ rows[i].body = rows[j].body => i = j
    BY <2>1, <2>2 DEF LegacyDb, Ids, RowIds, Rows
  <2>7. \A i, j \in DOMAIN rows : Key(rows[i]) = Key(rows[j]) => i = j
    BY <2>6 DEF Key
  <2>8. RowsOK(rows)
    BY <2>6, <2>7 DEF RowsOK
  <2>9. EmptyFts = [post |-> {}, docs |-> {}, total |-> 0]
    BY DEF EmptyFts
  <2> QED BY <2>3, <2>5, <2>8, <2>9 DEF DbOK, Form, Ids
<1> QED BY <1>1, <1>2

\* A palace in memory that was given the same drawers.
LEMMA CopyIs ==
  ASSUME NEW d, DbOK(d), NEW m, m = Copy(d)
  PROVE  MemOK(m) /\ m.rows = d.drawers
<1>1. PICK rows : rows = d.drawers
  OBVIOUS
<1>2. RowsOK(rows)
  BY <1>1 DEF DbOK
<1>3. PICK n : n = NextRowid(d) - 1
  OBVIOUS
<1>4. n \in Nat /\ \A i \in DOMAIN rows : i <= n
  <2>1. NextRowid(d) \in RowIds /\ \A i \in DOMAIN rows : i < NextRowid(d)
    BY <1>1, <1>2, NextRowidIsNew DEF Ids
  <2> QED BY <1>2, <1>3, <2>1 DEF RowsOK, RowIds
<1>5. PICK index : index = [k \in KeysOf(rows) |-> CHOOSE i \in DOMAIN rows : k = Key(rows[i])]
  OBVIOUS
<1>6. m = [next_id |-> n, rows |-> rows, sha_index |-> index]
  BY <1>1, <1>3, <1>5 DEF Copy, KeysOf, Key, Ids
<1>7. ASSUME NEW i \in DOMAIN rows PROVE index[Key(rows[i])] = i
  <2> DEFINE k == Key(rows[i])
             c == CHOOSE j \in DOMAIN rows : k = Key(rows[j])
  <2>1. c \in DOMAIN rows /\ Key(rows[c]) = k
    OBVIOUS
  <2>2. c = i
    BY <1>2, <2>1 DEF RowsOK
  <2>3. k \in KeysOf(rows)
    BY DEF KeysOf
  <2>4. index[k] = c
    BY <1>5, <2>3
  <2> QED BY <2>2, <2>4
<1> QED BY <1>1, <1>2, <1>4, <1>5, <1>6, <1>7 DEF MemOK

LEMMA InitPalace == Init => PalaceInv
<1> SUFFICES ASSUME Init PROVE PalaceInv
  OBVIOUS
<1>1. DbOK(db)
  BY FirstDb DEF Init
<1>2. MemOK(mem) /\ mem.rows = db.drawers
  BY <1>1, CopyIs DEF Init
<1>3. StoreInv
  BY <1>1, <1>2 DEF StoreInv, SameDrawers, Init
<1>4. Using(Closed)
  <2>1. Closed = State("closed", FALSE, {}, 0, NoEntries, NoMine)
    BY DEF Closed, State
  <2>2. Mining(NoMine) /\ NoMine.left = {} /\ NoMine.at = NoFile
    BY MiningBegins
  <2>3. "closed" \in Stages /\ 0 \in Nat
    BY DEF Stages
  <2> QED BY <2>1, <2>2, <2>3, UsingState
<1>5. ConnInv
  BY <1>4, DrawersAssumption DEF Init, ConnInv
<1> QED BY <1>3, <1>5 DEF PalaceInv

LEMMA PalaceStep ==
  ASSUME PalaceInv, [Next]_vars
  PROVE  PalaceInv'
BY StoreStep, ConnStep DEF PalaceInv

-----------------------------------------------------------------------------
(* Both backends implement DrawerStore.                                    *)

LEMMA RowPerDrawer ==
  ASSUME StoreInv
  PROVE  OneRowPerDrawer
<1>0. RowsOK(db.drawers) /\ MemOK(mem) /\ RowsOK(mem.rows)
  BY DEF StoreInv, DbOK, MemOK
<1>1. \A i, j \in Ids(db) : i # j =>
        <<db.drawers[i].src, db.drawers[i].body>> # <<db.drawers[j].src, db.drawers[j].body>>
  BY <1>0 DEF RowsOK, Ids, Key
<1>2. \A i \in DOMAIN mem.rows : mem.sha_index[<<mem.rows[i].src, mem.rows[i].body>>] = i
  BY <1>0 DEF MemOK, Key
<1>3. Cardinality(DOMAIN mem.sha_index) = Cardinality(DOMAIN mem.rows)
  <2> DEFINE S == DOMAIN mem.rows
             T == KeysOf(mem.rows)
             f == [i \in S |-> Key(mem.rows[i])]
  <2>1. IsFiniteSet(S) /\ DOMAIN mem.sha_index = T
    BY <1>0 DEF MemOK, RowsOK
  <2>2. \A i, j \in S : f[i] = f[j] => i = j
    BY <1>0 DEF RowsOK
  <2>3. \A k \in T : \E i \in S : f[i] = k
    BY DEF KeysOf
  <2>4. f \in [S -> T]
    BY DEF KeysOf
  <2> HIDE DEF S, T, f
  <2>5. f \in Bijection(S, T)
    BY <2>2, <2>3, <2>4 DEF Bijection, Injection, Surjection, IsInjective
  <2>6. ExistsBijection(S, T)
    BY <2>5 DEF ExistsBijection
  <2>7. Cardinality(T) = Cardinality(S)
    BY <2>1, <2>6, FS_Bijection
  <2> QED BY <2>1, <2>7 DEF S
<1> QED BY <1>1, <1>2, <1>3 DEF OneRowPerDrawer

\* The key of a drawer in the abstract store is its own.
LEMMA KeyedDomain ==
  ASSUME NEW rows, RowsOK(rows)
  PROVE  DOMAIN Keyed(rows) \subseteq Sources \X Bodies
<1>1. DOMAIN Keyed(rows) = KeysOf(rows)
  BY KeyedIs
<1> QED BY <1>1, KeysAreTyped

LEMMA DurableStep ==
  ASSUME StoreNext(Keyed(db.drawers), Keyed(db'.drawers))
  PROVE  [Durable!Next]_(Keyed(db.drawers))
BY DEF StoreNext, Left, Durable!Next, Durable!Remember, Durable!Forget, Durable!OfId,
       Durable!OfSource, Durable!Before

LEMMA EphemeralStep ==
  ASSUME StoreNext(Keyed(mem.rows), Keyed(mem'.rows))
  PROVE  [Ephemeral!Next]_(Keyed(mem.rows))
BY DEF StoreNext, Left, Ephemeral!Next, Ephemeral!Remember, Ephemeral!Forget, Ephemeral!OfId,
       Ephemeral!OfSource, Ephemeral!Before

\* Two palaces that get the same calls, SQLite's shared by processes that
\* open, write, mine and die in any order, and the one in memory, each do to
\* the set of drawers what DrawerStore says, and name exactly their rows.
THEOREM PalacesImplementStore == Spec => ImplementsStore
<1>1. Init => PalaceInv
  BY InitPalace
<1>2. PalaceInv /\ [Next]_vars => PalaceInv'
  BY PalaceStep
<1>3. PalaceInv => OneRowPerDrawer
  BY RowPerDrawer DEF PalaceInv
<1>4. PalaceInv => /\ DOMAIN Keyed(db.drawers) \subseteq Sources \X Bodies
                   /\ DOMAIN Keyed(mem.rows) \subseteq Sources \X Bodies
  BY KeyedDomain DEF PalaceInv, StoreInv, DbOK, MemOK
<1>5. PalaceInv /\ [Next]_vars => [Durable!Next]_(Keyed(db.drawers))
  <2> SUFFICES ASSUME PalaceInv, [Next]_vars PROVE [Durable!Next]_(Keyed(db.drawers))
    OBVIOUS
  <2>1. RowsOK(db.drawers)
    BY DEF PalaceInv, StoreInv, DbOK
  <2>2. StoreNext(Keyed(db.drawers), Keyed(db'.drawers))
    BY <2>1, StoreStep, RowsStep
  <2> QED BY <2>2, DurableStep
<1>6. PalaceInv /\ [Next]_vars => [Ephemeral!Next]_(Keyed(mem.rows))
  <2> SUFFICES ASSUME PalaceInv, [Next]_vars PROVE [Ephemeral!Next]_(Keyed(mem.rows))
    OBVIOUS
  <2>1. RowsOK(mem.rows)
    BY DEF PalaceInv, StoreInv, MemOK
  <2>2. StoreNext(Keyed(mem.rows), Keyed(mem'.rows))
    BY <2>1, StoreStep, RowsStep
  <2> QED BY <2>2, EphemeralStep
<1> QED BY <1>1, <1>2, <1>3, <1>4, <1>5, <1>6, PTL
        DEF Spec, ImplementsStore, Durable!Spec, Ephemeral!Spec

-----------------------------------------------------------------------------
(* What a mining run reports.                                              *)

\* The files that are counted and those still ahead are no more than those
\* of the tree; n being the number of drawers there are, a run that nobody
\* disturbs knows how many it found before it added the file in hand.
Counted(m, n) ==
  /\ m.ins + m.ded + Cardinality(m.left) + (IF m.at = NoFile THEN 0 ELSE 1) <= Cardinality(Files)
  /\ m.alone /\ ~(m.at # NoFile /\ m.wrote) => m.real = m.ins
  /\ m.alone /\ m.at # NoFile /\ m.wrote => n - m.pre \in {0, 1} /\ m.real = m.ins + (n - m.pre)
  /\ m.alone /\ m.at # NoFile /\ ~m.wrote => m.pre = n

MineInv == \A p \in Procs : Counted(conn[p].mine, count(db))

LEMMA FilesLeft ==
  ASSUME NEW m, Mining(m)
  PROVE  /\ IsFiniteSet(m.left) /\ Cardinality(m.left) \in Nat /\ Cardinality(Files) \in Nat
         /\ m.ins \in Nat /\ m.ded \in Nat /\ m.pre \in Nat /\ m.real \in Int /\ m.left \subseteq Files
BY FS_Subset, FS_CardinalityType, DrawersAssumption DEF Mining

LEMMA CountedAtFirst ==
  ASSUME NEW n, n = NoMine \/ n = [NoMine EXCEPT !.left = Files], NEW k
  PROVE  Counted(n, k)
<1>1. /\ Mining(n) /\ n.left \in {{}, Files} /\ n.at = NoFile
      /\ n.ins = 0 /\ n.ded = 0 /\ n.real = 0
  BY MiningBegins
<1>2. Cardinality({}) = 0 /\ Cardinality(Files) \in Nat
  BY <1>1, FilesLeft, FS_EmptySet
<1>3. Cardinality(n.left) <= Cardinality(Files) /\ Cardinality(n.left) \in Nat
  BY <1>1, <1>2
<1> QED BY <1>1, <1>2, <1>3 DEF Counted

LEMMA CountedDistracted ==
  ASSUME NEW m, Mining(m), NEW n, n = [m EXCEPT !.alone = FALSE], NEW i, NEW k, Counted(m, i)
  PROVE  Counted(n, k)
BY Distracted DEF Counted

\* The drawers before and after a step.
LEMMA CountsAdded ==
  ASSUME StoreInv, NEW p \in Procs, NEW d, Add(p, d)
  PROVE  count(db') = count(db) \/ count(db') = count(db) + 1
<1>0. RowsOK(db.drawers) /\ Form(db) /\ IsFiniteSet(Ids(db))
  BY DEF StoreInv, DbOK, RowsOK, Ids
<1>1. db' = add(db, d, clock, conn[p].vec)
  BY DEF Add
<1>2. CASE existing(db, d) # {}
  <2>1. db'.drawers = db.drawers
    BY <1>0, <1>1, <1>2, AddFinds DEF SameTables
  <2> QED BY <2>1 DEF count, Ids
<1>3. CASE existing(db, d) = {}
  <2>1. db'.drawers = With(db.drawers, NextRowid(db), NewRow(d, clock))
    BY <1>0, <1>1, <1>3, AddInserts
  <2>2. Ids(db') = Ids(db) \cup {NextRowid(db)}
    BY <2>1 DEF Ids, With
  <2>3. NextRowid(db) \notin Ids(db)
    BY <1>0, NextRowidIsNew
  <2>4. Cardinality(Ids(db')) = Cardinality(Ids(db)) + 1
    BY <1>0, <2>2, <2>3, FS_AddElement
  <2> QED BY <2>4 DEF count
<1> QED BY <1>2, <1>3

LEMMA MineOnly ==
  ASSUME MineInv, NEW p \in Procs, Only(p), db'.drawers = db.drawers,
         Counted(conn'[p].mine, count(db))
  PROVE  MineInv'
<1>1. count(db') = count(db)
  BY DEF count, Ids
<1> QED BY <1>1 DEF MineInv, Only

LEMMA MineOthers ==
  ASSUME ConnInv, MineInv, NEW p \in Procs, Others(p), Counted(conn'[p].mine, count(db'))
  PROVE  MineInv'
<1>1. ASSUME NEW q \in Procs \ {p} PROVE Counted(conn'[q].mine, count(db'))
  <2>1. PICK m : m = conn[q].mine
    OBVIOUS
  <2>2. PICK n : n = [m EXCEPT !.alone = FALSE]
    OBVIOUS
  <2>6. PICK c : c = conn[q]
    OBVIOUS
  <2>7. conn'[q] = State(c.st, c.vec, c.todo, c.gen, c.snap, n)
    BY <2>1, <2>2, <2>6 DEF Others
  <2>3. conn'[q].mine = n
    BY <2>7, StateFields
  <2>4. Mining(m) /\ Counted(m, count(db))
    BY <2>1 DEF ConnInv, Using, MineInv
  <2>5. Counted(n, count(db'))
    BY <2>2, <2>4, CountedDistracted
  <2> QED BY <2>3, <2>5
<1> QED BY <1>1 DEF MineInv

LEMMA MineStep ==
  ASSUME PalaceInv, MineInv, [Next]_vars
  PROVE  MineInv'
<1>0. /\ StoreInv /\ ConnInv /\ DbOK(db) /\ count(db) \in Nat /\ count(db') \in Nat
      /\ \A p \in Procs : Counted(conn[p].mine, count(db)) /\ Mining(conn[p].mine)
                          /\ Using(conn[p])
  BY StoreStep, CountIsNat DEF PalaceInv, ConnInv, Using, StoreInv, DbOK, MineInv
<1>1. ASSUME NEW p \in Procs, NEW vec, Open(p, vec) PROVE MineInv'
  <2>1. db'.drawers = db.drawers
    BY <1>1 DEF Open
  <2>2. Only(p) /\ conn'[p].mine = NoMine
    <3>1. PICK todo : conn'[p] = State("filling", vec, todo, 0, NoEntries, NoMine)
      BY <1>0, <1>1, OpenIs
    <3>2. Only(p)
      BY <1>0, <1>1, OpenIs
    <3> QED BY <3>1, <3>2 DEF State
  <2> QED BY <2>1, <2>2, CountedAtFirst, MineOnly
<1>2. ASSUME NEW p \in Procs, Close(p) PROVE MineInv'
  <2>1. db'.drawers = db.drawers
    BY <1>2 DEF Close
  <2>2. Only(p) /\ conn'[p].mine = NoMine
    <3>1. Only(p) /\ conn'[p] = State("closed", FALSE, {}, 0, NoEntries, NoMine)
      BY <1>0, <1>2, CloseIs
    <3> QED BY <3>1 DEF State
  <2> QED BY <2>1, <2>2, CountedAtFirst, MineOnly
<1>3. ASSUME NEW p \in Procs,
             \/ \E e \in conn[p].todo : Fill(p, e)
             \/ Opened(p) \/ Probe(p) \/ ReadEmbeddings(p) \/ Resync(p)
      PROVE  MineInv'
  <2>1. db'.drawers = db.drawers
    BY <1>0, <1>3, FillTables, OpenedTables, ResyncTables DEF Probe, ReadEmbeddings
  <2>2. Only(p) /\ conn'[p].mine = conn[p].mine
    <3>1. PICK c : c = conn[p]
      OBVIOUS
    <3>2. ASSUME NEW e \in conn[p].todo, Fill(p, e) PROVE conn'[p].mine = c.mine
      <4>1. conn'[p] = State(c.st, c.vec, c.todo \ {e}, c.gen, c.snap, c.mine)
        BY <1>0, <3>1, <3>2, FillIs
      <4> QED BY <4>1 DEF State
    <3>3. ASSUME Opened(p) PROVE conn'[p].mine = c.mine
      <4>1. PICK st : conn'[p] = State(st, c.vec, c.todo, c.gen, c.snap, c.mine)
        BY <1>0, <3>1, <3>3, OpenedIs
      <4> QED BY <4>1 DEF State
    <3>4. ASSUME Probe(p) PROVE conn'[p].mine = c.mine
      <4>1. PICK st, gen : conn'[p] = State(st, c.vec, c.todo, gen, c.snap, c.mine)
        BY <1>0, <3>1, <3>4, ProbeIs
      <4> QED BY <4>1 DEF State
    <3>5. ASSUME ReadEmbeddings(p) PROVE conn'[p].mine = c.mine
      <4>1. PICK snap : conn'[p] = State("syncing", c.vec, c.todo, c.gen, snap, c.mine)
        BY <1>0, <3>1, <3>5, ReadIs
      <4> QED BY <4>1 DEF State
    <3>6. ASSUME Resync(p) PROVE conn'[p].mine = c.mine
      <4>1. conn'[p] = State("open", c.vec, c.todo, 0, NoEntries, c.mine)
        BY <1>0, <3>1, <3>6, ResyncIs
      <4> QED BY <4>1 DEF State
    <3>7. Only(p)
      BY <1>0, <1>3, FillIs, OpenedIs, ProbeIs, ReadIs, ResyncIs
    <3> QED BY <1>3, <3>1, <3>2, <3>3, <3>4, <3>5, <3>6, <3>7
  <2> QED BY <1>0, <2>1, <2>2, MineOnly
<1>4. ASSUME NEW p \in Procs, Mine(p) PROVE MineInv'
  <2>1. db'.drawers = db.drawers
    BY <1>4 DEF Mine
  <2>2. Only(p) /\ conn'[p].mine = [NoMine EXCEPT !.left = Files]
    BY <1>0, <1>4, MineIs, StateFields
  <2>3. Counted(conn'[p].mine, count(db))
    BY <2>2, CountedAtFirst
  <2> QED BY <2>1, <2>2, <2>3, MineOnly
<1>5. ASSUME NEW p \in Procs, NEW s \in Files, MineFile(p, s) PROVE MineInv'
  <2>1. db'.drawers = db.drawers
    BY <1>5 DEF MineFile
  <2>2. PICK k, b, m : k = count(db) /\ b = tree[s] /\ m = conn[p].mine
    OBVIOUS
  <2>3. PICK n : n = [m EXCEPT !.left = @ \ {s}, !.at = s, !.body = b, !.pre = k, !.wrote = FALSE]
    OBVIOUS
  <2>4. Only(p) /\ conn'[p].mine = n
    <3>1. LET c == conn[p] IN
          Only(p) /\ conn'[p] = State(c.st, c.vec, c.todo, c.gen, c.snap, n)
      BY <1>0, <1>5, <2>2, <2>3, MineFileIs
    <3> QED BY <3>1, StateFields
  <2>5. Mining(m) /\ Counted(m, k) /\ m.at = NoFile /\ s \in m.left /\ k \in Nat
    BY <1>0, <1>5, <2>2 DEF MineFile
  <2>6. b \in Bodies /\ s # NoFile
    BY <1>0, <2>2, DrawersAssumption DEF ConnInv
  <2>7. /\ Mining(n) /\ n.left = m.left \ {s} /\ n.at = s /\ n.pre = k /\ ~n.wrote
        /\ n.ins = m.ins /\ n.ded = m.ded /\ n.real = m.real /\ n.alone = m.alone
    BY <2>3, <2>5, <2>6, TookFile DEF Mining
  <2>8. /\ IsFiniteSet(m.left) /\ Cardinality(m.left) \in Nat /\ Cardinality(Files) \in Nat
        /\ m.ins \in Nat /\ m.ded \in Nat
    BY <2>5, FilesLeft
  <2>9. Cardinality(n.left) = Cardinality(m.left) - 1
    <3>1. PICK L : L = m.left
      OBVIOUS
    <3>2. s \in L /\ IsFiniteSet(L)
      BY <2>5, <2>8, <3>1
    <3>3. Cardinality(L \ {s}) = Cardinality(L) - 1
      BY <3>2, FS_RemoveElement
    <3>4. n.left = L \ {s}
      BY <2>7, <3>1
    <3> QED BY <3>1, <3>3, <3>4
  <2>10. Counted(n, k)
    BY <2>5, <2>6, <2>7, <2>8, <2>9 DEF Counted
  <2> QED BY <2>1, <2>2, <2>4, <2>10, MineOnly
<1>6. ASSUME NEW p \in Procs, MineAdd(p) PROVE MineInv'
  <2>1. PICK d : Add(p, d)
    BY <1>6 DEF MineAdd
  <2>2. PICK k, k1, m : k = count(db) /\ k1 = count(db') /\ m = conn[p].mine
    OBVIOUS
  <2>3. k1 = k \/ k1 = k + 1
    BY <1>0, <2>1, <2>2, CountsAdded
  <2>4. PICK n : n = [m EXCEPT !.wrote = TRUE, !.real = @ + k1 - k]
    OBVIOUS
  <2>5. Others(p) /\ conn'[p].mine = n
    <3>1. LET c == conn[p] IN
          Others(p) /\ conn'[p] = State(c.st, c.vec, c.todo, c.gen, c.snap, n)
      BY <1>0, <1>6, <2>2, <2>4, MineAddIs
    <3> QED BY <3>1, StateFields
  <2>6. Mining(m) /\ Counted(m, k) /\ m.at # NoFile /\ ~m.wrote /\ k \in Nat /\ k1 \in Nat
    BY <1>0, <1>6, <2>2 DEF MineAdd
  <2>7. m.ins \in Nat /\ m.pre \in Nat /\ m.real \in Int
    BY <2>6, FilesLeft
  <2>8. PICK r : r = m.real + k1 - k
    OBVIOUS
  <2>9. r \in Int /\ n = [m EXCEPT !.wrote = TRUE, !.real = r]
    BY <2>4, <2>6, <2>7, <2>8
  <2>10. /\ n.left = m.left /\ n.at = m.at /\ n.pre = m.pre /\ n.wrote
         /\ n.ins = m.ins /\ n.ded = m.ded /\ n.real = r /\ n.alone = m.alone
    BY <2>6, <2>9, WroteFile DEF Mining
  <2>11. Counted(n, k1)
    BY <2>3, <2>6, <2>7, <2>8, <2>10 DEF Counted
  <2> QED BY <1>0, <2>2, <2>5, <2>11, MineOthers
<1>7. ASSUME NEW p \in Procs, MineCount(p) PROVE MineInv'
  <2>1. db'.drawers = db.drawers
    BY <1>7 DEF MineCount
  <2>2. PICK k, m : k = count(db) /\ m = conn[p].mine
    OBVIOUS
  <2>3. PICK n : LET c == conn[p] IN
          /\ \/ k > m.pre /\ n = Report(m, m.ins + 1, m.ded)
             \/ ~(k > m.pre) /\ n = Report(m, m.ins, m.ded + 1)
          /\ conn'[p] = State(c.st, c.vec, c.todo, c.gen, c.snap, n)
    BY <1>0, <1>7, <2>2, MineCountIs
  <2>11. conn'[p].mine = n
    BY <2>3, StateFields
  <2>4. Only(p)
    BY <1>0, <1>7, MineCountIs
  <2>5. Mining(m) /\ Counted(m, k) /\ m.at # NoFile /\ m.wrote /\ k \in Nat
    BY <1>0, <1>7, <2>2 DEF MineCount
  <2>6. /\ m.ins \in Nat /\ m.ded \in Nat /\ m.pre \in Nat /\ m.real \in Int
        /\ Cardinality(m.left) \in Nat /\ Cardinality(Files) \in Nat
    BY <2>5, FilesLeft
  <2>7. PICK i, d : \/ k > m.pre /\ i = m.ins + 1 /\ d = m.ded
                    \/ ~(k > m.pre) /\ i = m.ins /\ d = m.ded + 1
    OBVIOUS
  <2>8. i \in Nat /\ d \in Nat /\ n = Report(m, i, d)
    BY <2>3, <2>6, <2>7
  <2>9. /\ n.left = m.left /\ n.at = NoFile /\ n.ins = i /\ n.ded = d
        /\ n.real = m.real /\ n.alone = m.alone
    BY <2>5, <2>8, CountedFile DEF Mining, Report
  <2>10. Counted(n, k)
    BY <2>5, <2>6, <2>7, <2>9 DEF Counted
  <2> QED BY <2>1, <2>2, <2>4, <2>10, <2>11, MineOnly
<1>8. ASSUME NEW p \in Procs,
             \/ \E d \in Notes : Remember(p, d)
             \/ \E sel \in Selectors : Forget(p, sel)
      PROVE  MineInv'
  <2>1. conn' = Distract(conn, p) /\ conn[p].mine.at = NoFile
    BY <1>8 DEF Remember, Forget, Idle
  <2>2. Others(p) /\ conn'[p] = conn[p]
    BY <1>0, <2>1, DistractIs
  <2>3. Counted(conn'[p].mine, count(db'))
    BY <1>0, <2>1, <2>2 DEF Counted
  <2> QED BY <1>0, <2>2, <2>3, MineOthers
<1>9. ASSUME \/ \E s \in Files, b \in Bodies : Edit(s, b)
             \/ Pass \/ UNCHANGED vars
      PROVE  MineInv'
  <2>1. conn' = conn /\ db' = db
    BY <1>9 DEF Edit, Pass, vars
  <2> QED BY <2>1 DEF MineInv
<1> QED BY <1>1, <1>2, <1>3, <1>4, <1>5, <1>6, <1>7, <1>8, <1>9 DEF Next

\* What a mining run reports as inserted is what it added, as long as no
\* other process has written meanwhile, and it never reports more files than
\* there are.
THEOREM ReportsAreTrue == Spec => []MineReportTrue
<1>1. Init => MineInv
  BY CountedAtFirst DEF Init, MineInv, Closed
<1>2. PalaceInv /\ MineInv => MineReportTrue
  <2> SUFFICES ASSUME PalaceInv, MineInv, NEW p \in Procs,
                      conn[p].mine.alone, conn[p].mine.at = NoFile
               PROVE  LET m == conn[p].mine IN
                      m.ins = m.real /\ m.ins + m.ded <= Cardinality(Files)
    BY DEF MineReportTrue
  <2>1. PICK m : m = conn[p].mine
    OBVIOUS
  <2>2. Mining(m) /\ Counted(m, count(db)) /\ m.alone /\ m.at = NoFile
    BY <2>1 DEF PalaceInv, ConnInv, Using, MineInv
  <2>3. /\ m.ins \in Nat /\ m.ded \in Nat /\ Cardinality(m.left) \in Nat
        /\ Cardinality(Files) \in Nat
    BY <2>2, FilesLeft
  <2>4. m.ins = m.real /\ m.ins + m.ded <= Cardinality(Files)
    BY <2>2, <2>3 DEF Counted
  <2> QED BY <2>1, <2>4
<1> QED BY <1>1, <1>2, InitPalace, PalaceStep, MineStep, PTL DEF Spec

-----------------------------------------------------------------------------
(* The sqlite-vec mirror.                                                  *)

\* What was read for a resync are the embeddings, as long as the generation
\* that was read before them is that of the database.
SyncFits(c, d) ==
  /\ c.st \in {"probing", "reading", "syncing"} => c.vec
  /\ c.vec /\ c.st \notin {"closed", "filling"} => d.trig
  /\ c.st \in {"reading", "syncing"} => c.gen <= d.gen
  /\ c.st = "syncing" /\ c.gen = d.gen => c.snap = d.embs

\* The mirror is what the embeddings are when the generations agree, unless
\* a write has hidden that it is not.
Mirrors(d, hidden) ==
  /\ d.back \in Nat \cup {-1} /\ d.back <= d.gen
  /\ d.back # -1 => d.trig
  /\ d.vecs = d.embs \/ d.back # d.gen \/ hidden

MirrorInv == Mirrors(db, past.hidden) /\ \A p \in Procs : SyncFits(conn[p], db)

\* With the triggers there, no embedding changes without the generation.
Later(d, e) ==
  /\ d.gen <= e.gen
  /\ d.trig => e.trig
  /\ d.trig /\ e.gen = d.gen => e.embs = d.embs

LEMMA SyncLater ==
  ASSUME NEW c, NEW d, NEW e, d.gen \in Nat, e.gen \in Nat, c.gen \in Nat,
         SyncFits(c, d), Later(d, e),
         NEW n, n.st = c.st, n.vec = c.vec, n.gen = c.gen, n.snap = c.snap
  PROVE  SyncFits(n, e)
BY DEF SyncFits, Later

LEMMA SyncSame ==
  ASSUME NEW c, NEW d, NEW e, SyncFits(c, d), e.gen = d.gen, e.embs = d.embs, d.trig => e.trig
  PROVE  SyncFits(c, e)
BY DEF SyncFits

\* A build without memory-vec leaves the mirror alone, one with it brings
\* what it writes to both.
LEMMA MirrorsAdded ==
  ASSUME NEW d, DbOK(d), NEW x, NEW now, NEW vec \in BOOLEAN, NEW h \in BOOLEAN, Mirrors(d, h),
         vec => d.trig, NEW g \in BOOLEAN, h => g, vec /\ d.back # d.gen => g,
         NEW e, e = add(d, x, now, vec)
  PROVE  Later(d, e) /\ Mirrors(e, g)
<1>0. Form(d) /\ d.gen \in Nat /\ d.trig \in BOOLEAN
  BY DEF DbOK
<1>1. CASE existing(d, x) # {}
  <2>1. SameTables(d, e) /\ e.back = IF vec THEN d.gen ELSE d.back
    BY <1>0, <1>1, AddFinds
  <2> QED BY <1>0, <2>1 DEF SameTables, Later, Mirrors
<1>2. CASE existing(d, x) = {}
  <2>1. PICK id : id = NextRowid(d)
    OBVIOUS
  <2>2. /\ e.trig = d.trig
        /\ e.embs = With(d.embs, id, x.body)
        /\ e.vecs = IF vec THEN With(d.vecs, id, x.body) ELSE d.vecs
        /\ e.gen = Tick(d, 1) /\ e.back = IF vec THEN Tick(d, 1) ELSE d.back
    BY <1>0, <1>2, <2>1, AddInserts
  <2> QED BY <1>0, <2>2 DEF Later, Mirrors, Tick
<1> QED BY <1>1, <1>2

LEMMA WithoutNone ==
  ASSUME NEW rows, NEW embs, embs = [i \in rows |-> embs[i]]
  PROVE  Without(embs, {}) = embs
BY DEF Without

LEMMA MirrorsDeleted ==
  ASSUME NEW d, DbOK(d), NEW sel, NEW vec \in BOOLEAN, NEW h \in BOOLEAN, Mirrors(d, h),
         vec => d.trig, NEW g \in BOOLEAN, h => g, vec /\ d.back # d.gen => g,
         NEW e, e = delete(d, sel, vec)
  PROVE  Later(d, e) /\ Mirrors(e, g)
<1>0. Form(d) /\ d.gen \in Nat /\ d.trig \in BOOLEAN /\ RowsOK(d.drawers)
  BY DEF DbOK
<1>1. PICK A : A = Selected(d.drawers, sel)
  OBVIOUS
<1>2. IsFiniteSet(A)
  <2>1. A \subseteq DOMAIN d.drawers
    BY <1>1 DEF Selected
  <2> QED BY <1>0, <2>1, FS_Subset DEF RowsOK
<1>3. PICK n : n = Cardinality(A)
  OBVIOUS
<1>4. n \in Nat /\ (n = 0 <=> A = {})
  BY <1>2, <1>3, FS_CardinalityType, FS_EmptySet
<1>5. /\ e.trig = d.trig /\ e.embs = Without(d.embs, A)
      /\ e.vecs = IF vec THEN Without(d.vecs, A) ELSE d.vecs
      /\ e.gen = Tick(d, n) /\ e.back = IF vec THEN Tick(d, n) ELSE d.back
  BY <1>0, <1>1, <1>3, DeleteDrops
<1>6. n = 0 => e.embs = d.embs
  <2>1. d.embs = [i \in DOMAIN d.embs |-> d.embs[i]]
    BY DEF DbOK
  <2> QED BY <1>4, <1>5, <2>1, WithoutNone
<1>7. e.gen = IF d.trig THEN d.gen + n ELSE d.gen
  BY <1>5 DEF Tick
<1>8. e.back = IF vec THEN e.gen ELSE d.back
  BY <1>5
<1>9. Later(d, e)
  BY <1>0, <1>4, <1>5, <1>6, <1>7 DEF Later
<1>10. CASE vec
  <2>1. e.vecs = Without(d.vecs, A) /\ e.back = e.gen /\ d.trig
    BY <1>5, <1>8, <1>10
  <2>2. e.gen \in Nat
    BY <1>0, <1>4, <1>7
  <2>3. e.vecs = e.embs \/ g
    <3>1. d.back # d.gen => g
      BY <1>10
    <3>2. d.vecs = d.embs => e.vecs = e.embs
      BY <1>5, <2>1
    <3>3. d.vecs = d.embs \/ d.back # d.gen \/ h
      BY DEF Mirrors
    <3> QED BY <3>1, <3>2, <3>3
  <2>4. e.back \in Nat \cup {-1} /\ e.back <= e.gen /\ (e.back # -1 => e.trig)
    BY <1>5, <2>1, <2>2
  <2>5. e.vecs = e.embs \/ e.back # e.gen \/ g
    BY <2>3
  <2>6. Mirrors(e, g)
    BY <2>4, <2>5 DEF Mirrors
  <2> QED BY <1>9, <2>6
<1>11. CASE ~vec
  <2>1. e.vecs = d.vecs /\ e.back = d.back
    BY <1>5, <1>8, <1>11
  <2>2. /\ d.back \in Nat \cup {-1} /\ d.back <= d.gen /\ (d.back # -1 => d.trig)
        /\ d.vecs = d.embs \/ d.back # d.gen \/ h
    BY DEF Mirrors
  <2>3. e.vecs = e.embs \/ e.back # e.gen \/ g
    <3>1. CASE n = 0
      BY <1>0, <1>6, <1>7, <2>1, <2>2, <3>1
    <3>2. CASE n # 0
      BY <1>0, <1>4, <1>7, <2>1, <2>2, <3>2
    <3> QED BY <3>1, <3>2
  <2>4. e.back <= e.gen
    BY <1>0, <1>4, <1>7, <2>1, <2>2
  <2>5. e.back \in Nat \cup {-1} /\ (e.back # -1 => e.trig)
    BY <1>5, <2>1, <2>2
  <2>6. Mirrors(e, g)
    BY <2>3, <2>4, <2>5 DEF Mirrors
  <2> QED BY <1>9, <2>6
<1> QED BY <1>9, <1>10, <1>11

\* A transaction that commits.
LEMMA MirrorWritten ==
  ASSUME PalaceInv, MirrorInv, DbOK(db'), NEW p \in Procs, conn[p].st = "open",
         \/ \E d : Add(p, d)
         \/ \E sel : db' = delete(db, sel, conn[p].vec) /\ Written(p)
  PROVE  Later(db, db') /\ Mirrors(db', past'.hidden)
<1>1. PICK vec \in BOOLEAN : vec = conn[p].vec
  BY DEF PalaceInv, ConnInv, Using
<1>2. PICK h \in BOOLEAN : h = past.hidden
  BY DEF PalaceInv, ConnInv
<1>3. Written(p)
  BY DEF Add
<1>4. PICK g \in BOOLEAN : g = (h \/ (vec /\ db.back # db.gen))
  BY <1>1, <1>2
<1>5. past'.hidden = g
  <2>1. past' = [past EXCEPT !.hidden = past.hidden \/ (conn[p].vec /\ db.back # db.gen)]
    BY <1>3 DEF Written
  <2>2. past' = [past EXCEPT !.hidden = g]
    BY <1>1, <1>2, <1>4, <2>1
  <2>3. past = [hidden |-> past.hidden, torn |-> past.torn]
    BY DEF PalaceInv, ConnInv
  <2> QED BY <2>2, <2>3
<1>6. DbOK(db) /\ Mirrors(db, h) /\ (vec => db.trig)
  BY <1>1, <1>2 DEF PalaceInv, StoreInv, MirrorInv, Mirrors, SyncFits
<1>7. (h => g) /\ (vec /\ db.back # db.gen => g)
  BY <1>4
<1>8. ASSUME NEW d, Add(p, d) PROVE Later(db, db') /\ Mirrors(db', g)
  <2>1. db' = add(db, d, clock, vec)
    BY <1>1, <1>8 DEF Add
  <2> QED BY <1>6, <1>7, <2>1, MirrorsAdded
<1>9. ASSUME NEW sel, db' = delete(db, sel, conn[p].vec) PROVE Later(db, db') /\ Mirrors(db', g)
  <2>1. db' = delete(db, sel, vec)
    BY <1>1, <1>9
  <2> QED BY <1>6, <1>7, <2>1, MirrorsDeleted
<1>10. Later(db, db') /\ Mirrors(db', g)
  BY <1>8, <1>9
<1> QED BY <1>5, <1>10 DEF Mirrors

LEMMA MirrorOnly ==
  ASSUME MirrorInv, NEW p \in Procs, Only(p), db'.gen = db.gen, db'.embs = db.embs,
         db.trig => db'.trig, SyncFits(conn'[p], db'), Mirrors(db', past'.hidden)
  PROVE  MirrorInv'
<1>1. ASSUME NEW q \in Procs \ {p} PROVE SyncFits(conn'[q], db')
  <2>1. conn'[q] = conn[q] /\ SyncFits(conn[q], db)
    BY DEF Only, MirrorInv
  <2>2. SyncFits(conn[q], db')
    BY <2>1, SyncSame
  <2> QED BY <2>1, <2>2
<1> QED BY <1>1 DEF MirrorInv

LEMMA MirrorOthers ==
  ASSUME PalaceInv, MirrorInv, DbOK(db'), NEW p \in Procs, Others(p), Later(db, db'),
         Mirrors(db', past'.hidden),
         LET c == conn[p] IN \E m : conn'[p] = State(c.st, c.vec, c.todo, c.gen, c.snap, m)
  PROVE  MirrorInv'
<1>1. db.gen \in Nat /\ db'.gen \in Nat
  BY DEF PalaceInv, StoreInv, DbOK
<1>2. ASSUME NEW q \in Procs PROVE SyncFits(conn'[q], db')
  <2>1. PICK c : c = conn[q]
    OBVIOUS
  <2>2. PICK m : conn'[q] = State(c.st, c.vec, c.todo, c.gen, c.snap, m)
    <3>1. CASE q = p
      BY <2>1, <3>1
    <3>2. CASE q # p
      BY <2>1, <3>2 DEF Others
    <3> QED BY <3>1, <3>2
  <2>3. PICK n : n = conn'[q]
    OBVIOUS
  <2>4. n.st = c.st /\ n.vec = c.vec /\ n.gen = c.gen /\ n.snap = c.snap
    BY <2>2, <2>3 DEF State
  <2>5. SyncFits(c, db) /\ c.gen \in Nat
    BY <2>1 DEF MirrorInv, PalaceInv, ConnInv, Using
  <2>6. SyncFits(n, db')
    BY <1>1, <2>4, <2>5, SyncLater
  <2> QED BY <2>3, <2>6
<1> QED BY <1>2 DEF MirrorInv

LEMMA MirrorStep ==
  ASSUME PalaceInv, MirrorInv, [Next]_vars
  PROVE  MirrorInv'
<1>0. /\ StoreInv /\ ConnInv /\ DbOK(db) /\ DbOK(db') /\ db.gen \in Nat
      /\ Mirrors(db, past.hidden) /\ \A p \in Procs : SyncFits(conn[p], db)
  BY StoreStep DEF PalaceInv, StoreInv, DbOK, MirrorInv
<1>1. ASSUME NEW p \in Procs, NEW vec, Open(p, vec) PROVE MirrorInv'
  <2>1. db' = db /\ past' = past
    BY <1>1 DEF Open
  <2>2. Only(p) /\ conn'[p].st = "filling"
    <3>1. PICK todo : conn'[p] = State("filling", vec, todo, 0, NoEntries, NoMine)
      BY <1>0, <1>1, OpenIs
    <3>2. Only(p)
      BY <1>0, <1>1, OpenIs
    <3> QED BY <3>1, <3>2 DEF State
  <2>3. SyncFits(conn'[p], db)
    BY <2>2 DEF SyncFits
  <2> QED BY <1>0, <2>1, <2>2, <2>3, MirrorOnly
<1>2. ASSUME NEW p \in Procs, NEW e \in conn[p].todo, Fill(p, e) PROVE MirrorInv'
  <2>1. past' = past /\ conn[p].st = "filling"
    BY <1>2 DEF Fill
  <2>2. /\ db'.embs = db.embs /\ db'.vecs = db.vecs
        /\ db'.gen = db.gen /\ db'.back = db.back /\ db'.trig = db.trig
    BY <1>0, <1>2, FillTables
  <2>3. Only(p) /\ conn'[p].st = "filling"
    <3>1. PICK c : c = conn[p]
      OBVIOUS
    <3>2. Only(p) /\ conn'[p] = State(c.st, c.vec, c.todo \ {e}, c.gen, c.snap, c.mine)
      BY <1>0, <1>2, <3>1, FillIs
    <3> QED BY <2>1, <3>1, <3>2 DEF State
  <2>4. SyncFits(conn'[p], db')
    BY <2>3 DEF SyncFits
  <2>5. Mirrors(db', past'.hidden)
    BY <1>0, <2>1, <2>2 DEF Mirrors
  <2> QED BY <2>2, <2>3, <2>4, <2>5, MirrorOnly
<1>3. ASSUME NEW p \in Procs, Opened(p) PROVE MirrorInv'
  <2>1. past' = past
    BY <1>3 DEF Opened
  <2>2. PICK c : c = conn[p]
    OBVIOUS
  <2>3. /\ db'.embs = db.embs /\ db'.vecs = db.vecs /\ db'.gen = db.gen /\ db'.back = db.back
        /\ db.trig => db'.trig
        /\ c.vec => db'.trig
    BY <1>0, <1>3, <2>2, OpenedTables DEF DbOK
  <2>4. PICK st : st = IF c.vec THEN "probing" ELSE "open"
    OBVIOUS
  <2>5. Only(p) /\ conn'[p] = State(st, c.vec, c.todo, c.gen, c.snap, c.mine)
    BY <1>0, <1>3, <2>2, <2>4, OpenedIs
  <2>6. PICK n : n = conn'[p]
    OBVIOUS
  <2>7. n.st = st /\ n.vec = c.vec
    BY <2>5, <2>6 DEF State
  <2>8. SyncFits(n, db')
    BY <2>3, <2>4, <2>7 DEF SyncFits
  <2>9. Mirrors(db', past'.hidden)
    BY <1>0, <2>1, <2>3 DEF Mirrors
  <2> QED BY <2>3, <2>5, <2>6, <2>8, <2>9, MirrorOnly
<1>4. ASSUME NEW p \in Procs, Probe(p) PROVE MirrorInv'
  <2>1. db' = db /\ past' = past /\ conn[p].st = "probing"
    BY <1>4 DEF Probe
  <2>2. PICK c : c = conn[p]
    OBVIOUS
  <2>3. PICK st : st = IF db.back # db.gen THEN "reading" ELSE "open"
    OBVIOUS
  <2>4. Only(p) /\ conn'[p] = State(st, c.vec, c.todo, db.gen, c.snap, c.mine)
    BY <1>0, <1>4, <2>2, <2>3, ProbeIs
  <2>5. PICK n : n = conn'[p]
    OBVIOUS
  <2>6. n.st = st /\ n.vec = c.vec /\ n.gen = db.gen
    BY <2>4, <2>5 DEF State
  <2>7. SyncFits(n, db)
    BY <1>0, <2>1, <2>2, <2>3, <2>6 DEF SyncFits
  <2> QED BY <1>0, <2>1, <2>4, <2>5, <2>7, MirrorOnly
<1>5. ASSUME NEW p \in Procs, ReadEmbeddings(p) PROVE MirrorInv'
  <2>1. db' = db /\ past' = past /\ conn[p].st = "reading"
    BY <1>5 DEF ReadEmbeddings
  <2>2. PICK c : c = conn[p]
    OBVIOUS
  <2>4. Only(p) /\ conn'[p] = State("syncing", c.vec, c.todo, c.gen, db.embs, c.mine)
    BY <1>0, <1>5, <2>2, ReadIs
  <2>5. PICK n : n = conn'[p]
    OBVIOUS
  <2>6. n.st = "syncing" /\ n.vec = c.vec /\ n.gen = c.gen /\ n.snap = db.embs
    BY <2>4, <2>5 DEF State
  <2>7. SyncFits(n, db)
    BY <1>0, <2>1, <2>2, <2>6 DEF SyncFits
  <2> QED BY <1>0, <2>1, <2>4, <2>5, <2>7, MirrorOnly
<1>6. ASSUME NEW p \in Procs, Resync(p) PROVE MirrorInv'
  <2>1. past' = past /\ conn[p].st = "syncing"
    BY <1>6 DEF Resync
  <2>2. PICK c : c = conn[p]
    OBVIOUS
  <2>3. /\ db'.embs = db.embs /\ db'.vecs = c.snap
        /\ db'.gen = db.gen /\ db'.back = c.gen /\ db'.trig = db.trig
    BY <1>0, <1>6, <2>2, ResyncTables
  <2>4. Only(p) /\ conn'[p] = State("open", c.vec, c.todo, 0, NoEntries, c.mine)
    BY <1>0, <1>6, <2>2, ResyncIs
  <2>5. PICK n : n = conn'[p]
    OBVIOUS
  <2>6. n.st = "open" /\ n.vec = c.vec
    BY <2>4, <2>5 DEF State
  <2>7. c.vec /\ db.trig /\ c.gen <= db.gen /\ (c.gen = db.gen => c.snap = db.embs)
    BY <1>0, <2>1, <2>2 DEF SyncFits
  <2>8. SyncFits(n, db')
    BY <2>3, <2>6, <2>7 DEF SyncFits
  <2>9. c.gen \in Nat
    BY <1>0, <2>2 DEF ConnInv, Using
  <2>10. Mirrors(db', past'.hidden)
    BY <2>3, <2>7, <2>9 DEF Mirrors
  <2> QED BY <2>3, <2>4, <2>5, <2>8, <2>10, MirrorOnly
<1>7. ASSUME NEW p \in Procs, Close(p) PROVE MirrorInv'
  <2>1. db' = db /\ past' = [past EXCEPT !.torn = @ \/ conn[p].todo # {}]
    BY <1>7 DEF Close
  <2>2. past'.hidden = past.hidden
    BY <1>0, <2>1 DEF ConnInv
  <2>3. Only(p) /\ conn'[p] = State("closed", FALSE, {}, 0, NoEntries, NoMine)
    BY <1>0, <1>7, CloseIs
  <2>4. PICK n : n = conn'[p]
    OBVIOUS
  <2>5. n.st = "closed"
    BY <2>3, <2>4 DEF State
  <2>6. SyncFits(n, db)
    BY <2>5 DEF SyncFits
  <2> QED BY <1>0, <2>1, <2>2, <2>3, <2>4, <2>6, MirrorOnly
<1>8. ASSUME NEW p \in Procs, Mine(p) \/ MineCount(p) \/ \E s \in Files : MineFile(p, s)
      PROVE  MirrorInv'
  <2>1. db' = db /\ past' = past
    BY <1>8 DEF Mine, MineCount, MineFile
  <2>2. PICK c : c = conn[p]
    OBVIOUS
  <2>3. PICK m : conn'[p] = State(c.st, c.vec, c.todo, c.gen, c.snap, m)
    BY <1>0, <1>8, <2>2, MineIs, MineCountIs, MineFileIs
  <2>4. Only(p)
    BY <1>0, <1>8, MineIs, MineCountIs, MineFileIs
  <2>5. PICK n : n = conn'[p]
    OBVIOUS
  <2>6. n.st = c.st /\ n.vec = c.vec /\ n.gen = c.gen /\ n.snap = c.snap
    BY <2>3, <2>5 DEF State
  <2>7. SyncFits(n, db)
    BY <1>0, <2>2, <2>6 DEF SyncFits
  <2> QED BY <1>0, <2>1, <2>4, <2>5, <2>7, MirrorOnly
<1>9. ASSUME NEW p \in Procs, MineAdd(p) PROVE MirrorInv'
  <2>1. conn[p].st = "open"
    BY <1>0, <1>9 DEF MineAdd, ConnInv, Using
  <2>2. Later(db, db') /\ Mirrors(db', past'.hidden)
    BY <1>0, <1>9, <2>1, MirrorWritten DEF MineAdd
  <2>3. PICK c : c = conn[p]
    OBVIOUS
  <2>4. PICK m : conn'[p] = State(c.st, c.vec, c.todo, c.gen, c.snap, m)
    BY <1>0, <1>9, <2>3, MineAddIs
  <2>5. Others(p)
    BY <1>0, <1>9, MineAddIs
  <2> QED BY <1>0, <2>2, <2>3, <2>4, <2>5, MirrorOthers
<1>10. ASSUME NEW p \in Procs,
              \/ \E d \in Notes : Remember(p, d)
              \/ \E sel \in Selectors : Forget(p, sel)
       PROVE  MirrorInv'
  <2>1. conn' = Distract(conn, p) /\ conn[p].st = "open"
    BY <1>10 DEF Remember, Forget, Idle
  <2>2. \/ \E d : Add(p, d)
        \/ \E sel : db' = delete(db, sel, conn[p].vec) /\ Written(p)
    BY <1>10 DEF Remember, Forget
  <2>3. Later(db, db') /\ Mirrors(db', past'.hidden)
    BY <1>0, <2>1, <2>2, MirrorWritten
  <2>4. Others(p) /\ conn'[p] = conn[p]
    BY <1>0, <2>1, DistractIs
  <2>5. PICK c : c = conn[p]
    OBVIOUS
  <2>6. conn'[p] = State(c.st, c.vec, c.todo, c.gen, c.snap, c.mine)
    BY <1>0, <2>4, <2>5, Shaped DEF Shape, State
  <2> QED BY <1>0, <2>3, <2>4, <2>5, <2>6, MirrorOthers
<1>11. ASSUME \/ \E s \in Files, b \in Bodies : Edit(s, b)
              \/ Pass \/ UNCHANGED vars
       PROVE  MirrorInv'
  <2>1. conn' = conn /\ db' = db /\ past' = past
    BY <1>11 DEF Edit, Pass, vars
  <2> QED BY <2>1 DEF MirrorInv
<1> QED BY <1>1, <1>2, <1>3, <1>4, <1>5, <1>6, <1>7, <1>8, <1>9, <1>10, <1>11 DEF Next

\* A mirror that does not say what the embeddings do has another generation
\* than theirs, so that the next vec build to open the database finds out;
\* unless a write of a vec build that came upon a difference has moved the
\* pointer over it.
THEOREM StaleMirrorsAreNoticed == Spec => []StaleMirrorIsNoticed
<1>1. Init => MirrorInv
  <2> SUFFICES ASSUME Init PROVE MirrorInv
    OBVIOUS
  <2>1. db.gen = 0 /\ db.back = -1 /\ DbOK(db)
    BY FirstDb DEF Init
  <2>2. Mirrors(db, past.hidden)
    BY <2>1 DEF Mirrors
  <2>3. \A p \in Procs : conn[p].st = "closed"
    BY DEF Init, Closed
  <2>4. \A p \in Procs : SyncFits(conn[p], db)
    BY <2>3 DEF SyncFits
  <2> QED BY <2>2, <2>4 DEF MirrorInv
<1>2. PalaceInv /\ MirrorInv => StaleMirrorIsNoticed
  <2> SUFFICES ASSUME PalaceInv, MirrorInv, db.vecs = db.embs
               PROVE  query_vec(db) = query_brute(db) /\ DOMAIN db.vecs \subseteq Ids(db)
    BY DEF MirrorInv, Mirrors, StaleMirrorIsNoticed
  <2>1. DOMAIN db.embs = Ids(db)
    BY DEF PalaceInv, StoreInv, DbOK
  <2> QED BY <2>1 DEF query_vec, query_brute
<1> QED BY <1>1, <1>2, InitPalace, PalaceStep, MirrorStep, PTL DEF Spec

-----------------------------------------------------------------------------
(* The full-text index.                                                    *)

\* The drawers somebody has yet to enter into the index.
Pending == UNION {conn[p].todo : p \in Procs}

Indexed(d, i) == i \in d.fts.docs /\ <<i, d.drawers[i].body>> \in d.fts.post

\* A drawer is indexed or somebody has it to enter, and the row count of the
\* index falls short by no more than that.
Covered(d, P) ==
  /\ IsFiniteSet(P)
  /\ \A i \in Ids(d) : Indexed(d, i) \/ <<i, d.drawers[i].body>> \in P
  /\ count(d) <= d.fts.total + Cardinality(P)

\* Before anybody opens it a database of an earlier release has nothing
\* indexed.
Untouched == db.fts.docs = {} /\ \A p \in Procs : conn[p].st = "closed"

LexInv == ~past.torn => Untouched \/ Covered(db, Pending)

LEMMA PendingSame ==
  ASSUME \A q \in Procs : conn'[q].todo = conn[q].todo
  PROVE  Pending' = Pending
BY DEF Pending

LEMMA PendingGains ==
  ASSUME NEW p \in Procs, \A q \in Procs \ {p} : conn'[q].todo = conn[q].todo,
         conn[p].todo = {}
  PROVE  Pending' = Pending \cup conn'[p].todo
<1>1. \A e \in Pending' : e \in Pending \cup conn'[p].todo
  BY DEF Pending
<1>2. \A e \in Pending \cup conn'[p].todo : e \in Pending'
  BY DEF Pending
<1> QED BY <1>1, <1>2

LEMMA PendingLoses ==
  ASSUME NEW p \in Procs, \A q \in Procs \ {p} : conn'[q].todo = conn[q].todo,
         NEW e, conn'[p].todo = conn[p].todo \ {e}
  PROVE  Pending' \subseteq Pending /\ Pending \ {e} \subseteq Pending'
<1>1. \A x \in Pending' : x \in Pending
  BY DEF Pending
<1>2. \A x \in Pending \ {e} : x \in Pending'
  BY DEF Pending
<1> QED BY <1>1, <1>2

\* Everything a database holds, entered at once or bit by bit.
LEMMA CoveredByAll ==
  ASSUME NEW d, DbOK(d), NEW P, P = {<<i, d.drawers[i].body>> : i \in Ids(d)}
  PROVE  Covered(d, P)
<1> DEFINE S == Ids(d)
           f == [i \in S |-> <<i, d.drawers[i].body>>]
<1>1. IsFiniteSet(S) /\ d.fts.total \in Nat
  BY DEF DbOK, RowsOK, Ids
<1>2. /\ f \in [S -> P] /\ \A i, j \in S : f[i] = f[j] => i = j
      /\ \A x \in P : \E i \in S : f[i] = x
  OBVIOUS
<1>4. \A i \in S : <<i, d.drawers[i].body>> \in P
  OBVIOUS
<1> HIDE DEF S, f
<1>3. ExistsBijection(S, P)
  BY <1>2 DEF ExistsBijection, Bijection, Injection, Surjection, IsInjective
<1>5. IsFiniteSet(P) /\ Cardinality(P) = Cardinality(S)
  BY <1>1, <1>3, FS_Bijection
<1>6. Cardinality(S) \in Nat
  BY <1>1, FS_CardinalityType
<1> QED BY <1>1, <1>4, <1>5, <1>6 DEF Covered, count, S

LEMMA CoveredByMore ==
  ASSUME NEW d, DbOK(d), NEW P, NEW T, Covered(d, P), IsFiniteSet(T)
  PROVE  Covered(d, P \cup T)
<1>1. IsFiniteSet(P) /\ IsFiniteSet(T)
  BY DEF Covered
<1>2. IsFiniteSet(P \cup T)
  BY <1>1, FS_Union
<1>3. PICK a, b : a = Cardinality(P) /\ b = Cardinality(P \cup T)
  OBVIOUS
<1>4. a \in Nat /\ b \in Nat /\ a <= b
  <2>1. P \in SUBSET (P \cup T)
    OBVIOUS
  <2> QED BY <1>1, <1>2, <1>3, <2>1, FS_Subset, FS_CardinalityType
<1>5. count(d) \in Nat /\ d.fts.total \in Nat
  BY CountIsNat DEF DbOK
<1>6. count(d) <= d.fts.total + b
  BY <1>3, <1>4, <1>5 DEF Covered
<1> QED BY <1>2, <1>3, <1>6 DEF Covered

LEMMA CoveredEntered ==
  ASSUME NEW d, DbOK(d), NEW P, NEW Q, Covered(d, P), NEW e, e \in P,
         Q \subseteq P, P \ {e} \subseteq Q,
         NEW n, n.drawers = d.drawers, n.fts = fts_insert(d.fts, e[1], e[2])
  PROVE  Covered(n, Q)
<1>1. /\ n.fts.post = d.fts.post \cup {<<e[1], e[2]>>} /\ n.fts.docs = d.fts.docs \cup {e[1]}
      /\ n.fts.total = d.fts.total + 1
  BY DEF fts_insert
<1>2. IsFiniteSet(P) /\ IsFiniteSet(Q) /\ IsFiniteSet(P \ {e})
  BY FS_Subset DEF Covered
<1>3. PICK a, b : a = Cardinality(P) /\ b = Cardinality(Q)
  OBVIOUS
<1>4. a \in Nat /\ b \in Nat /\ a - 1 <= b
  <2>1. Cardinality(P \ {e}) = a - 1
    BY <1>2, <1>3, FS_RemoveElement
  <2>2. Cardinality(P \ {e}) <= b
    BY <1>2, <1>3, FS_Subset
  <2> QED BY <1>2, <1>3, <2>1, <2>2, FS_CardinalityType
<1>5. count(n) = count(d) /\ Ids(n) = Ids(d)
  BY DEF count, Ids
<1>6. ASSUME NEW i \in Ids(n) PROVE Indexed(n, i) \/ <<i, n.drawers[i].body>> \in Q
  <2>1. PICK b0 : b0 = d.drawers[i].body
    OBVIOUS
  <2>2. Indexed(d, i) \/ <<i, b0>> \in P
    BY <1>5, <1>6, <2>1 DEF Covered
  <2>3. CASE Indexed(d, i)
    BY <1>1, <2>3 DEF Indexed
  <2>4. CASE <<i, b0>> \in P /\ <<i, b0>> # e
    BY <2>1, <2>4
  <2>5. CASE <<i, b0>> = e
    <3>1. e[1] = i /\ e[2] = b0
      BY <2>5
    <3> QED BY <1>1, <2>1, <3>1 DEF Indexed
  <2> QED BY <2>2, <2>3, <2>4, <2>5
<1>7. count(d) \in Nat /\ d.fts.total \in Nat
  BY CountIsNat DEF DbOK
<1>8. count(n) <= n.fts.total + b
  BY <1>1, <1>3, <1>4, <1>5, <1>7 DEF Covered
<1> QED BY <1>2, <1>3, <1>6, <1>8 DEF Covered

LEMMA CoveredAdded ==
  ASSUME NEW d, DbOK(d), NEW x, NEW now, NEW vec, NEW P, Covered(d, P),
         NEW n, n = add(d, x, now, vec)
  PROVE  Covered(n, P)
<1>0. Form(d) /\ RowsOK(d.drawers) /\ IsFiniteSet(Ids(d)) /\ d.fts.total \in Nat
  BY DEF DbOK, RowsOK, Ids
<1>1. CASE existing(d, x) # {}
  <2>1. n.drawers = d.drawers /\ n.fts = d.fts
    BY <1>0, <1>1, AddFinds DEF SameTables
  <2> QED BY <2>1 DEF Covered, Indexed, count, Ids
<1>2. CASE existing(d, x) = {}
  <2>1. PICK id : id = NextRowid(d)
    OBVIOUS
  <2>2. PICK r : r = NewRow(x, now)
    OBVIOUS
  <2>3. n.drawers = With(d.drawers, id, r) /\ n.fts = fts_insert(d.fts, id, x.body)
    BY <1>0, <1>2, <2>1, <2>2, AddInserts
  <2>4. id \notin Ids(d) /\ r.body = x.body
    BY <1>0, <2>1, <2>2, NextRowidIsNew DEF NewRow
  <2>5. /\ Ids(n) = Ids(d) \cup {id} /\ n.drawers[id] = r
        /\ \A i \in Ids(d) : n.drawers[i] = d.drawers[i]
    BY <2>3, <2>4 DEF Ids, With
  <2>6. /\ n.fts.post = d.fts.post \cup {<<id, x.body>>} /\ n.fts.docs = d.fts.docs \cup {id}
        /\ n.fts.total = d.fts.total + 1
    BY <2>3 DEF fts_insert
  <2>7. count(n) = count(d) + 1
    BY <1>0, <2>4, <2>5, FS_AddElement DEF count
  <2>8. IsFiniteSet(P) /\ Cardinality(P) \in Nat /\ count(d) \in Nat
    BY <1>0, CountIsNat, FS_CardinalityType DEF Covered
  <2>9. count(n) <= n.fts.total + Cardinality(P)
    BY <1>0, <2>6, <2>7, <2>8 DEF Covered
  <2>10. ASSUME NEW i \in Ids(n) PROVE Indexed(n, i) \/ <<i, n.drawers[i].body>> \in P
    <3>1. CASE i = id
      BY <2>4, <2>5, <2>6, <3>1 DEF Indexed
    <3>2. CASE i \in Ids(d)
      BY <2>5, <2>6, <3>2 DEF Indexed, Covered
    <3> QED BY <2>5, <3>1, <3>2
  <2> QED BY <2>8, <2>9, <2>10 DEF Covered
<1> QED BY <1>1, <1>2

LEMMA CoveredDeleted ==
  ASSUME NEW d, DbOK(d), NEW sel, NEW vec, NEW P, Covered(d, P),
         NEW n, n = delete(d, sel, vec)
  PROVE  Covered(n, P)
<1>0. Form(d) /\ RowsOK(d.drawers) /\ IsFiniteSet(Ids(d)) /\ d.fts.total \in Nat
      /\ d.fts = [post |-> d.fts.post, docs |-> d.fts.docs, total |-> d.fts.total]
  BY DEF DbOK, RowsOK, Ids
<1>1. PICK A : A = Selected(d.drawers, sel)
  OBVIOUS
<1>2. PICK k : k = Cardinality(A)
  OBVIOUS
<1>3. A \subseteq Ids(d) /\ k \in Nat
  <2>1. A \subseteq Ids(d)
    BY <1>1 DEF Selected, Ids
  <2> QED BY <1>0, <1>2, <2>1, FS_Subset, FS_CardinalityType
<1>4. n.drawers = Without(d.drawers, A) /\ n.fts = fts_delete(d.fts, A)
  BY <1>0, <1>1, DeleteDrops
<1>5. Ids(n) = Ids(d) \ A /\ \A i \in Ids(n) : n.drawers[i] = d.drawers[i]
  BY <1>4 DEF Ids, Without
<1>6. n.fts.post = d.fts.post /\ n.fts.docs = d.fts.docs \ A /\ n.fts.total = d.fts.total - k
  BY <1>0, <1>2, <1>4 DEF fts_delete
<1>7. count(n) = count(d) - k
  <2>1. Ids(d) \cap A = A
    BY <1>3
  <2> QED BY <1>0, <1>2, <1>5, <2>1, FS_Difference DEF count
<1>8. IsFiniteSet(P) /\ Cardinality(P) \in Nat /\ count(d) \in Nat
  BY <1>0, CountIsNat, FS_CardinalityType DEF Covered
<1>9. count(n) <= n.fts.total + Cardinality(P)
  BY <1>0, <1>3, <1>6, <1>7, <1>8 DEF Covered
<1>10. \A i \in Ids(n) : Indexed(n, i) \/ <<i, n.drawers[i].body>> \in P
  BY <1>5, <1>6 DEF Indexed, Covered
<1> QED BY <1>8, <1>9, <1>10 DEF Covered

LEMMA LexStep ==
  ASSUME PalaceInv, LexInv, [Next]_vars
  PROVE  LexInv'
<1>0. /\ StoreInv /\ ConnInv /\ DbOK(db) /\ DbOK(db')
      /\ \A p \in Procs : conn[p].st # "filling" => conn[p].todo = {}
  BY StoreStep DEF PalaceInv, StoreInv, ConnInv, Using
<1>1. ASSUME NEW p \in Procs, NEW vec, Open(p, vec) PROVE LexInv'
  <2>1. db' = db /\ past' = past /\ conn[p].todo = {}
    BY <1>0, <1>1 DEF Open
  <2>2. PICK T : T = {<<i, db.drawers[i].body>> : i \in Unindexed(db)}
    OBVIOUS
  <2>3. Only(p) /\ conn'[p] = State("filling", vec, T, 0, NoEntries, NoMine)
    BY <1>0, <1>1, <2>2, OpenIs
  <2>4. conn'[p].todo = T
    BY <2>3 DEF State
  <2>5. \A q \in Procs \ {p} : conn'[q].todo = conn[q].todo
    BY <2>3 DEF Only
  <2>6. Pending' = Pending \cup T
    BY <2>1, <2>4, <2>5, PendingGains
  <2>7. ASSUME ~past.torn PROVE Covered(db, Pending \cup T)
    <3>1. CASE Covered(db, Pending)
      <4>1. IsFiniteSet(T)
        <5>1. CASE db.fts.docs = {}
          <6>1. T = {<<i, db.drawers[i].body>> : i \in Ids(db)}
            BY <2>2, <5>1 DEF Unindexed
          <6>2. Covered(db, T)
            BY <1>0, <6>1, CoveredByAll
          <6> QED BY <6>2 DEF Covered
        <5>2. CASE db.fts.docs # {}
          <6>1. T = {}
            BY <2>2, <5>2 DEF Unindexed
          <6> QED BY <6>1, FS_EmptySet
        <5> QED BY <5>1, <5>2
      <4> QED BY <1>0, <3>1, <4>1, CoveredByMore
    <3>2. CASE Untouched
      <4>1. T = {<<i, db.drawers[i].body>> : i \in Ids(db)}
        BY <2>2, <3>2 DEF Unindexed, Untouched
      <4>2. Pending \cup T = T
        BY <1>0, <3>2 DEF Pending, Untouched
      <4> QED BY <1>0, <4>1, <4>2, CoveredByAll
    <3> QED BY <2>7, <3>1, <3>2 DEF LexInv
  <2> QED BY <2>1, <2>6, <2>7 DEF LexInv
<1>2. ASSUME NEW p \in Procs, NEW e \in conn[p].todo, Fill(p, e) PROVE LexInv'
  <2>1. past' = past /\ conn[p].st = "filling"
    BY <1>2 DEF Fill
  <2>2. db'.drawers = db.drawers /\ db'.fts = fts_insert(db.fts, e[1], e[2])
    BY <1>0, <1>2, FillTables
  <2>3. PICK c : c = conn[p]
    OBVIOUS
  <2>4. PICK todo : todo = c.todo \ {e}
    OBVIOUS
  <2>5. Only(p) /\ conn'[p] = State(c.st, c.vec, todo, c.gen, c.snap, c.mine)
    BY <1>0, <1>2, <2>3, <2>4, FillIs
  <2>6. conn'[p].todo = conn[p].todo \ {e}
    <3>1. conn'[p].todo = todo
      BY <2>5 DEF State
    <3> QED BY <2>3, <2>4, <3>1
  <2>7. \A q \in Procs \ {p} : conn'[q].todo = conn[q].todo
    BY <2>5 DEF Only
  <2>8. Pending' \subseteq Pending /\ Pending \ {e} \subseteq Pending'
    BY <2>6, <2>7, PendingLoses
  <2>9. e \in Pending
    BY DEF Pending
  <2>10. ASSUME ~past.torn PROVE Covered(db', Pending')
    <3>1. Covered(db, Pending)
      BY <2>1, <2>10 DEF LexInv, Untouched
    <3>2. PICK P, Q : P = Pending /\ Q = Pending'
      OBVIOUS
    <3>3. Covered(db', Q)
      BY <1>0, <2>2, <2>8, <2>9, <3>1, <3>2, CoveredEntered
    <3> QED BY <3>2, <3>3
  <2> QED BY <2>1, <2>10 DEF LexInv
<1>3. ASSUME NEW p \in Procs, conn[p].st # "closed", past' = past,
             \A q \in Procs : conn'[q].todo = conn[q].todo,
             Covered(db, Pending) => Covered(db', Pending)
      PROVE  LexInv'
  <2>1. Pending' = Pending
    BY <1>3, PendingSame
  <2>2. ~Untouched
    BY <1>3 DEF Untouched
  <2> QED BY <1>3, <2>1, <2>2 DEF LexInv
<1>4. ASSUME db'.drawers = db.drawers, db'.fts = db.fts
      PROVE  Covered(db, Pending) => Covered(db', Pending)
  BY <1>4 DEF Covered, Indexed, count, Ids
<1>5. ASSUME NEW p \in Procs,
             Opened(p) \/ Probe(p) \/ ReadEmbeddings(p) \/ Resync(p)
      PROVE  LexInv'
  <2>1. past' = past /\ conn[p].st # "closed"
    BY <1>5 DEF Opened, Probe, ReadEmbeddings, Resync
  <2>2. db'.drawers = db.drawers /\ db'.fts = db.fts
    BY <1>0, <1>5, OpenedTables, ResyncTables DEF Probe, ReadEmbeddings
  <2>3. PICK c : c = conn[p]
    OBVIOUS
  <2>4. PICK st, gen, snap : conn'[p] = State(st, c.vec, c.todo, gen, snap, c.mine)
    BY <1>0, <1>5, <2>3, OpenedIs, ProbeIs, ReadIs, ResyncIs
  <2>5. conn'[p].todo = c.todo
    BY <2>4 DEF State
  <2>6. Only(p)
    BY <1>0, <1>5, OpenedIs, ProbeIs, ReadIs, ResyncIs
  <2>7. \A q \in Procs : conn'[q].todo = conn[q].todo
    BY <2>3, <2>5, <2>6 DEF Only
  <2> QED BY <1>3, <1>4, <2>1, <2>2, <2>7
<1>6. ASSUME NEW p \in Procs, Mine(p) \/ MineCount(p) \/ \E s \in Files : MineFile(p, s)
      PROVE  LexInv'
  <2>1. past' = past /\ conn[p].st # "closed"
    <3>1. past' = past /\ (conn[p].st = "open" \/ conn[p].mine.at # NoFile \/ conn[p].mine.left # {})
      BY <1>6 DEF Mine, MineCount, MineFile, Idle
    <3> QED BY <1>0, <3>1 DEF ConnInv, Using
  <2>2. db'.drawers = db.drawers /\ db'.fts = db.fts
    BY <1>6 DEF Mine, MineCount, MineFile
  <2>3. PICK c : c = conn[p]
    OBVIOUS
  <2>4. PICK m : conn'[p] = State(c.st, c.vec, c.todo, c.gen, c.snap, m)
    BY <1>0, <1>6, <2>3, MineIs, MineCountIs, MineFileIs
  <2>5. conn'[p].todo = c.todo
    BY <2>4 DEF State
  <2>6. Only(p)
    BY <1>0, <1>6, MineIs, MineCountIs, MineFileIs
  <2>7. \A q \in Procs : conn'[q].todo = conn[q].todo
    BY <2>3, <2>5, <2>6 DEF Only
  <2> QED BY <1>3, <1>4, <2>1, <2>2, <2>7
<1>7. ASSUME NEW p \in Procs, Close(p) PROVE LexInv'
  <2>1. db' = db /\ conn[p].st # "closed"
    BY <1>7 DEF Close
  <2>2. past'.torn = (past.torn \/ conn[p].todo # {})
    BY <1>0, <1>7 DEF Close, ConnInv
  <2>3. Only(p) /\ conn'[p] = State("closed", FALSE, {}, 0, NoEntries, NoMine)
    BY <1>0, <1>7, CloseIs
  <2>4. conn'[p].todo = {}
    BY <2>3 DEF State
  <2>5. ASSUME conn[p].todo = {} PROVE Pending' = Pending
    <3>1. \A q \in Procs : conn'[q].todo = conn[q].todo
      BY <2>3, <2>4, <2>5 DEF Only
    <3> QED BY <3>1, PendingSame
  <2>6. ~Untouched
    BY <2>1 DEF Untouched
  <2> QED BY <2>1, <2>2, <2>5, <2>6 DEF LexInv
<1>8. ASSUME NEW p \in Procs, Written(p), Others(p), conn[p].st = "open",
             conn'[p].todo = conn[p].todo, Covered(db, Pending) => Covered(db', Pending)
      PROVE  LexInv'
  <2>1. \A q \in Procs : conn'[q].todo = conn[q].todo
    BY <1>8 DEF Others, State
  <2>2. past'.torn = past.torn
    BY <1>0, <1>8 DEF Written, ConnInv
  <2>3. Pending' = Pending /\ ~Untouched
    BY <1>8, <2>1, PendingSame DEF Untouched
  <2> QED BY <1>8, <2>2, <2>3 DEF LexInv
<1>9. ASSUME NEW p \in Procs, MineAdd(p) PROVE LexInv'
  <2>1. conn[p].st = "open" /\ Written(p)
    BY <1>0, <1>9 DEF MineAdd, Add, ConnInv, Using
  <2>2. PICK d : db' = add(db, d, clock, conn[p].vec)
    BY <1>9 DEF MineAdd, Add
  <2>3. Covered(db, Pending) => Covered(db', Pending)
    BY <1>0, <2>2, CoveredAdded
  <2>4. PICK c : c = conn[p]
    OBVIOUS
  <2>5. PICK m : conn'[p] = State(c.st, c.vec, c.todo, c.gen, c.snap, m)
    BY <1>0, <1>9, <2>4, MineAddIs
  <2>6. conn'[p].todo = conn[p].todo
    BY <2>4, <2>5 DEF State
  <2>7. Others(p)
    BY <1>0, <1>9, MineAddIs
  <2> QED BY <1>8, <2>1, <2>3, <2>6, <2>7
<1>10. ASSUME NEW p \in Procs,
              \/ \E d \in Notes : Remember(p, d)
              \/ \E sel \in Selectors : Forget(p, sel)
       PROVE  LexInv'
  <2>1. conn' = Distract(conn, p) /\ conn[p].st = "open" /\ Written(p)
    BY <1>10 DEF Remember, Forget, Idle, Add
  <2>2. Covered(db, Pending) => Covered(db', Pending)
    <3>1. \/ \E d : db' = add(db, d, clock, conn[p].vec)
          \/ \E sel : db' = delete(db, sel, conn[p].vec)
      BY <1>10 DEF Remember, Forget, Add
    <3> QED BY <1>0, <3>1, CoveredAdded, CoveredDeleted
  <2>3. Others(p) /\ conn'[p] = conn[p]
    BY <1>0, <2>1, DistractIs
  <2> QED BY <1>8, <2>1, <2>2, <2>3
<1>11. ASSUME \/ \E s \in Files, b \in Bodies : Edit(s, b)
              \/ Pass \/ UNCHANGED vars
       PROVE  LexInv'
  <2>1. conn' = conn /\ db' = db /\ past' = past
    BY <1>11 DEF Edit, Pass, vars
  <2> QED BY <2>1 DEF LexInv, Untouched, Pending
<1> QED BY <1>1, <1>2, <1>5, <1>6, <1>7, <1>9, <1>10, <1>11 DEF Next

\* Whatever the palace in memory finds for a word, SQLite's full-text index
\* finds, once nobody is backfilling it and no backfill has died half-way;
\* it has then an entry for every drawer and never too low a row count.
THEOREM LexicalSearchIsComplete == Spec => []LexicalComplete
<1>1. Init => LexInv
  <2> SUFFICES ASSUME Init PROVE Untouched
    BY DEF LexInv
  <2>1. db.fts = [post |-> {}, docs |-> {}, total |-> 0]
    BY FirstDb DEF Init, EmptyFts
  <2>2. \A p \in Procs : conn[p].st = "closed"
    BY DEF Init, Closed
  <2> QED BY <2>1, <2>2 DEF Untouched
<1>2. PalaceInv /\ LexInv => LexicalComplete
  <2> SUFFICES ASSUME PalaceInv, LexInv, Filled,
                      NEW p \in Procs, conn[p].st \notin {"closed", "filling"}
               PROVE  /\ \A b \in Bodies :
                           {<<mem.rows[i].src, b>> : i \in mem_query_lexical(mem, b)}
                             \subseteq {<<db.drawers[i].src, db.drawers[i].body>> :
                                          i \in query_lexical(db, b)}
                      /\ Ids(db) \subseteq db.fts.docs
                      /\ Cardinality(Ids(db)) <= db.fts.total
    BY DEF LexicalComplete
  <2>1. Pending = {}
    BY DEF Filled, Pending
  <2>2. Covered(db, Pending)
    BY DEF LexInv, Untouched, Filled
  <2>3. \A i \in Ids(db) : Indexed(db, i)
    BY <2>1, <2>2 DEF Covered
  <2>4. Cardinality(Ids(db)) <= db.fts.total
    BY <2>1, <2>2, FS_EmptySet DEF Covered, count, PalaceInv, StoreInv, DbOK
  <2>5. ASSUME NEW b \in Bodies, NEW i \in mem_query_lexical(mem, b)
        PROVE  \E j \in query_lexical(db, b) :
                 <<mem.rows[i].src, b>> = <<db.drawers[j].src, db.drawers[j].body>>
    <3>1. i \in DOMAIN mem.rows /\ mem.rows[i].body = b
      BY DEF mem_query_lexical
    <3>2. PICK j \in DOMAIN db.drawers : db.drawers[j] = mem.rows[i]
      BY <3>1 DEF PalaceInv, StoreInv, SameDrawers
    <3>3. j \in query_lexical(db, b)
      BY <2>3, <3>1, <3>2 DEF query_lexical, Indexed, Ids
    <3> QED BY <3>1, <3>2, <3>3
  <2>6. \A b \in Bodies :
          {<<mem.rows[i].src, b>> : i \in mem_query_lexical(mem, b)}
            \subseteq {<<db.drawers[i].src, db.drawers[i].body>> : i \in query_lexical(db, b)}
    BY <2>5
  <2>7. Ids(db) \subseteq db.fts.docs
    BY <2>3 DEF Indexed
  <2> QED BY <2>4, <2>6, <2>7
<1> QED BY <1>1, <1>2, InitPalace, PalaceStep, LexStep, PTL DEF Spec

=============================================================================
