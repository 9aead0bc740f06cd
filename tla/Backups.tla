------------------------------ MODULE Backups ------------------------------
(***************************************************************************)
(* Snapshots of a repository's .crabcc under <home>/backups/<slug>/<second> *)
(* while the index is in use: a snapshot copies index.db and index.db-wal   *)
(* one after the other, then removes all but the newest directories;        *)
(* restore copies a directory back.  The content of a database is the       *)
(* number of transactions in it: the main file holds those up to `base`,    *)
(* the write-ahead log those from lo + 1 to hi.                             *)
(***************************************************************************)
EXTENDS Integers, FiniteSets

CONSTANTS
  Snappers,     \* processes that take snapshots
  Keep,         \* CRABCC_BACKUPS_KEEP
  MaxCommits, MaxTime, MaxBroken   \* transactions, seconds, failures

ASSUME BackupAssumption == Keep \in Nat

VARIABLES
  db,      \* index.db and its log: [base, wal: a set of at most one [lo, hi]]
  snaps,   \* the snapshot directories, by second: the copies, and (history) the state
           \* of the index when the copying ended, if nothing disturbed it
  op,      \* the snapshot that a process takes
  time,
  tale     \* history: failures so far, the last good snapshot, what was restored
backupVars == <<db, snaps, op, time, tale>>

Torn == -1
Empty == [base |-> {}, wal |-> {}, was |-> {}]
Rest == [pc |-> "idle", at |-> 0, todo |-> {}, calm |-> TRUE, alone |-> TRUE]

\* SQLite replays a log over whatever main file it lies beside: right if the
\* log continues the file.
Content(base, wal) ==
  IF wal = {} THEN base
  ELSE LET w == CHOOSE x \in wal : TRUE
       IN IF base \in w.lo .. w.hi THEN w.hi ELSE Torn

BackupInit ==
  /\ db = [base |-> 0, wal |-> {}]
  /\ snaps = [t \in {} |-> Empty]
  /\ op = [p \in Snappers |-> Rest]
  /\ time = 1
  /\ tale = [broken |-> 0, good |-> 0, restored |-> {}]

Busy == {p \in Snappers : op[p].pc # "idle"}
Usable == tale.restored = {}      \* nobody goes on after a restore

\* History: snapshots for which the log was begun anew, or which share their
\* directory with another that was begun in the same second.
Disturbed(who) == [p \in Snappers |-> IF p \in who THEN [op[p] EXCEPT !.calm = FALSE] ELSE op[p]]

-----------------------------------------------------------------------------
(* The database in use.                                                    *)

\* A transaction goes to the log.  Once the main file holds all of a log,
\* the next transaction may begin the log anew.
Commit ==
  /\ Usable
  /\ LET v == Content(db.base, db.wal) IN
     /\ v < MaxCommits
     /\ \E anew \in BOOLEAN :
          /\ anew => db.base = v
          /\ db.wal = {} => anew
          /\ db' = [db EXCEPT !.wal = IF anew THEN {[lo |-> v, hi |-> v + 1]}
                                      ELSE {[w EXCEPT !.hi = v + 1] : w \in @}]
          /\ op' = IF anew /\ db.wal # {} THEN Disturbed(Busy) ELSE op
  /\ UNCHANGED <<snaps, time, tale>>

Checkpoint ==
  /\ Usable /\ db.wal # {} /\ db.base # Content(db.base, db.wal)
  /\ db' = [db EXCEPT !.base = Content(db.base, db.wal)]
  /\ UNCHANGED <<snaps, op, time, tale>>

\* The last connection closes: checkpoint, and the log is removed.
LastClose ==
  /\ Usable /\ db.wal # {}
  /\ db' = [base |-> Content(db.base, db.wal), wal |-> {}]
  /\ op' = Disturbed(Busy)
  /\ UNCHANGED <<snaps, time, tale>>

-----------------------------------------------------------------------------
(* snapshot.                                                               *)

Begin(p) ==
  /\ Usable /\ op[p].pc = "idle"
  /\ snaps' = [t \in DOMAIN snaps \cup {time} |->
                 IF t \in DOMAIN snaps THEN snaps[t] ELSE Empty]
  /\ LET new == [Rest EXCEPT !.pc = "db", !.at = time, !.alone = Busy = {},
                    !.calm = time \notin DOMAIN snaps]
     IN op' = [q \in Snappers |->
                 IF q = p THEN new
                 ELSE IF q \in Busy
                 THEN [op[q] EXCEPT !.alone = FALSE, !.calm = @ /\ op[q].at # time]
                 ELSE op[q]]
  /\ tale' = [tale EXCEPT !.good = IF Busy # {} \/ time = @ THEN 0 ELSE @]
  /\ UNCHANGED <<db, time>>

\* The copy fails when the directory has been removed.
CopyDb(p) ==
  /\ op[p].pc = "db" /\ op[p].at \in DOMAIN snaps
  /\ snaps' = [snaps EXCEPT ![op[p].at].base = {db.base}, ![op[p].at].was = {}]
  /\ op' = [op EXCEPT ![p].pc = "wal"]
  /\ UNCHANGED <<db, time, tale>>

\* A log that is not there is skipped.
CopyWal(p) ==
  /\ op[p].pc = "wal" /\ op[p].at \in DOMAIN snaps
  /\ snaps' = [snaps EXCEPT
       ![op[p].at].wal = IF db.wal = {} THEN @ ELSE db.wal,
       ![op[p].at].was = IF op[p].calm /\ snaps[op[p].at].base # {} THEN {Content(db.base, db.wal)} ELSE {}]
  /\ op' = [op EXCEPT ![p].pc = "prune"]
  /\ tale' = [tale EXCEPT !.good = IF op[p].alone THEN op[p].at ELSE @]
  /\ UNCHANGED <<db, time>>

\* Mutant: oldest first.
OlderUnsorted(keep) == {t \in DOMAIN snaps : Cardinality({u \in DOMAIN snaps : u < t}) >= keep}

\* list, newest first, skip(keep).
Older(keep) == {t \in DOMAIN snaps : Cardinality({u \in DOMAIN snaps : u > t}) >= keep}

Removing(p, todo) ==
  op' = [op EXCEPT ![p] = IF todo = {} THEN Rest ELSE [@ EXCEPT !.pc = "remove", !.todo = todo]]

List(p) ==
  /\ op[p].pc = "prune"
  /\ Removing(p, Older(Keep))
  /\ UNCHANGED <<db, snaps, time, tale>>

Remove(p) ==
  /\ op[p].pc = "remove"
  /\ \E t \in op[p].todo :
       /\ snaps' = [u \in DOMAIN snaps \ {t} |-> snaps[u]]
       /\ Removing(p, op[p].todo \ {t})
  /\ UNCHANGED <<db, time, tale>>

\* remove_dir_all fails, or the process dies over it, with any of the files
\* gone; an error does not keep the next directory from being removed.
RemoveSome(p) ==
  /\ op[p].pc = "remove" /\ tale.broken < MaxBroken
  /\ \E t \in op[p].todo \cap DOMAIN snaps :
       /\ \E left \in {snaps[t]} \cup [base : SUBSET snaps[t].base, wal : SUBSET snaps[t].wal,
                                      was : {{}}] :
            snaps' = [snaps EXCEPT ![t] = left]
       /\ Removing(p, op[p].todo \ {t}) \/ Removing(p, {})
  /\ tale' = [tale EXCEPT !.broken = @ + 1]
  /\ UNCHANGED <<db, time>>

\* A copy fails, or the process dies: nothing is pruned, nothing removed.
Break(p) ==
  /\ op[p].pc # "idle"
  /\ \/ op[p].pc \in {"db", "wal"} /\ op[p].at \notin DOMAIN snaps /\ UNCHANGED tale
     \/ tale.broken < MaxBroken /\ tale' = [tale EXCEPT !.broken = @ + 1]
  /\ op' = [op EXCEPT ![p] = Rest]
  /\ UNCHANGED <<db, snaps, time>>

\* `crabcc backup prune`.
prune_to_n(keep) ==
  /\ Usable /\ Older(keep) # {}
  /\ snaps' = [u \in DOMAIN snaps \ Older(keep) |-> snaps[u]]
  /\ tale' = [tale EXCEPT !.good = IF Busy # {} \/ tale.broken > 0 \/ keep = 0 THEN 0 ELSE @]
  /\ UNCHANGED <<db, op, time>>

\* Copies what the directory has and leaves the rest.  Nobody else works on
\* the repository while it is restored.
restore(t) ==
  /\ Usable /\ Busy = {} /\ t \in DOMAIN snaps
  /\ db' = [base |-> IF snaps[t].base = {} THEN db.base ELSE CHOOSE b \in snaps[t].base : TRUE,
            wal |-> IF snaps[t].wal = {} THEN db.wal ELSE snaps[t].wal]
  /\ tale' = [tale EXCEPT !.restored = {[at |-> t, stale |-> snaps[t].wal = {} /\ db.wal # {}]}]
  /\ UNCHANGED <<snaps, op, time>>

Second == time < MaxTime /\ time' = time + 1 /\ UNCHANGED <<db, snaps, op, tale>>

BackupNext ==
  \/ Commit \/ Checkpoint \/ LastClose \/ Second
  \/ \E p \in Snappers :
       \/ Begin(p) \/ CopyDb(p) \/ CopyWal(p) \/ List(p) \/ Remove(p) \/ RemoveSome(p)
       \/ Break(p)
  \/ \E keep \in 0 .. Keep : prune_to_n(keep)
  \/ \E t \in DOMAIN snaps : restore(t)

-----------------------------------------------------------------------------
(* Properties.                                                             *)

\* "only the last BACKUPS_KEEP snapshots [are kept]; older ones are pruned
\* after every successful write": the last snapshot that was completed is
\* there, with nothing removed of it, whatever failed since, unless another
\* ran beside it or somebody pruned by hand among directories of failed ones.
LastGoodSurvives ==
  tale.good # 0 => tale.good \in DOMAIN snaps /\ snaps[tale.good].base # {}

\* A snapshot is taken while the index is written and checkpointed between
\* the copies; restored, it is the index as it was when its log was copied.
\* Not so if the log was begun anew between the copies, if a removal took
\* some of its files, or if restore leaves a log of the replaced index beside
\* the restored file.
RestoredIsSnapshot ==
  \A x \in tale.restored : ~x.stale =>
    snaps[x.at].was \subseteq {Content(db.base, db.wal)}

\* What `crabcc backup` is for: the last good snapshot is there and brings
\* back the index it was taken of.
SnapshotsServe == LastGoodSurvives /\ RestoredIsSnapshot
=============================================================================
