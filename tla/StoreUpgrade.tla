---------------------------- MODULE StoreUpgrade ----------------------------
(***************************************************************************)
(* Store::open on an index.db of an earlier release, by several processes   *)
(* at once: the schema, the two migrations with the probes before them and  *)
(* the level that says they are done.  Each statement is a transaction of   *)
(* its own, and a process may be killed between any two.                    *)
(***************************************************************************)
EXTENDS Naturals

CONSTANTS
  Openers,     \* processes that open the index
  Releases,    \* the databases they may find, see base
  MaxFaults    \* crashes and statements that fail

VARIABLES
  base,    \* index.db: the shape of edges, whether symbols has signature_enc, and
           \* whether migration_level is STORE_MIGRATION_LEVEL
  opener,  \* how far each process is
  fate     \* faults so far; (history) the edges table could not be looked at
upgradeVars == <<base, opener, fate>>

\* "none": a new database; "text": before v4, with dst_name; "rowid": before
\* v5.0.5, with id.
Shapes == {"none", "text", "rowid", "clustered"}

\* A release that wrote the level had run both migrations.
ASSUME UpgradeAssumption ==
  /\ Releases \subseteq [shape : Shapes, enc : BOOLEAN, migrated : BOOLEAN]
  /\ \A r \in Releases : r.migrated => r.enc /\ r.shape = "clustered"

UpgradeInit ==
  /\ base \in Releases
  /\ opener = [p \in Openers |-> "off"]
  /\ fate = [faults |-> 0, blind |-> FALSE, raced |-> FALSE]

At(p, pc)   == opener[p] = pc
Goto(p, pc) == opener' = [opener EXCEPT ![p] = pc]

\* A statement that fails, for a lock that is not free in time or any reason.
Misfires(pc, p) ==
  /\ fate.faults < MaxFaults
  /\ fate' = [fate EXCEPT !.faults = @ + 1]
  /\ Goto(p, pc) /\ UNCHANGED base

-----------------------------------------------------------------------------

StartOpen(p) == At(p, "off") /\ Goto(p, "schema") /\ UNCHANGED <<base, fate>>

\* What is missing is created, table by table; it is no matter which of them
\* another process creates.  The indexes on edges need dst_symbol_id, which the
\* table has since v4.
ApplySchema(p) ==
  /\ At(p, "schema")
  /\ \/ base.shape = "text" /\ Goto(p, "failed") /\ UNCHANGED <<base, fate>>
     \/ /\ base.shape # "text"
        /\ base' = IF base.shape = "none" THEN [base EXCEPT !.shape = "clustered", !.enc = TRUE]
                   ELSE base
        /\ Goto(p, "level") /\ UNCHANGED fate
     \/ Misfires("failed", p)

\* A level that cannot be read counts as none.
ReadLevel(p) ==
  /\ At(p, "level")
  /\ \/ Goto(p, IF base.migrated THEN "open" ELSE "enc") /\ UNCHANGED <<base, fate>>
     \/ Misfires("enc", p)

\* So does a column that cannot be looked for.
ProbeEnc(p) ==
  /\ At(p, "enc")
  /\ \/ Goto(p, IF base.enc THEN "edges" ELSE "alter") /\ UNCHANGED <<base, fate>>
     \/ Misfires("alter", p)

\* Mutant: the level is written with the first migration.
AddColumnAndMark(p) ==
  /\ At(p, "alter")
  /\ base' = [base EXCEPT !.enc = TRUE, !.migrated = TRUE]
  /\ Goto(p, IF base.enc THEN "failed" ELSE "edges")
  /\ fate' = [fate EXCEPT !.raced = @ \/ base.enc]

\* ALTER TABLE fails when the column is there: another process has added it
\* since, or this one could not look.
AddColumn(p) ==
  /\ At(p, "alter")
  /\ base' = [base EXCEPT !.enc = TRUE]
  /\ Goto(p, IF base.enc THEN "failed" ELSE "edges")
  /\ fate' = [fate EXCEPT !.raced = @ \/ base.enc]

\* An edges table that cannot be looked at counts as migrated.
ProbeEdges(p) ==
  /\ At(p, "edges")
  /\ \/ Goto(p, IF base.shape = "rowid" THEN "recreate" ELSE "mark") /\ UNCHANGED <<base, fate>>
     \/ /\ fate.faults < MaxFaults
        /\ fate' = [fate EXCEPT !.faults = @ + 1, !.blind = TRUE]
        /\ Goto(p, "mark") /\ UNCHANGED base

\* One transaction, whatever others have done since the probe.
Recreate(p) ==
  /\ At(p, "recreate")
  /\ \/ base' = [base EXCEPT !.shape = "clustered"] /\ Goto(p, "mark") /\ UNCHANGED fate
     \/ Misfires("failed", p)

SetLevel(p) ==
  /\ At(p, "mark")
  /\ \/ base' = [base EXCEPT !.migrated = TRUE] /\ Goto(p, "open") /\ UNCHANGED fate
     \/ Misfires("failed", p)

Abandon(p) == ~At(p, "off") /\ Goto(p, "off") /\ UNCHANGED <<base, fate>>

UpgradeNext ==
  \E p \in Openers :
    \/ StartOpen(p) \/ ApplySchema(p) \/ ReadLevel(p) \/ ProbeEnc(p) \/ AddColumn(p)
    \/ ProbeEdges(p) \/ Recreate(p) \/ SetLevel(p) \/ Abandon(p)

-----------------------------------------------------------------------------
(* Properties.                                                             *)

\* Whatever the processes that open one index at once, and wherever one of
\* them dies: a level that says all is migrated is true, a process that got
\* through has the tables its statements need, and one fails only for a
\* statement that failed, another that was quicker, or an index before v4.
Migrated == base.enc /\ (base.shape = "clustered" \/ fate.blind)
LevelIsTrue ==
  /\ base.migrated => Migrated
  /\ \A p \in Openers :
       /\ At(p, "open") => Migrated
       /\ At(p, "failed") => fate.faults > 0 \/ fate.raced \/ base.shape = "text"

\* "Any pre-v4 index [...] must be wiped + rebuilt": whoever opens one gets as
\* far as needs_reindex.
OldIndexIsRebuilt == \A p \in Openers : At(p, "failed") => base.shape # "text"
=============================================================================
