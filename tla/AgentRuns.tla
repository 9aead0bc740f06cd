----------------------------- MODULE AgentRuns -----------------------------
(***************************************************************************)
(* Runs of `crabcc agent`: the rows of agent_runs in ~/.crabcc/_internal.db *)
(* that mirror them, and those who repair the rows from the process table:  *)
(* reap_stale, called by every starting run and by `agent ls`, and `agent   *)
(* guard`, which a scheduler starts every 20 minutes and which also kills.  *)
(***************************************************************************)
EXTENDS Naturals, FiniteSets

CONSTANTS
  Runs,          \* ids of runs
  Pids,          \* process ids, which the system gives again and again
  NoPid,         \* a pid that is NULL
  MaxMishaps     \* other programs started, processes that die, statements that fail

ASSUME AgentAssumption == NoPid \notin Pids /\ {"nobody", "stranger"} \cap Runs = {}

VARIABLES
  rows,    \* agent_runs
  ag,      \* the process of each run, its child and its directory
  table,   \* who has a pid: a run, "nobody" or a "stranger"
  reap,    \* a row that some reap_stale has read and not looked at yet
  guard,   \* the sweep of agent guard
  kills,   \* runs with an agent_kill_event
  wear     \* mishaps so far; (history) runs reaped before their pid was on record
agentVars == <<rows, ag, table, reap, guard, kills, wear>>

NoRow == [status |-> "none", pid |-> NoPid, exit |-> "null"]
Off   == [pc |-> "off", pid |-> NoPid, child |-> "none", code |-> "null",
          lock |-> FALSE, saved |-> FALSE]
Idle  == [st |-> "idle", todo |-> {}, term |-> {}, acts |-> {}]

AgentInit ==
  /\ rows = [r \in Runs |-> NoRow]
  /\ ag = [r \in Runs |-> Off]
  /\ table = [p \in Pids |-> "nobody"]
  /\ reap = {}
  /\ guard = Idle
  /\ kills = {}
  /\ wear = [mishaps |-> 0, early |-> {}]

pid_alive(p) == p \in Pids /\ table[p] # "nobody"

\* Mutant: the pid is read as an integer, and rows where it is NULL are skipped.
ActiveWithPid ==
  {<<r, rows[r].pid>> : r \in {x \in Runs : rows[x].status = "running" /\ rows[x].pid # NoPid}}

Active == {<<r, rows[r].pid>> : r \in {x \in Runs : rows[x].status = "running"}}

Alive(r) == ag[r].pc \notin {"off", "gone"}

\* A statement whose result is ignored may have failed.
Attempt(ok) ==
  /\ ok \/ wear.mishaps < MaxMishaps
  /\ wear' = [wear EXCEPT !.mishaps = IF ok THEN @ ELSE @ + 1]

\* crabcc goes before its end.  A child it has not waited for lives on, and
\* nobody knows it.
Dies(r) ==
  /\ ag' = [ag EXCEPT ![r] = [Off EXCEPT !.pc = "gone", !.lock = ag[r].lock]]
  /\ table' = [table EXCEPT ![ag[r].pid] = "nobody"]

\* Ids that no run has yet are interchangeable.
Unused == CHOOSE r \in Runs : ag[r].pc = "off"

Outcome(code) == IF code = "ok" THEN "finished" ELSE "crashed"

-----------------------------------------------------------------------------
(* A run.                                                                  *)

\* The run's directory is made, with its lock and an empty log.
Launch(r) ==
  /\ ag[r].pc = "off" /\ r = Unused
  /\ \E p \in Pids :
       /\ table[p] = "nobody"
       /\ table' = [table EXCEPT ![p] = r]
       /\ ag' = [ag EXCEPT ![r] = [Off EXCEPT !.pc = "made", !.pid = p, !.lock = TRUE]]
  /\ UNCHANGED <<rows, reap, guard, kills, wear>>

\* Starting runs and `agent ls` call reap_stale at any time, and what they
\* do with one row does not depend on the others: one has read a row, and
\* may take its time.
ReadRow(e) ==
  /\ reap = {} /\ e \in Active
  /\ reap' = {e}
  /\ UNCHANGED <<rows, ag, table, guard, kills, wear>>

\* Mutant: without AND status = 'running'.
ReapRowAnyhow(e) ==
  /\ e \in reap
  /\ reap' = {}
  /\ rows' = IF pid_alive(e[2]) THEN rows ELSE [rows EXCEPT ![e[1]].status = "crashed"]
  /\ UNCHANGED <<ag, table, guard, kills, wear>>

\* If the process is gone and the row is running still, it is marked.
ReapRow(e) ==
  /\ e \in reap
  /\ reap' = {}
  /\ IF ~pid_alive(e[2]) /\ rows[e[1]].status = "running"
     THEN /\ rows' = [rows EXCEPT ![e[1]].status = "crashed"]
          /\ wear' = IF e[2] = NoPid THEN [wear EXCEPT !.early = @ \cup {e[1]}] ELSE wear
     ELSE UNCHANGED <<rows, wear>>
  /\ UNCHANGED <<ag, table, guard, kills>>

insert_run(r, ok) ==
  /\ ag[r].pc = "made"
  /\ Attempt(ok)
  /\ ag' = [ag EXCEPT ![r].pc = "inserted"]
  /\ rows' = IF ok THEN [rows EXCEPT ![r] = [NoRow EXCEPT !.status = "running"]] ELSE rows
  /\ UNCHANGED <<table, reap, guard, kills>>

\* The pid on record is that of crabcc itself, not of the agent it starts.
update_pid(r, ok) ==
  /\ ag[r].pc = "inserted"
  /\ Attempt(ok)
  /\ ag' = [ag EXCEPT ![r].pc = "started"]
  /\ rows' = IF ok /\ rows[r] # NoRow THEN [rows EXCEPT ![r].pid = ag[r].pid] ELSE rows
  /\ UNCHANGED <<table, reap, guard, kills>>

\* ensure_up fails and run returns at once: no mark_finished, no finalize.
GiveUp(r) ==
  /\ ag[r].pc = "started"
  /\ Dies(r)
  /\ UNCHANGED <<rows, reap, guard, kills, wear>>

Spawn(r) ==
  /\ ag[r].pc = "started"
  /\ ag' = [ag EXCEPT ![r].pc = "waiting", ![r].child = "alive"]
  /\ UNCHANGED <<rows, table, reap, guard, kills, wear>>

\* No claude on the PATH, or an error after the spawn: ChildGuard kills the
\* child.
SpawnFails(r) ==
  /\ ag[r].pc = "started"
  /\ ag' = [ag EXCEPT ![r].pc = "waiting", ![r].child = "ended", ![r].code = "bad"]
  /\ UNCHANGED <<rows, table, reap, guard, kills, wear>>

ChildExits(r, code) ==
  /\ ag[r].pc = "waiting" /\ ag[r].child = "alive"
  /\ ag' = [ag EXCEPT ![r].child = "ended", ![r].code = code]
  /\ UNCHANGED <<rows, table, reap, guard, kills, wear>>

\* The child has been waited for; the lock goes.
finalize(r) ==
  /\ ag[r].pc = "waiting" /\ ag[r].child = "ended"
  /\ ag' = [ag EXCEPT ![r].pc = "final", ![r].lock = FALSE]
  /\ UNCHANGED <<rows, table, reap, guard, kills, wear>>

\* The last statement of a run.
mark_finished(r, ok) ==
  /\ ag[r].pc = "final"
  /\ Attempt(ok)
  /\ LET found == ok /\ rows[r] # NoRow IN
     /\ ag' = [ag EXCEPT ![r] = [Off EXCEPT !.pc = "gone", !.code = ag[r].code, !.saved = found]]
     /\ rows' = IF found
                THEN [rows EXCEPT ![r].status = Outcome(ag[r].code), ![r].exit = ag[r].code]
                ELSE rows
  /\ table' = [table EXCEPT ![ag[r].pid] = "nobody"]
  /\ UNCHANGED <<reap, guard, kills>>

\* kills from outside, at any point; its child lives on.
Crash(r) ==
  /\ Alive(r) /\ Attempt(FALSE) /\ Dies(r)
  /\ UNCHANGED <<rows, reap, guard, kills>>

-----------------------------------------------------------------------------
(* The guard.                                                              *)

\* list_runs(active) is read once for the whole sweep.
GuardLists ==
  /\ guard.st = "idle"
  /\ guard' = [Idle EXCEPT !.st = "sweep", !.todo = Active]
  /\ UNCHANGED <<rows, ag, table, reap, kills, wear>>

\* A signal reaches whoever has the pid.  crabcc dies of SIGTERM, without
\* unwinding; a stranger may ignore it, but not SIGKILL.
Signal(p, sigkill) ==
  LET who == table[p] IN
  \/ who \in Runs /\ Dies(who)
  \/ who = "stranger" /\ table' = [table EXCEPT ![p] = "nobody"] /\ UNCHANGED ag
  \/ who = "stranger" /\ ~sigkill /\ UNCHANGED <<ag, table>>
  \/ who = "nobody" /\ UNCHANGED <<ag, table>>

\* A log older than idle_secs: nobody knows how often a child writes into
\* it, but nobody writes into that of a run that has gone.
Examine(e) ==
  /\ guard.st = "sweep" /\ e \in guard.todo /\ guard.term = {}
  /\ LET rest == [guard EXCEPT !.todo = @ \ {e}] IN
     \/ /\ ~pid_alive(e[2])
        /\ guard' = [rest EXCEPT !.acts = @ \cup {e[1]}]
        /\ UNCHANGED <<ag, table>>
     \/ /\ pid_alive(e[2]) /\ Alive(e[1])
        /\ guard' = rest
        /\ UNCHANGED <<ag, table>>
     \/ /\ pid_alive(e[2])
        /\ guard' = [rest EXCEPT !.term = {e}]
        /\ Signal(e[2], FALSE)
  /\ UNCHANGED <<rows, reap, kills, wear>>

\* After term_grace_ms the pid is looked up again.
Escalate ==
  \E e \in guard.term :
    /\ guard' = [guard EXCEPT !.term = {}, !.acts = @ \cup {e[1]}]
    /\ Signal(e[2], TRUE)
    /\ UNCHANGED <<rows, reap, kills, wear>>

\* The event, then the row: the second is not tried when the first fails.
record_kill(r, done) ==
  /\ guard.st = "sweep" /\ guard.todo = {} /\ guard.term = {} /\ r \in guard.acts
  /\ Attempt(done = {"event", "row"})
  /\ guard' = [guard EXCEPT !.acts = @ \ {r}]
  /\ kills' = IF "event" \in done THEN kills \cup {r} ELSE kills
  /\ rows' = IF "row" \in done
             THEN [rows EXCEPT ![r].status = "crashed",
                     ![r].exit = IF @ = "null" THEN "killed" ELSE @]
             ELSE rows
  /\ UNCHANGED <<ag, table, reap>>

GuardEnds ==
  /\ guard = [Idle EXCEPT !.st = "sweep"]
  /\ guard' = Idle
  /\ UNCHANGED <<rows, ag, table, reap, kills, wear>>

\* Dead guards take no note of whom they killed.
GuardCrashes ==
  /\ guard.st = "sweep" /\ Attempt(FALSE)
  /\ guard' = Idle
  /\ UNCHANGED <<rows, ag, table, reap, kills>>

-----------------------------------------------------------------------------
(* Other programs come and go, under pids that were free.                  *)

StrangerStarts(p) ==
  /\ table[p] = "nobody" /\ Attempt(FALSE)
  /\ table' = [table EXCEPT ![p] = "stranger"]
  /\ UNCHANGED <<rows, ag, reap, guard, kills>>

StrangerExits(p) ==
  /\ table[p] = "stranger"
  /\ table' = [table EXCEPT ![p] = "nobody"]
  /\ UNCHANGED <<rows, ag, reap, guard, kills, wear>>

Sweep ==
  \/ GuardLists \/ Escalate \/ GuardEnds
  \/ \E e \in guard.todo : Examine(e)
  \/ \E r \in guard.acts, done \in {{}, {"event"}, {"event", "row"}} : record_kill(r, done)

AgentNext ==
  \/ \E r \in Runs :
       \/ Launch(r) \/ GiveUp(r) \/ Spawn(r) \/ SpawnFails(r)
       \/ finalize(r) \/ Crash(r)
       \/ \E ok \in BOOLEAN : insert_run(r, ok) \/ update_pid(r, ok) \/ mark_finished(r, ok)
       \/ \E code \in {"ok", "bad"} : ChildExits(r, code)
  \/ \E e \in Active \cup reap : ReadRow(e) \/ ReapRow(e)
  \/ Sweep \/ GuardCrashes
  \/ \E p \in Pids : StrangerStarts(p) \/ StrangerExits(p)

-----------------------------------------------------------------------------
(* Properties.                                                             *)

\* A run that is under way is shown as running, unless somebody looked
\* between its insert_run and its update_pid and took the NULL for dead.
LiveRunsShow ==
  \A r \in Runs : ag[r].pc \in {"started", "waiting", "final"} =>
    rows[r].status \in {"none", "running"} \/ r \in wear.early \cup kills

\* What mark_finished has written stays: the exit code for good, the status
\* unless a guard that had read the row before adds its kill event.
OutcomeStands ==
  \A r \in Runs : ag[r].saved =>
    /\ rows[r].exit = ag[r].code
    /\ rows[r].status = Outcome(ag[r].code) \/ r \in kills

\* "a leftover lock after a crash is the canonical 'this run died' signal":
\* no run counts as finished whose lock is still there.
LockMeansDied == \A r \in Runs : ag[r].lock => rows[r].status # "finished"

\* What `agent ls` shows of a run, in whatever order the run, the guard and
\* those that reap got to its row.
RowsTellTruth == LiveRunsShow /\ OutcomeStands /\ LockMeansDied

\* "so dashboard counts don't get pinned at '1 running' forever after a hard
\* kill": with a guard that is started again and again, the row of a run
\* that has gone does not stay.
RowsAreReaped ==
  \A r \in Runs :
    (ag[r].pc = "gone" /\ rows[r].status = "running") ~> (rows[r].status # "running")
=============================================================================
