--------------------------- MODULE HomeDirProofs ---------------------------
(***************************************************************************)
(* What holds of these files however many processes share them: one part    *)
(* for each of the agent runs, the detached runs, the onboarding and the    *)
(* backups, with its inductive invariant, and in the last part the theorems.*)
(***************************************************************************)
EXTENDS HomeDir, FiniteSetTheorems, TLAPS

-----------------------------------------------------------------------------
(* Agent runs: whoever reads a row finds a pid which is NULL or that of the*)
(* run, if the run is alive.                                               *)

Stati   == {"none", "running", "finished", "crashed"}
Steps   == {"off", "made", "inserted", "started", "waiting", "final", "gone"}
MayPid  == Pids \cup {NoPid}
Row     == [status : Stati, pid : MayPid, exit : {"null", "ok", "bad", "killed"}]
Agent   == [pc : Steps, pid : MayPid, child : {"none", "alive", "ended"},
            code : {"null", "ok", "bad"}, lock : BOOLEAN, saved : BOOLEAN]
Entries == Runs \X MayPid
Guard   == [st : {"idle", "sweep"}, todo : SUBSET Entries, term : SUBSET Entries,
            acts : SUBSET Runs]

AgentTyped ==
  /\ rows \in [Runs -> Row]
  /\ ag \in [Runs -> Agent]
  /\ table \in [Pids -> Runs \cup {"nobody", "stranger"}]
  /\ reap \in SUBSET Entries
  /\ guard \in Guard
  /\ kills \in SUBSET Runs
  /\ wear \in [mishaps : Nat, early : SUBSET Runs]

\* A run that lives has its pid, and nobody has the pid of another.
PidsHeld ==
  /\ \A r \in Runs : Alive(r) => ag[r].pid \in Pids /\ table[ag[r].pid] = r
  /\ \A p \in Pids : table[p] \in Runs => Alive(table[p]) /\ ag[table[p]].pid = p

Begun(r)   == ag[r].pc \notin {"off", "made"}
Fits(r, p) == Begun(r) /\ (Alive(r) => p \in {NoPid, ag[r].pid})

\* What the guard and those that reap have in hand may be old, not wrong.
EntriesFit ==
  /\ \A e \in reap \cup guard.todo \cup guard.term : Fits(e[1], e[2])
  /\ \A e \in guard.term : e[2] \in Pids
  /\ \A r \in guard.acts : Begun(r)

RowFits(r) ==
  /\ rows[r] # NoRow => Fits(r, rows[r].pid)
  /\ Begun(r) /\ Alive(r) =>
       rows[r].status \in {"none", "running"} \/ r \in wear.early \cup kills
  /\ ag[r].pc = "final" => ag[r].child = "ended"
  /\ ag[r].child = "ended" => ag[r].code \in {"ok", "bad"}
  /\ ag[r].lock => rows[r].status # "finished"
  /\ ag[r].saved =>
       /\ ag[r].pc = "gone" /\ ~ag[r].lock
       /\ ag[r].code \in {"ok", "bad"} /\ rows[r].exit = ag[r].code
       /\ \/ rows[r].status = Outcome(ag[r].code)
          \/ rows[r].status = "crashed" /\ r \in kills

AgentInv == AgentTyped /\ PidsHeld /\ EntriesFit /\ \A r \in Runs : RowFits(r)

LEMMA AgentInitially == AgentInit => AgentInv
  BY AgentAssumption
  DEF AgentInit, AgentInv, AgentTyped, PidsHeld, EntriesFit, RowFits, Row, Agent, Guard, Entries,
      Stati, Steps, MayPid, NoRow, Off, Idle, Alive, Begun, Fits

LEMMA AttemptKeeps ==
  ASSUME AgentInv, NEW ok \in BOOLEAN, Attempt(ok)
  PROVE  wear' \in [mishaps : Nat, early : SUBSET Runs] /\ wear'.early = wear.early
  BY DEF AgentInv, AgentTyped, Attempt

\* Steps of a run that leave the process table and the row alone.
LEMMA QuietStepsKeep ==
  ASSUME AgentInv, NEW r \in Runs,
         \/ Spawn(r) \/ SpawnFails(r) \/ finalize(r)
         \/ \E code \in {"ok", "bad"} : ChildExits(r, code)
  PROVE  AgentInv'
<1> DEFINE a == ag'[r]
<1>1. /\ a \in Agent /\ ag' = [ag EXCEPT ![r] = a]
      /\ UNCHANGED <<rows, table, reap, guard, kills, wear>>
  BY DEF AgentInv, AgentTyped, Agent, Steps, Spawn, SpawnFails, finalize, ChildExits
<1>2. /\ ag[r].pc \in {"started", "waiting"} /\ a.pc \in {"started", "waiting", "final"}
      /\ a.pid = ag[r].pid /\ a.saved = ag[r].saved
      /\ a.lock => ag[r].lock
      /\ a.pc = "final" => a.child = "ended"
      /\ a.child = "ended" => a.code \in {"ok", "bad"}
  BY DEF AgentInv, AgentTyped, Agent, Steps, RowFits, Spawn, SpawnFails, finalize, ChildExits
<1> HIDE DEF a
<1>3. AgentTyped'
  BY <1>1 DEF AgentInv, AgentTyped
<1>4. PidsHeld'
  BY <1>1, <1>2 DEF AgentInv, AgentTyped, PidsHeld, Alive
<1>5. \A x \in Runs, p \in MayPid : Fits(x, p) => Fits(x, p)'
  BY <1>1, <1>2 DEF AgentInv, AgentTyped, Fits, Begun, Alive
<1>6. EntriesFit'
  BY <1>1, <1>2, <1>5 DEF AgentInv, AgentTyped, EntriesFit, Guard, Entries, Begun
<1>7. ASSUME NEW x \in Runs PROVE RowFits(x)'
  <2>1. RowFits(x)
    BY DEF AgentInv
  <2>2. CASE x = r
    BY <1>1, <1>2, <2>1, <2>2 DEF AgentInv, AgentTyped, Row, RowFits, Fits, Begun, Alive
  <2>3. CASE x # r
    BY <1>1, <2>1, <2>3 DEF AgentInv, AgentTyped, RowFits, Fits, Begun, Alive
  <2> QED
    BY <2>2, <2>3
<1> QED
  BY <1>3, <1>4, <1>6, <1>7 DEF AgentInv

LEMMA LaunchKeeps ==
  ASSUME AgentInv, NEW r \in Runs, Launch(r)
  PROVE  AgentInv'
<1>1. PICK p \in Pids :
        /\ table[p] = "nobody" /\ table' = [table EXCEPT ![p] = r]
        /\ ag' = [ag EXCEPT ![r] = [Off EXCEPT !.pc = "made", !.pid = p, !.lock = TRUE]]
  BY DEF Launch
<1>2. ag[r].pc = "off" /\ UNCHANGED <<rows, reap, guard, kills, wear>>
  BY DEF Launch
<1>3. "nobody" \notin Runs
  BY AgentAssumption
<1>4. AgentTyped'
  BY <1>1, <1>2 DEF AgentInv, AgentTyped, Agent, Steps, MayPid, Off
<1>5. /\ ag'[r].pc = "made" /\ ag'[r].pid = p /\ ag'[r].child = "none" /\ ~ag'[r].saved
      /\ \A x \in Runs \ {r} : ag'[x] = ag[x]
  BY <1>1 DEF AgentInv, AgentTyped, Agent, Off
<1>6. PidsHeld'
  <2>1. table'[p] = r /\ \A q \in Pids \ {p} : table'[q] = table[q]
    BY <1>1 DEF AgentInv, AgentTyped
  <2>2. ASSUME NEW x \in Runs, Alive(x)' PROVE ag'[x].pid \in Pids /\ table'[ag'[x].pid] = x
    <3>1. CASE x = r
      BY <1>5, <2>1, <3>1
    <3>2. CASE x # r
      <4>1. Alive(x) /\ ag'[x] = ag[x]
        BY <1>5, <2>2, <3>2 DEF Alive
      <4>2. ag[x].pid \in Pids /\ table[ag[x].pid] = x /\ ag[x].pid # p
        BY <1>1, <1>3, <4>1 DEF AgentInv, PidsHeld
      <4> QED
        BY <2>1, <4>1, <4>2
    <3> QED
      BY <3>1, <3>2
  <2>3. ASSUME NEW q \in Pids, table'[q] \in Runs
        PROVE  Alive(table[q])' /\ ag'[table'[q]].pid = q
    <3>1. CASE q = p
      BY <1>5, <2>1, <3>1 DEF Alive
    <3>2. CASE q # p
      <4>1. Alive(table[q]) /\ ag[table[q]].pid = q /\ table'[q] = table[q] /\ table[q] # r
        BY <1>2, <2>1, <2>3, <3>2 DEF AgentInv, PidsHeld, Alive
      <4> QED
        BY <1>5, <2>3, <4>1 DEF Alive
    <3> QED
      BY <3>1, <3>2
  <2> QED
    BY <2>2, <2>3 DEF PidsHeld
<1>7. EntriesFit'
  BY <1>2, <1>5 DEF AgentInv, AgentTyped, EntriesFit, Guard, Entries, Fits, Begun, Alive
<1>8. ASSUME NEW x \in Runs PROVE RowFits(x)'
  <2>1. RowFits(x)
    BY DEF AgentInv
  <2>2. CASE x = r
    <3>1. rows[r] = NoRow
      BY <1>2, <2>1, <2>2 DEF RowFits, Fits, Begun
    <3> QED
      BY <1>2, <1>5, <2>1, <2>2, <3>1 DEF RowFits, Fits, Begun, Alive, NoRow
  <2>3. CASE x # r
    BY <1>2, <1>5, <2>1, <2>3 DEF RowFits, Fits, Begun, Alive
  <2> QED
    BY <2>2, <2>3
<1> QED
  BY <1>4, <1>6, <1>7, <1>8 DEF AgentInv

\* A statement on a run's own row.
LEMMA StatementsKeep ==
  ASSUME AgentInv, NEW r \in Runs, NEW ok \in BOOLEAN, insert_run(r, ok) \/ update_pid(r, ok)
  PROVE  AgentInv'
<1> DEFINE a == ag'[r]
           w == rows'[r]
<1>0. /\ ag[r] \in Agent /\ rows[r] \in Row /\ wear.mishaps \in Nat
      /\ ag[r].pid \in Pids
  BY DEF AgentInv, AgentTyped, PidsHeld, Alive, insert_run, update_pid
<1>9. \A pc \in Steps : [ag[r] EXCEPT !.pc = pc] \in Agent
  BY <1>0 DEF Agent
<1>1. /\ a \in Agent /\ ag' = [ag EXCEPT ![r] = a]
      /\ w \in Row /\ rows' = [rows EXCEPT ![r] = w]
      /\ UNCHANGED <<table, reap, guard, kills>>
      /\ wear' \in [mishaps : Nat, early : SUBSET Runs] /\ wear'.early = wear.early
  <2>1. wear' \in [mishaps : Nat, early : SUBSET Runs] /\ wear'.early = wear.early
    BY AttemptKeeps DEF insert_run, update_pid
  <2>2. CASE insert_run(r, ok)
    <3>1. /\ ag' = [ag EXCEPT ![r] = [ag[r] EXCEPT !.pc = "inserted"]]
          /\ rows' = [rows EXCEPT ![r] = IF ok THEN [NoRow EXCEPT !.status = "running"] ELSE rows[r]]
      BY <2>2 DEF insert_run, AgentInv, AgentTyped
    <3>2. [NoRow EXCEPT !.status = "running"] \in Row
      BY DEF NoRow, Row, Stati, MayPid
    <3>3. [ag[r] EXCEPT !.pc = "inserted"] \in Agent
      BY <1>9 DEF Steps
    <3>4. UNCHANGED <<table, reap, guard, kills>>
      BY <2>2 DEF insert_run
    <3> QED
      BY <1>0, <2>1, <2>2, <3>1, <3>2, <3>3, <3>4 DEF AgentInv, AgentTyped
  <2>3. CASE update_pid(r, ok)
    <3>1. /\ ag' = [ag EXCEPT ![r] = [ag[r] EXCEPT !.pc = "started"]]
          /\ rows' = [rows EXCEPT ![r] = IF ok /\ rows[r] # NoRow
                                        THEN [rows[r] EXCEPT !.pid = ag[r].pid] ELSE rows[r]]
      BY <2>3 DEF update_pid, AgentInv, AgentTyped
    <3>2. [rows[r] EXCEPT !.pid = ag[r].pid] \in Row
      BY <1>0 DEF Row, MayPid
    <3>3. [ag[r] EXCEPT !.pc = "started"] \in Agent
      BY <1>9 DEF Steps
    <3>4. UNCHANGED <<table, reap, guard, kills>>
      BY <2>3 DEF update_pid
    <3> QED
      BY <1>0, <2>1, <2>3, <3>1, <3>2, <3>3, <3>4 DEF AgentInv, AgentTyped
  <2> QED
    BY <2>2, <2>3
<1>2. /\ ag[r].pc \in {"made", "inserted"} /\ a.pc \in {"inserted", "started"}
      /\ a.pid = ag[r].pid /\ a.saved = ag[r].saved /\ a.lock = ag[r].lock
      /\ a.child = ag[r].child /\ a.code = ag[r].code
  BY <1>0 DEF AgentInv, AgentTyped, Agent, insert_run, update_pid
<1>3. \/ w.pid \in {NoPid, ag[r].pid} /\ w.status \in {"none", "running"} /\ ag[r].pc = "made"
      \/ /\ w.pid = ag[r].pid \/ w = rows[r]
         /\ w.status = rows[r].status /\ ag[r].pc = "inserted"
  <2>1. CASE insert_run(r, ok)
    <3>1. rows[r] = NoRow /\ ag[r].pc = "made"
      BY <2>1 DEF AgentInv, RowFits, Fits, Begun, insert_run
    <3> QED
      BY <2>1, <3>1 DEF AgentInv, AgentTyped, NoRow, insert_run
  <2>2. CASE update_pid(r, ok)
    BY <1>0, <2>2 DEF AgentInv, AgentTyped, Row, update_pid
  <2> QED
    BY <2>1, <2>2
<1> HIDE DEF a, w
<1>4. AgentTyped'
  BY <1>1 DEF AgentInv, AgentTyped
<1>5. PidsHeld'
  BY <1>1, <1>2 DEF AgentInv, AgentTyped, PidsHeld, Alive
<1>6. \A x \in Runs, p \in MayPid : Fits(x, p) => Fits(x, p)'
  BY <1>1, <1>2 DEF AgentInv, AgentTyped, Fits, Begun, Alive
<1>7. EntriesFit'
  BY <1>1, <1>2, <1>6 DEF AgentInv, AgentTyped, EntriesFit, Guard, Entries, Begun
<1>8. ASSUME NEW x \in Runs PROVE RowFits(x)'
  <2>1. RowFits(x)
    BY DEF AgentInv
  <2>2. CASE x = r
    BY <1>0, <1>1, <1>2, <1>3, <2>1, <2>2
       DEF AgentInv, AgentTyped, Row, RowFits, Fits, Begun, Alive, NoRow
  <2>3. CASE x # r
    BY <1>1, <2>1, <2>3 DEF AgentInv, AgentTyped, RowFits, Fits, Begun, Alive
  <2> QED
    BY <2>2, <2>3
<1> QED
  BY <1>4, <1>5, <1>7, <1>8 DEF AgentInv

\* A process that goes: what others hold of its run fits whatever they hold.
LEMMA GoingKeeps ==
  ASSUME AgentInv, NEW r \in Runs, Alive(r),
         NEW a \in Agent, a.pc = "gone", a.child = "none", ag' = [ag EXCEPT ![r] = a],
         table' = [table EXCEPT ![ag[r].pid] = "nobody"],
         NEW w \in Row, rows' = [rows EXCEPT ![r] = w], w = rows[r] \/ Begun(r),
         a.lock => w.status # "finished",
         a.saved => /\ ~a.lock /\ a.code \in {"ok", "bad"} /\ w.exit = a.code
                    /\ w.status = Outcome(a.code),
         wear' \in [mishaps : Nat, early : SUBSET Runs], wear'.early = wear.early,
         kills' = kills, reap' = reap, guard' \in Guard,
         guard'.todo \subseteq guard.todo,
         guard'.term \subseteq guard.term \cup {e \in guard.todo : e[2] \in Pids},
         guard'.acts \subseteq guard.acts \cup {e[1] : e \in guard.todo \cup guard.term}
  PROVE  AgentInv'
<1>1. "nobody" \notin Runs
  BY AgentAssumption
<1>2. ag'[r] = a /\ rows'[r] = w /\ \A x \in Runs \ {r} : ag'[x] = ag[x] /\ rows'[x] = rows[x]
  BY DEF AgentInv, AgentTyped
<1>3. AgentTyped'
  BY DEF AgentInv, AgentTyped
<1>4. PidsHeld'
  BY <1>1, <1>2 DEF AgentInv, AgentTyped, PidsHeld, Alive
<1>5. \A x \in Runs, p \in MayPid : Fits(x, p) => Fits(x, p)'
  BY <1>2 DEF Fits, Begun, Alive
<1>6. \A x \in Runs : Begun(x) => Begun(x)'
  BY <1>2 DEF Begun
<1>7. EntriesFit'
  BY <1>5, <1>6 DEF AgentInv, AgentTyped, EntriesFit, Guard, Entries, Fits
<1>8. ASSUME NEW x \in Runs PROVE RowFits(x)'
  <2>1. RowFits(x)
    BY DEF AgentInv
  <2>2. CASE x = r
    BY <1>2, <2>1, <2>2 DEF RowFits, Fits, Begun, Alive
  <2>3. CASE x # r
    BY <1>2, <2>1, <2>3 DEF RowFits, Fits, Begun, Alive
  <2> QED
    BY <2>2, <2>3
<1> QED
  BY <1>3, <1>4, <1>7, <1>8 DEF AgentInv

LEMMA EndsKeepRuns ==
  ASSUME AgentInv, NEW r \in Runs,
         GiveUp(r) \/ Crash(r) \/ \E ok \in BOOLEAN : mark_finished(r, ok)
  PROVE  AgentInv'
<1>1. ag[r] \in Agent /\ rows[r] \in Row /\ guard \in Guard
  BY DEF AgentInv, AgentTyped
<1>2. rows' = [rows EXCEPT ![r] = rows[r]] \/ \E ok \in BOOLEAN : mark_finished(r, ok)
  BY DEF GiveUp, Crash, AgentInv, AgentTyped
<1>3. CASE GiveUp(r) \/ Crash(r)
  <2> DEFINE a == [Off EXCEPT !.pc = "gone", !.lock = ag[r].lock]
  <2>1. /\ ag' = [ag EXCEPT ![r] = a] /\ table' = [table EXCEPT ![ag[r].pid] = "nobody"]
        /\ Alive(r) /\ rows' = [rows EXCEPT ![r] = rows[r]]
        /\ UNCHANGED <<reap, guard, kills>>
    BY <1>3 DEF GiveUp, Crash, Dies, Alive, AgentInv, AgentTyped
  <2>2. wear' \in [mishaps : Nat, early : SUBSET Runs] /\ wear'.early = wear.early
    BY <1>3, AttemptKeeps DEF GiveUp, Crash, AgentInv, AgentTyped
  <2>3. a \in Agent /\ a.pc = "gone" /\ a.child = "none" /\ ~a.saved /\ a.lock = ag[r].lock
    BY <1>1 DEF Off, Agent, Steps, MayPid
  <2>4. ag[r].lock => rows[r].status # "finished"
    BY DEF AgentInv, RowFits
  <2> HIDE DEF a
  <2> QED
    BY <1>1, <2>1, <2>2, <2>3, <2>4, GoingKeeps
<1>4. ASSUME NEW ok \in BOOLEAN, mark_finished(r, ok) PROVE AgentInv'
  <2> DEFINE found == ok /\ rows[r] # NoRow
             a == [Off EXCEPT !.pc = "gone", !.code = ag[r].code, !.saved = found]
             w == IF found THEN [rows[r] EXCEPT !.status = Outcome(ag[r].code), !.exit = ag[r].code]
                  ELSE rows[r]
  <2>1. /\ ag[r].pc = "final" /\ ag' = [ag EXCEPT ![r] = a]
        /\ table' = [table EXCEPT ![ag[r].pid] = "nobody"]
        /\ UNCHANGED <<reap, guard, kills>>
    BY <1>4 DEF mark_finished
  <2>2. rows' = [rows EXCEPT ![r] = w]
    BY <1>1, <1>4 DEF mark_finished, AgentInv, AgentTyped
  <2>3. wear' \in [mishaps : Nat, early : SUBSET Runs] /\ wear'.early = wear.early
    BY <1>4, AttemptKeeps DEF mark_finished
  <2>4. ag[r].code \in {"ok", "bad"}
    BY <2>1 DEF AgentInv, RowFits
  <2>5. /\ a \in Agent /\ a.pc = "gone" /\ a.child = "none" /\ ~a.lock
        /\ a.code = ag[r].code /\ a.saved = found
    BY <1>1, <2>4 DEF Off, Agent, Steps, MayPid
  <2>6. w \in Row /\ (found => w.exit = ag[r].code /\ w.status = Outcome(ag[r].code))
    BY <1>1, <2>4 DEF Row, Stati, Outcome
  <2>7. Alive(r) /\ Begun(r)
    BY <2>1 DEF Alive, Begun
  <2> HIDE DEF a, w, found
  <2> QED
    BY <1>1, <2>1, <2>2, <2>3, <2>4, <2>5, <2>6, <2>7, GoingKeeps
<1> QED
  BY <1>3, <1>4

\* Steps of those that only look, and of other programs.
LEMMA LooksKeep ==
  ASSUME AgentInv, UNCHANGED <<rows, ag, kills>>,
         wear' \in [mishaps : Nat, early : SUBSET Runs], wear'.early = wear.early,
         table' \in [Pids -> Runs \cup {"nobody", "stranger"}],
         \A p \in Pids : table[p] \in Runs \/ table'[p] \in Runs => table'[p] = table[p],
         reap' \subseteq reap \cup Active, guard' \in Guard,
         guard'.todo \subseteq guard.todo \cup Active,
         guard'.term \subseteq guard.term \cup {e \in guard.todo : e[2] \in Pids},
         guard'.acts \subseteq guard.acts \cup {e[1] : e \in guard.todo \cup guard.term}
  PROVE  AgentInv'
<1>1. \A e \in Active : e \in Entries /\ Fits(e[1], e[2])
  BY DEF Active, AgentInv, AgentTyped, Row, RowFits, NoRow, Entries
<1>2. AgentTyped'
  BY <1>1 DEF AgentInv, AgentTyped
<1>3. PidsHeld'
  BY DEF AgentInv, AgentTyped, PidsHeld, Alive
<1>4. EntriesFit'
  BY <1>1 DEF AgentInv, AgentTyped, Guard, Entries, EntriesFit, Fits, Begun, Alive
<1>5. ASSUME NEW r \in Runs PROVE RowFits(r)'
  BY DEF AgentInv, RowFits, Fits, Begun, Alive
<1> QED
  BY <1>2, <1>3, <1>4, <1>5 DEF AgentInv

LEMMA StrangersKeep ==
  ASSUME AgentInv, NEW p \in Pids, StrangerStarts(p) \/ StrangerExits(p)
  PROVE  AgentInv'
<1>1. "nobody" \notin Runs /\ "stranger" \notin Runs
  BY AgentAssumption
<1>2. wear' \in [mishaps : Nat, early : SUBSET Runs] /\ wear'.early = wear.early
  BY AttemptKeeps DEF StrangerStarts, StrangerExits, AgentInv, AgentTyped
<1>3. /\ table' \in [Pids -> Runs \cup {"nobody", "stranger"}]
      /\ \A q \in Pids : table[q] \in Runs \/ table'[q] \in Runs => table'[q] = table[q]
      /\ UNCHANGED <<rows, ag, kills, reap, guard>> /\ guard \in Guard
  BY <1>1 DEF StrangerStarts, StrangerExits, AgentInv, AgentTyped
<1> QED
  BY <1>2, <1>3, LooksKeep

\* A row that is marked: by reap_stale, or with a kill event of the guard.
LEMMA MarksKeep ==
  ASSUME AgentInv, NEW r \in Runs, UNCHANGED <<ag, table>>,
         NEW w \in Row, rows' = [rows EXCEPT ![r] = w], w.pid = rows[r].pid,
         wear' \in [mishaps : Nat, early : SUBSET Runs], wear.early \subseteq wear'.early,
         kills' \in SUBSET Runs, kills \subseteq kills',
         reap' \subseteq reap, guard' \in Guard, guard'.todo \subseteq guard.todo,
         guard'.term \subseteq guard.term, guard'.acts \subseteq guard.acts,
         \/ w = rows[r]
         \/ /\ w.status = "crashed" /\ Begun(r)
            /\ Alive(r) => r \in wear'.early \cup kills'
            /\ ag[r].saved => r \in kills' /\ w.exit = rows[r].exit
  PROVE  AgentInv'
<1>1. rows'[r] = w /\ \A x \in Runs \ {r} : rows'[x] = rows[x]
  BY DEF AgentInv, AgentTyped
<1>2. AgentTyped'
  BY DEF AgentInv, AgentTyped
<1>3. PidsHeld'
  BY DEF AgentInv, AgentTyped, PidsHeld, Alive
<1>4. EntriesFit'
  BY DEF AgentInv, AgentTyped, Guard, Entries, EntriesFit, Fits, Begun, Alive
<1>5. ASSUME NEW x \in Runs PROVE RowFits(x)'
  <2>1. RowFits(x)
    BY DEF AgentInv
  <2>2. CASE x = r /\ w # rows[r]
    <3>1. rows[r].pid = NoPid \/ rows[r] # NoRow
      BY DEF NoRow
    <3> QED
      BY <1>1, <2>1, <2>2, <3>1 DEF RowFits, Fits, Begun, Alive
  <2>3. CASE x # r \/ w = rows[r]
    BY <1>1, <2>1, <2>3 DEF RowFits, Fits, Begun, Alive
  <2> QED
    BY <2>2, <2>3
<1> QED
  BY <1>2, <1>3, <1>4, <1>5 DEF AgentInv

\* If the run of an entry lives, then its pid is found, unless it is NULL.
LEMMA ReapersKeep ==
  ASSUME AgentInv, NEW e \in Active \cup reap, ReadRow(e) \/ ReapRow(e)
  PROVE  AgentInv'
<1>1. /\ wear \in [mishaps : Nat, early : SUBSET Runs] /\ guard \in Guard /\ kills \in SUBSET Runs
      /\ table \in [Pids -> Runs \cup {"nobody", "stranger"}]
  BY DEF AgentInv, AgentTyped
<1>2. CASE ReadRow(e)
  BY <1>1, <1>2, LooksKeep DEF ReadRow
<1>3. CASE ReapRow(e)
  <2> DEFINE r == e[1]
  <2>1. r \in Runs /\ e[2] \in MayPid /\ Fits(r, e[2]) /\ RowFits(r) /\ rows[r] \in Row
    BY <1>3 DEF ReapRow, AgentInv, AgentTyped, Entries, EntriesFit
  <2>2. reap' = {} /\ UNCHANGED <<ag, table, guard, kills>>
    BY <1>3 DEF ReapRow
  <2>3. CASE ~pid_alive(e[2]) /\ rows[r].status = "running"
    <3> DEFINE w == [rows[r] EXCEPT !.status = "crashed"]
    <3>1. rows' = [rows EXCEPT ![r] = w]
      BY <1>3, <2>3, <2>1 DEF ReapRow, AgentInv, AgentTyped
    <3>2. w \in Row /\ w.pid = rows[r].pid /\ w.status = "crashed"
      BY <2>1 DEF Row, Stati
    <3>3. /\ wear' \in [mishaps : Nat, early : SUBSET Runs] /\ wear.early \subseteq wear'.early
          /\ e[2] = NoPid => r \in wear'.early
      BY <1>1, <1>3, <2>1, <2>3 DEF ReapRow
    <3>4. Alive(r) => e[2] = NoPid
      BY <2>1, <2>3, AgentAssumption DEF Fits, pid_alive, AgentInv, PidsHeld
    <3>5. Begun(r) /\ ~ag[r].saved
      BY <2>1, <2>3 DEF Fits, RowFits, Outcome
    <3> HIDE DEF w, r
    <3> QED
      BY <1>1, <2>1, <2>2, <3>1, <3>2, <3>3, <3>4, <3>5, MarksKeep
  <2>4. CASE ~(~pid_alive(e[2]) /\ rows[r].status = "running")
    <3>1. UNCHANGED <<rows, wear>>
      BY <1>3, <2>4 DEF ReapRow
    <3> QED
      BY <1>1, <2>2, <3>1, LooksKeep
  <2> QED
    BY <2>3, <2>4
<1> QED
  BY <1>2, <1>3

LEMMA RecordsKeep ==
  ASSUME AgentInv, NEW r \in guard.acts, NEW done \in {{}, {"event"}, {"event", "row"}},
         record_kill(r, done)
  PROVE  AgentInv'
<1>1. r \in Runs /\ Begun(r) /\ rows[r] \in Row /\ RowFits(r) /\ guard \in Guard
  BY DEF AgentInv, AgentTyped, Guard, EntriesFit
<1>2. wear' \in [mishaps : Nat, early : SUBSET Runs] /\ wear'.early = wear.early
  BY AttemptKeeps DEF record_kill
<1>3. /\ guard' \in Guard /\ guard'.todo = guard.todo /\ guard'.term = guard.term
      /\ guard'.acts \subseteq guard.acts
  BY <1>1 DEF record_kill, Guard
<1>4. kills' \in SUBSET Runs /\ kills \subseteq kills' /\ ("event" \in done => r \in kills')
  BY <1>1 DEF record_kill, AgentInv, AgentTyped
<1>5. UNCHANGED <<ag, table, reap>>
  BY DEF record_kill
<1> DEFINE w == IF "row" \in done
                THEN [rows[r] EXCEPT !.status = "crashed", !.exit = IF @ = "null" THEN "killed" ELSE @]
                ELSE rows[r]
<1>6. rows' = [rows EXCEPT ![r] = w]
  BY <1>1 DEF record_kill, AgentInv, AgentTyped
<1>7. /\ w \in Row /\ w.pid = rows[r].pid
      /\ \/ w = rows[r]
         \/ /\ w.status = "crashed" /\ "event" \in done
            /\ rows[r].exit # "null" => w.exit = rows[r].exit
  BY <1>1 DEF Row, Stati
<1>8. ag[r].saved => rows[r].exit # "null"
  BY <1>1 DEF RowFits
<1> HIDE DEF w
<1> QED
  BY <1>1, <1>2, <1>3, <1>4, <1>5, <1>6, <1>7, <1>8, MarksKeep

\* A signal that reaches a run takes its process away; one that does not,
\* changes no entry of a run in the process table.
LEMMA SignalKeeps ==
  ASSUME AgentInv, NEW p \in Pids, NEW sigkill \in BOOLEAN, Signal(p, sigkill),
         UNCHANGED <<rows, reap, kills, wear>>, guard' \in Guard,
         guard'.todo \subseteq guard.todo,
         guard'.term \subseteq guard.term \cup {e \in guard.todo : e[2] \in Pids},
         guard'.acts \subseteq guard.acts \cup {e[1] : e \in guard.todo \cup guard.term}
  PROVE  AgentInv'
<1>1. "nobody" \notin Runs /\ "stranger" \notin Runs
  BY AgentAssumption
<1>2. /\ wear \in [mishaps : Nat, early : SUBSET Runs]
      /\ table \in [Pids -> Runs \cup {"nobody", "stranger"}]
  BY DEF AgentInv, AgentTyped
<1>3. CASE table[p] \in Runs /\ Dies(table[p])
  <2> DEFINE r == table[p]
             a == [Off EXCEPT !.pc = "gone", !.lock = ag[r].lock]
  <2>1. r \in Runs /\ Alive(r) /\ ag[r] \in Agent /\ rows[r] \in Row
    BY <1>3 DEF AgentInv, AgentTyped, PidsHeld
  <2>2. /\ ag' = [ag EXCEPT ![r] = a] /\ table' = [table EXCEPT ![ag[r].pid] = "nobody"]
        /\ rows' = [rows EXCEPT ![r] = rows[r]]
    BY <1>3 DEF Dies, AgentInv, AgentTyped
  <2>3. a \in Agent /\ a.pc = "gone" /\ a.child = "none" /\ ~a.saved /\ a.lock = ag[r].lock
    BY <2>1 DEF Off, Agent, Steps, MayPid
  <2>4. ag[r].lock => rows[r].status # "finished"
    BY <2>1 DEF AgentInv, RowFits
  <2> HIDE DEF a, r
  <2> QED
    BY <1>2, <2>1, <2>2, <2>3, <2>4, GoingKeeps
<1>4. CASE UNCHANGED ag
  <2>1. /\ table' \in [Pids -> Runs \cup {"nobody", "stranger"}]
        /\ \A q \in Pids : table[q] \in Runs \/ table'[q] \in Runs => table'[q] = table[q]
    <3>1. CASE table[p] \in Runs /\ Dies(table[p])
      <4>1. ag[table[p]] \in Agent /\ ag'[table[p]].pc = "gone" /\ Alive(table[p])
        BY <3>1 DEF Dies, Off, AgentInv, AgentTyped, PidsHeld
      <4> QED
        BY <1>4, <4>1 DEF Alive
    <3>2. CASE ~(table[p] \in Runs /\ Dies(table[p]))
      BY <1>1, <1>2, <3>2 DEF Signal
    <3> QED
      BY <3>1, <3>2
  <2> QED
    BY <1>2, <1>4, <2>1, LooksKeep
<1> QED
  BY <1>3, <1>4 DEF Signal

LEMMA SweepKeeps ==
  ASSUME AgentInv, Sweep \/ GuardCrashes
  PROVE  AgentInv'
<1>1. /\ wear \in [mishaps : Nat, early : SUBSET Runs] /\ guard \in Guard
      /\ table \in [Pids -> Runs \cup {"nobody", "stranger"}]
  BY DEF AgentInv, AgentTyped
<1>2. Active \in SUBSET Entries
  BY DEF Active, AgentInv, AgentTyped, Row, Entries
<1>3. CASE GuardLists \/ GuardEnds
  <2>1. CASE GuardLists
    BY <1>1, <1>2, <2>1, LooksKeep DEF GuardLists, Idle, Guard
  <2>2. CASE GuardEnds
    BY <1>1, <2>2, LooksKeep DEF GuardEnds, Idle, Guard
  <2> QED
    BY <1>3, <2>1, <2>2
<1>4. CASE GuardCrashes
  <2>1. guard' \in Guard /\ guard'.todo = {} /\ guard'.term = {} /\ guard'.acts = {}
    BY <1>4 DEF GuardCrashes, Idle, Guard
  <2>2. wear' \in [mishaps : Nat, early : SUBSET Runs] /\ wear'.early = wear.early
    BY <1>4, AttemptKeeps DEF GuardCrashes
  <2> QED
    BY <1>1, <1>4, <2>1, <2>2, LooksKeep DEF GuardCrashes
<1>5. ASSUME NEW e \in guard.todo, Examine(e) PROVE AgentInv'
  <2>1. e \in Entries
    BY <1>1 DEF Guard
  <2>2. UNCHANGED <<rows, reap, kills, wear>>
    BY <1>5 DEF Examine
  <2>3. CASE UNCHANGED <<ag, table>> /\ guard' = [guard EXCEPT !.todo = @ \ {e}]
    <3>1. /\ guard' \in Guard /\ guard'.todo \subseteq guard.todo
          /\ guard'.term = guard.term /\ guard'.acts = guard.acts
      BY <1>1, <2>3 DEF Guard
    <3> QED
      BY <1>1, <2>2, <2>3, <3>1, LooksKeep
  <2>4. CASE UNCHANGED <<ag, table>>
             /\ guard' = [guard EXCEPT !.todo = @ \ {e}, !.acts = @ \cup {e[1]}]
    <3>1. /\ guard' \in Guard /\ guard'.todo \subseteq guard.todo /\ guard'.term = guard.term
          /\ guard'.acts \subseteq guard.acts \cup {x[1] : x \in guard.todo \cup guard.term}
      BY <1>1, <2>1, <2>4 DEF Guard, Entries
    <3> QED
      BY <1>1, <2>2, <2>4, <3>1, LooksKeep
  <2>5. CASE pid_alive(e[2]) /\ Signal(e[2], FALSE)
             /\ guard' = [guard EXCEPT !.todo = @ \ {e}, !.term = {e}]
    <3>1. e[2] \in Pids
      BY <2>5 DEF pid_alive
    <3>2. /\ guard' \in Guard /\ guard'.todo \subseteq guard.todo
          /\ guard'.term \subseteq guard.term \cup {x \in guard.todo : x[2] \in Pids}
          /\ guard'.acts \subseteq guard.acts \cup {x[1] : x \in guard.todo \cup guard.term}
      BY <1>1, <2>1, <2>5, <3>1 DEF Guard
    <3> QED
      BY <2>2, <2>5, <3>1, <3>2, SignalKeeps
  <2>6. \/ /\ guard' = [[guard EXCEPT !.todo = @ \ {e}] EXCEPT !.acts = @ \cup {e[1]}]
           /\ UNCHANGED <<ag, table>>
        \/ /\ guard' = [guard EXCEPT !.todo = @ \ {e}]
           /\ UNCHANGED <<ag, table>>
        \/ /\ guard' = [[guard EXCEPT !.todo = @ \ {e}] EXCEPT !.term = {e}]
           /\ pid_alive(e[2]) /\ Signal(e[2], FALSE)
    BY <1>5 DEF Examine
  <2> QED
    BY <1>1, <2>3, <2>4, <2>5, <2>6 DEF Guard
<1>6. CASE Escalate
  <2>1. PICK e \in guard.term :
          /\ guard' = [guard EXCEPT !.term = {}, !.acts = @ \cup {e[1]}]
          /\ Signal(e[2], TRUE) /\ UNCHANGED <<rows, reap, kills, wear>>
    BY <1>6 DEF Escalate
  <2>2. e \in Entries /\ e[2] \in Pids
    BY <1>1 DEF Guard, AgentInv, EntriesFit
  <2>3. /\ guard' \in Guard /\ guard'.todo = guard.todo /\ guard'.term = {}
        /\ guard'.acts \subseteq guard.acts \cup {x[1] : x \in guard.todo \cup guard.term}
    BY <1>1, <2>1, <2>2 DEF Guard, Entries
  <2> QED
    BY <2>1, <2>2, <2>3, SignalKeeps
<1> QED
  BY <1>3, <1>4, <1>5, <1>6, RecordsKeep DEF Sweep

LEMMA AgentStep == AgentInv /\ [AgentNext]_agentVars => AgentInv'
<1> SUFFICES ASSUME AgentInv, [AgentNext]_agentVars PROVE AgentInv'
  OBVIOUS
<1>1. CASE UNCHANGED agentVars
  BY <1>1 DEF agentVars, AgentInv, AgentTyped, PidsHeld, EntriesFit, RowFits, Fits, Begun, Alive
<1>2. CASE AgentNext
  BY <1>2, LaunchKeeps, StatementsKeep, QuietStepsKeep, EndsKeepRuns, ReapersKeep, SweepKeeps,
     StrangersKeep
     DEF AgentNext
<1> QED
  BY <1>1, <1>2

LEMMA AgentInvHolds == AgentInv => RowsTellTruth
  BY DEF AgentInv, RowFits, RowsTellTruth, LiveRunsShow, OutcomeStands, LockMeansDied, Begun, Alive

-----------------------------------------------------------------------------
(* Detached runs: a meta.json knows its command, or a process that has gone.*)

Stages   == {"off", "dir", "spawned", "tail", "gone", "lost"}
Record   == [pid : CmdPids, started_at : Nat, start_tick : Nat]
Process  == [who : Cmds \cup {Nobody, Guest}, zombie : BOOLEAN, since : Nat]
Hits     == [guests : Nat, by : SUBSET Record]

CmdTyped ==
  /\ cr \in [Cmds -> Stages]
  /\ meta \in [Cmds -> SUBSET Record]
  /\ procs \in [CmdPids -> Process]
  /\ clock \in Nat /\ hit \in Hits
  /\ \A p \in CmdPids : procs[p].since <= clock

\* A command has one process, and had none before it was spawned.
OneProcess ==
  /\ \A p, q \in CmdPids : procs[p].who = procs[q].who /\ procs[p].who \in Cmds => p = q
  /\ \A p \in CmdPids, c \in Cmds : procs[p].who = c => cr[c] \notin {"off", "dir"}

\* The pid of a meta.json is that of its command as long as this exists;
\* later it is nobody's, or that of a process which started later.  The
\* start it has, if it has one, tells the two apart.
MetaKnows ==
  \A c \in Cmds : \A m \in meta[c] :
    /\ cr[c] \in {"tail", "gone"}
    /\ \A p \in CmdPids : procs[p].who = c => m.pid = p /\ m.start_tick \in {0, procs[p].since}
    /\ m.start_tick <= procs[m.pid].since
    /\ m.start_tick # 0 /\ m.start_tick = procs[m.pid].since => procs[m.pid].who \in {c, Nobody}

LiveHasMeta ==
  \A p \in CmdPids, c \in Cmds :
    procs[p].who = c /\ ~procs[p].zombie /\ cr[c] \in {"tail", "gone"} => meta[c] # {}

\* What killed another process did not know when its own started.
Unknowing == \A m \in hit.by : m.start_tick = 0

CmdInv == CmdTyped /\ OneProcess /\ MetaKnows /\ LiveHasMeta /\ Unknowing

LEMMA CmdInitially == CmdInit => CmdInv
  BY CmdAssumption DEF CmdInit, CmdInv, CmdTyped, OneProcess, MetaKnows, LiveHasMeta, Unknowing, Hits, Vacant, Process,
     Stages, Nobody

\* What a process table is left with when some processes end: of each pid
\* the process it had, perhaps a zombie now, or none since this second.
Ended(who) ==
  /\ procs' \in [CmdPids -> Process]
  /\ \A p \in CmdPids :
       \/ procs'[p].who = procs[p].who /\ procs'[p].since = procs[p].since
          /\ (procs[p].zombie => procs'[p].zombie)
       \/ procs[p].who = who /\ procs'[p].who = Nobody /\ procs'[p].since = clock

LEMMA EndedKeeps ==
  ASSUME CmdInv, NEW who, Ended(who), clock' = clock, hit' \in Hits, Unknowing', meta' = meta,
         cr' \in [Cmds -> Stages],
         \A x \in Cmds : \/ cr'[x] = cr[x]
                         \/ cr[x] = "tail" /\ cr'[x] = "gone"
                         \/ cr[x] \in {"dir", "spawned"} /\ cr'[x] = "lost"
  PROVE  CmdInv'
<1>1. Nobody \notin Cmds
  BY CmdAssumption
<1>2. CmdTyped'
  BY DEF CmdInv, CmdTyped, Ended, Process
<1>3. OneProcess'
  BY <1>1 DEF CmdInv, OneProcess, Ended
<1>4. MetaKnows'
  <2> SUFFICES ASSUME NEW x \in Cmds, NEW m \in meta[x]
               PROVE  /\ cr'[x] \in {"tail", "gone"}
                      /\ \A p \in CmdPids : procs'[p].who = x =>
                                            m.pid = p /\ m.start_tick \in {0, procs'[p].since}
                      /\ m.start_tick <= procs'[m.pid].since
                      /\ m.start_tick # 0 /\ m.start_tick = procs'[m.pid].since => procs'[m.pid].who \in {x, Nobody}
    BY DEF MetaKnows
  <2>1. m \in Record /\ m.pid \in CmdPids
    BY DEF CmdInv, CmdTyped, Record
  <2>2. /\ cr[x] \in {"tail", "gone"}
        /\ \A p \in CmdPids : procs[p].who = x => m.pid = p /\ m.start_tick \in {0, procs[p].since}
        /\ m.start_tick <= procs[m.pid].since
        /\ m.start_tick # 0 /\ m.start_tick = procs[m.pid].since => procs[m.pid].who \in {x, Nobody}
    BY DEF CmdInv, MetaKnows
  <2>3. procs[m.pid].since <= clock /\ procs[m.pid].since \in Nat /\ clock \in Nat /\ m.start_tick \in Nat
    BY <2>1 DEF CmdInv, CmdTyped, Process, Record
  <2>4. cr'[x] \in {"tail", "gone"}
    BY <2>2
  <2>5. \A p \in CmdPids : procs'[p].who = x => m.pid = p /\ m.start_tick \in {0, procs'[p].since}
    BY <1>1, <2>2 DEF Ended
  <2>6. CASE procs'[m.pid].who = procs[m.pid].who /\ procs'[m.pid].since = procs[m.pid].since
    BY <2>2, <2>4, <2>5, <2>6
  <2>7. CASE procs'[m.pid].who = Nobody /\ procs'[m.pid].since = clock
    BY <2>2, <2>3, <2>4, <2>5, <2>7
  <2> QED
    BY <2>1, <2>6, <2>7 DEF Ended
<1>5. LiveHasMeta'
  BY <1>1 DEF CmdInv, LiveHasMeta, Ended, CmdTyped, Process, OneProcess, Stages
<1> QED
  BY <1>2, <1>3, <1>4, <1>5 DEF CmdInv

LEMMA StartsKeep ==
  ASSUME CmdInv, NEW c \in Cmds, MakeDir(c) \/ SpawnCmd(c) \/ write_meta(c)
  PROVE  CmdInv'
<1>1. Nobody \notin Cmds /\ Nobody # Guest
  BY CmdAssumption DEF Nobody, Guest
<1>2. CASE MakeDir(c)
  BY <1>1, <1>2 DEF CmdInv, CmdTyped, OneProcess, MetaKnows, LiveHasMeta, Unknowing, MakeDir, Stages
<1>3. CASE SpawnCmd(c)
  <2>1. PICK p \in CmdPids : Free(p) /\ procs' = [procs EXCEPT ![p] = Started(c)]
    BY <1>3 DEF SpawnCmd
  <2>2. /\ cr[c] = "dir" /\ cr' = [cr EXCEPT ![c] = "spawned"]
        /\ UNCHANGED <<meta, clock, hit>>
    BY <1>3 DEF SpawnCmd
  <2>3. procs[p].who = Nobody /\ procs[p].since < clock /\ procs[p].since \in Nat /\ clock \in Nat
    BY <2>1 DEF Free, CmdInv, CmdTyped, Process
  <2>4. /\ procs'[p] = [who |-> c, zombie |-> FALSE, since |-> clock]
        /\ \A q \in CmdPids \ {p} : procs'[q] = procs[q]
    BY <2>1 DEF Started, CmdInv, CmdTyped
  <2>5. CmdTyped'
    BY <2>2, <2>3, <2>4, <2>1 DEF CmdInv, CmdTyped, Process, Stages, Started
  <2>6. \A q \in CmdPids : procs[q].who # c
    BY <2>2 DEF CmdInv, OneProcess
  <2>7. OneProcess'
    BY <1>1, <2>2, <2>3, <2>4, <2>6 DEF CmdInv, OneProcess, CmdTyped
  <2>8. meta[c] = {}
    BY <2>2 DEF CmdInv, MetaKnows, CmdTyped
  <2>9. MetaKnows'
    <3> SUFFICES ASSUME NEW x \in Cmds, NEW m \in meta[x]
                 PROVE  /\ cr'[x] \in {"tail", "gone"}
                        /\ \A q \in CmdPids : procs'[q].who = x =>
                                              m.pid = q /\ m.start_tick \in {0, procs'[q].since}
                        /\ m.start_tick <= procs'[m.pid].since
                        /\ m.start_tick # 0 /\ m.start_tick = procs'[m.pid].since => procs'[m.pid].who \in {x, Nobody}
      BY <2>2 DEF MetaKnows
    <3>1. x # c /\ m.pid \in CmdPids /\ m.start_tick \in Nat
      BY <2>8 DEF CmdInv, CmdTyped, Record
    <3>2. /\ cr[x] \in {"tail", "gone"}
          /\ \A q \in CmdPids : procs[q].who = x => m.pid = q /\ m.start_tick \in {0, procs[q].since}
          /\ m.start_tick <= procs[m.pid].since
          /\ m.start_tick # 0 /\ m.start_tick = procs[m.pid].since => procs[m.pid].who \in {x, Nobody}
      BY DEF CmdInv, MetaKnows
    <3>3. cr'[x] = cr[x]
      BY <2>2, <3>1 DEF CmdInv, CmdTyped
    <3>4. CASE m.pid = p
      BY <1>1, <2>3, <2>4, <3>1, <3>2, <3>3, <3>4
    <3>5. CASE m.pid # p
      BY <2>4, <3>1, <3>2, <3>3, <3>5
    <3> QED
      BY <3>4, <3>5
  <2>10. LiveHasMeta'
    BY <2>2, <2>4 DEF CmdInv, LiveHasMeta, CmdTyped
  <2> QED
    BY <2>2, <2>5, <2>7, <2>9, <2>10 DEF CmdInv, Unknowing
<1>4. CASE write_meta(c)
  <2> PICK p \in CmdPids :
        /\ procs[p].who = c
        /\ \E start \in {0, procs[p].since} :
             meta' = [meta EXCEPT ![c] = {[pid |-> p, started_at |-> clock, start_tick |-> start]}]
    BY <1>4 DEF write_meta, Pid, Unknown
  <2>1. PICK start \in {0, procs[p].since} :
          /\ procs[p].who = c
          /\ meta' = [meta EXCEPT ![c] = {[pid |-> p, started_at |-> clock, start_tick |-> start]}]
    OBVIOUS
  <2>2. /\ cr[c] = "spawned" /\ cr' = [cr EXCEPT ![c] = "tail"]
        /\ UNCHANGED <<procs, clock, hit>>
    BY <1>4 DEF write_meta
  <2>3. CmdTyped'
    BY <2>1, <2>2 DEF CmdInv, CmdTyped, Record, Process, Stages
  <2>4. OneProcess'
    BY <2>2 DEF CmdInv, CmdTyped, OneProcess
  <2>5. \A q \in CmdPids : procs[q].who = c => q = p
    BY <2>1 DEF CmdInv, OneProcess
  <2>6. MetaKnows'
    BY <2>1, <2>2, <2>5 DEF CmdInv, CmdTyped, Process, MetaKnows
  <2>7. LiveHasMeta'
    BY <2>1, <2>2 DEF CmdInv, CmdTyped, LiveHasMeta
  <2> QED
    BY <2>2, <2>3, <2>4, <2>6, <2>7 DEF CmdInv, Unknowing
<1> QED
  BY <1>2, <1>3, <1>4

\* A handle that is taken for alive is that of its command, if it knows
\* when this started.
LEMMA AliveIsOurs ==
  ASSUME CmdInv, NEW c \in Cmds, NEW m \in meta[c], alive(m)
  PROVE  m.pid \in CmdPids /\ (procs[m.pid].who = c \/ m.start_tick = 0)
  BY DEF CmdInv, CmdTyped, MetaKnows, alive, Unknown, Record

LEMMA EndsKeep ==
  ASSUME CmdInv, NEW c \in Cmds,
         CmdExits(c) \/ finish(c) \/ detach(c) \/ CmdCrash(c) \/ kill_run(c)
  PROVE  CmdInv'
<1>1. \A p \in CmdPids : procs[p] \in Process /\ clock \in Nat
  BY DEF CmdInv, CmdTyped
<1>2. CASE CmdExits(c)
  <2>1. PICK p \in CmdPids :
          /\ procs[p].who = c
          /\ procs' = [procs EXCEPT ![p] = IF Attended(c) THEN [@ EXCEPT !.zombie = TRUE]
                                           ELSE Vacant(clock)]
    BY <1>2 DEF CmdExits, Pid
  <2>2. Ended(c)
    BY <1>1, <2>1 DEF Ended, Process, Vacant, CmdInv, CmdTyped
  <2> QED
    BY <1>2, <2>2, EndedKeeps DEF CmdExits, CmdInv, CmdTyped, Unknowing
<1>3. ASSUME NEW how \in {"gone", "lost"}, Leaves(c, how),
             \/ cr[c] = "tail" /\ how = "gone"
             \/ cr[c] \in {"dir", "spawned"} /\ how = "lost"
      PROVE  CmdInv'
  <2>1. Ended(c)
    BY <1>1, <1>3 DEF Leaves, Ended, Process, Vacant
  <2>2. /\ cr' \in [Cmds -> Stages]
        /\ \A x \in Cmds : \/ cr'[x] = cr[x]
                           \/ cr[x] = "tail" /\ cr'[x] = "gone"
                           \/ cr[x] \in {"dir", "spawned"} /\ cr'[x] = "lost"
    BY <1>3 DEF Leaves, CmdInv, CmdTyped, Stages
  <2> QED
    BY <1>3, <2>1, <2>2, EndedKeeps DEF Leaves, CmdInv, CmdTyped, Unknowing
<1>4. CASE kill_run(c)
  <2>1. PICK m \in meta[c] :
          /\ alive(m)
          /\ procs' = [procs EXCEPT ![m.pid] =
                          IF procs[m.pid].who \in Cmds /\ Attended(procs[m.pid].who)
                          THEN [@ EXCEPT !.zombie = TRUE] ELSE Vacant(clock)]
          /\ hit' = IF procs[m.pid].who = c THEN hit ELSE [hit EXCEPT !.by = @ \cup {m}]
          /\ UNCHANGED <<cr, meta, clock>>
    BY <1>4 DEF kill_run
  <2>2. m.pid \in CmdPids /\ (procs[m.pid].who = c \/ m.start_tick = 0)
    BY <2>1, AliveIsOurs
  <2>3. Ended(procs[m.pid].who)
    BY <1>1, <2>1, <2>2 DEF Ended, Process, Vacant, CmdInv, CmdTyped
  <2>4. CASE hit' = hit
    BY <2>1, <2>3, <2>4, EndedKeeps DEF CmdInv, CmdTyped, Unknowing
  <2>5. CASE hit' = [hit EXCEPT !.by = @ \cup {m}] /\ m.start_tick = 0
    <3>1. m \in Record
      BY DEF CmdInv, CmdTyped
    <3>2. hit'.by = hit.by \cup {m} /\ hit' \in Hits
      BY <2>5, <3>1 DEF CmdInv, CmdTyped, Hits
    <3>3. Unknowing'
      BY <2>5, <3>2 DEF CmdInv, Unknowing
    <3> QED
      BY <2>1, <2>3, <3>2, <3>3, EndedKeeps DEF CmdInv, CmdTyped
  <2> QED
    BY <2>1, <2>2, <2>4, <2>5
<1> QED
  BY <1>2, <1>3, <1>4 DEF finish, detach, CmdCrash

LEMMA OthersKeep ==
  ASSUME CmdInv,
         \/ \E c \in Cmds : prune_old_runs(c)
         \/ \E p \in CmdPids : GuestStarts(p)
         \/ Tick
  PROVE  CmdInv'
<1>1. Nobody \notin Cmds /\ Guest \notin Cmds
  BY CmdAssumption
<1>2. ASSUME NEW c \in Cmds, prune_old_runs(c) PROVE CmdInv'
  <2>1. PICK m \in meta[c] : ~alive(m)
    BY <1>2 DEF prune_old_runs
  <2>2. meta' = [meta EXCEPT ![c] = {}] /\ UNCHANGED <<cr, procs, clock, hit>>
    BY <1>2 DEF prune_old_runs
  <2>3. CmdTyped' /\ OneProcess' /\ MetaKnows'
    BY <2>2 DEF CmdInv, CmdTyped, OneProcess, MetaKnows
  <2>4. \A p \in CmdPids : procs[p].who = c => procs[p].zombie
    BY <1>1, <2>1 DEF CmdInv, MetaKnows, alive, Unknown
  <2>5. LiveHasMeta'
    BY <2>2, <2>4 DEF CmdInv, CmdTyped, LiveHasMeta
  <2> QED
    BY <2>2, <2>3, <2>5 DEF CmdInv, Unknowing
<1>3. ASSUME NEW p \in CmdPids, GuestStarts(p) PROVE CmdInv'
  <2>1. /\ procs[p].who = Nobody /\ procs[p].since < clock /\ procs[p].since \in Nat /\ clock \in Nat
        /\ UNCHANGED <<cr, meta, clock>> /\ hit'.by = hit.by /\ hit' \in Hits
    BY <1>3 DEF GuestStarts, Free, CmdInv, CmdTyped, Process, Hits
  <2>2. /\ procs'[p] = [who |-> Guest, zombie |-> FALSE, since |-> clock]
        /\ procs' \in [CmdPids -> Process]
        /\ \A q \in CmdPids \ {p} : procs'[q] = procs[q]
    BY <1>3, <2>1 DEF GuestStarts, Started, CmdInv, CmdTyped, Process
  <2>3. CmdTyped' /\ OneProcess' /\ LiveHasMeta'
    BY <1>1, <2>1, <2>2 DEF CmdInv, CmdTyped, OneProcess, LiveHasMeta
  <2>4. MetaKnows'
    <3> SUFFICES ASSUME NEW x \in Cmds, NEW m \in meta[x]
                 PROVE  /\ cr[x] \in {"tail", "gone"}
                        /\ \A q \in CmdPids : procs'[q].who = x =>
                                              m.pid = q /\ m.start_tick \in {0, procs'[q].since}
                        /\ m.start_tick <= procs'[m.pid].since
                        /\ m.start_tick # 0 /\ m.start_tick = procs'[m.pid].since => procs'[m.pid].who \in {x, Nobody}
      BY <2>1 DEF MetaKnows
    <3>1. m.pid \in CmdPids /\ m.start_tick \in Nat
      BY DEF CmdInv, CmdTyped, Record
    <3>2. /\ cr[x] \in {"tail", "gone"}
          /\ \A q \in CmdPids : procs[q].who = x => m.pid = q /\ m.start_tick \in {0, procs[q].since}
          /\ m.start_tick <= procs[m.pid].since
          /\ m.start_tick # 0 /\ m.start_tick = procs[m.pid].since => procs[m.pid].who \in {x, Nobody}
      BY DEF CmdInv, MetaKnows
    <3>3. CASE m.pid = p
      BY <1>1, <2>1, <2>2, <3>1, <3>2, <3>3
    <3>4. CASE m.pid # p
      BY <1>1, <2>2, <3>1, <3>2, <3>4
    <3> QED
      BY <3>3, <3>4
  <2> QED
    BY <2>1, <2>3, <2>4 DEF CmdInv, Unknowing
<1>4. CASE Tick
  BY <1>4 DEF Tick, CmdInv, CmdTyped, OneProcess, MetaKnows, LiveHasMeta, Unknowing, Process
<1> QED
  BY <1>2, <1>3, <1>4

LEMMA CmdStep == CmdInv /\ [CmdNext]_cmdVars => CmdInv'
<1> SUFFICES ASSUME CmdInv, [CmdNext]_cmdVars PROVE CmdInv'
  OBVIOUS
<1>1. CASE UNCHANGED cmdVars
  BY <1>1 DEF cmdVars, CmdInv, CmdTyped, OneProcess, MetaKnows, LiveHasMeta, Unknowing
<1>2. CASE CmdNext
  BY <1>2, StartsKeep, EndsKeep, OthersKeep DEF CmdNext
<1> QED
  BY <1>1, <1>2

LEMMA CmdInvHolds == CmdInv => HandlesHold
  BY CmdAssumption DEF CmdInv, CmdTyped, MetaKnows, LiveHasMeta, HandlesHold, Live, Pid, alive, Unknown, Unknowing, Process

-----------------------------------------------------------------------------
(* Onboarding: as long as no lock was unlinked that had just replaced the one*)
(* looked at, the lock of a leader is in place and too young to be taken over.*)

Stations == {"idle", "look", "acquire", "inspect", "again", "unlink", "wait",
             "plan", "create", "overview", "crawl", "publish"}
Lock  == [by : Agents, at : Nat]
Call  == [pc : Stations, since : Nat, tries : Nat, seen : SUBSET Nat, last : SUBSET Lock]
Folder == [lock : SUBSET Lock, done : BOOLEAN, plan : BOOLEAN, overview : {"none", "empty", "whole"}]
Story == [inits : Nat, faults : Nat, raced : BOOLEAN, late : BOOLEAN, storms : Nat, lost : Nat]

OnboardTyped ==
  /\ onb \in Folder
  /\ ini \in [Agents -> Call]
  /\ secs \in Nat
  /\ story \in Story

\* A call that does anything is no older than a lock may grow.
Prompt == \A a \in Agents :
  ini[a].pc \notin {"idle", "wait"} => ini[a].since <= secs /\ secs - ini[a].since <= StaleSecs

\* What an agent is about to unlink it has found to be older than that.
OldSeen == \A a \in Agents :
  /\ ini[a].pc = "again" => \A t \in ini[a].seen : secs - t > StaleSecs
  /\ ini[a].pc = "unlink" => \A l \in ini[a].last : secs - l.at > StaleSecs

\* A leader's lock is there, made in the course of its call.
LockKept == ~story.raced => \A a \in Agents : Leads(a) =>
  \E t \in Nat : onb.lock = {[by |-> a, at |-> t]} /\ ini[a].since <= t

\* What a leader has written so far; crawls are counted as lost or as done.
LeaderWrote == \A a \in Agents : Leads(a) =>
  /\ ini[a].pc # "plan" => onb.plan
  /\ ini[a].pc \in {"crawl", "publish"} => onb.overview = "whole"
  /\ ini[a].pc = "publish" => story.storms = story.lost + 1
Accounted ==
  /\ onb.done => /\ onb.lock # {} /\ onb.plan /\ onb.overview = "whole"
                 /\ story.storms = story.lost + 1
                 /\ \A a \in Agents : ~Leads(a)
  /\ ~onb.done /\ (\A a \in Agents : ini[a].pc # "publish") => story.storms = story.lost
OnceOnly == ~story.raced /\ ~story.late => LeaderWrote /\ Accounted

OnboardInv == OnboardTyped /\ Prompt /\ OldSeen /\ LockKept /\ OnceOnly

LEMMA OnboardInitially == OnboardingInit => OnboardInv
  BY OnboardingAssumption DEF OnboardingInit, OnboardInv, OnboardTyped, Prompt, OldSeen, LockKept,
     OnceOnly, LeaderWrote, Accounted, Folder, Call, Story, Stations, NoCall, Leads

\* Where there is a leader, there is no other.
LEMMA TheLeader ==
  ASSUME OnboardInv, ~story.raced, NEW a \in Agents, NEW b \in Agents, Leads(a), Leads(b)
  PROVE  a = b
<1>1. PICK t \in Nat : onb.lock = {[by |-> a, at |-> t]}
  BY DEF OnboardInv, LockKept
<1>2. PICK u \in Nat : onb.lock = {[by |-> b, at |-> u]}
  BY DEF OnboardInv, LockKept
<1>3. [by |-> a, at |-> t] \in {[by |-> b, at |-> u]}
  BY <1>1, <1>2
<1>4. [by |-> a, at |-> t].by = [by |-> b, at |-> u].by
  BY <1>3
<1> QED
  BY <1>4

\* The lock of a leader is never what another agent has found to be old.
LEMMA NobodyLeads ==
  ASSUME OnboardInv, ~story.raced, NEW a \in Agents, ini[a].pc = "unlink",
         onb.lock \in {{}, ini[a].last}, NEW b \in Agents
  PROVE  ~Leads(b)
<1> SUFFICES ASSUME Leads(b) PROVE FALSE
  OBVIOUS
<1>1. PICK t \in Nat : onb.lock = {[by |-> b, at |-> t]} /\ ini[b].since <= t
  BY DEF OnboardInv, LockKept
<1>2. secs - t > StaleSecs
  <2>1. [by |-> b, at |-> t] \in ini[a].last
    BY <1>1
  <2> QED
    BY <2>1 DEF OnboardInv, OldSeen
<1>3. secs - ini[b].since <= StaleSecs
  BY DEF OnboardInv, Prompt, Leads
<1>4. ini[b].since \in Nat /\ secs \in Nat /\ StaleSecs \in Nat
  BY OnboardingAssumption DEF OnboardInv, OnboardTyped, Call
<1> QED
  BY <1>1, <1>2, <1>3, <1>4

\* A step of one agent keeps the types if what it leaves behind has them.
LEMMA TypedStep ==
  ASSUME OnboardTyped, NEW a \in Agents, NEW c \in Call, ini' = [ini EXCEPT ![a] = c],
         onb' \in Folder, secs' = secs, story' \in Story
  PROVE  OnboardTyped'
  BY DEF OnboardTyped

\* The next turn of the loop is a call again.
Turn(a) == [ini[a] EXCEPT !.pc = "look", !.tries = @ + 1, !.seen = {}, !.last = {}]

LEMMA NextTurn ==
  ASSUME OnboardTyped, NEW a \in Agents
  PROVE  /\ NoCall \in Call /\ Turn(a) \in Call
         /\ NoCall.pc = "idle" /\ Turn(a).pc = "look" /\ Turn(a).since = ini[a].since
<1>1. ini[a] \in Call /\ ini[a].tries + 1 \in Nat
  BY DEF OnboardTyped, Call
<1> QED
  BY <1>1 DEF Turn, NoCall, Call, Stations

LEMMA OnboardStep == OnboardInv /\ [OnboardingNext]_onboardVars => OnboardInv'
<1> SUFFICES ASSUME OnboardInv, [OnboardingNext]_onboardVars PROVE OnboardInv'
  OBVIOUS
<1> USE OnboardingAssumption
<1>1. CASE UNCHANGED onboardVars
  BY <1>1 DEF OnboardInv, OnboardTyped, Prompt, OldSeen, LockKept, OnceOnly, LeaderWrote, Accounted,
     Leads, onboardVars
<1>2. ASSUME NEW a \in Agents, StartInit(a) PROVE OnboardInv'
  <2>1. OnboardTyped'
    <3>1. PICK c \in Call : ini' = [ini EXCEPT ![a] = c]
      <4>1. [NoCall EXCEPT !.pc = "look", !.since = secs] \in Call
        BY <1>2 DEF NoCall, Call, Stations, OnboardInv, OnboardTyped, StartInit, Lock, Folder
      <4> QED
        BY <1>2, <4>1 DEF StartInit
    <3>2. onb' \in Folder
      BY <1>2 DEF StartInit, OnboardInv, OnboardTyped, Folder, Lock
    <3>3. story' \in Story /\ secs' = secs
      BY <1>2 DEF StartInit, OnboardInv, OnboardTyped, Story
    <3> QED
      BY <3>1, <3>2, <3>3, TypedStep DEF OnboardInv
  <2>2. (Prompt /\ OldSeen)'
    BY <1>2 DEF OnboardInv, OnboardTyped, StartInit, NoCall, Call, Prompt, OldSeen
  <2>3. LockKept'
    BY <1>2 DEF OnboardInv, OnboardTyped, StartInit, NoCall, Call, LockKept, Leads, Story
  <2>4. OnceOnly'
    BY <1>2 DEF OnboardInv, OnboardTyped, StartInit, NoCall, Call, OnceOnly, LeaderWrote, Accounted,
       Leads, Story
  <2> QED
    BY <2>1, <2>2, <2>3, <2>4 DEF OnboardInv
<1>3. ASSUME NEW a \in Agents, LookForDone(a) PROVE OnboardInv'
  <2>1. OnboardTyped'
    <3>1. PICK c \in Call : ini' = [ini EXCEPT ![a] = c]
      <4>1. NoCall \in Call /\ [ini[a] EXCEPT !.pc = "acquire"] \in Call
        BY <1>3 DEF NoCall, Call, Stations, OnboardInv, OnboardTyped, Lock, Folder
      <4> QED
        BY <1>3, <4>1 DEF LookForDone, Ends, Goto
    <3>2. onb' \in Folder
      BY <1>3 DEF LookForDone, backfill_artifacts, Ends, Goto, OnboardInv, OnboardTyped, Folder, Lock
    <3>3. story' \in Story /\ secs' = secs
      BY <1>3 DEF LookForDone, backfill_artifacts, Ends, Goto, OnboardInv, OnboardTyped, Story
    <3> QED
      BY <3>1, <3>2, <3>3, TypedStep DEF OnboardInv
  <2>2. (Prompt /\ OldSeen)'
    BY <1>3 DEF OnboardInv, OnboardTyped, LookForDone, backfill_artifacts, Ends, Goto, NoCall, Call,
       Prompt, OldSeen
  <2>3. /\ ini'[a].pc \in {"idle", "acquire"} /\ ini[a].pc = "look" /\ UNCHANGED <<secs, story>>
        /\ \A b \in Agents : b # a => ini'[b] = ini[b]
        /\ onb'.lock = onb.lock /\ onb'.done = onb.done /\ (onb.plan => onb'.plan)
        /\ onb.overview = "whole" => onb'.overview = "whole"
    <3>1. CASE onb.done
      <4>1. PICK o : /\ onb' = [onb EXCEPT !.plan = TRUE, !.overview = o]
                     /\ onb.overview = "whole" => o = "whole"
        BY <1>3, <3>1 DEF LookForDone, backfill_artifacts
      <4>2. ini' = [ini EXCEPT ![a] = NoCall] /\ ini[a].pc = "look" /\ UNCHANGED <<secs, story>>
        BY <1>3, <3>1 DEF LookForDone, Ends
      <4> QED
        BY <4>1, <4>2 DEF OnboardInv, OnboardTyped, NoCall, Folder
    <3>2. CASE ~onb.done
      BY <1>3, <3>2 DEF OnboardInv, OnboardTyped, LookForDone, Goto, Call
    <3> QED
      BY <3>1, <3>2
  <2>4. LockKept' /\ OnceOnly'
    BY <2>3 DEF OnboardInv, LockKept, OnceOnly, LeaderWrote, Accounted, Leads
  <2> QED
    BY <2>1, <2>2, <2>4 DEF OnboardInv
<1>4. ASSUME NEW a \in Agents, try_acquire(a) PROVE OnboardInv'
  <2>1. OnboardTyped'
    BY <1>4 DEF OnboardInv, OnboardTyped, try_acquire, Goto, Call, Folder, Story, Stations, Lock
  <2>2. (Prompt /\ OldSeen)'
    BY <1>4 DEF OnboardInv, OnboardTyped, try_acquire, Goto, Call, Prompt, OldSeen
  <2>3. LockKept'
    <3>1. CASE onb.lock = {}
      <4>1. \A b \in Agents : b # a => ini'[b] = ini[b]
        BY <1>4 DEF try_acquire, Goto, OnboardInv, OnboardTyped
      <4>2. ~story'.raced => \A b \in Agents : ~Leads(b)
        BY <1>4, <3>1 DEF try_acquire, OnboardInv, LockKept
      <4>3. onb'.lock = {[by |-> a, at |-> secs]} /\ ini'[a].since = ini[a].since
        BY <1>4, <3>1 DEF try_acquire, Goto, OnboardInv, OnboardTyped, Call, Folder
      <4>4. ini[a].since <= secs /\ secs \in Nat
        BY <1>4 DEF try_acquire, OnboardInv, Prompt, OnboardTyped
      <4> QED
        BY <4>1, <4>2, <4>3, <4>4 DEF LockKept, Leads
    <3>2. CASE onb.lock # {}
      BY <1>4, <3>2 DEF try_acquire, Goto, OnboardInv, OnboardTyped, Call, LockKept, Leads
    <3> QED
      BY <3>1, <3>2
  <2>4. OnceOnly'
    BY <1>4 DEF OnboardInv, OnboardTyped, try_acquire, Goto, Call, OnceOnly, LeaderWrote, Accounted,
       Leads, Story, Folder
  <2> QED
    BY <2>1, <2>2, <2>3, <2>4 DEF OnboardInv
<1>5. ASSUME NEW a \in Agents, stale_lock_mtime(a) PROVE OnboardInv'
  <2>1. OnboardTyped'
    <3>1. PICK c \in Call : ini' = [ini EXCEPT ![a] = c]
      <4> DEFINE old == {l \in onb.lock : secs - l.at > StaleSecs}
                 pc  == IF old = {} THEN "wait" ELSE "again"
      <4>1. {l.at : l \in old} \in SUBSET Nat
        BY DEF OnboardInv, OnboardTyped, Folder, Lock
      <4>2. [ini[a] EXCEPT !.pc = pc, !.seen = {l.at : l \in old}] \in Call
        BY <4>1 DEF OnboardInv, OnboardTyped, Call, Stations
      <4> QED
        BY <1>5, <4>2 DEF stale_lock_mtime
    <3>2. onb' \in Folder
      BY <1>5 DEF stale_lock_mtime, OnboardInv, OnboardTyped, Folder, Lock
    <3>3. story' \in Story /\ secs' = secs
      BY <1>5 DEF stale_lock_mtime, OnboardInv, OnboardTyped, Story
    <3> QED
      BY <3>1, <3>2, <3>3, TypedStep DEF OnboardInv
  <2>2. (Prompt /\ OldSeen)'
    BY <1>5 DEF OnboardInv, OnboardTyped, stale_lock_mtime, Call, Prompt, OldSeen
  <2>3. LockKept'
    BY <1>5 DEF OnboardInv, OnboardTyped, stale_lock_mtime, Call, LockKept, Leads, Story
  <2>4. OnceOnly'
    BY <1>5 DEF OnboardInv, OnboardTyped, stale_lock_mtime, Call, OnceOnly, LeaderWrote, Accounted,
       Leads, Story
  <2> QED
    BY <2>1, <2>2, <2>3, <2>4 DEF OnboardInv
<1>6. ASSUME NEW a \in Agents, LookAgain(a) PROVE OnboardInv'
  <2>1. OnboardTyped'
    <3>1. PICK c \in Call : ini' = [ini EXCEPT ![a] = c]
      <4>1. NoCall \in Call /\ Turn(a) \in Call
        BY NextTurn DEF OnboardInv
      <4>2. [ini[a] EXCEPT !.pc = "unlink", !.last = onb.lock] \in Call
        BY DEF Call, Stations, OnboardInv, OnboardTyped, Folder
      <4>3. CASE SameLock(a)
        <5>1. ini' = [ini EXCEPT ![a] = [ini[a] EXCEPT !.pc = "unlink", !.last = onb.lock]]
          BY <1>6, <4>3 DEF LookAgain, OnboardInv, OnboardTyped
        <5> QED
          BY <5>1, <4>2
      <4>4. CASE ~SameLock(a)
        BY <1>6, <4>1, <4>4 DEF LookAgain, Continue, Turn
      <4> QED
        BY <4>3, <4>4
    <3>2. onb' \in Folder
      BY <1>6 DEF LookAgain, Continue, OnboardInv, OnboardTyped, Folder, Lock
    <3>3. story' \in Story /\ secs' = secs
      BY <1>6 DEF LookAgain, Continue, OnboardInv, OnboardTyped, Story
    <3> QED
      BY <3>1, <3>2, <3>3, TypedStep DEF OnboardInv
  <2>2. CASE SameLock(a)
    <3>1. ini' = [ini EXCEPT ![a] = [ini[a] EXCEPT !.pc = "unlink", !.last = onb.lock]]
      BY <1>6, <2>2 DEF LookAgain, OnboardInv, OnboardTyped
    <3>2. UNCHANGED <<onb, secs, story>> /\ ini[a].pc = "again"
      BY <1>6 DEF LookAgain
    <3>3. ini'[a].pc = "unlink" /\ ini'[a].since = ini[a].since /\ ini'[a].last = onb.lock
          /\ \A b \in Agents : b # a => ini'[b] = ini[b]
      BY <3>1 DEF OnboardInv, OnboardTyped, Call
    <3>4. Prompt'
      BY <3>2, <3>3 DEF OnboardInv, Prompt
    <3>5. OldSeen'
      <4>1. \A l \in onb.lock : secs - l.at > StaleSecs
        BY <2>2, <3>2 DEF SameLock, OnboardInv, OldSeen
      <4> QED
        BY <4>1, <3>2, <3>3 DEF OnboardInv, OldSeen
    <3>6. LockKept'
      BY <3>2, <3>3 DEF OnboardInv, LockKept, Leads
    <3>7. OnceOnly'
      BY <3>2, <3>3 DEF OnboardInv, OnceOnly, LeaderWrote, Accounted, Leads
    <3> QED
      BY <2>1, <3>4, <3>5, <3>6, <3>7 DEF OnboardInv
  <2>3. CASE ~SameLock(a)
    <3>1. UNCHANGED <<onb, secs, story>> /\ ini[a].pc = "again"
      BY <1>6 DEF LookAgain
    <3>2. ini'[a].pc \in {"idle", "look"} /\ (ini'[a].pc = "look" => ini'[a].since = ini[a].since)
          /\ \A b \in Agents : b # a => ini'[b] = ini[b]
      <4>1. ini' = [ini EXCEPT ![a] = IF ini[a].tries = 2 THEN NoCall ELSE Turn(a)]
        BY <1>6, <2>3 DEF LookAgain, Continue, Turn
      <4> QED
        BY <4>1, NextTurn DEF OnboardInv, OnboardTyped
    <3>3. Prompt' /\ OldSeen'
      BY <3>1, <3>2 DEF OnboardInv, Prompt, OldSeen
    <3>4. LockKept'
      BY <3>1, <3>2 DEF OnboardInv, LockKept, Leads
    <3>5. OnceOnly'
      BY <3>1, <3>2 DEF OnboardInv, OnceOnly, LeaderWrote, Accounted, Leads
    <3> QED
      BY <2>1, <3>3, <3>4, <3>5 DEF OnboardInv
  <2> QED
    BY <2>2, <2>3
<1>7. ASSUME NEW a \in Agents, TakeOver(a) PROVE OnboardInv'
  <2>1. OnboardTyped'
    <3>1. PICK c \in Call : ini' = [ini EXCEPT ![a] = c]
      <4>1. NoCall \in Call /\ Turn(a) \in Call
        BY NextTurn DEF OnboardInv
      <4> QED
        BY <1>7, <4>1 DEF TakeOver, Continue, Turn
    <3>2. onb' \in Folder
      BY <1>7 DEF TakeOver, OnboardInv, OnboardTyped, Folder, Lock
    <3>3. story' \in Story /\ secs' = secs
      BY <1>7 DEF TakeOver, OnboardInv, OnboardTyped, Story
    <3> QED
      BY <3>1, <3>2, <3>3, TypedStep DEF OnboardInv
  <2>2. (Prompt /\ OldSeen)'
    BY <1>7 DEF OnboardInv, OnboardTyped, TakeOver, Continue, NoCall, Call, Prompt, OldSeen
  <2>3. ~story'.raced => \A b \in Agents : ~Leads(b)
    BY <1>7, NobodyLeads DEF TakeOver, OnboardInv, OnboardTyped, Story
  <2>4. LockKept'
    BY <1>7, <2>3 DEF OnboardInv, OnboardTyped, TakeOver, Continue, NoCall, Call, LockKept, Leads, Story
  <2>5. OnceOnly'
    BY <1>7, <2>3 DEF OnboardInv, OnboardTyped, TakeOver, Continue, NoCall, Call, OnceOnly,
       LeaderWrote, Accounted, Leads, Story, Folder
  <2> QED
    BY <2>1, <2>2, <2>4, <2>5 DEF OnboardInv
<1>8. ASSUME NEW a \in Agents, wait_for(a) PROVE OnboardInv'
  <2>1. OnboardTyped'
    BY <1>8 DEF OnboardInv, OnboardTyped, wait_for, Ends, NoCall, Call, Folder, Story, Stations
  <2>2. (Prompt /\ OldSeen)'
    BY <1>8 DEF OnboardInv, OnboardTyped, wait_for, Ends, NoCall, Call, Prompt, OldSeen
  <2>3. LockKept'
    BY <1>8 DEF OnboardInv, OnboardTyped, wait_for, Ends, NoCall, Call, LockKept, Leads, Story
  <2>4. OnceOnly'
    BY <1>8 DEF OnboardInv, OnboardTyped, wait_for, Ends, NoCall, Call, OnceOnly, LeaderWrote,
       Accounted, Leads, Story
  <2> QED
    BY <2>1, <2>2, <2>3, <2>4 DEF OnboardInv
<1>9. ASSUME NEW a \in Agents, Lead(a) PROVE OnboardInv'
  <2>1. OnboardTyped'
    <3>1. PICK c \in Call : ini' = [ini EXCEPT ![a] = c]
      <4>1. \A pc \in Stations : [ini[a] EXCEPT !.pc = pc] \in Call
        BY DEF Call, OnboardInv, OnboardTyped
      <4> QED
        BY <1>9, <4>1 DEF Lead, Goto, Stations
    <3>2. onb' \in Folder
      BY <1>9 DEF Lead, OnboardInv, OnboardTyped, Folder, Lock
    <3>3. story' \in Story /\ secs' = secs
      BY <1>9 DEF Lead, OnboardInv, OnboardTyped, Story
    <3> QED
      BY <3>1, <3>2, <3>3, TypedStep DEF OnboardInv
  <2>2. (Prompt /\ OldSeen)'
    BY <1>9 DEF OnboardInv, OnboardTyped, Lead, Goto, NoCall, Call, Prompt, OldSeen
  <2>3. ~story.raced => \A b \in Agents : Leads(b) => b = a
    BY <1>9, TheLeader DEF Lead, Leads
  <2>4. LockKept'
    BY <1>9, <2>3 DEF OnboardInv, OnboardTyped, Lead, Goto, NoCall, Call, LockKept, Leads, Story, Folder
  <2>5. OnceOnly'
    BY <1>9, <2>3 DEF OnboardInv, OnboardTyped, Lead, Goto, NoCall, Call, OnceOnly, LeaderWrote,
       Accounted, Leads, Story, Folder
  <2> QED
    BY <2>1, <2>2, <2>4, <2>5 DEF OnboardInv
<1>10. ASSUME NEW a \in Agents, SpawnCrawls(a) PROVE OnboardInv'
  <2>1. OnboardTyped'
    BY <1>10 DEF OnboardInv, OnboardTyped, SpawnCrawls, Goto, NoCall, Call, Folder, Story, Stations, Lock
  <2>2. (Prompt /\ OldSeen)'
    BY <1>10 DEF OnboardInv, OnboardTyped, SpawnCrawls, Goto, NoCall, Call, Prompt, OldSeen
  <2>3. ~story.raced => \A b \in Agents : Leads(b) => b = a
    BY <1>10, TheLeader DEF SpawnCrawls, Leads
  <2>4. LockKept'
    BY <1>10, <2>3 DEF OnboardInv, OnboardTyped, SpawnCrawls, Goto, NoCall, Call, LockKept, Leads,
       Story, Folder
  <2>5. OnceOnly'
    BY <1>10, <2>3 DEF OnboardInv, OnboardTyped, SpawnCrawls, Goto, NoCall, Call, OnceOnly,
       LeaderWrote, Accounted, Leads, Story, Folder
  <2> QED
    BY <2>1, <2>2, <2>4, <2>5 DEF OnboardInv
<1>11. ASSUME NEW a \in Agents, LeadFails(a) PROVE OnboardInv'
  <2>1. OnboardTyped'
    BY <1>11 DEF OnboardInv, OnboardTyped, LeadFails, Ends, NoCall, Call, Folder, Story, Stations, Lock
  <2>2. (Prompt /\ OldSeen)'
    BY <1>11 DEF OnboardInv, OnboardTyped, LeadFails, Ends, NoCall, Call, Prompt, OldSeen
  <2>3. ~story.raced => \A b \in Agents : Leads(b) => b = a
    BY <1>11, TheLeader DEF LeadFails, Leads
  <2>4. LockKept'
    BY <1>11, <2>3 DEF OnboardInv, OnboardTyped, LeadFails, Ends, NoCall, Call, LockKept, Leads, Story,
       Folder
  <2>5. OnceOnly'
    BY <1>11, <2>3 DEF OnboardInv, OnboardTyped, LeadFails, Ends, NoCall, Call, OnceOnly, LeaderWrote,
       Accounted, Leads, Story, Folder
  <2> QED
    BY <2>1, <2>2, <2>4, <2>5 DEF OnboardInv
<1>12. ASSUME NEW a \in Agents, InitCrash(a) PROVE OnboardInv'
  <2>1. OnboardTyped'
    <3>1. PICK c \in Call : ini' = [ini EXCEPT ![a] = c]
      <4>1. NoCall \in Call
        BY <1>12 DEF NoCall, Call, Stations, OnboardInv, OnboardTyped, InitCrash, Ends, Lock, Folder
      <4> QED
        BY <1>12, <4>1 DEF InitCrash, Ends
    <3>2. onb' \in Folder
      BY <1>12 DEF InitCrash, OnboardInv, OnboardTyped, Folder, Lock
    <3>3. story' \in Story /\ secs' = secs
      <4>1. story.faults + 1 \in Nat /\ story.lost \in Nat /\ story.lost + 1 \in Nat
        BY DEF OnboardInv, OnboardTyped, Story
      <4> QED
        BY <1>12, <4>1 DEF InitCrash, OnboardInv, OnboardTyped, Story
    <3> QED
      BY <3>1, <3>2, <3>3, TypedStep DEF OnboardInv
  <2>2. (Prompt /\ OldSeen)'
    BY <1>12 DEF OnboardInv, OnboardTyped, InitCrash, Ends, NoCall, Call, Prompt, OldSeen
  <2>3. ~story.raced /\ Leads(a) => \A b \in Agents : Leads(b) => b = a
    BY <1>12, TheLeader DEF InitCrash, Leads
  <2>4. LockKept'
    BY <1>12, <2>3 DEF OnboardInv, OnboardTyped, InitCrash, Ends, NoCall, Call, LockKept, Leads, Story,
       Folder
  <2>5. OnceOnly'
    BY <1>12, <2>3 DEF OnboardInv, OnboardTyped, InitCrash, Ends, NoCall, Call, OnceOnly, LeaderWrote,
       Accounted, Leads, Story, Folder
  <2> QED
    BY <2>1, <2>2, <2>4, <2>5 DEF OnboardInv
<1>13. ASSUME NEW a \in Agents, NEW ok \in BOOLEAN, Publish(a, ok) PROVE OnboardInv'
  <2>1. OnboardTyped'
    <3>1. PICK c \in Call : ini' = [ini EXCEPT ![a] = c]
      <4>1. NoCall \in Call
        BY <1>13 DEF NoCall, Call, Stations, OnboardInv, OnboardTyped, Publish, Ends, Lock, Folder
      <4> QED
        BY <1>13, <4>1 DEF Publish, Ends
    <3>2. onb' \in Folder
      BY <1>13 DEF Publish, OnboardInv, OnboardTyped, Folder, Lock
    <3>3. story' \in Story /\ secs' = secs
      <4>1. story.faults + 1 \in Nat /\ story.lost + 1 \in Nat
        BY DEF OnboardInv, OnboardTyped, Story
      <4> QED
        BY <1>13, <4>1 DEF Publish, OnboardInv, OnboardTyped, Story
    <3> QED
      BY <3>1, <3>2, <3>3, TypedStep DEF OnboardInv
  <2>2. (Prompt /\ OldSeen)'
    BY <1>13 DEF OnboardInv, OnboardTyped, Publish, Ends, NoCall, Call, Prompt, OldSeen
  <2>3. ~story.raced => \A b \in Agents : Leads(b) => b = a
    BY <1>13, TheLeader DEF Publish, Leads
  <2>4. LockKept'
    BY <1>13, <2>3 DEF OnboardInv, OnboardTyped, Publish, Ends, NoCall, Call, LockKept, Leads, Story, Folder
  <2>5. OnceOnly'
    <3> SUFFICES ASSUME ~story'.raced, ~story'.late PROVE (LeaderWrote /\ Accounted)'
      BY DEF OnceOnly
    <3>1. ~story.raced /\ ~story.late /\ Leads(a)
      BY <1>13 DEF Publish, OnboardInv, OnboardTyped, Story, Leads
    <3>2. LeaderWrote /\ Accounted
      BY <3>1 DEF OnboardInv, OnceOnly
    <3>3. story.storms = story.lost + 1 /\ onb.plan /\ onb.overview = "whole" /\ ~onb.done
      BY <1>13, <3>1, <3>2 DEF Publish, LeaderWrote, Accounted, Leads
    <3>4. onb.lock # {}
      BY <3>1 DEF OnboardInv, LockKept
    <3>5. /\ onb'.lock = onb.lock /\ onb'.done = ok /\ onb'.plan = onb.plan /\ onb'.overview = onb.overview
          /\ story'.storms = story.storms /\ story'.lost = IF ok THEN story.lost ELSE story.lost + 1
      BY <1>13, <3>3 DEF Publish, OnboardInv, OnboardTyped, Folder, Story
    <3>6. \A b \in Agents : ini'[b].pc \in {"idle", ini[b].pc} /\ ~Leads(b)'
      BY <1>13, <2>3, <3>1 DEF Publish, Ends, NoCall, OnboardInv, OnboardTyped, Call, Leads
    <3> QED
      BY <3>3, <3>4, <3>5, <3>6 DEF LeaderWrote, Accounted, OnboardInv, OnboardTyped, Story, Leads
  <2> QED
    BY <2>1, <2>2, <2>4, <2>5 DEF OnboardInv
<1>14. CASE Passes
  BY <1>14 DEF OnboardInv, OnboardTyped, Passes, Call, Prompt, OldSeen, LockKept, OnceOnly,
     LeaderWrote, Accounted,
     Leads, Lock
<1> QED
  BY <1>1, <1>2, <1>3, <1>4, <1>5, <1>6, <1>7, <1>8, <1>9, <1>10, <1>11, <1>12, <1>13,
     <1>14 DEF OnboardingNext

LEMMA OnboardInvHolds == OnboardInv => OnboardedOnce
<1> SUFFICES ASSUME OnboardInv PROVE OnboardedOnce
  OBVIOUS
<1>1. SplitOnlyByRace
  <2> SUFFICES ASSUME ~story.raced PROVE OneLeader
    BY DEF SplitOnlyByRace
  <2> DEFINE L == {a \in Agents : Leads(a)}
  <2>1. \A a, b \in L : a = b
    BY TheLeader
  <2>2. CASE L = {}
    BY <2>2, FS_EmptySet DEF OneLeader
  <2>3. CASE L # {}
    <3>1. PICK a \in L : L = {a}
      BY <2>1, <2>3
    <3> QED
      BY <3>1, FS_Singleton DEF OneLeader
  <2> QED
    BY <2>2, <2>3
<1>2. CrawlsOnce
  <2> SUFFICES ASSUME LeaderWrote, Accounted PROVE story.storms <= story.lost + 1
    BY DEF CrawlsOnce, OnboardInv, OnceOnly, OnboardTyped, Story
  <2>1. story.storms = story.lost \/ story.storms = story.lost + 1
    BY DEF LeaderWrote, Accounted, Leads, OnboardInv, OnboardTyped, Folder
  <2> QED
    BY <2>1 DEF OnboardInv, OnboardTyped, Story
<1>3. DoneIsReadable
  BY DEF DoneIsReadable, OnboardInv, OnceOnly, Accounted
<1> QED
  BY <1>1, <1>2, <1>3 DEF OnboardedOnce

-----------------------------------------------------------------------------
(* Backups: who removes directories has just completed the newest of them; *)
(* what a snapshot has copied still fits the index as long as nothing      *)
(* disturbed it.                                                           *)

Log == {l \in [lo : Nat, hi : Nat] : l.lo <= l.hi}

Snapshot == [pc : {"idle", "db", "wal", "prune", "remove"}, at : Nat,
             todo : SUBSET Nat, calm : BOOLEAN, alone : BOOLEAN]

\* The directories bear past seconds; the log of the index, if there is one,
\* continues its main file.
BackupTyped ==
  /\ time \in Nat \ {0} /\ DOMAIN snaps \subseteq 1 .. time
  /\ \A t \in DOMAIN snaps :
       /\ DOMAIN snaps[t] = {"base", "wal", "was"} /\ snaps[t].base \subseteq Nat
       /\ snaps[t].wal = {} \/ \E l \in Log : snaps[t].wal = {l}
  /\ DOMAIN op = Snappers
  /\ \A p \in Snappers :
       /\ op[p] \in Snapshot
       /\ op[p].at <= time
  /\ DOMAIN tale = {"broken", "good", "restored"}
  /\ tale.broken \in Nat /\ tale.good \in Nat /\ tale.good <= time
  /\ DOMAIN db = {"base", "wal"} /\ db.base \in Nat
  /\ \/ db.wal = {}
     \/ \E l \in Log : db.wal = {l} /\ (Usable => db.base \in l.lo .. l.hi)

HasFile(t) == snaps[t].base # {}

\* The last good snapshot is the newest, but for one that is being taken or
\* that failed; who is about to remove directories has just completed it.
NewestInv ==
  /\ \A p \in Busy : op[p].alone =>
       /\ Busy = {p}
       /\ \A t \in DOMAIN snaps : t <= op[p].at
       /\ op[p].pc = "wal" /\ op[p].at \in DOMAIN snaps => HasFile(op[p].at)
  /\ tale.good # 0 =>
       /\ tale.good \in DOMAIN snaps /\ HasFile(tale.good)
       /\ \A p \in Busy :
            /\ op[p].alone
            /\ op[p].pc \in {"db", "wal"} => tale.good < op[p].at
            /\ op[p].pc \in {"prune", "remove"} => tale.good = op[p].at
            /\ op[p].pc = "remove" => tale.good \notin op[p].todo
       /\ tale.broken = 0 => \A t \in DOMAIN snaps :
            t <= tale.good \/ \E p \in Busy : t = op[p].at

\* A main file that the log of the index continues.
Continues(b) == IF db.wal = {} THEN b = db.base ELSE \A l \in db.wal : b \in l.lo .. l.hi

\* What a snapshot that nothing has disturbed so far has copied still fits
\* the index, and a directory brings back what it was taken of.
CopiesInv ==
  /\ \A p \in Busy : op[p].calm /\ op[p].at \in DOMAIN snaps =>
       /\ op[p].pc \in {"db", "wal"} /\ db.wal = {} => snaps[op[p].at].wal = {}
       /\ op[p].pc = "wal" => \/ snaps[op[p].at].base = {}
                            \/ \E b \in Nat : snaps[op[p].at].base = {b} /\ Continues(b)
  /\ \A t \in DOMAIN snaps : snaps[t].was # {} =>
       \E b \in Nat : /\ snaps[t].base = {b}
                      /\ snaps[t].was = {Content(b, snaps[t].wal)}
  /\ tale.restored # {} => Busy = {}
  /\ RestoredIsSnapshot
  /\ \A x \in tale.restored : x.at \in DOMAIN snaps

LEMMA ContentIs ==
  /\ \A b : Content(b, {}) = b
  /\ \A b : \A l : Content(b, {l}) = IF b \in l.lo .. l.hi THEN l.hi ELSE Torn
<1>1. \A l : (CHOOSE x \in {l} : TRUE) = l
  OBVIOUS
<1>2. \A l : {l} # {}
  OBVIOUS
<1> QED
  BY <1>1, <1>2 DEF Content

\* Each main file that the log continues is the same index with it.
LEMMA IndexIs ==
  ASSUME BackupTyped, Usable
  PROVE  /\ Content(db.base, db.wal) \in Nat
         /\ db.wal = {} => Content(db.base, db.wal) = db.base
         /\ \A l \in db.wal : Content(db.base, db.wal) = l.hi
         /\ \A b : Continues(b) => Content(b, db.wal) = Content(db.base, db.wal)
         /\ Continues(db.base)
<1>1. CASE db.wal = {}
  BY <1>1, ContentIs DEF BackupTyped, Continues
<1>2. ASSUME NEW l \in Log, db.wal = {l}, db.base \in l.lo .. l.hi
      PROVE  /\ Content(db.base, db.wal) \in Nat
             /\ db.wal = {} => Content(db.base, db.wal) = db.base
             /\ \A x \in db.wal : Content(db.base, db.wal) = x.hi
             /\ \A b : Continues(b) => Content(b, db.wal) = Content(db.base, db.wal)
             /\ Continues(db.base)
  <2>1. \A b : Content(b, db.wal) = IF b \in l.lo .. l.hi THEN l.hi ELSE Torn
    BY <1>2, ContentIs
  <2> QED
    BY <1>2, <2>1 DEF Continues, Log
<1> QED
  BY <1>1, <1>2 DEF BackupTyped

LEMMA BackupInitially == BackupInit => BackupTyped /\ NewestInv /\ CopiesInv
  BY DEF BackupInit, BackupTyped, NewestInv, CopiesInv, RestoredIsSnapshot, Busy, Rest, Usable,
     Snapshot

\* What each step of a snapshot does to its process.
Bystanders(p) == DOMAIN op' = Snappers /\ \A q \in Snappers \ {p} : op'[q] = op[q]

LEMMA RemovingFacts ==
  ASSUME BackupTyped, NEW p \in Snappers, NEW todo, Removing(p, todo)
  PROVE  /\ Bystanders(p)
         /\ todo = {} => op'[p] = Rest
         /\ todo # {} => op'[p] = [op[p] EXCEPT !.pc = "remove", !.todo = todo]
  BY DEF BackupTyped, Removing, Bystanders

\* What a removal that stops half-way may leave of a directory.
Remains(t) == {snaps[t]} \cup [base : SUBSET snaps[t].base, wal : SUBSET snaps[t].wal, was : {{}}]

LEMMA RemainsFacts ==
  ASSUME BackupTyped, NEW t \in DOMAIN snaps, NEW left \in Remains(t)
  PROVE  /\ DOMAIN left = {"base", "wal", "was"} /\ left.base \subseteq snaps[t].base
         /\ left.wal = {} \/ left.wal = snaps[t].wal
         /\ left = snaps[t] \/ left.was = {}
  BY DEF BackupTyped, Remains

LEMMA BackupTypedStep == BackupTyped /\ CopiesInv /\ [BackupNext]_backupVars => BackupTyped'
<1> SUFFICES ASSUME BackupTyped, CopiesInv, [BackupNext]_backupVars PROVE BackupTyped'
  OBVIOUS
<1>a. \A who : /\ DOMAIN Disturbed(who) = Snappers
               /\ \A p \in Snappers :
                    /\ Disturbed(who)[p] \in Snapshot
                    /\ Disturbed(who)[p].at = op[p].at
  BY DEF BackupTyped, Disturbed, Snapshot
<1>b. \A p \in Snappers : op[p].pc # "idle" => Usable
  BY DEF CopiesInv, Usable, Busy
<1>0. CASE UNCHANGED backupVars
  BY <1>0 DEF backupVars, BackupTyped, Usable
<1>1. CASE Commit
  <2> DEFINE v == Content(db.base, db.wal)
  <2>1. v \in Nat /\ Usable /\ (db.wal = {} => v = db.base) /\ (\A l \in db.wal : v = l.hi)
    BY <1>1, IndexIs DEF Commit
  <2>2. UNCHANGED <<snaps, time, tale>> /\ (op' = op \/ op' = Disturbed(Busy))
    BY <1>1 DEF Commit
  <2>3. PICK anew \in BOOLEAN :
          /\ anew => db.base = v
          /\ db.wal = {} => anew
          /\ db' = [db EXCEPT !.wal = IF anew THEN {[lo |-> v, hi |-> v + 1]}
                                      ELSE {[w EXCEPT !.hi = v + 1] : w \in @}]
    BY <1>1 DEF Commit
  <2> HIDE DEF v
  <2>4. \E l \in Log : db'.wal = {l} /\ db'.base \in l.lo .. l.hi
    <3>1. CASE anew
      <4>1. [lo |-> v, hi |-> v + 1] \in Log /\ db'.wal = {[lo |-> v, hi |-> v + 1]}
        BY <2>1, <2>3, <3>1 DEF Log, BackupTyped
      <4> QED
        BY <2>1, <2>3, <3>1, <4>1 DEF BackupTyped
    <3>2. CASE ~anew
      <4>1. PICK l \in Log : db.wal = {l} /\ db.base \in l.lo .. l.hi
        BY <2>1, <2>3, <3>2 DEF BackupTyped
      <4>2. PICK m : m = [l EXCEPT !.hi = v + 1]
        OBVIOUS
      <4>3. m \in Log /\ m.lo = l.lo /\ m.hi = v + 1 /\ l.hi = v
        BY <2>1, <4>1, <4>2 DEF Log
      <4>4. db'.wal = {m} /\ db'.base = db.base
        <5>1. {[w EXCEPT !.hi = v + 1] : w \in {l}} = {m}
          BY <4>2
        <5>2. db'.wal = {[w EXCEPT !.hi = v + 1] : w \in db.wal} /\ db'.base = db.base
          BY <2>3, <3>2 DEF BackupTyped
        <5> QED
          BY <4>1, <5>1, <5>2
      <4> QED
        BY <2>1, <4>1, <4>3, <4>4 DEF BackupTyped, Log
    <3> QED
      BY <3>1, <3>2
  <2>5. DOMAIN db' = {"base", "wal"} /\ db'.base = db.base
    BY <2>3 DEF BackupTyped
  <2> QED
    BY <1>a, <2>2, <2>4, <2>5 DEF BackupTyped
<1>2. CASE Checkpoint
  <2>1. PICK l \in Log : db.wal = {l} /\ Usable
    BY <1>2 DEF Checkpoint, BackupTyped
  <2>2. Content(db.base, db.wal) = l.hi
    BY <2>1, IndexIs
  <2>3. DOMAIN db' = {"base", "wal"} /\ db'.base = l.hi /\ db'.wal = {l}
    BY <1>2, <2>1, <2>2 DEF Checkpoint, BackupTyped
  <2>4. l.hi \in Nat /\ l.hi \in l.lo .. l.hi
    BY DEF Log
  <2> QED
    BY <1>2, <2>3, <2>4 DEF Checkpoint, BackupTyped
<1>3. CASE LastClose
  <2>1. db'.base \in Nat /\ db'.wal = {} /\ DOMAIN db' = {"base", "wal"} /\ op' = Disturbed(Busy)
    BY <1>3, IndexIs DEF LastClose
  <2> QED
    BY <1>3, <1>a, <2>1 DEF LastClose, BackupTyped
<1>4. CASE Second
  <2>1. time' \in Nat /\ time' = time + 1
    BY <1>4 DEF Second, BackupTyped
  <2>2. /\ DOMAIN snaps \subseteq 1 .. time' /\ tale.good <= time'
        /\ \A p \in Snappers : op[p].at <= time'
    BY <2>1 DEF BackupTyped, Snapshot
  <2> QED
    BY <1>4, <2>1, <2>2 DEF Second, BackupTyped, Usable
<1>5. ASSUME NEW p \in Snappers, Begin(p) PROVE BackupTyped'
  <2>1. /\ DOMAIN snaps' = DOMAIN snaps \cup {time} /\ UNCHANGED <<db, time>>
        /\ \A t \in DOMAIN snaps' : snaps'[t] = IF t \in DOMAIN snaps THEN snaps[t] ELSE Empty
    BY <1>5 DEF Begin
  <2>2. /\ DOMAIN op' = Snappers
        /\ \A q \in Snappers :
             /\ op'[q] \in Snapshot
             /\ op'[q].at <= time
    <3>1. ASSUME NEW q \in Snappers
          PROVE  /\ op'[q] \in Snapshot
                 /\ op'[q].at <= time
      <4>1. CASE q = p
        <5>1. op'[q] = [Rest EXCEPT !.pc = "db", !.at = time, !.alone = Busy = {},
                           !.calm = time \notin DOMAIN snaps]
          BY <1>5, <4>1 DEF Begin
        <5>2. (Busy = {}) \in BOOLEAN /\ (time \notin DOMAIN snaps) \in BOOLEAN
          OBVIOUS
        <5> QED
          <6>1. PICK a \in BOOLEAN, c \in BOOLEAN :
                  op'[q] = [Rest EXCEPT !.pc = "db", !.at = time, !.alone = a, !.calm = c]
            BY <5>1, <5>2
          <6>2. op'[q] = [pc |-> "db", at |-> time, todo |-> {}, calm |-> c, alone |-> a]
            BY <6>1 DEF Rest
          <6> QED
            BY <6>2 DEF BackupTyped, Snapshot
      <4>2. CASE q # p /\ q \in Busy
        <5>1. op'[q] = [op[q] EXCEPT !.alone = FALSE, !.calm = @ /\ op[q].at # time]
          BY <1>5, <4>2 DEF Begin
        <5> QED
          BY <5>1 DEF BackupTyped, Snapshot
      <4>3. CASE q # p /\ q \notin Busy
        <5>1. op'[q] = op[q]
          BY <1>5, <4>3 DEF Begin
        <5> QED
          BY <5>1 DEF BackupTyped, Snapshot
      <4> QED
        BY <4>1, <4>2, <4>3
    <3> QED
      BY <1>5, <3>1 DEF Begin
  <2>3. /\ tale'.broken = tale.broken /\ tale'.good \in {0, tale.good}
        /\ tale'.restored = tale.restored /\ DOMAIN tale' = DOMAIN tale
    BY <1>5 DEF Begin, BackupTyped
  <2>4. time \in 1 .. time
    BY DEF BackupTyped
  <2>5. \A t \in DOMAIN snaps' :
          /\ DOMAIN snaps'[t] = {"base", "wal", "was"} /\ snaps'[t].base \subseteq Nat
          /\ snaps'[t].wal = {} \/ \E l \in Log : snaps'[t].wal = {l}
    BY <2>1 DEF BackupTyped, Empty
  <2> QED
    BY <2>1, <2>2, <2>3, <2>4, <2>5 DEF BackupTyped, Usable
<1>6. ASSUME NEW p \in Snappers, CopyDb(p) PROVE BackupTyped'
  <2>1. /\ UNCHANGED <<db, time, tale>> /\ DOMAIN snaps' = DOMAIN snaps
        /\ \A t \in DOMAIN snaps : /\ DOMAIN snaps'[t] = DOMAIN snaps[t]
                                   /\ snaps'[t].base \subseteq Nat
                                   /\ snaps'[t].wal = snaps[t].wal
    BY <1>6 DEF CopyDb, BackupTyped, Snapshot
  <2>2. /\ DOMAIN op' = Snappers
        /\ \A q \in Snappers :
             /\ op'[q] \in Snapshot
             /\ op'[q].at = op[q].at
    BY <1>6 DEF CopyDb, BackupTyped, Snapshot
  <2> QED
    BY <2>1, <2>2 DEF BackupTyped, Usable
<1>7. ASSUME NEW p \in Snappers, CopyWal(p) PROVE BackupTyped'
  <2>1. /\ UNCHANGED <<db, time>> /\ DOMAIN snaps' = DOMAIN snaps
        /\ \A t \in DOMAIN snaps : /\ DOMAIN snaps'[t] = DOMAIN snaps[t]
                                   /\ snaps'[t].base \subseteq Nat
                                   /\ snaps'[t].wal \in {snaps[t].wal, db.wal}
    BY <1>7 DEF CopyWal, BackupTyped, Snapshot
  <2>2. /\ DOMAIN op' = Snappers
        /\ \A q \in Snappers :
             /\ op'[q] \in Snapshot
             /\ op'[q].at = op[q].at
    BY <1>7 DEF CopyWal, BackupTyped, Snapshot
  <2>3. /\ tale'.broken = tale.broken /\ tale'.good \in {op[p].at, tale.good}
        /\ tale'.restored = tale.restored /\ DOMAIN tale' = DOMAIN tale
    BY <1>7 DEF CopyWal, BackupTyped, Snapshot
  <2>4. \A t \in DOMAIN snaps : snaps'[t].wal = {} \/ \E l \in Log : snaps'[t].wal = {l}
    BY <2>1 DEF BackupTyped
  <2>5. tale'.good \in Nat /\ tale'.good <= time
    BY <2>3 DEF BackupTyped, Snapshot
  <2> QED
    BY <2>1, <2>2, <2>3, <2>4, <2>5 DEF BackupTyped, Usable
<1>8. ASSUME NEW p \in Snappers, NEW todo \in SUBSET Nat, Removing(p, todo),
             UNCHANGED <<db, time, tale>>, DOMAIN snaps' \subseteq DOMAIN snaps,
             \A t \in DOMAIN snaps' : snaps'[t] = snaps[t]
      PROVE  BackupTyped'
  <2>1. /\ Bystanders(p)
        /\ todo = {} => op'[p] = Rest
        /\ todo # {} => op'[p] = [op[p] EXCEPT !.pc = "remove", !.todo = todo]
    BY <1>8, RemovingFacts
  <2>2. \A q \in Snappers :
             /\ op'[q] \in Snapshot
             /\ op'[q].at <= time
    <3>1. CASE todo = {}
      <4>1. op'[p] = Rest /\ Rest \in Snapshot /\ Rest.at <= time
        BY <2>1, <3>1 DEF BackupTyped, Rest, Snapshot
      <4> QED
        BY <2>1, <4>1 DEF BackupTyped, Bystanders
    <3>2. CASE todo # {}
      <4>1. op'[p] \in Snapshot /\ op'[p].at = op[p].at
        BY <1>8, <2>1, <3>2 DEF BackupTyped, Snapshot
      <4> QED
        BY <2>1, <4>1 DEF BackupTyped, Bystanders
    <3> QED
      BY <3>1, <3>2
  <2> QED
    BY <1>8, <2>1, <2>2 DEF BackupTyped, Bystanders, Usable
<1>9. ASSUME NEW p \in Snappers, List(p) PROVE BackupTyped'
  <2>1. Older(Keep) \in SUBSET Nat
    BY DEF Older, BackupTyped
  <2> QED
    BY <1>8, <1>9, <2>1 DEF List
<1>10. ASSUME NEW p \in Snappers, Remove(p) PROVE BackupTyped'
  <2>1. PICK t \in op[p].todo : /\ snaps' = [u \in DOMAIN snaps \ {t} |-> snaps[u]]
                                /\ Removing(p, op[p].todo \ {t})
    BY <1>10 DEF Remove
  <2>2. op[p].todo \ {t} \in SUBSET Nat
    BY DEF BackupTyped, Snapshot
  <2> QED
    BY <1>8, <1>10, <2>1, <2>2 DEF Remove
<1>14. ASSUME NEW p \in Snappers, RemoveSome(p) PROVE BackupTyped'
  <2>1. PICK t \in op[p].todo \cap DOMAIN snaps :
          /\ \E left \in Remains(t) : snaps' = [snaps EXCEPT ![t] = left]
          /\ Removing(p, op[p].todo \ {t}) \/ Removing(p, {})
    BY <1>14 DEF RemoveSome, Remains
  <2>2. PICK left \in Remains(t) : snaps' = [snaps EXCEPT ![t] = left]
    BY <2>1
  <2>3. /\ DOMAIN left = {"base", "wal", "was"} /\ left.base \subseteq snaps[t].base
        /\ left.wal = {} \/ left.wal = snaps[t].wal
    BY RemainsFacts
  <2>4. /\ DOMAIN snaps' = DOMAIN snaps
        /\ \A u \in DOMAIN snaps : snaps'[u] = IF u = t THEN left ELSE snaps[u]
    BY <2>2
  <2>5. \A u \in DOMAIN snaps' :
          /\ DOMAIN snaps'[u] = {"base", "wal", "was"} /\ snaps'[u].base \subseteq Nat
          /\ snaps'[u].wal = {} \/ \E l \in Log : snaps'[u].wal = {l}
    BY <2>3, <2>4 DEF BackupTyped
  <2>6. PICK todo \in SUBSET Nat : Removing(p, todo)
    BY <2>1 DEF BackupTyped, Snapshot
  <2>7. /\ Bystanders(p)
        /\ todo = {} => op'[p] = Rest
        /\ todo # {} => op'[p] = [op[p] EXCEPT !.pc = "remove", !.todo = todo]
    BY <2>6, RemovingFacts
  <2>8. op'[p] \in Snapshot /\ op'[p].at <= time
    <3>1. CASE todo = {}
      <4>1. Rest \in Snapshot /\ Rest.at <= time
        BY DEF BackupTyped, Rest, Snapshot
      <4> QED
        BY <2>7, <3>1, <4>1
    <3>2. CASE todo # {}
      BY <2>7, <3>2 DEF BackupTyped, Snapshot
    <3> QED
      BY <3>1, <3>2
  <2>9. /\ UNCHANGED <<db, time>> /\ DOMAIN tale' = DOMAIN tale /\ tale'.broken \in Nat
        /\ tale'.good = tale.good /\ tale'.restored = tale.restored
    BY <1>14 DEF RemoveSome, BackupTyped
  <2> QED
    BY <2>4, <2>5, <2>7, <2>8, <2>9 DEF BackupTyped, Bystanders, Usable
<1>11. ASSUME NEW p \in Snappers, Break(p) PROVE BackupTyped'
  <2>1. /\ DOMAIN tale' = DOMAIN tale /\ tale'.broken \in Nat /\ tale'.good = tale.good
        /\ tale'.restored = tale.restored /\ op' = [op EXCEPT ![p] = Rest]
    BY <1>11 DEF Break, BackupTyped
  <2> QED
    BY <1>11, <2>1 DEF Break, BackupTyped, Usable, Rest, Snapshot
<1>12. ASSUME NEW keep \in 0 .. Keep, prune_to_n(keep) PROVE BackupTyped'
  <2>1. /\ DOMAIN tale' = DOMAIN tale /\ tale'.broken = tale.broken
        /\ tale'.good \in {0, tale.good} /\ tale'.restored = tale.restored
    BY <1>12 DEF prune_to_n, BackupTyped
  <2>2. /\ DOMAIN snaps' \subseteq DOMAIN snaps /\ UNCHANGED <<db, op, time>>
        /\ \A t \in DOMAIN snaps' : snaps'[t] = snaps[t]
    BY <1>12 DEF prune_to_n
  <2> QED
    BY <2>1, <2>2 DEF BackupTyped, Usable
<1>13. ASSUME NEW t \in DOMAIN snaps, restore(t) PROVE BackupTyped'
  <2>1. UNCHANGED <<snaps, op, time>> /\ ~Usable'
    BY <1>13 DEF restore, Usable, BackupTyped
  <2>2. /\ DOMAIN tale' = DOMAIN tale /\ tale'.broken = tale.broken /\ tale'.good = tale.good
    BY <1>13 DEF restore, BackupTyped
  <2>3. DOMAIN db' = {"base", "wal"} /\ (db'.wal = {} \/ \E l \in Log : db'.wal = {l})
    BY <1>13 DEF restore, BackupTyped
  <2>4. db'.base \in Nat
    <3>1. db'.base = IF snaps[t].base = {} THEN db.base ELSE CHOOSE b \in snaps[t].base : TRUE
      BY <1>13 DEF restore
    <3>2. snaps[t].base # {} => (CHOOSE b \in snaps[t].base : TRUE) \in snaps[t].base
      OBVIOUS
    <3> QED
      BY <3>1, <3>2 DEF BackupTyped
  <2> QED
    BY <2>1, <2>2, <2>3, <2>4 DEF BackupTyped
<1> QED
  BY <1>0, <1>1, <1>2, <1>3, <1>4, <1>5, <1>6, <1>7, <1>9, <1>10, <1>11, <1>12, <1>13,
     <1>14
  DEF BackupNext

\* The newest directory has no newer one.
LEMMA NewestStays ==
  ASSUME NEW t \in DOMAIN snaps, NEW keep \in Nat, keep # 0,
         BackupTyped, \A u \in DOMAIN snaps : u <= t
  PROVE  t \notin Older(keep)
<1>1. {u \in DOMAIN snaps : u > t} = {}
  BY DEF BackupTyped
<1>2. Cardinality({u \in DOMAIN snaps : u > t}) = 0
  BY <1>1, FS_EmptySet
<1> QED
  BY <1>2 DEF Older

\* A step that leaves the course of every snapshot and the directories alone.
LEMMA NewestElsewhere ==
  ASSUME NewestInv, UNCHANGED <<snaps, tale>>,
         \A p \in Snappers : /\ op'[p].pc = op[p].pc /\ op'[p].at = op[p].at
                             /\ op'[p].alone = op[p].alone /\ op'[p].todo = op[p].todo
  PROVE  NewestInv'
<1>1. Busy' = Busy
  BY DEF Busy
<1> QED
  BY <1>1 DEF NewestInv, Busy, HasFile

LEMMA NewestRemoving ==
  ASSUME BackupTyped, NewestInv, NEW p \in Snappers, NEW todo, Removing(p, todo),
         tale'.good = tale.good, tale'.broken = tale.broken \/ tale'.broken # 0,
         op[p].pc \in {"prune", "remove"}, DOMAIN snaps' \subseteq DOMAIN snaps,
         tale.good # 0 => /\ tale.good \in DOMAIN snaps' /\ HasFile(tale.good)'
                          /\ tale.good \notin todo
  PROVE  NewestInv'
<1>0. /\ Bystanders(p)
      /\ todo = {} => op'[p] = Rest
      /\ todo # {} => op'[p] = [op[p] EXCEPT !.pc = "remove", !.todo = todo]
  BY RemovingFacts
<1>1. CASE todo = {}
  <2>1. Busy' = Busy \ {p}
    BY <1>0, <1>1 DEF Busy, Bystanders, Rest
  <2>2. \A q \in Busy' : op'[q] = op[q] /\ q \in Busy
    BY <1>0, <2>1 DEF Bystanders, Busy
  <2>3. p \in Busy
    BY DEF Busy
  <2> QED
    BY <2>1, <2>2, <2>3 DEF NewestInv
<1>2. CASE todo # {}
  <2>1. /\ op'[p].pc = "remove" /\ op'[p].todo = todo /\ op'[p].at = op[p].at
        /\ op'[p].alone = op[p].alone
    BY <1>0, <1>2 DEF BackupTyped, Snapshot
  <2>2. Busy' = Busy /\ p \in Busy /\ \A q \in Busy : q # p => op'[q] = op[q]
    BY <1>0, <2>1 DEF Busy, Bystanders
  <2> QED
    BY <2>1, <2>2 DEF NewestInv
<1> QED
  BY <1>1, <1>2

LEMMA NewestStep ==
  ASSUME Keep # 0, BackupTyped, NewestInv, [BackupNext]_backupVars
  PROVE  NewestInv'
<1>a. \A who, p : p \in Snappers =>
        /\ Disturbed(who)[p].pc = op[p].pc /\ Disturbed(who)[p].at = op[p].at
        /\ Disturbed(who)[p].alone = op[p].alone /\ Disturbed(who)[p].todo = op[p].todo
  BY DEF BackupTyped, Disturbed, Snapshot
<1>0. CASE UNCHANGED backupVars
  BY <1>0, NewestElsewhere DEF backupVars
<1>1. CASE Commit
  <2>1. UNCHANGED <<snaps, tale>> /\ (op' = op \/ op' = Disturbed(Busy))
    BY <1>1 DEF Commit
  <2> QED
    BY <1>a, <2>1, NewestElsewhere
<1>2. CASE Checkpoint
  BY <1>2, NewestElsewhere DEF Checkpoint
<1>3. CASE LastClose
  BY <1>a, <1>3, NewestElsewhere DEF LastClose
<1>4. CASE Second
  BY <1>4, NewestElsewhere DEF Second
<1>5. ASSUME NEW p \in Snappers, Begin(p) PROVE NewestInv'
  <2>1. /\ DOMAIN snaps' = DOMAIN snaps \cup {time} /\ p \notin Busy
        /\ \A t \in DOMAIN snaps : t \in Nat /\ t <= time
        /\ time \in Nat /\ time # 0 /\ tale.good \in Nat /\ tale.good <= time
    <3>1. DOMAIN snaps' = DOMAIN snaps \cup {time} /\ p \notin Busy
      BY <1>5 DEF Begin, Busy
    <3> QED
      BY <3>1 DEF BackupTyped
  <2>2. /\ op'[p].pc = "db" /\ op'[p].at = time /\ op'[p].todo = {}
        /\ op'[p].alone <=> Busy = {}
    <3>1. op'[p] = [Rest EXCEPT !.pc = "db", !.at = time, !.alone = Busy = {},
                       !.calm = time \notin DOMAIN snaps]
      BY <1>5 DEF Begin
    <3> QED
      BY <3>1 DEF Rest
  <2>3. \A q \in Snappers \ {p} : q \notin Busy => op'[q] = op[q]
    BY <1>5 DEF Begin
  <2>4. \A q \in Busy : ~op'[q].alone /\ op'[q].pc = op[q].pc
    <3> SUFFICES ASSUME NEW q \in Busy PROVE ~op'[q].alone /\ op'[q].pc = op[q].pc
      OBVIOUS
    <3>1. op'[q] = [op[q] EXCEPT !.alone = FALSE, !.calm = @ /\ op[q].at # time]
      BY <1>5, <2>1 DEF Begin, Busy
    <3>2. PICK c : op'[q] = [op[q] EXCEPT !.alone = FALSE, !.calm = c]
      BY <3>1
    <3>3. op[q] \in Snapshot
      BY DEF BackupTyped, Busy
    <3> QED
      BY <3>2, <3>3 DEF Snapshot
  <2>5. Busy' = Busy \cup {p}
    BY <2>2, <2>3, <2>4 DEF Busy
  <2>6. CASE Busy = {}
    <3>1. /\ tale'.good = IF time = tale.good THEN 0 ELSE tale.good
          /\ tale'.broken = tale.broken
      BY <1>5, <2>6 DEF Begin, BackupTyped
    <3>2. op'[p].alone /\ Busy' = {p}
      BY <2>2, <2>5, <2>6
    <3>3. \A t \in DOMAIN snaps' : t <= time
      BY <2>1
    <3>4. tale'.good # 0 => /\ tale'.good = tale.good /\ tale.good < time
                            /\ tale.good \in DOMAIN snaps /\ HasFile(tale.good)'
      <4>1. \A t \in DOMAIN snaps : snaps'[t] = snaps[t]
        BY <1>5 DEF Begin
      <4>2. tale'.good # 0 => /\ tale'.good = tale.good /\ tale.good < time
                              /\ tale.good \in DOMAIN snaps /\ HasFile(tale.good)
        BY <2>1, <3>1 DEF NewestInv
      <4> QED
        BY <4>1, <4>2 DEF HasFile
    <3>5. tale'.good # 0 /\ tale'.broken = 0 => \A t \in DOMAIN snaps : t <= tale.good
      BY <2>6, <3>1, <3>4 DEF NewestInv
    <3> QED
      BY <2>1, <2>2, <3>2, <3>3, <3>4, <3>5 DEF NewestInv
  <2>7. CASE Busy # {}
    <3>1. tale'.good = 0
      BY <1>5, <2>7 DEF Begin, BackupTyped
    <3> QED
      BY <2>2, <2>4, <2>5, <2>7, <3>1 DEF NewestInv
  <2> QED
    BY <2>6, <2>7
<1>6. ASSUME NEW p \in Snappers, CopyDb(p) PROVE NewestInv'
  <2>1. /\ UNCHANGED tale /\ DOMAIN snaps' = DOMAIN snaps
        /\ op[p].pc = "db" /\ op' = [op EXCEPT ![p].pc = "wal"]
    BY <1>6 DEF CopyDb
  <2>2. /\ Busy' = Busy
        /\ \A q \in Snappers :
             /\ op'[q].at = op[q].at /\ op'[q].alone = op[q].alone /\ op'[q].todo = op[q].todo
             /\ op'[q].pc = op[q].pc \/ (op'[q].pc = "wal" /\ op[q].pc = "db")
             /\ q # p => op'[q].pc = op[q].pc
    BY <2>1 DEF Busy, BackupTyped, Snapshot
  <2>3. \A t \in DOMAIN snaps : HasFile(t) \/ t = op[p].at => HasFile(t)'
    <3>1. PICK at \in DOMAIN snaps :
            at = op[p].at /\ snaps' = [snaps EXCEPT ![at].base = {db.base}, ![at].was = {}]
      BY <1>6 DEF CopyDb
    <3>2. snaps'[at].base = {db.base} /\ \A t \in DOMAIN snaps : t # at => snaps'[t] = snaps[t]
      BY <3>1 DEF BackupTyped
    <3> QED
      BY <3>1, <3>2 DEF HasFile
  <2> QED
    BY <2>1, <2>2, <2>3 DEF NewestInv, Busy
<1>7. ASSUME NEW p \in Snappers, CopyWal(p) PROVE NewestInv'
  <2>0. \A t \in DOMAIN snaps : HasFile(t)' <=> HasFile(t)
    BY <1>7 DEF CopyWal, HasFile, BackupTyped
  <2>1. /\ DOMAIN snaps' = DOMAIN snaps /\ op[p].at \in DOMAIN snaps /\ p \in Busy
        /\ op[p].pc = "wal" /\ op' = [op EXCEPT ![p].pc = "prune"]
        /\ tale'.good = IF op[p].alone THEN op[p].at ELSE tale.good
        /\ tale'.broken = tale.broken
    BY <1>7 DEF CopyWal, BackupTyped, Busy
  <2>2. /\ Busy' = Busy
        /\ \A q \in Snappers :
             /\ op'[q].at = op[q].at /\ op'[q].alone = op[q].alone /\ op'[q].todo = op[q].todo
             /\ q # p => op'[q].pc = op[q].pc
        /\ op'[p].pc = "prune"
    BY <2>1 DEF Busy, BackupTyped, Snapshot
  <2>3. CASE op[p].alone
    <3>1. Busy = {p} /\ HasFile(op[p].at) /\ \A t \in DOMAIN snaps : t <= op[p].at
      BY <2>1, <2>3 DEF NewestInv
    <3> QED
      BY <2>0, <2>1, <2>2, <2>3, <3>1 DEF NewestInv
  <2>4. CASE ~op[p].alone
    <3>1. tale.good = 0
      BY <2>1, <2>4 DEF NewestInv
    <3> QED
      BY <2>1, <2>2, <2>4, <3>1 DEF NewestInv, Busy
  <2> QED
    BY <2>3, <2>4
<1>8. ASSUME NEW p \in Snappers, List(p) PROVE NewestInv'
  <2>1. /\ op[p].pc = "prune" /\ Removing(p, Older(Keep)) /\ UNCHANGED <<snaps, tale>>
        /\ p \in Busy
    BY <1>8 DEF List, Busy
  <2>2. ASSUME tale.good # 0
        PROVE  /\ tale.good \in DOMAIN snaps /\ HasFile(tale.good)'
               /\ tale.good \notin Older(Keep)
    <3>0. HasFile(tale.good)'
      BY <2>1, <2>2 DEF NewestInv, HasFile
    <3>1. tale.good \in DOMAIN snaps /\ \A t \in DOMAIN snaps : t <= tale.good
      BY <2>1, <2>2 DEF NewestInv
    <3> QED
      BY <3>0, <3>1, NewestStays, BackupAssumption
  <2> QED
    BY <2>1, <2>2, NewestRemoving
<1>9. ASSUME NEW p \in Snappers, Remove(p) PROVE NewestInv'
  <2>1. op[p].pc = "remove" /\ p \in Busy /\ UNCHANGED tale
    BY <1>9 DEF Remove, Busy
  <2>2. PICK t \in op[p].todo : /\ snaps' = [u \in DOMAIN snaps \ {t} |-> snaps[u]]
                                /\ Removing(p, op[p].todo \ {t})
    BY <1>9 DEF Remove
  <2>3. tale.good # 0 => /\ tale.good \in DOMAIN snaps \ {t}
                         /\ tale.good \notin op[p].todo \ {t}
                         /\ HasFile(tale.good)'
    BY <2>1, <2>2 DEF NewestInv, HasFile
  <2>4. DOMAIN snaps' = DOMAIN snaps \ {t}
    BY <2>2
  <2> QED
    BY <2>1, <2>2, <2>3, <2>4, NewestRemoving
<1>13. ASSUME NEW p \in Snappers, RemoveSome(p) PROVE NewestInv'
  <2>1. op[p].pc = "remove" /\ p \in Busy /\ tale'.good = tale.good /\ tale'.broken # 0
    BY <1>13 DEF RemoveSome, Busy, BackupTyped
  <2>2. PICK t \in op[p].todo \cap DOMAIN snaps :
          /\ \E left : snaps' = [snaps EXCEPT ![t] = left]
          /\ Removing(p, op[p].todo \ {t}) \/ Removing(p, {})
    BY <1>13 DEF RemoveSome
  <2>3. DOMAIN snaps' = DOMAIN snaps /\ \A u \in DOMAIN snaps : u # t => snaps'[u] = snaps[u]
    BY <2>2
  <2>4. tale.good # 0 => tale.good \notin op[p].todo /\ tale.good \in DOMAIN snaps
    BY <2>1 DEF NewestInv
  <2>5. tale.good # 0 => HasFile(tale.good)'
    BY <2>1, <2>2, <2>3, <2>4 DEF NewestInv, HasFile
  <2>6. PICK todo \in SUBSET op[p].todo : Removing(p, todo)
    BY <2>2
  <2> QED
    BY <2>1, <2>3, <2>4, <2>5, <2>6, NewestRemoving
<1>10. ASSUME NEW p \in Snappers, Break(p) PROVE NewestInv'
  <2>1. /\ p \in Busy /\ op' = [op EXCEPT ![p] = Rest] /\ UNCHANGED snaps
        /\ tale'.good = tale.good
        /\ \/ op[p].pc \in {"db", "wal"} /\ op[p].at \notin DOMAIN snaps /\ tale' = tale
           \/ tale'.broken # 0
    BY <1>10 DEF Break, BackupTyped, Busy
  <2>2. Busy' = Busy \ {p} /\ \A q \in Busy' : q \in Busy /\ op'[q] = op[q]
    BY <2>1 DEF Busy, BackupTyped, Rest
  <2> QED
    BY <2>1, <2>2 DEF NewestInv, HasFile
<1>11. ASSUME NEW keep \in 0 .. Keep, prune_to_n(keep) PROVE NewestInv'
  <2>1. /\ DOMAIN snaps' = DOMAIN snaps \ Older(keep) /\ UNCHANGED op
        /\ tale'.good = IF Busy # {} \/ tale.broken > 0 \/ keep = 0 THEN 0 ELSE tale.good
        /\ tale'.broken = tale.broken /\ tale.broken \in Nat /\ keep \in Nat
    BY <1>11, BackupAssumption DEF prune_to_n, BackupTyped
  <2>2. Busy' = Busy
    BY <2>1 DEF Busy
  <2>4. \A u \in DOMAIN snaps' : HasFile(u)' <=> HasFile(u)
    BY <1>11 DEF prune_to_n, HasFile
  <2>3. ASSUME tale'.good # 0 PROVE tale.good \in DOMAIN snaps'
    <3>1. Busy = {} /\ tale.broken = 0 /\ keep # 0 /\ tale.good # 0
      BY <2>1, <2>3
    <3>2. tale.good \in DOMAIN snaps /\ \A t \in DOMAIN snaps : t <= tale.good
      BY <3>1 DEF NewestInv
    <3> QED
      BY <2>1, <3>1, <3>2, NewestStays
  <2> QED
    BY <2>1, <2>2, <2>3, <2>4 DEF NewestInv
<1>12. ASSUME NEW t \in DOMAIN snaps, restore(t) PROVE NewestInv'
  <2>1. UNCHANGED <<snaps, op>> /\ tale'.good = tale.good /\ tale'.broken = tale.broken
    BY <1>12 DEF restore, BackupTyped
  <2> QED
    BY <2>1 DEF NewestInv, Busy, HasFile
<1> QED
  BY <1>0, <1>1, <1>2, <1>3, <1>4, <1>5, <1>6, <1>7, <1>8, <1>9, <1>10, <1>11, <1>12,
     <1>13
  DEF BackupNext

\* The part of CopiesInv that the steps of a usable index can disturb.
Copying(p) ==
  op[p].calm /\ op[p].at \in DOMAIN snaps =>
    /\ op[p].pc \in {"db", "wal"} /\ db.wal = {} => snaps[op[p].at].wal = {}
    /\ op[p].pc = "wal" => \/ snaps[op[p].at].base = {}
                         \/ \E b \in Nat : snaps[op[p].at].base = {b} /\ Continues(b)

Faithful(t) ==
  snaps[t].was # {} => \E b \in Nat : /\ snaps[t].base = {b}
                                      /\ snaps[t].was = {Content(b, snaps[t].wal)}

LEMMA CopiesIfUsable ==
  ASSUME Usable', \A p \in Busy' : Copying(p)', \A t \in DOMAIN snaps' : Faithful(t)'
  PROVE  CopiesInv'
  BY DEF Usable, Copying, Faithful, CopiesInv, RestoredIsSnapshot

\* A step that leaves the directories alone disturbs every snapshot whose
\* copies the log no longer continues.
LEMMA CopiesElsewhere ==
  ASSUME BackupTyped, CopiesInv, Usable', UNCHANGED snaps,
         \/ op' = Disturbed(Busy)
         \/ /\ op' = op /\ (db'.wal = {} => db.wal = {})
            /\ \A b \in Nat : Continues(b) => Continues(b)'
  PROVE  CopiesInv'
<1>1. \A t \in DOMAIN snaps' : Faithful(t)'
  BY DEF Faithful, CopiesInv
<1>2. \A p \in Busy' : Copying(p)'
  <2>1. CASE op' = Disturbed(Busy)
    <3>1. \A p \in Snappers : op'[p].pc = op[p].pc /\ (p \in Busy => ~op'[p].calm)
      BY <2>1 DEF Disturbed, BackupTyped, Snapshot
    <3> QED
      BY <3>1 DEF Copying, Busy
  <2>2. CASE op' = op
    <3>1. Busy' = Busy
      BY <2>2 DEF Busy
    <3>2. CASE op # Disturbed(Busy)
      BY <2>2, <3>1, <3>2 DEF CopiesInv, Copying
    <3>3. CASE op = Disturbed(Busy)
      BY <2>1, <2>2, <3>3
    <3> QED
      BY <3>2, <3>3
  <2> QED
    BY <2>1, <2>2
<1> QED
  BY <1>1, <1>2, CopiesIfUsable

\* A step of one process that copies nothing; directories may go.
LEMMA CopiesWithout ==
  ASSUME CopiesInv, Usable', NEW p \in Snappers, Bystanders(p), UNCHANGED db,
         op'[p].pc \in {"idle", "remove"} \/ op'[p] = op[p],
         DOMAIN snaps' \subseteq DOMAIN snaps, \A t \in DOMAIN snaps' : snaps'[t] = snaps[t]
  PROVE  CopiesInv'
<1>1. \A t \in DOMAIN snaps' : Faithful(t)'
  BY DEF Faithful, CopiesInv
<1>2. \A q \in Busy' : Copying(q)'
  BY DEF Copying, Busy, CopiesInv, Bystanders, Continues
<1> QED
  BY <1>1, <1>2, CopiesIfUsable

\* A removal that stops half-way: nobody relies on what is missing.
LEMMA RemoveSomeCopies ==
  ASSUME BackupTyped, CopiesInv, NEW p \in Snappers, RemoveSome(p)
  PROVE  CopiesInv'
<1>1. PICK t \in op[p].todo \cap DOMAIN snaps :
        /\ \E left \in Remains(t) : snaps' = [snaps EXCEPT ![t] = left]
        /\ Removing(p, op[p].todo \ {t}) \/ Removing(p, {})
  BY DEF RemoveSome, Remains
<1>0. PICK left \in Remains(t) : snaps' = [snaps EXCEPT ![t] = left]
  BY <1>1
<1>2. /\ DOMAIN snaps' = DOMAIN snaps
      /\ \A u \in DOMAIN snaps : snaps'[u] = IF u = t THEN left ELSE snaps[u]
  BY <1>0
<1>3. /\ left.base \subseteq snaps[t].base
      /\ left.wal = {} \/ left.wal = snaps[t].wal
      /\ left = snaps[t] \/ left.was = {}
  BY RemainsFacts
<1>4. p \in Busy /\ UNCHANGED db /\ tale'.restored = tale.restored
  BY DEF RemoveSome, Busy, BackupTyped
<1>5. Usable'
  BY <1>4 DEF CopiesInv, Usable
<1>6. PICK todo : Removing(p, todo)
  BY <1>1
<1>7. /\ Bystanders(p)
      /\ todo = {} => op'[p] = Rest
      /\ todo # {} => op'[p] = [op[p] EXCEPT !.pc = "remove", !.todo = todo]
  BY <1>6, RemovingFacts
<1>8. op'[p].pc \in {"idle", "remove"}
  <2>1. CASE todo = {}
    BY <1>7, <2>1 DEF Rest
  <2>2. CASE todo # {}
    BY <1>7, <2>2 DEF BackupTyped, Snapshot
  <2> QED
    BY <2>1, <2>2
<1>9. \A u \in DOMAIN snaps' : Faithful(u)'
  BY <1>2, <1>3 DEF Faithful, CopiesInv
<1>10. ASSUME NEW q \in Busy' PROVE Copying(q)'
  <2>1. CASE q = p
    BY <1>8, <2>1 DEF Copying
  <2>2. CASE q # p
    <3>1. op'[q] = op[q] /\ q \in Busy
      BY <1>7, <2>2 DEF Bystanders, Busy
    <3>2. Copying(q)
      BY <3>1 DEF CopiesInv, Copying
    <3>3. \A b : Continues(b)' <=> Continues(b)
      BY <1>4 DEF Continues
    <3>4. CASE op[q].at = t
      BY <1>2, <1>3, <1>4, <3>1, <3>2, <3>3, <3>4 DEF Copying
    <3>5. CASE op[q].at # t
      BY <1>2, <1>4, <3>1, <3>2, <3>3, <3>5 DEF Copying
    <3> QED
      BY <3>4, <3>5
  <2> QED
    BY <2>1, <2>2
<1> QED
  BY <1>5, <1>9, <1>10, CopiesIfUsable

LEMMA CommitCopies ==
  ASSUME BackupTyped, CopiesInv, Commit
  PROVE  CopiesInv'
<1> DEFINE v == Content(db.base, db.wal)
<1>1. Usable /\ Usable' /\ UNCHANGED snaps
  BY DEF Commit, Usable
<1>2. PICK anew \in BOOLEAN :
        /\ anew => db.base = v
        /\ db.wal = {} => anew
        /\ db' = [db EXCEPT !.wal = IF anew THEN {[lo |-> v, hi |-> v + 1]}
                                    ELSE {[w EXCEPT !.hi = v + 1] : w \in @}]
        /\ op' = IF anew /\ db.wal # {} THEN Disturbed(Busy) ELSE op
  BY DEF Commit
<1>3. v \in Nat /\ (db.wal = {} => v = db.base) /\ \A l \in db.wal : v = l.hi
  BY <1>1, IndexIs
<1> HIDE DEF v
<1>4. CASE anew /\ db.wal # {}
  BY <1>1, <1>2, <1>4, CopiesElsewhere
<1>5. CASE anew /\ db.wal = {}
  <2>1. db'.wal = {[lo |-> v, hi |-> v + 1]} /\ op' = op
    BY <1>2, <1>5 DEF BackupTyped
  <2>2. \A b \in Nat : Continues(b) => Continues(b)'
    <3>1. PICK m : m = [lo |-> v, hi |-> v + 1]
      OBVIOUS
    <3>2. db'.wal = {m} /\ m.lo = v /\ m.hi = v + 1 /\ v \in v .. v + 1
      BY <1>3, <2>1, <3>1
    <3>3. \A b : Continues(b) => b = v
      BY <1>3, <1>5 DEF Continues
    <3>4. \A b : b = v => Continues(b)'
      BY <3>2 DEF Continues
    <3> QED
      BY <3>3, <3>4
  <2> QED
    BY <1>1, <1>5, <2>1, <2>2, CopiesElsewhere
<1>6. CASE ~anew
  <2>1. PICK l \in Log : db.wal = {l}
    BY <1>2, <1>6 DEF BackupTyped
  <2>2. PICK m : m = [l EXCEPT !.hi = v + 1]
    OBVIOUS
  <2>3. m.lo = l.lo /\ m.hi = v + 1 /\ l.hi = v
    BY <1>3, <2>1, <2>2 DEF Log
  <2>4. db'.wal = {m} /\ op' = op
    <3>1. {[w EXCEPT !.hi = v + 1] : w \in {l}} = {m}
      BY <2>2
    <3>2. db'.wal = {[w EXCEPT !.hi = v + 1] : w \in db.wal} /\ op' = op
      BY <1>2, <1>6 DEF BackupTyped
    <3> QED
      BY <2>1, <3>1, <3>2
  <2>5. \A b \in Nat : Continues(b) => Continues(b)'
    BY <1>3, <2>1, <2>3, <2>4 DEF Continues, Log
  <2> QED
    BY <1>1, <2>1, <2>4, <2>5, CopiesElsewhere
<1> QED
  BY <1>4, <1>5, <1>6

LEMMA BeginCopies ==
  ASSUME BackupTyped, CopiesInv, NEW p \in Snappers, Begin(p)
  PROVE  CopiesInv'
<1>1. /\ Usable' /\ UNCHANGED <<db, time>> /\ DOMAIN snaps' = DOMAIN snaps \cup {time}
      /\ \A t \in DOMAIN snaps' : snaps'[t] = IF t \in DOMAIN snaps THEN snaps[t] ELSE Empty
  BY DEF Begin, Usable, BackupTyped
<1>2. \A t \in DOMAIN snaps' : Faithful(t)'
  BY <1>1 DEF Faithful, CopiesInv, Empty
<1>3. ASSUME NEW q \in Busy' PROVE Copying(q)'
  <2>1. CASE q = p
    <3>1. op'[q] = [Rest EXCEPT !.pc = "db", !.at = time, !.alone = Busy = {},
                       !.calm = time \notin DOMAIN snaps]
      BY <2>1 DEF Begin
    <3>2. op'[q].pc = "db" /\ op'[q].at = time /\ (op'[q].calm => time \notin DOMAIN snaps)
      BY <3>1 DEF Rest
    <3> QED
      BY <1>1, <3>2 DEF Copying, Empty
  <2>2. CASE q # p
    <3>1. q \in Busy
      BY <2>2 DEF Begin, Busy
    <3>2. op'[q] = [op[q] EXCEPT !.alone = FALSE, !.calm = @ /\ op[q].at # time]
      BY <2>2, <3>1 DEF Begin, Busy
    <3>3. PICK c \in BOOLEAN : /\ op'[q] = [op[q] EXCEPT !.alone = FALSE, !.calm = c]
                               /\ c => op[q].calm /\ op[q].at # time
      <4>1. op[q].calm \in BOOLEAN
        BY <3>1 DEF BackupTyped, Snapshot, Busy
      <4>2. (op[q].calm /\ op[q].at # time) \in BOOLEAN
        OBVIOUS
      <4> QED
        BY <3>1, <3>2, <4>2 DEF BackupTyped, Snapshot, Busy
    <3>4. /\ op'[q].pc = op[q].pc /\ op'[q].at = op[q].at
          /\ op'[q].calm => op[q].calm /\ op[q].at # time
      BY <3>1, <3>3 DEF BackupTyped, Snapshot, Busy
    <3> QED
      BY <1>1, <3>1, <3>4 DEF CopiesInv, Copying, Continues
  <2> QED
    BY <2>1, <2>2
<1> QED
  BY <1>1, <1>2, <1>3, CopiesIfUsable

LEMMA CopyCopies ==
  ASSUME BackupTyped, CopiesInv, NEW p \in Snappers, CopyDb(p) \/ CopyWal(p)
  PROVE  CopiesInv'
<1> DEFINE at == op[p].at
<1>1. Usable /\ Usable' /\ UNCHANGED db /\ at \in DOMAIN snaps /\ p \in Busy
  BY DEF CopyDb, CopyWal, CopiesInv, Usable, Busy, BackupTyped
<1>2. /\ Continues(db.base) /\ db.base \in Nat
      /\ \A b : Continues(b) => Content(b, db.wal) = Content(db.base, db.wal)
  BY <1>1, IndexIs DEF BackupTyped
<1>3. \A q \in Busy : Copying(q)
  BY DEF CopiesInv, Copying
<1>4. \A b : Continues(b)' <=> Continues(b)
  BY <1>1 DEF Continues
<1>5. CASE CopyDb(p)
  <2>1. /\ DOMAIN snaps' = DOMAIN snaps
        /\ \A t \in DOMAIN snaps : t # at => snaps'[t] = snaps[t]
        /\ snaps'[at].base = {db.base} /\ snaps'[at].was = {} /\ snaps'[at].wal = snaps[at].wal
    BY <1>1, <1>5 DEF CopyDb, BackupTyped
  <2>2. /\ op[p].pc = "db" /\ op'[p].pc = "wal"
        /\ \A q \in Snappers : /\ op'[q].at = op[q].at /\ op'[q].calm = op[q].calm
                               /\ q # p => op'[q].pc = op[q].pc
    BY <1>5 DEF CopyDb, BackupTyped, Snapshot
  <2>3. \A t \in DOMAIN snaps' : Faithful(t)'
    BY <2>1 DEF Faithful, CopiesInv
  <2>4. ASSUME NEW q \in Busy' PROVE Copying(q)'
    <3>1. q \in Busy /\ Copying(q)
      BY <1>1, <1>3, <2>2 DEF Busy
    <3> QED
      BY <1>1, <1>2, <1>4, <2>1, <2>2, <3>1 DEF Copying, Busy
  <2> QED
    BY <1>1, <2>3, <2>4, CopiesIfUsable
<1>6. CASE CopyWal(p)
  <2> DEFINE kept == IF db.wal = {} THEN snaps[at].wal ELSE db.wal
             was == IF op[p].calm /\ snaps[at].base # {} THEN {Content(db.base, db.wal)} ELSE {}
  <2>1. /\ DOMAIN snaps' = DOMAIN snaps
        /\ \A t \in DOMAIN snaps : t # at => snaps'[t] = snaps[t]
        /\ snaps'[at].base = snaps[at].base
        /\ snaps'[at].was = was /\ snaps'[at].wal = kept
    <3>1. PICK k, x : /\ k = kept /\ x = was
                      /\ snaps' = [snaps EXCEPT ![at].wal = k, ![at].was = x]
      BY <1>6 DEF CopyWal
    <3>2. /\ DOMAIN snaps' = DOMAIN snaps
          /\ \A t \in DOMAIN snaps : t # at => snaps'[t] = snaps[t]
          /\ snaps'[at].base = snaps[at].base
          /\ snaps'[at].was = x /\ snaps'[at].wal = k
      BY <1>1, <3>1 DEF BackupTyped
    <3> QED
      BY <3>1, <3>2
  <2>2. /\ op[p].pc = "wal" /\ op'[p].pc = "prune"
        /\ \A q \in Snappers : /\ op'[q].at = op[q].at /\ op'[q].calm = op[q].calm
                               /\ q # p => op'[q].pc = op[q].pc
    BY <1>6 DEF CopyWal, BackupTyped, Snapshot
  <2>3. ASSUME NEW t \in DOMAIN snaps' PROVE Faithful(t)'
    <3>1. CASE t # at
      BY <2>1, <2>3, <3>1 DEF Faithful, CopiesInv
    <3>2. CASE t = at /\ (~op[p].calm \/ snaps[at].base = {})
      BY <2>1, <3>2 DEF Faithful
    <3>3. CASE t = at /\ op[p].calm /\ snaps[at].base # {}
      <4>1. PICK b \in Nat : snaps[at].base = {b} /\ Continues(b)
        BY <1>1, <1>3, <2>2, <3>3 DEF Copying
      <4>2. Content(b, kept) = Content(db.base, db.wal)
        <5>1. CASE db.wal = {}
          <6>1. kept = db.wal
            BY <1>1, <1>3, <2>2, <3>3, <5>1 DEF Copying
          <6> QED
            BY <1>2, <4>1, <6>1
        <5>2. CASE db.wal # {}
          BY <1>2, <4>1, <5>2
        <5> QED
          BY <5>1, <5>2
      <4> HIDE DEF kept
      <4>3. snaps'[t].base = {b} /\ snaps'[t].was = {Content(b, snaps'[t].wal)}
        BY <2>1, <3>3, <4>1, <4>2
      <4> QED
        BY <4>3 DEF Faithful
    <3> QED
      BY <3>1, <3>2, <3>3
  <2>4. ASSUME NEW q \in Busy' PROVE Copying(q)'
    <3>1. CASE q = p
      BY <2>2, <3>1 DEF Copying
    <3>2. CASE q # p
      <4>1. q \in Busy /\ Copying(q)
        BY <1>3, <2>2, <3>2 DEF Busy
      <4> QED
        BY <1>1, <1>4, <2>1, <2>2, <3>2, <4>1 DEF Copying, Busy
    <3> QED
      BY <3>1, <3>2
  <2> QED
    BY <1>1, <2>3, <2>4, CopiesIfUsable
<1> QED
  BY <1>5, <1>6

\* What restore brings back is what the directory was taken of.
LEMMA RestoreCopies ==
  ASSUME BackupTyped, CopiesInv, NEW t \in DOMAIN snaps, restore(t)
  PROVE  CopiesInv'
<1>1. UNCHANGED <<snaps, op>> /\ Busy = {}
  BY DEF restore
<1>2. /\ db'.base = IF snaps[t].base = {} THEN db.base ELSE CHOOSE b \in snaps[t].base : TRUE
      /\ db'.wal = IF snaps[t].wal = {} THEN db.wal ELSE snaps[t].wal
  BY DEF restore
<1>3. PICK stale \in BOOLEAN : /\ stale <=> snaps[t].wal = {} /\ db.wal # {}
                               /\ tale'.restored = {[at |-> t, stale |-> stale]}
  <2>1. (snaps[t].wal = {} /\ db.wal # {}) \in BOOLEAN
    OBVIOUS
  <2>2. tale'.restored = {[at |-> t, stale |-> snaps[t].wal = {} /\ db.wal # {}]}
    BY DEF restore, BackupTyped
  <2> QED
    BY <2>1, <2>2
<1>4. Busy' = {}
  BY <1>1 DEF Busy
<1>5. ASSUME ~stale PROVE snaps[t].was \subseteq {Content(db'.base, db'.wal)}
  <2>1. CASE snaps[t].was = {}
    BY <2>1
  <2>2. CASE snaps[t].was # {}
    <3>1. PICK b \in Nat : snaps[t].base = {b} /\ snaps[t].was = {Content(b, snaps[t].wal)}
      BY <2>2 DEF CopiesInv
    <3>2. (CHOOSE x \in {b} : TRUE) = b
      OBVIOUS
    <3>3. db'.base = b /\ db'.wal = snaps[t].wal
      BY <1>2, <1>3, <1>5, <3>1, <3>2
    <3> QED
      BY <3>1, <3>3
  <2> QED
    BY <2>1, <2>2
<1>6. RestoredIsSnapshot'
  BY <1>1, <1>3, <1>5 DEF RestoredIsSnapshot
<1> QED
  BY <1>1, <1>3, <1>4, <1>6 DEF CopiesInv

LEMMA CopiesStep ==
  ASSUME BackupTyped, CopiesInv, [BackupNext]_backupVars
  PROVE  CopiesInv'
<1>0. CASE UNCHANGED <<db, snaps, op, tale>>
  BY <1>0 DEF CopiesInv, RestoredIsSnapshot, Busy, Continues
<1>1. CASE Checkpoint
  <2>1. PICK l \in Log : db.wal = {l} /\ Usable
    BY <1>1 DEF Checkpoint, BackupTyped
  <2>2. db'.wal = db.wal /\ op' = op /\ UNCHANGED <<snaps, tale>>
    BY <1>1 DEF Checkpoint, BackupTyped
  <2>3. \A b \in Nat : Continues(b) => Continues(b)'
    BY <2>1, <2>2 DEF Continues
  <2> QED
    BY <2>1, <2>2, <2>3, CopiesElsewhere DEF Usable
<1>2. CASE LastClose
  <2>1. Usable' /\ UNCHANGED snaps /\ op' = Disturbed(Busy)
    BY <1>2 DEF LastClose, Usable
  <2> QED
    BY <2>1, CopiesElsewhere
<1>3. ASSUME NEW p \in Snappers, List(p) \/ Remove(p) \/ Break(p) PROVE CopiesInv'
  <2>1. p \in Busy /\ UNCHANGED db /\ tale'.restored = tale.restored
    BY <1>3 DEF List, Remove, Break, Busy, BackupTyped
  <2>2. Usable'
    BY <2>1 DEF CopiesInv, Usable
  <2>3. DOMAIN snaps' \subseteq DOMAIN snaps /\ \A t \in DOMAIN snaps' : snaps'[t] = snaps[t]
    BY <1>3 DEF List, Remove, Break
  <2>4. Bystanders(p) /\ op'[p].pc \in {"idle", "remove"}
    <3>1. CASE Break(p)
      BY <3>1 DEF Break, BackupTyped, Bystanders, Rest
    <3>2. ASSUME NEW todo, Removing(p, todo) PROVE Bystanders(p) /\ op'[p].pc \in {"idle", "remove"}
      <4>0. /\ Bystanders(p)
            /\ todo = {} => op'[p] = Rest
            /\ todo # {} => op'[p] = [op[p] EXCEPT !.pc = "remove", !.todo = todo]
        BY <3>2, RemovingFacts
      <4>1. CASE todo = {}
        BY <4>0, <4>1 DEF Rest
      <4>2. CASE todo # {}
        BY <4>0, <4>2 DEF BackupTyped, Snapshot
      <4> QED
        BY <4>1, <4>2
    <3> QED
      BY <1>3, <3>1, <3>2 DEF List, Remove
  <2> QED
    BY <2>1, <2>2, <2>3, <2>4, CopiesWithout
<1>4. ASSUME NEW keep \in 0 .. Keep, prune_to_n(keep) PROVE CopiesInv'
  <2>1. /\ Usable' /\ UNCHANGED <<db, op>>
        /\ DOMAIN snaps' \subseteq DOMAIN snaps /\ \A t \in DOMAIN snaps' : snaps'[t] = snaps[t]
    BY <1>4 DEF prune_to_n, Usable, BackupTyped
  <2>2. \A t \in DOMAIN snaps' : Faithful(t)'
    BY <2>1 DEF Faithful, CopiesInv
  <2>3. \A q \in Busy' : Copying(q)'
    BY <2>1 DEF Copying, Busy, CopiesInv, Continues
  <2> QED
    BY <2>1, <2>2, <2>3, CopiesIfUsable
<1> QED
  BY <1>0, <1>1, <1>2, <1>3, <1>4, CommitCopies, BeginCopies, CopyCopies, RestoreCopies,
     RemoveSomeCopies
  DEF BackupNext, backupVars, Second

LEMMA CopiesHold == BackupTyped /\ CopiesInv => RestoredIsSnapshot
  BY DEF CopiesInv

LEMMA NewestHolds == NewestInv => LastGoodSurvives
  BY DEF NewestInv, LastGoodSurvives, HasFile

-----------------------------------------------------------------------------
(* The theorems.                                                           *)

\* For every number of runs, pids and mishaps: a live run is shown as running
\* unless someone looked before its pid was on record, what mark_finished wrote
\* stays, and a leftover lock means a run that did not finish.
THEOREM RowsAlwaysTell == Spec => []RowsTellTruth
<1>1. Init => AgentInv
  BY AgentInitially DEF Init
<1>2. AgentInv /\ [Next]_vars => AgentInv'
  BY AgentStep DEF Next, vars, agentVars
<1>3. AgentInv => RowsTellTruth
  BY AgentInvHolds
<1> QED
  BY <1>1, <1>2, <1>3, PTL DEF Spec

\* For every number of commands, pids and other programs: --kill signals the
\* process of its command or none, unless meta.json does not say when this
\* started; and as long as a command lives that crabcc has not died over,
\* its meta.json is there and knows it.
THEOREM HandlesAlwaysHold == Spec => []HandlesHold
<1>1. Init => CmdInv
  BY CmdInitially DEF Init
<1>2. CmdInv /\ [Next]_vars => CmdInv'
  BY CmdStep DEF Next, vars, cmdVars
<1>3. CmdInv => HandlesHold
  BY CmdInvHolds
<1> QED
  BY <1>1, <1>2, <1>3, PTL DEF Spec

\* For every number of agents, calls and faults: unless a lock was unlinked
\* that had just replaced the one looked at, one agent onboards a repository,
\* its crawls start once, and what is marked as done can be read.
THEOREM AlwaysOnboardedOnce == Spec => []OnboardedOnce
<1>1. Init => OnboardInv
  BY OnboardInitially DEF Init
<1>2. OnboardInv /\ [Next]_vars => OnboardInv'
  BY OnboardStep DEF Next, vars, onboardVars
<1>3. OnboardInv => OnboardedOnce
  BY OnboardInvHolds
<1> QED
  BY <1>1, <1>2, <1>3, PTL DEF Spec

\* A snapshot that nothing disturbed, taken while the index was written and
\* checkpointed, is restored as the index it was taken of, whatever snapshots,
\* failures and prunings ran beside it and after it.
THEOREM RestoresWhatWasTaken == Spec => []RestoredIsSnapshot
<1>1. Init => BackupTyped /\ CopiesInv
  BY BackupInitially DEF Init
<1>2. BackupTyped /\ CopiesInv /\ [Next]_vars => (BackupTyped /\ CopiesInv)'
  BY BackupTypedStep, CopiesStep DEF Next, vars, backupVars
<1>3. BackupTyped /\ CopiesInv => RestoredIsSnapshot
  BY CopiesHold
<1> QED
  BY <1>1, <1>2, <1>3, PTL DEF Spec

\* If any snapshot is to be kept at all (CRABCC_BACKUPS_KEEP is not 0), the
\* last good one is also never removed, by its own pruning or by another's.
THEOREM SnapshotsAlwaysServe ==
  ASSUME Keep # 0
  PROVE  Spec => []SnapshotsServe
<1>1. Init => BackupTyped /\ CopiesInv /\ NewestInv
  BY BackupInitially DEF Init
<1>2. BackupTyped /\ CopiesInv /\ NewestInv /\ [Next]_vars
        => (BackupTyped /\ CopiesInv /\ NewestInv)'
  BY BackupTypedStep, CopiesStep, NewestStep DEF Next, vars, backupVars
<1>3. BackupTyped /\ CopiesInv /\ NewestInv => SnapshotsServe
  BY CopiesHold, NewestHolds DEF SnapshotsServe
<1> QED
  BY <1>1, <1>2, <1>3, PTL DEF Spec
=============================================================================
