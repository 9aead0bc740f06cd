--------------------------- MODULE DetachedRuns ---------------------------
(***************************************************************************)
(* Commands started with `crabcc run -- cmd`: the command leads a session   *)
(* of its own and outlives crabcc; ~/.crabcc/runs/<id>/meta.json is all by  *)
(* which it is listed and killed.  A pid is given again when its process    *)
(* has gone, so meta also keeps the second in which the process started.    *)
(***************************************************************************)
EXTENDS Naturals

CONSTANTS
  Cmds,       \* ids of runs
  CmdPids,    \* process ids
  KeepFor,    \* the age in seconds from which prune_old_runs takes a dir
  MaxClock,   \* how many seconds pass
  MaxGuests   \* how many other programs are started

VARIABLES
  cr,      \* what crabcc has done for a run: "off", "dir", "spawned", "tail", "gone", "lost"
  meta,    \* meta.json of a run: a set of at most one
  procs,   \* the process that has a pid, and the second since when
  clock,
  hit      \* other programs: how many were started, the metas that killed one
cmdVars == <<cr, meta, procs, clock, hit>>

Nobody == "nobody"
Guest  == "guest"
ASSUME CmdAssumption == {Nobody, Guest} \cap Cmds = {} /\ KeepFor \in Nat

Vacant(since)   == [who |-> Nobody, zombie |-> FALSE, since |-> since]
Started(who)    == [who |-> who, zombie |-> FALSE, since |-> clock]

CmdInit ==
  /\ cr = [c \in Cmds |-> "off"]
  /\ meta = [c \in Cmds |-> {}]
  /\ procs = [p \in CmdPids |-> Vacant(0)]
  /\ clock = 1
  /\ hit = [guests |-> 0, by |-> {}]

\* No system gives a pid again within the second in which it fell free.
Free(p)  == procs[p].who = Nobody /\ procs[p].since < clock
Pid(c)   == {p \in CmdPids : procs[p].who = c}
Live(c)  == \E p \in Pid(c) : ~procs[p].zombie
Attended(c) == cr[c] \in {"spawned", "tail"}

\* Mutant: any process under the pid will do.
alive_by_pid(m) == procs[m.pid].who # Nobody /\ ~procs[m.pid].zombie

\* A process that started in another second is not the run's, provided that
\* the second is known.
Unknown == 0
alive(m) ==
  /\ procs[m.pid].who # Nobody /\ ~procs[m.pid].zombie
  /\ m.start_tick \in {Unknown, procs[m.pid].since}

-----------------------------------------------------------------------------

MakeDir(c) ==
  /\ cr[c] = "off"
  /\ cr' = [cr EXCEPT ![c] = "dir"]
  /\ UNCHANGED <<meta, procs, clock, hit>>

SpawnCmd(c) ==
  /\ cr[c] = "dir"
  /\ \E p \in CmdPids : Free(p) /\ procs' = [procs EXCEPT ![p] = Started(c)]
  /\ cr' = [cr EXCEPT ![c] = "spawned"]
  /\ UNCHANGED <<meta, clock, hit>>

\* The start is unknown when proc_info finds nothing; so it is in a meta.json
\* of a release that did not write the field.
write_meta(c) ==
  /\ cr[c] = "spawned"
  /\ \E p \in Pid(c) : \E start \in {Unknown, procs[p].since} :
       meta' = [meta EXCEPT ![c] = {[pid |-> p, started_at |-> clock, start_tick |-> start]}]
  /\ cr' = [cr EXCEPT ![c] = "tail"]
  /\ UNCHANGED <<procs, clock, hit>>

\* A command that ends is a zombie until its parent has waited or gone.
CmdExits(c) ==
  /\ \E p \in Pid(c) :
       /\ ~procs[p].zombie
       /\ procs' = [procs EXCEPT ![p] = IF Attended(c) THEN [@ EXCEPT !.zombie = TRUE]
                                        ELSE Vacant(clock)]
  /\ UNCHANGED <<cr, meta, clock, hit>>

\* crabcc goes: at the end of the command, by detaching from it, or killed
\* before anybody could know of the command.
Leaves(c, how) ==
  /\ cr' = [cr EXCEPT ![c] = how]
  /\ procs' = [p \in CmdPids |-> IF procs[p].who = c /\ procs[p].zombie
                                 THEN Vacant(clock) ELSE procs[p]]
  /\ UNCHANGED <<meta, clock, hit>>

finish(c)   == cr[c] = "tail" /\ ~Live(c) /\ Leaves(c, "gone")
detach(c)   == cr[c] = "tail" /\ Leaves(c, "gone")
CmdCrash(c) == cr[c] \in {"dir", "spawned"} /\ Leaves(c, "lost")

\* `crabcc run --kill`: the check and the signal are microseconds apart.
kill_run(c) ==
  \E m \in meta[c] :
    /\ alive(m)
    /\ LET who == procs[m.pid].who IN
       /\ procs' = [procs EXCEPT ![m.pid] = IF who \in Cmds /\ Attended(who)
                                            THEN [@ EXCEPT !.zombie = TRUE] ELSE Vacant(clock)]
       /\ hit' = IF who = c THEN hit ELSE [hit EXCEPT !.by = @ \cup {m}]
    /\ UNCHANGED <<cr, meta, clock>>

\* Every invocation first removes the directories of old runs.
prune_old_runs(c) ==
  \E m \in meta[c] :
    /\ m.started_at + KeepFor < clock /\ ~alive(m)
    /\ meta' = [meta EXCEPT ![c] = {}]
    /\ UNCHANGED <<cr, procs, clock, hit>>

GuestStarts(p) ==
  /\ Free(p) /\ hit.guests < MaxGuests
  /\ procs' = [procs EXCEPT ![p] = Started(Guest)]
  /\ hit' = [hit EXCEPT !.guests = @ + 1]
  /\ UNCHANGED <<cr, meta, clock>>

Tick == clock < MaxClock /\ clock' = clock + 1 /\ UNCHANGED <<cr, meta, procs, hit>>

CmdNext ==
  \/ \E c \in Cmds :
       \/ MakeDir(c) \/ SpawnCmd(c) \/ write_meta(c) \/ CmdExits(c)
       \/ finish(c) \/ detach(c) \/ CmdCrash(c) \/ kill_run(c) \/ prune_old_runs(c)
  \/ \E p \in CmdPids : GuestStarts(p)
  \/ Tick

-----------------------------------------------------------------------------
(* "the OS recycled the pid onto a different process, so it is NOT our run  *)
(* and must never be signalled"; "Live runs are always kept": --kill hits   *)
(* the command of its run and nothing else, unless meta does not say when   *)
(* this started; and as long as a command lives that crabcc has not died    *)
(* over, its meta is there, and knows it.                                   *)
HandlesHold ==
  /\ \A m \in hit.by : m.start_tick = Unknown
  /\ \A c \in Cmds : Live(c) /\ cr[c] \in {"tail", "gone"} => meta[c] # {}
  /\ \A c \in Cmds : \A m \in meta[c] : Live(c) => alive(m)
=============================================================================
