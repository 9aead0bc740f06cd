---------------------------- MODULE MCHomeDir ----------------------------
(* Two runs, two commands, two snapshots and two calls of init at a time;   *)
(* whatever is left free of the pids another program may get.               *)
EXTENDS HomeDir

CONSTANTS r1, r2, c1, c2, p1, p2, s1, s2, i1, i2

MCRuns     == {r1, r2}
MCCmds     == {c1, c2}
MCPids     == {p1, p2}
MCSnappers == {s1, s2}
MCInits    == {i1, i2}
=============================================================================
