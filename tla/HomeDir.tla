------------------------------ MODULE HomeDir ------------------------------
(***************************************************************************)
(* What several crabcc processes share in files: under ~/.crabcc the rows   *)
(* of the agent runs, the directories of detached runs and the backups, and *)
(* .crabcc/onboard of a repository.  No step touches more than one of the   *)
(* four, so a behaviour is one of any.                                      *)
(***************************************************************************)
EXTENDS AgentRuns, DetachedRuns, Backups, Onboarding

CONSTANT Families   \* of the four
VARIABLE family   \* which one a behaviour is about
vars == <<family, agentVars, cmdVars, backupVars, onboardVars>>

Init ==
  /\ family \in Families
  /\ AgentInit /\ CmdInit /\ BackupInit /\ OnboardingInit

Next ==
  /\ UNCHANGED family
  /\ \/ family = "agents" /\ AgentNext /\ UNCHANGED <<cmdVars, backupVars, onboardVars>>
     \/ family = "commands" /\ CmdNext /\ UNCHANGED <<agentVars, backupVars, onboardVars>>
     \/ family = "backups" /\ BackupNext /\ UNCHANGED <<agentVars, cmdVars, onboardVars>>
     \/ family = "onboarding" /\ OnboardingNext /\ UNCHANGED <<agentVars, cmdVars, backupVars>>

\* A scheduler starts the guard every 20 minutes, and it runs to its end
\* unless it crashes.  Nothing says that an agent ever ends, or a command.
Fairness == WF_vars(family = "agents" /\ Sweep /\ UNCHANGED <<family, cmdVars, backupVars, onboardVars>>)

Spec == Init /\ [][Next]_vars /\ Fairness
=============================================================================
