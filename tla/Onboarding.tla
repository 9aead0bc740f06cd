----------------------------- MODULE Onboarding -----------------------------
(***************************************************************************)
(* `crabcc init`: of the agents that start it in one repository at once,    *)
(* the one that creates .crabcc/onboard/.lock leads; it writes the          *)
(* artifacts, spawns the background crawls and publishes .done.  The lock   *)
(* is never removed after a success; one older than LOCK_STALE_SECS is      *)
(* taken for that of a leader that died.                                    *)
(***************************************************************************)
EXTENDS Naturals, FiniteSets

CONSTANTS
  Agents,      \* processes that run `crabcc init`
  StaleSecs,   \* LOCK_STALE_SECS
  MaxSecs,     \* how much time passes
  MaxInits,    \* how often init is started
  MaxFaults    \* crashes and failed writes

ASSUME OnboardingAssumption == StaleSecs \in Nat

VARIABLES
  onb,     \* the directory: lock, a set of at most one; done; plan and overview
  ini,     \* the call of each agent
  secs,    \* the time
  story    \* calls and faults so far; (history) what went wrong, storms of crawls
onboardVars == <<onb, ini, secs, story>>

NoCall == [pc |-> "idle", since |-> 0, tries |-> 0, seen |-> {}, last |-> {}]

OnboardingInit ==
  /\ onb = [lock |-> {}, done |-> FALSE, plan |-> FALSE, overview |-> "none"]
  /\ ini = [a \in Agents |-> NoCall]
  /\ secs = 0
  /\ story = [inits |-> 0, faults |-> 0, raced |-> FALSE, late |-> FALSE, storms |-> 0, lost |-> 0]

Leads(a) == ini[a].pc \in {"plan", "create", "overview", "crawl", "publish"}
Goto(a, pc) == ini' = [ini EXCEPT ![a].pc = pc]
Ends(a) == ini' = [ini EXCEPT ![a] = NoCall]

\* The next turn of the loop, of which there are three.
Continue(a) ==
  ini' = [ini EXCEPT ![a] =
            IF ini[a].tries = 2 THEN NoCall
            ELSE [ini[a] EXCEPT !.pc = "look", !.tries = @ + 1, !.seen = {}, !.last = {}]]

-----------------------------------------------------------------------------

StartInit(a) ==
  /\ ini[a].pc = "idle" /\ story.inits < MaxInits
  /\ ini' = [ini EXCEPT ![a] = [NoCall EXCEPT !.pc = "look", !.since = secs]]
  /\ story' = [story EXCEPT !.inits = @ + 1]
  /\ UNCHANGED <<onb, secs>>

\* Missing artifacts are written again, from whichever version is installed.
backfill_artifacts ==
  onb' = [onb EXCEPT !.plan = TRUE, !.overview = IF @ = "none" THEN "whole" ELSE @]

LookForDone(a) ==
  /\ ini[a].pc = "look"
  /\ IF onb.done THEN backfill_artifacts /\ Ends(a) ELSE Goto(a, "acquire") /\ UNCHANGED onb
  /\ UNCHANGED <<secs, story>>

\* create_new: the election.
try_acquire(a) ==
  /\ ini[a].pc = "acquire"
  /\ IF onb.lock = {}
     THEN onb' = [onb EXCEPT !.lock = {[by |-> a, at |-> secs]}] /\ Goto(a, "plan")
     ELSE Goto(a, "inspect") /\ UNCHANGED onb
  /\ UNCHANGED <<secs, story>>

\* A lock that has gone meanwhile counts as fresh.
stale_lock_mtime(a) ==
  /\ ini[a].pc = "inspect"
  /\ LET old == {l \in onb.lock : secs - l.at > StaleSecs} IN
     ini' = [ini EXCEPT ![a].pc = IF old = {} THEN "wait" ELSE "again",
                        ![a].seen = {l.at : l \in old}]
  /\ UNCHANGED <<onb, secs, story>>

\* Mutant: the lock is not looked at again.
SameLockUnread(a) == TRUE

SameLock(a) == {l.at : l \in onb.lock} = ini[a].seen

LookAgain(a) ==
  /\ ini[a].pc = "again"
  /\ IF SameLock(a) THEN ini' = [ini EXCEPT ![a].pc = "unlink", ![a].last = onb.lock]
                    ELSE Continue(a)
  /\ UNCHANGED <<onb, secs, story>>

\* By name: whatever lock is there now goes.
TakeOver(a) ==
  /\ ini[a].pc = "unlink"
  /\ onb' = [onb EXCEPT !.lock = {}]
  /\ story' = [story EXCEPT !.raced = @ \/ onb.lock \notin {{}, ini[a].last},
                        !.late = @ \/ onb.done]
  /\ Continue(a)
  /\ UNCHANGED secs

\* wait_for: until there is a done marker, or for 45 seconds.
wait_for(a) ==
  /\ ini[a].pc = "wait"
  /\ Ends(a)
  /\ UNCHANGED <<onb, secs, story>>

-----------------------------------------------------------------------------
(* The leader.  A file is created or emptied before it is written.         *)

Lead(a) ==
  /\ \/ ini[a].pc = "plan"     /\ onb' = [onb EXCEPT !.plan = TRUE]        /\ Goto(a, "create")
     \/ ini[a].pc = "create"   /\ onb' = [onb EXCEPT !.overview = "empty"] /\ Goto(a, "overview")
     \/ ini[a].pc = "overview" /\ onb' = [onb EXCEPT !.overview = "whole"] /\ Goto(a, "crawl")
  /\ UNCHANGED <<secs, story>>

SpawnCrawls(a) ==
  /\ ini[a].pc = "crawl"
  /\ story' = [story EXCEPT !.storms = @ + 1]
  /\ Goto(a, "publish")
  /\ UNCHANGED <<onb, secs>>

\* A marker that cannot be written is ignored.
Publish(a, ok) ==
  /\ ini[a].pc = "publish"
  /\ ok \/ story.faults < MaxFaults
  /\ onb' = [onb EXCEPT !.done = @ \/ ok]
  /\ story' = IF ok THEN story ELSE [story EXCEPT !.faults = @ + 1, !.lost = @ + 1]
  /\ Ends(a)
  /\ UNCHANGED secs

\* lead returns an error: the lock goes, by its name.
LeadFails(a) ==
  /\ ini[a].pc \in {"plan", "create", "overview"} /\ story.faults < MaxFaults
  /\ onb' = [onb EXCEPT !.lock = {}]
  /\ story' = [story EXCEPT !.faults = @ + 1]
  /\ Ends(a)
  /\ UNCHANGED secs

InitCrash(a) ==
  /\ ini[a].pc # "idle" /\ story.faults < MaxFaults
  /\ story' = [story EXCEPT !.faults = @ + 1, !.lost = IF ini[a].pc = "publish" THEN @ + 1 ELSE @]
  /\ Ends(a)
  /\ UNCHANGED <<onb, secs>>

\* Nobody is stopped in the middle of a call for longer than a lock lives.
Passes ==
  /\ secs < MaxSecs
  /\ \A a \in Agents : ini[a].pc \notin {"idle", "wait"} => secs + 1 - ini[a].since <= StaleSecs
  /\ secs' = secs + 1
  /\ UNCHANGED <<onb, ini, story>>

OnboardingNext ==
  \/ \E a \in Agents :
       \/ StartInit(a) \/ LookForDone(a) \/ try_acquire(a) \/ stale_lock_mtime(a) \/ LookAgain(a)
       \/ TakeOver(a) \/ wait_for(a) \/ Lead(a) \/ SpawnCrawls(a) \/ LeadFails(a) \/ InitCrash(a)
       \/ \E ok \in BOOLEAN : Publish(a, ok)
  \/ Passes

-----------------------------------------------------------------------------
(* Properties.                                                             *)

\* "so we never unlink a fresh leader's lock that just replaced it (which would
\* split leadership)": at most one agent leads.
OneLeader == Cardinality({a \in Agents : Leads(a)}) <= 1

\* As far as the second look protects it: two agents lead at once only if the
\* lock was replaced after the last look of an agent and before it unlinked it.
SplitOnlyByRace == story.raced \/ OneLeader

\* "does the research + spawns the background doc-crawls once": again only when
\* a leader got no further than its crawls, after a race, or when somebody who
\* had looked for .done too early took over the lock of a leader that was done.
CrawlsOnce == story.raced \/ story.late \/ story.storms <= story.lost + 1

\* ".done ONLY on success": what is marked as onboarded can be read.
DoneIsReadable == onb.done /\ ~story.raced /\ ~story.late => onb.plan /\ onb.overview = "whole"

\* However many agents are launched at once, and whichever of them die.
OnboardedOnce == SplitOnlyByRace /\ CrawlsOnce /\ DoneIsReadable
=============================================================================
