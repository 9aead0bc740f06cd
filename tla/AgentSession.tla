----------------------------- MODULE AgentSession -----------------------------
(***************************************************************************)
(* What a memory.db keeps of agent sessions while several calls run at     *)
(* once, each a process or a thread: crabcc read and the MCP read tool     *)
(* (read::compute), crabcc shell record, crabcc loop check, and reminders. *)
(* A step is a file access or a statement; the agent gets an answer in a   *)
(* step of its own and a call may die before.                              *)
(***************************************************************************)
EXTENDS SessionLedger

CONSTANTS
  Calls,            \* calls that may be under way at once
  Files, Commands, Sessions, Messages,
  NoCall,
  FirstTree,        \* what the files hold at first
  MaxCalls,         \* bound: calls
  MaxEdits,         \* bound: edits
  MaxClock          \* bound: seconds

\* Paths and commands are keys of different tables.
ASSUME AgentSessionAssumption ==
  /\ NoSession \notin Sessions /\ FirstTree \in [Files -> Contents]
  /\ IsFiniteSet(Calls) /\ Files \cap Commands = {}
  /\ MaxCalls \in Nat /\ MaxEdits \in Nat /\ MaxClock \in Nat

VARIABLES
  tree, clock,
  reads, shells, rem,   \* the tables
  call,                 \* the calls under way
  used,                 \* counters of the bounds
  past                  \* history for the properties; no guard reads it

vars == <<tree, clock, reads, shells, rem, call, used, past>>

NoOut == [mode |-> "none", keep |-> NoBody, against |-> NoBody]
Idle  == [st |-> "idle", op |-> NoCall, key |-> NoCall, s |-> NoSession, mode |-> "auto",
          v |-> NoBody, cached |-> {}, out |-> NoOut, n |-> 0, hits |-> {}, must |-> {}]

\* past.seen: bodies a session has been sent of a file, in full or as a diff;
\* past.viewed: contents of which it has had an outline or an excerpt;
\* past.lost: files and sessions one of whose answers never arrived;
\* past.answers: how often a read or a command was answered;
\* past.given: how often a message was delivered;
\* past.posted: messages that were set.
Init ==
  /\ tree = FirstTree /\ clock = 0
  /\ reads = [k \in {} |-> 0] /\ shells = [k \in {} |-> 0] /\ rem = [i \in {} |-> 0]
  /\ call = [c \in Calls |-> Idle]
  /\ used = [calls |-> 0, edits |-> 0]
  /\ past = [seen |-> [k \in Files \X Sessions |-> {}],
             viewed |-> [k \in Files \X Sessions |-> {}], lost |-> {},
             answers |-> [k \in (Files \X Sessions)
                            \cup (Commands \X (Sessions \cup {NoSession})) |-> 0],
             given |-> [m \in Messages |-> 0], posted |-> {}]

Begin(c, start) ==
  /\ call[c].st = "idle"
  /\ used.calls < MaxCalls /\ used' = [used EXCEPT !.calls = @ + 1]
  /\ call' = [call EXCEPT ![c] = start]

\* The agent gets the answer, or never does.
Finish(c) == call' = [call EXCEPT ![c] = Idle]

-----------------------------------------------------------------------------
(* Reading a file.                                                         *)

\* The file is read before the ledger is asked.
ReadFile(c, f, s, mode) ==
  /\ Begin(c, [Idle EXCEPT !.st = IF s = NoSession THEN "resolve" ELSE "lookup",
                !.op = "read", !.key = f, !.s = s, !.mode = mode, !.v = tree[f]])
  /\ UNCHANGED <<tree, clock, reads, shells, rem, past>>

Lookup(c) ==
  /\ call[c].st = "lookup"
  /\ call' = [call EXCEPT ![c].st = "resolve", ![c].cached = lookup(reads, call[c].key, call[c].s)]
  /\ UNCHANGED <<tree, clock, reads, shells, rem, used, past>>

\* The answer is made up and recorded; a call without a session is not.
Upsert(c) ==
  LET x == call[c]
      k == <<x.key, x.s>>
      how == resolve(x.mode, x.v, x.cached) IN
  /\ x.st = "resolve"
  /\ \E out \in Served(how, x.v, x.cached) :
       /\ call' = [call EXCEPT ![c].st = "reply", ![c].out = out]
       /\ reads' = IF x.s = NoSession THEN reads
                   ELSE upsert(reads, x.key, x.s, x.v, out, x.cached)
       /\ past' = IF x.s # NoSession /\ x.mode \in {"stub", "entropy"}
                    THEN [past EXCEPT !.viewed[k] = @ \cup {x.v}] ELSE past
  /\ UNCHANGED <<tree, clock, shells, rem, used>>

\* "is not valid UTF-8"
ReadFails(c) ==
  LET x == call[c] IN
  /\ x.st = "resolve" /\ Served(resolve(x.mode, x.v, x.cached), x.v, x.cached) = {}
  /\ Finish(c)
  /\ UNCHANGED <<tree, clock, reads, shells, rem, used, past>>

ReadReply(c) ==
  LET x == call[c]
      k == <<x.key, x.s>> IN
  /\ x.st = "reply" /\ x.op = "read"
  /\ Finish(c)
  /\ past' = IF x.s = NoSession THEN past
             ELSE [past EXCEPT !.answers[k] = @ + 1,
                     !.seen[k] = IF x.out.mode \in {"full", "diff"} THEN @ \cup {x.out.keep} ELSE @]
  /\ UNCHANGED <<tree, clock, reads, shells, rem, used>>

-----------------------------------------------------------------------------
(* Recording a command and looking for loops.                              *)

Record(c, cmd, s) ==
  /\ Begin(c, [Idle EXCEPT !.st = "recorded", !.op = "record", !.key = cmd, !.s = s])
  /\ shells' = record(shells, cmd, s)
  /\ UNCHANGED <<tree, clock, reads, rem, past>>

\* The count is read back on another connection; the answer goes out with it.
ReadBack(c) ==
  LET x == call[c]
      k == <<x.key, x.s>> IN
  /\ x.st = "recorded"
  /\ Finish(c)
  /\ past' = [past EXCEPT !.answers[k] = @ + 1]
  /\ UNCHANGED <<tree, clock, reads, shells, rem, used>>

Detect(c, s) ==
  /\ Begin(c, [Idle EXCEPT !.st = "detecting", !.op = "detect", !.s = s,
                !.hits = query_reads(reads, s),
                !.must = {k \in DOMAIN past.answers :
                            past.answers[k] >= Threshold /\ s \in {NoSession, k[2]}}])
  /\ UNCHANGED <<tree, clock, reads, shells, rem, past>>

DetectShells(c) ==
  /\ call[c].st = "detecting"
  /\ call' = [call EXCEPT ![c].st = "found", ![c].hits = @ \cup query_shells(shells, call[c].s)]
  /\ UNCHANGED <<tree, clock, reads, shells, rem, used, past>>

DetectReply(c) ==
  /\ call[c].st = "found"
  /\ Finish(c)
  /\ UNCHANGED <<tree, clock, reads, shells, rem, used, past>>

-----------------------------------------------------------------------------
(* Reminders.                                                              *)

SetReminder(c, m, due) ==
  /\ Begin(c, Idle) /\ m \notin past.posted
  /\ rem' = remind_set(rem, m, due)
  /\ past' = [past EXCEPT !.posted = @ \cup {m}]
  /\ UNCHANGED <<tree, clock, reads, shells>>

\* Polling is not counted: agents poll as often as they like.
Poll(c) ==
  /\ call[c].st = "idle" /\ Due(rem, clock) # {}
  /\ call' = [call EXCEPT ![c] = [Idle EXCEPT !.st = "polled", !.op = "poll",
                !.hits = {rem[i].msg : i \in Due(rem, clock)}]]
  /\ rem' = remind_poll(rem, clock)
  /\ UNCHANGED <<tree, clock, reads, shells, used, past>>

PollReply(c) ==
  /\ call[c].st = "polled"
  /\ Finish(c)
  /\ past' = [past EXCEPT !.given =
                [m \in Messages |-> IF m \in call[c].hits THEN @[m] + 1 ELSE @[m]]]
  /\ UNCHANGED <<tree, clock, reads, shells, rem, used>>

DeleteReminder(c, id) ==
  /\ Begin(c, Idle)
  /\ rem' = remind_delete(rem, id)
  /\ UNCHANGED <<tree, clock, reads, shells, past>>

-----------------------------------------------------------------------------
\* A call dies: what it has recorded stays, its answer is lost.
Die(c) ==
  LET x == call[c] IN
  /\ x.st # "idle"
  /\ Finish(c)
  /\ past' = IF (x.st = "reply" /\ x.s # NoSession) \/ x.st = "recorded"
               THEN [past EXCEPT !.lost = @ \cup {<<x.key, x.s>>}] ELSE past
  /\ UNCHANGED <<tree, clock, reads, shells, rem, used>>

Edit(f, v) ==
  /\ v # tree[f] /\ used.edits < MaxEdits /\ used' = [used EXCEPT !.edits = @ + 1]
  /\ tree' = [tree EXCEPT ![f] = v]
  /\ UNCHANGED <<clock, reads, shells, rem, call, past>>

Tick ==
  /\ clock < MaxClock /\ clock' = clock + 1
  /\ UNCHANGED <<tree, reads, shells, rem, call, used, past>>

Next ==
  \/ \E c \in Calls :
       \/ \E f \in Files, s \in Sessions \cup {NoSession}, mode \in Modes : ReadFile(c, f, s, mode)
       \/ Lookup(c) \/ Upsert(c) \/ ReadFails(c) \/ ReadReply(c)
       \/ \E cmd \in Commands, s \in Sessions \cup {NoSession} : Record(c, cmd, s)
       \/ \E s \in Sessions \cup {NoSession} : Detect(c, s)
       \/ ReadBack(c) \/ DetectShells(c) \/ DetectReply(c)
       \/ \E m \in Messages, due \in 0 .. MaxClock : SetReminder(c, m, due)
       \/ \E id \in DOMAIN rem : DeleteReminder(c, id)
       \/ Poll(c) \/ PollReply(c)
       \/ Die(c)
  \/ \E f \in Files, v \in Contents : Edit(f, v)
  \/ Tick

Spec == Init /\ [][Next]_vars

-----------------------------------------------------------------------------
(* Properties.                                                             *)

\* Bodies of a file a session has been sent or is about to be.
Sent(k) ==
  past.seen[k] \cup
    {call[c].out.keep : c \in {d \in Calls :
       call[d].st = "reply" /\ call[d].op = "read" /\ <<call[d].key, call[d].s>> = k}}

Replying(c, mode) ==
  /\ call[c].st = "reply" /\ call[c].op = "read" /\ call[c].s # NoSession
  /\ call[c].out.mode = mode

\* A diff is one against a body the session has been sent ("the caller
\* already has the old version in context"), whatever stubs, excerpts,
\* edits and other calls lie between, unless an answer was lost.
DiffAppliesToSent ==
  \A c \in Calls : Replying(c, "diff") =>
    LET k == <<call[c].key, call[c].s>> IN
    k \in past.lost \/ call[c].out.against \in Sent(k)

\* An auto read that answers with the outline alone is of a content the
\* session has been sent, or has asked to be shown an outline or an excerpt
\* of, unless an answer was lost.
StubOnlyOfServed ==
  \A c \in Calls : Replying(c, "stub") /\ call[c].mode = "auto" =>
    LET k == <<call[c].key, call[c].s>> IN
    \/ k \in past.lost
    \/ Prefix[call[c].v] \in Sent(k)
    \/ call[c].v \in past.viewed[k]

\* What read leaves out the session has.
ReadsBuildOnSent == DiffAppliesToSent /\ StubOnlyOfServed

\* loop check names every read and every command that had been answered
\* Threshold times in a session when it began, however the calls overlapped.
LoopsAreFound == \A c \in Calls : call[c].st = "found" => call[c].must \subseteq call[c].hits

\* "each due reminder is claimed by exactly one caller": a message is given
\* to one poller at most, counting the answers under way.
DeliveredOnce ==
  \A m \in Messages :
    past.given[m] + Cardinality({c \in Calls : call[c].st = "polled" /\ m \in call[c].hits}) <= 1
=============================================================================
