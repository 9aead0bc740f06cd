---------------------------- MODULE SessionLedger ----------------------------
(***************************************************************************)
(* The statements of the agent-session tables of memory.db: session_reads, *)
(* session_shells and reminders.  A file's content is one value, which     *)
(* also stands for its hash; Prefix gives the body that is served of it,   *)
(* at most MAX_FULL_BYTES, and Binary holds the contents that are not      *)
(* UTF-8.                                                                  *)
(***************************************************************************)
EXTENDS Integers, FiniteSets, Functions

CONSTANTS Contents, Binary, Bodies, Prefix, NoBody, NoSession, Threshold

ASSUME LedgerAssumption ==
  /\ Binary \subseteq Contents /\ Prefix \in [Contents -> Bodies] /\ NoBody \notin Bodies
  /\ Threshold \in Nat \ {0}

Modes == {"auto", "full", "stub", "entropy", "diff"}

\* The row of a path and a session, if there is one.
lookup(reads, f, s) == {reads[k] : k \in DOMAIN reads \cap {<<f, s>>}}

\* How a call is answered, given the row that was looked up.
resolve(mode, v, cached) ==
  LET unchanged == \E r \in cached : r.hash = v
      baseline  == \E r \in cached : r.base # NoBody IN
  CASE mode = "auto" /\ unchanged                           -> "stub"
    [] mode \in {"auto", "diff"} /\ baseline /\ ~unchanged  -> "diff"
    [] mode \in {"auto", "diff"} /\ ~(baseline /\ ~unchanged)
         /\ ~(mode = "auto" /\ unchanged)                   -> "full"
    [] OTHER                                                -> mode

\* What may be sent and kept: a text that cannot be decoded ends the call
\* before it is recorded; a diff is sent if it is not empty and shorter than
\* the body, and the whole body otherwise.
Served(resolved, v, cached) ==
  LET whole == [mode |-> "full", keep |-> Prefix[v], against |-> NoBody] IN
  CASE resolved = "stub" -> {[mode |-> "stub", keep |-> NoBody, against |-> NoBody]}
    [] resolved # "stub" /\ v \in Binary -> {}
    [] resolved = "full" /\ v \notin Binary -> {whole}
    [] resolved = "entropy" /\ v \notin Binary ->
         {[mode |-> "entropy", keep |-> NoBody, against |-> NoBody]}
    [] resolved = "diff" /\ v \notin Binary ->
         {whole} \cup {[mode |-> "diff", keep |-> Prefix[v], against |-> r.base] :
                         r \in {x \in cached : x.base # Prefix[v]}}

\* Mutant: a view that is not the body replaces the baseline, too.
upsert_view(reads, f, s, v, out, cached) ==
  LET k == <<f, s>>
      new == [hash |-> v, base |-> Prefix[v],
              count |-> IF k \in DOMAIN reads THEN reads[k].count + 1 ELSE 1] IN
  [x \in DOMAIN reads \cup {k} |-> IF x = k THEN new ELSE reads[x]]

\* Mutant: the count is the one that was looked up, plus one.
upsert_looked_up(reads, f, s, v, out, cached) ==
  LET k == <<f, s>>
      new == [hash |-> v,
              base |-> IF out.keep = NoBody /\ k \in DOMAIN reads THEN reads[k].base
                       ELSE out.keep,
              count |-> IF cached = {} THEN 1 ELSE 1 + (CHOOSE r \in cached : TRUE).count] IN
  [x \in DOMAIN reads \cup {k} |-> IF x = k THEN new ELSE reads[x]]

\* INSERT ... ON CONFLICT(path, session_id) DO UPDATE: the new hash, one
\* more read, and COALESCE of the bodies.
upsert(reads, f, s, v, out, cached) ==
  LET k == <<f, s>>
      new == [hash |-> v,
              base |-> IF out.keep = NoBody /\ k \in DOMAIN reads THEN reads[k].base
                       ELSE out.keep,
              count |-> IF k \in DOMAIN reads THEN reads[k].count + 1 ELSE 1] IN
  [x \in DOMAIN reads \cup {k} |-> IF x = k THEN new ELSE reads[x]]

\* A call without a session is stored under one, so that it conflicts.
record(shells, cmd, s) ==
  [x \in DOMAIN shells \cup {<<cmd, s>>} |->
     IF x # <<cmd, s>> THEN shells[x] ELSE IF x \in DOMAIN shells THEN shells[x] + 1 ELSE 1]

\* query_reads and query_shells: of one session, or of all.
query_reads(reads, s) ==
  {k \in DOMAIN reads : reads[k].count >= Threshold /\ s \in {NoSession, k[2]}}
query_shells(shells, s) ==
  {k \in DOMAIN shells : shells[k] >= Threshold /\ s \in {NoSession, k[2]}}

-----------------------------------------------------------------------------
\* Reminders: id -> message, time, delivered.  The id of a deleted last row
\* is given again.
remind_set(rem, msg, due) ==
  LET id == IF DOMAIN rem = {} THEN 1
            ELSE 1 + CHOOSE i \in DOMAIN rem : \A j \in DOMAIN rem : j <= i IN
  [i \in DOMAIN rem \cup {id} |->
     IF i = id THEN [msg |-> msg, due |-> due, delivered |-> FALSE] ELSE rem[i]]

Due(rem, now) == {i \in DOMAIN rem : rem[i].due <= now /\ ~rem[i].delivered}

\* Mutant: the rows are not marked.
remind_poll_peek(rem, now) == rem

\* UPDATE reminders SET delivered = 1 ... RETURNING.
remind_poll(rem, now) ==
  [i \in DOMAIN rem |-> [rem[i] EXCEPT !.delivered = @ \/ i \in Due(rem, now)]]

remind_delete(rem, id) == Restrict(rem, DOMAIN rem \ {id})
=============================================================================
