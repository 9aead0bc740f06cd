-------------------------------- MODULE Crawl --------------------------------
(***************************************************************************)
(* Crawl workers (crabcc crawl, crawl::crawl) over one shared frontier.  A *)
(* worker claims a batch, spawns one task per URL, and drains the finished *)
(* tasks one by one: archive the page, settle the row, enqueue the links.  *)
(* Every SQL statement is a step of its own, so a crash, a panic of a task *)
(* or another worker can come between any two.                             *)
(*                                                                         *)
(* Pages are data: Links, Final and Host describe the web.  A page without *)
(* links stands for the Reddit pages that are fetched through their API.   *)
(***************************************************************************)
EXTENDS Frontier, ProxyPool, TLC

CONSTANTS
  Seed, Hosts, Links, Final, Host, MaxDepth, SameHost,
  Unsafe,           \* URLs the ingest check refuses
  Workers,
  Options,          \* Options[w]: <<concurrency, proxy list, enforce_ssrf>> w
                    \* is started with; an empty list stands for no --proxify
  PerHost,          \* per_host_concurrency
  MaxPages,         \* --max-pages
  Flaky,            \* bound: URLs for which a request can fail
  MaxFaults,        \* bound: crashes and panics together
  MaxOpens          \* bound: times a worker is started

ASSUME CrawlAssumption ==
  /\ Seed \in Urls
  /\ Links \in [Urls -> SUBSET Urls]
  /\ Final \in [Urls -> Urls]
  /\ Host \in [Urls -> Hosts]
  /\ MaxDepth \in Nat /\ SameHost \in BOOLEAN
  /\ Unsafe \subseteq Urls /\ Flaky \subseteq Urls
  /\ Options \in [Workers -> SUBSET (Nat \X Seq(Proxies) \X BOOLEAN)]
  /\ PerHost \in Nat /\ MaxPages \in Nat
  /\ MaxFaults \in Nat /\ MaxOpens \in Nat

VARIABLES
  rows, pages,      \* the frontier
  wk,               \* local state of every worker
  faults, opens,    \* counters of the bounds
  past              \* history for the properties; no guard reads it

vars == <<rows, pages, wk, faults, opens, past>>

NoTask  == [u \in {} |-> 0]
\* streak and condemned are history: failures in a row by proxy, and the
\* proxies that reached MaxFailures of them.
Fresh(conc, proxies, enforce) ==
  [stage |-> "off", conc |-> conc, pool |-> from_list(proxies), enforce |-> enforce,
   budget |-> 0, fetched |-> 0, scope |-> Host[Seed], task |-> NoTask, cur |-> Seed,
   links |-> {}, streak |-> [p \in Proxies |-> 0], condemned |-> {}]
Off     == Fresh(0, <<>>, FALSE)
Running(w) == wk[w].stage \notin {"off", "ended"}
Held(w) == DOMAIN wk[w].task
Drop(t, u) == [x \in DOMAIN t \ {u} |-> t[x]]

Init ==
  /\ rows = NoRows /\ pages = NoRows
  /\ wk = [w \in Workers |-> Off]
  /\ faults = 0 /\ opens = 0
  /\ past = [stolen |-> {}, overlap |-> FALSE]

-----------------------------------------------------------------------------
(* Starting a worker.                                                      *)

\* SqliteFrontier::open or PostgresFrontier::connect, and the proxy list
\* (an empty one ends the command before it crawls).
Open(w) ==
  /\ ~Running(w) /\ opens < MaxOpens
  /\ \E o \in Options[w] :
       wk' = [wk EXCEPT ![w] = [Fresh(o[1], o[2], o[3]) EXCEPT !.stage = "open"]]
  /\ rows' = init(rows)
  /\ opens' = opens + 1
  /\ past' = [past EXCEPT
       !.stolen = @ \cup UNION {Held(v) \cap InState(rows, "inflight") :
                                  v \in Workers \ {w}},
       !.overlap = @ \/ \E v \in Workers \ {w} : Running(v)]
  /\ UNCHANGED <<pages, faults>>

\* The pages archived so far are charged against the budget; then the seed
\* is enqueued.
Begin(w) ==
  /\ wk[w].stage = "open"
  /\ wk' = [wk EXCEPT ![w].stage = "drain",
              ![w].budget = IF MaxPages > counts(pages)
                              THEN MaxPages - counts(pages) ELSE 0]
  /\ rows' = enqueue(rows, Seed, 0)
  /\ UNCHANGED <<pages, faults, opens, past>>

-----------------------------------------------------------------------------
(* A batch.                                                                *)

Idle(w) == wk[w].stage = "drain" /\ Held(w) = {}

Claim(w) ==
  /\ Idle(w) /\ wk[w].fetched < wk[w].budget
  /\ \E B \in Batches(rows, Smaller(wk[w].budget - wk[w].fetched, wk[w].conc)) :
       /\ B # {}
       /\ rows' = claim(rows, B)
       /\ wk' = [wk EXCEPT ![w].task = [u \in B |->
                      [depth |-> rows[u].depth, st |-> "waiting", via |-> Direct]]]
  /\ UNCHANGED <<pages, faults, opens, past>>

\* Mutant: an empty batch does not end the loop.
StopAtBudget(w) ==
  /\ Idle(w)
  /\ wk[w].fetched >= wk[w].budget
  /\ wk' = [wk EXCEPT ![w] = [Fresh(wk[w].conc, <<>>, wk[w].enforce) EXCEPT !.stage = "ended"]]
  /\ UNCHANGED <<rows, pages, faults, opens, past>>

Stop(w) ==
  /\ Idle(w)
  /\ wk[w].fetched >= wk[w].budget \/ Batches(rows, wk[w].conc) = {{}}
  /\ wk' = [wk EXCEPT ![w] = [Fresh(wk[w].conc, <<>>, wk[w].enforce) EXCEPT !.stage = "ended"]]
  /\ UNCHANGED <<rows, pages, faults, opens, past>>

Fetching(w) == {u \in Held(w) : wk[w].task[u].st = "fetching"}

\* A task checks its URL, takes the two permits and picks a client.
StartFetch(w, u) ==
  /\ u \in Held(w) /\ wk[w].task[u].st = "waiting"
  /\ ~(wk[w].enforce /\ u \in Unsafe)
  /\ Cardinality(Fetching(w)) < wk[w].conc
  /\ Cardinality({v \in Fetching(w) : Host[v] = Host[u]}) < PerHost
  /\ LET choice == select(wk[w].pool) IN
       wk' = [wk EXCEPT ![w].pool = choice.pool,
                ![w].task[u].st = "fetching", ![w].task[u].via = choice.via]
  /\ UNCHANGED <<rows, pages, faults, opens, past>>

Refuse(w, u) ==
  /\ u \in Held(w) /\ wk[w].task[u].st = "waiting"
  /\ wk[w].enforce /\ u \in Unsafe
  /\ wk' = [wk EXCEPT ![w].task[u].st = "noanswer"]
  /\ UNCHANGED <<rows, pages, faults, opens, past>>

\* html: a page; broken: an answer whose body cannot be read; noanswer: a
\* failure of the connection, which is held against the proxy.
Fetched(w, u, out) ==
  LET via == wk[w].task[u].via
      answered == out # "noanswer"
      n == IF answered \/ via = Direct THEN 0 ELSE wk[w].streak[via] + 1
  IN
  /\ u \in Fetching(w)
  /\ wk' = [wk EXCEPT ![w].task[u].st = out,
              ![w].pool = report(@, via, answered),
              ![w].streak = IF via = Direct THEN @ ELSE [@ EXCEPT ![via] = n],
              ![w].condemned = IF via # Direct /\ n >= MaxFailures
                                 THEN @ \cup {via} ELSE @]
  /\ UNCHANGED <<rows, pages, faults, opens, past>>

FetchOk(w, u) == Fetched(w, u, "html")

FetchFails(w, u) ==
  /\ u \in Flaky
  /\ \E out \in {"broken", "noanswer"} : Fetched(w, u, out)

Panic(w, u) ==
  /\ u \in Fetching(w)
  /\ faults < MaxFaults /\ faults' = faults + 1
  /\ wk' = [wk EXCEPT ![w].task[u].st = "panic"]
  /\ UNCHANGED <<rows, pages, opens, past>>

-----------------------------------------------------------------------------
(* Draining it.  JoinSet yields finished tasks in any order.               *)

Settled == {"html", "broken", "noanswer"}
Redirected(st, u) == IF st = "noanswer" THEN u ELSE Final[u]

\* Mutant: the row is settled without its page.
JoinUnarchived(w, u) ==
  /\ wk[w].stage = "drain" /\ u \in Held(w)
  /\ wk[w].task[u].st \in Settled
  /\ wk' = [wk EXCEPT ![w].stage = "mark", ![w].cur = u]
  /\ UNCHANGED <<rows, pages, faults, opens, past>>

Join(w, u) ==
  /\ wk[w].stage = "drain" /\ u \in Held(w)
  /\ wk[w].task[u].st \in Settled
  /\ pages' = record_page(pages, u, wk[w].task[u].depth, wk[w].task[u].st = "html")
  /\ wk' = [wk EXCEPT ![w].stage = "mark", ![w].cur = u]
  /\ UNCHANGED <<rows, faults, opens, past>>

\* A task that panicked is skipped; its row stays inflight.
SkipPanic(w, u) ==
  /\ wk[w].stage = "drain" /\ u \in Held(w)
  /\ wk[w].task[u].st = "panic"
  /\ wk' = [wk EXCEPT ![w].task = Drop(@, u)]
  /\ UNCHANGED <<rows, pages, faults, opens, past>>

\* The links of a page that are worth a row of their own.
Wanted(u, d, scope, enforce) ==
  {v \in IF d < MaxDepth THEN Links[Final[u]] ELSE {} :
     /\ SameHost => Host[v] = scope
     /\ ~(enforce /\ v \in Unsafe)}

\* Once its last link is enqueued a page is off the worker's hands.
NextPage(me) ==
  IF me.links # {} THEN me
  ELSE [me EXCEPT !.stage = "drain", !.task = Drop(me.task, me.cur), !.cur = Seed]

\* Mutant: the scope stays the host of the seed as it was typed.
MarkScoped(w) ==
  LET u == wk[w].cur
      t == wk[w].task[u]
      links == IF t.st = "html" THEN Wanted(u, t.depth, wk[w].scope, wk[w].enforce) ELSE {}
  IN
  /\ wk[w].stage = "mark"
  /\ rows' = mark(rows, u, IF t.st = "html" THEN "done" ELSE "error")
  /\ wk' = [wk EXCEPT ![w] = NextPage([wk[w] EXCEPT !.stage = "follow",
              !.fetched = @ + 1, !.links = links])]
  /\ UNCHANGED <<pages, faults, opens, past>>

\* The row is settled and the page counted.  The seed's page, the only one
\* of depth 0, sets the scope to the host it was redirected to.
Mark(w) ==
  LET u == wk[w].cur
      t == wk[w].task[u]
      scope == IF t.depth = 0 THEN Host[Redirected(t.st, u)] ELSE wk[w].scope
      links == IF t.st = "html" THEN Wanted(u, t.depth, scope, wk[w].enforce) ELSE {}
  IN
  /\ wk[w].stage = "mark"
  /\ rows' = mark(rows, u, IF t.st = "html" THEN "done" ELSE "error")
  /\ wk' = [wk EXCEPT ![w] = NextPage([wk[w] EXCEPT !.stage = "follow",
              !.fetched = @ + 1, !.scope = scope, !.links = links])]
  /\ UNCHANGED <<pages, faults, opens, past>>

Follow(w, v) ==
  /\ wk[w].stage = "follow" /\ v \in wk[w].links
  /\ rows' = enqueue(rows, v, wk[w].task[wk[w].cur].depth + 1)
  /\ wk' = [wk EXCEPT ![w] = NextPage([wk[w] EXCEPT !.links = @ \ {v}])]
  /\ UNCHANGED <<pages, faults, opens, past>>

\* The process dies, or a statement of the frontier fails and ends it.
Crash(w) ==
  /\ Running(w)
  /\ faults < MaxFaults /\ faults' = faults + 1
  /\ wk' = [wk EXCEPT ![w] = Off]
  /\ UNCHANGED <<rows, pages, opens, past>>

-----------------------------------------------------------------------------
Task(w, u) ==
  StartFetch(w, u) \/ Refuse(w, u) \/ FetchOk(w, u) \/ Join(w, u) \/ SkipPanic(w, u)

Work(w) ==
  \/ Begin(w) \/ Claim(w) \/ Stop(w) \/ Mark(w)
  \/ \E u \in Urls : Task(w, u) \/ Follow(w, u)

Next ==
  \E w \in Workers :
    \/ Open(w) \/ Work(w) \/ Crash(w)
    \/ \E u \in Urls : FetchFails(w, u) \/ Panic(w, u)

Spec == Init /\ [][Next]_vars
\* A started worker runs on: its tasks hold a timeout, its statements wait
\* for a write lock that is always released.
FairSpec == Spec /\ \A w \in Workers : WF_vars(Work(w))

-----------------------------------------------------------------------------
(* Properties.                                                             *)

\* "Each row goes to exactly one worker": two workers work on one URL only
\* if a frontier was opened while the first of them was fetching it.
ClaimedOnce ==
  \A v, w \in Workers : v # w => Held(v) \cap Held(w) \subseteq past.stolen

\* No row is forgotten: as long as nothing fails, a row in flight is in some
\* worker's hands, and a finished page is in the archive.
NothingLost ==
  /\ faults = 0 => \A u \in InState(rows, "inflight") :
                     \E w \in Workers : u \in Held(w)
  /\ InState(rows, "done") \cup InState(rows, "error") \subseteq DOMAIN pages

\* The budget holds across restarts and crashes as long as the workers of
\* a frontier follow one another.
ArchiveWithinBudget == past.overlap \/ Cardinality(DOMAIN pages) <= MaxPages

\* A healthy proxy is never lost, a dead one never comes back: a proxy is
\* out of a worker's rotation exactly if it has failed MaxFailures times in
\* a row at some time, or no client could be built for it.
RotationIsHealthy ==
  \A w \in Workers : Running(w) =>
    /\ Live(wk[w].pool) \cap wk[w].condemned = {}
    /\ \E o \in Options[w] : o[1] = wk[w].conc /\ \A i \in DOMAIN o[2] :
         o[2][i] \in Live(wk[w].pool) \cup wk[w].condemned \cup (Proxies \ Buildable)

\* Which URLs can be reached in n hops or fewer, by the pages as they are.
Hops(n, enforce) ==
  {path \in [0 .. n -> Urls] :
     /\ path[0] = Seed
     /\ \A i \in 1 .. n : path[i] \in
          {path[i - 1]} \cup Wanted(path[i - 1], 0, Host[Final[Seed]], enforce)}
Within(n, enforce) == {path[n] : path \in Hops(n, enforce)}

Calm == faults = 0 /\ opens = 1
Finished(w) == wk[w].stage = "ended" /\ InState(rows, "queued") = {}

\* A crawl that nothing disturbs and whose budget is not spent has settled
\* every link of every page above MaxDepth.
CrawlIsClosed ==
  \A w \in Workers : Calm /\ Finished(w) =>
    \A u \in DOMAIN rows :
      /\ rows[u].state \in {"done", "error"}
      /\ rows[u].state = "done" =>
           Wanted(u, rows[u].depth, Host[Final[Seed]], wk[w].enforce)
             \subseteq DOMAIN rows

\* One fetch at a time it is breadth-first: it has visited exactly the
\* pages within MaxDepth hops of the seed, and their depths are distances.
BreadthFirst ==
  \A w \in Workers : Calm /\ Finished(w) /\ wk[w].conc = 1 /\ InState(rows, "error") = {} =>
    /\ DOMAIN rows = Within(MaxDepth, wk[w].enforce)
    /\ \A u \in DOMAIN rows : \A n \in 0 .. MaxDepth :
         u \in Within(n, wk[w].enforce) <=> rows[u].depth <= n

\* A started worker comes to an end.
CrawlEnds == \A w \in Workers : Running(w) ~> ~Running(w)

\* The frontier behaves as Visits says, whatever the workers do.
V == INSTANCE Visits WITH
       depth   <- [u \in DOMAIN rows |-> rows[u].depth],
       settled <- InState(rows, "done") \cup InState(rows, "error")
ImplementsVisits == V!Spec
=============================================================================
