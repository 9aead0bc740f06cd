----------------------------- MODULE CrawlProofs -----------------------------
(***************************************************************************)
(* Crawl implements Visits; no two workers hold one URL unless the         *)
(* frontier was reopened under the first of them; no row or page is lost,  *)
(* the budget is kept, the proxy rotation stays healthy, and a crawl that  *)
(* nothing disturbs reaches what it may, breadth first: for any web, any   *)
(* number of workers, any bounds.                                          *)
(***************************************************************************)
EXTENDS Crawl, FiniteSetTheorems, WellFoundedInduction, TLAPS

Depths(r)    == [u \in DOMAIN r |-> r[u].depth]
SettledIn(r) == InState(r, "done") \cup InState(r, "error")
Typed(r)     == r \in [DOMAIN r -> Row]

USE CrawlAssumption, PoolAssumption

-----------------------------------------------------------------------------
(* What the frontier's statements do to depths and settled rows.           *)

LEMMA InitRows ==
  ASSUME NEW r, Typed(r)
  PROVE  /\ Typed(init(r)) /\ DOMAIN init(r) = DOMAIN r
         /\ Depths(init(r)) = Depths(r)
         /\ SettledIn(init(r)) = SettledIn(r)
         /\ \A u \in DOMAIN r : r[u].state = "queued" => init(r)[u].state = "queued"
         /\ \A u \in DOMAIN r : init(r)[u].state = "queued"
                                  => r[u].state \in {"queued", "inflight"}
  BY DEF Typed, init, Depths, SettledIn, InState, Row, States

LEMMA ClaimRows ==
  ASSUME NEW r, Typed(r), NEW B, B \subseteq InState(r, "queued")
  PROVE  /\ Typed(claim(r, B)) /\ DOMAIN claim(r, B) = DOMAIN r
         /\ Depths(claim(r, B)) = Depths(r)
         /\ SettledIn(claim(r, B)) = SettledIn(r)
         /\ \A u \in DOMAIN r : claim(r, B)[u].state = "queued"
                                  => r[u].state = "queued" /\ u \notin B
  BY DEF Typed, claim, Depths, SettledIn, InState, Row, States

LEMMA MarkRows ==
  ASSUME NEW r, Typed(r), NEW u \in DOMAIN r, NEW s \in {"done", "error"}
  PROVE  /\ Typed(mark(r, u, s)) /\ DOMAIN mark(r, u, s) = DOMAIN r
         /\ Depths(mark(r, u, s)) = Depths(r)
         /\ SettledIn(mark(r, u, s)) = SettledIn(r) \cup {u}
         /\ \A x \in DOMAIN r : mark(r, u, s)[x].state = "queued"
                                  => r[x].state = "queued"
  BY DEF Typed, mark, Depths, SettledIn, InState, Row, States

-----------------------------------------------------------------------------
(* The inductive invariant.                                                *)

Fields == {"stage", "conc", "pool", "enforce", "budget", "fetched", "scope",
           "task", "cur", "links", "streak", "condemned"}

RowsOK ==
  /\ Typed(rows) /\ DOMAIN rows \subseteq Urls
  /\ \A u \in DOMAIN rows : rows[u].depth = 0 => u = Seed

\* A worker's tasks are rows of the frontier; the page whose links it
\* follows is settled, and each of those links may be followed.
WorkerOK(w) ==
  /\ DOMAIN wk[w] = Fields
  /\ wk[w].scope \in V!Scopes
  /\ Held(w) \subseteq DOMAIN rows
  /\ \A u \in Held(w) : /\ DOMAIN wk[w].task[u] = {"depth", "st", "via"}
                        /\ wk[w].task[u].depth = rows[u].depth
  /\ wk[w].stage \in {"mark", "follow"} => wk[w].cur \in Held(w)
  /\ wk[w].stage = "follow" =>
       /\ wk[w].cur \in SettledIn(rows)
       /\ wk[w].links # {} => rows[wk[w].cur].depth < MaxDepth
       /\ wk[w].links \subseteq Links[Final[wk[w].cur]]
       /\ SameHost => \A v \in wk[w].links : Host[v] \in V!Scopes

\* A row in a worker's hands is back in the queue only if it was stolen.
QueuedAreStolen ==
  \A w \in Workers : \A u \in Held(w) :
    u \in DOMAIN rows /\ rows[u].state = "queued" => u \in past.stolen

IInv ==
  /\ RowsOK
  /\ DOMAIN wk = Workers
  /\ \A w \in Workers : WorkerOK(w)
  /\ DOMAIN past = {"stolen", "overlap"}
  /\ QueuedAreStolen
  /\ ClaimedOnce

LEMMA InitIInv == Init => IInv
  BY DEF Init, IInv, RowsOK, Typed, NoRows, Row, WorkerOK, Off, Fresh, Fields, NoTask,
         Held, QueuedAreStolen, ClaimedOnce, V!Scopes

-----------------------------------------------------------------------------
(* Steps that change no row and leave every worker but w alone.  Tasks may *)
(* change state or disappear.                                              *)

LEMMA LocalStep ==
  ASSUME IInv, NEW w \in Workers, rows' = rows, past' = past,
         DOMAIN wk' = Workers, \A v \in Workers \ {w} : wk'[v] = wk[v],
         DOMAIN wk'[w].task \subseteq DOMAIN wk[w].task,
         WorkerOK(w)'
  PROVE  IInv'
<1>1. RowsOK' BY DEF IInv, RowsOK
<1>2. \A v \in Workers : WorkerOK(v)'
  BY DEF IInv, WorkerOK, Held
<1>3. \A v \in Workers : Held(v)' \subseteq Held(v)
  BY DEF Held
<1>4. QueuedAreStolen' /\ ClaimedOnce'
  BY <1>3 DEF IInv, QueuedAreStolen, ClaimedOnce
<1> QED BY <1>1, <1>2, <1>4 DEF IInv

\* A task of w changes its state; stage, scope and the page in hand stay.
SameWorker(w) ==
  /\ DOMAIN wk' = Workers /\ \A v \in Workers \ {w} : wk'[v] = wk[v]
  /\ DOMAIN wk'[w] = Fields
  /\ wk'[w].scope = wk[w].scope /\ wk'[w].stage = wk[w].stage
  /\ wk'[w].cur = wk[w].cur /\ wk'[w].links = wk[w].links
  /\ DOMAIN wk'[w].task = DOMAIN wk[w].task
  /\ \A x \in DOMAIN wk[w].task :
       /\ DOMAIN wk'[w].task[x] = DOMAIN wk[w].task[x]
       /\ wk'[w].task[x].depth = wk[w].task[x].depth

LEMMA TaskStep ==
  ASSUME IInv, NEW w \in Workers, rows' = rows, past' = past, SameWorker(w)
  PROVE  IInv'
<1>1. WorkerOK(w)
  BY DEF IInv
<1>2. WorkerOK(w)'
  BY <1>1 DEF WorkerOK, Held, SameWorker
<1> QED BY <1>2, LocalStep DEF SameWorker

LEMMA LocalActions ==
  ASSUME IInv, NEW w \in Workers,
         \/ Stop(w) \/ Crash(w)
         \/ \E u \in Urls : \/ StartFetch(w, u) \/ Refuse(w, u) \/ FetchOk(w, u)
                            \/ FetchFails(w, u) \/ Panic(w, u)
                            \/ Join(w, u) \/ SkipPanic(w, u)
  PROVE  IInv' /\ rows' = rows
<1>0. WorkerOK(w) /\ DOMAIN wk = Workers /\ DOMAIN wk[w] = Fields
  BY DEF IInv, WorkerOK
<1>a. \A u \in Held(w) : DOMAIN wk[w].task[u] = {"depth", "st", "via"}
  BY <1>0 DEF WorkerOK
<1>1. CASE Stop(w)
  BY <1>0, <1>1, LocalStep DEF Stop, WorkerOK, Fresh, Fields, Held, NoTask, V!Scopes
<1>2. CASE Crash(w)
  BY <1>0, <1>2, LocalStep DEF Crash, Off, WorkerOK, Fresh, Fields, Held, NoTask, V!Scopes
<1>3. ASSUME NEW u \in Urls, StartFetch(w, u) PROVE IInv' /\ rows' = rows
  <2>0. PICK pl, via : wk' = [wk EXCEPT ![w].pool = pl,
                                ![w].task[u].st = "fetching", ![w].task[u].via = via]
    BY <1>3 DEF StartFetch
  <2>1. u \in Held(w)
    BY <1>3 DEF StartFetch
  <2>2. SameWorker(w)
    BY <1>0, <1>a, <2>0, <2>1 DEF SameWorker, Held, Fields
  <2> QED BY <1>3, <2>2, TaskStep DEF StartFetch
<1>4. ASSUME NEW u \in Urls, Refuse(w, u) PROVE IInv' /\ rows' = rows
  <2>1. SameWorker(w)
    BY <1>0, <1>a, <1>4 DEF Refuse, SameWorker, Held, Fields
  <2> QED BY <1>4, <2>1, TaskStep DEF Refuse
<1>5. ASSUME NEW u \in Urls, NEW out, Fetched(w, u, out) PROVE IInv' /\ rows' = rows
  <2>1. SameWorker(w)
    BY <1>0, <1>a, <1>5 DEF Fetched, Fetching, SameWorker, Held, Fields
  <2> QED BY <1>5, <2>1, TaskStep DEF Fetched
<1>6. ASSUME NEW u \in Urls, Panic(w, u) PROVE IInv' /\ rows' = rows
  <2>1. SameWorker(w)
    BY <1>0, <1>a, <1>6 DEF Panic, Fetching, SameWorker, Held, Fields
  <2> QED BY <1>6, <2>1, TaskStep DEF Panic
<1>7. ASSUME NEW u \in Urls, Join(w, u) PROVE IInv' /\ rows' = rows
  <2>1. /\ DOMAIN wk' = Workers /\ \A v \in Workers \ {w} : wk'[v] = wk[v]
        /\ u \in Held(w) /\ rows' = rows /\ past' = past
        /\ DOMAIN wk'[w] = Fields /\ wk'[w].scope = wk[w].scope
        /\ wk'[w].stage = "mark" /\ wk'[w].cur = u /\ wk'[w].task = wk[w].task
    BY <1>0, <1>7 DEF Join, Fields
  <2>2. WorkerOK(w)'
    BY <1>0, <2>1 DEF WorkerOK, Held
  <2> QED BY <2>1, <2>2, LocalStep
<1>8. ASSUME NEW u \in Urls, SkipPanic(w, u) PROVE IInv' /\ rows' = rows
  <2>1. /\ DOMAIN wk' = Workers /\ \A v \in Workers \ {w} : wk'[v] = wk[v]
        /\ wk[w].stage = "drain" /\ rows' = rows /\ past' = past
        /\ DOMAIN wk'[w] = Fields /\ wk'[w].scope = wk[w].scope
        /\ wk'[w].stage = "drain" /\ wk'[w].task = Drop(wk[w].task, u)
    BY <1>0, <1>8 DEF SkipPanic, Fields
  <2>2. WorkerOK(w)'
    BY <1>0, <2>1 DEF WorkerOK, Held, Drop
  <2>3. DOMAIN wk'[w].task \subseteq DOMAIN wk[w].task
    BY <2>1 DEF Drop
  <2> QED BY <2>1, <2>2, <2>3, LocalStep
<1> QED BY <1>1, <1>2, <1>3, <1>4, <1>5, <1>6, <1>7, <1>8 DEF FetchOk, FetchFails

-----------------------------------------------------------------------------
(* The abstract state, and the steps that change rows.                     *)

AbstractStep ==
  V!Next \/ (Depths(rows)' = Depths(rows) /\ SettledIn(rows)' = SettledIn(rows))

\* What a row keeps when another row is written.
LEMMA OtherWorkers ==
  ASSUME IInv, NEW w \in Workers, DOMAIN wk' = Workers,
         \A v \in Workers \ {w} : wk'[v] = wk[v],
         DOMAIN rows \subseteq DOMAIN rows',
         \A u \in DOMAIN rows : Depths(rows)'[u] = Depths(rows)[u],
         SettledIn(rows) \subseteq SettledIn(rows)'
  PROVE  \A v \in Workers \ {w} : WorkerOK(v)'
<1> SUFFICES ASSUME NEW v \in Workers, v # w PROVE WorkerOK(v)'
  OBVIOUS
<1>1. WorkerOK(v) /\ wk'[v] = wk[v]
  BY DEF IInv
<1>2. \A u \in DOMAIN rows : rows'[u].depth = rows[u].depth
  BY DEF Depths
<1>3. SettledIn(rows) \subseteq DOMAIN rows
  BY DEF SettledIn, InState
<1> QED BY <1>1, <1>2, <1>3 DEF WorkerOK, Held

LEMMA OpenStep ==
  ASSUME IInv, NEW w \in Workers, Open(w)
  PROVE  IInv' /\ AbstractStep
<1>1. /\ rows' = init(rows) /\ Typed(rows)
      /\ DOMAIN wk' = Workers /\ \A v \in Workers \ {w} : wk'[v] = wk[v]
  BY DEF Open, IInv, RowsOK
<1>2. RowsOK' /\ Depths(rows)' = Depths(rows) /\ SettledIn(rows)' = SettledIn(rows)
  <2>1. /\ Typed(rows)' /\ DOMAIN rows' = DOMAIN rows
        /\ Depths(rows)' = Depths(rows) /\ SettledIn(rows)' = SettledIn(rows)
    BY <1>1, InitRows DEF Typed, Depths, SettledIn, InState
  <2>2. \A u \in DOMAIN rows : rows'[u].depth = rows[u].depth
    BY <2>1 DEF Depths
  <2> QED BY <2>1, <2>2 DEF RowsOK, IInv
<1>3. \A v \in Workers \ {w} : WorkerOK(v)'
  BY <1>1, <1>2, OtherWorkers, InitRows DEF Depths
<1>4. WorkerOK(w)' /\ Held(w)' = {}
  BY <1>1 DEF Open, IInv, WorkerOK, Fresh, Fields, Held, NoTask, V!Scopes
<1>5. DOMAIN past' = {"stolen", "overlap"} /\ past.stolen \subseteq past'.stolen
  BY DEF Open, IInv
<1>6. QueuedAreStolen'
  <2> SUFFICES ASSUME NEW v \in Workers, NEW u \in Held(v)',
                      u \in DOMAIN rows', rows'[u].state = "queued"
               PROVE  u \in past'.stolen
    BY DEF QueuedAreStolen
  <2>1. v # w /\ u \in Held(v) /\ u \in DOMAIN rows
    BY <1>1, <1>4, InitRows DEF Held
  <2>2. rows[u].state \in {"queued", "inflight"}
    BY <1>1, <2>1, InitRows
  <2>3. CASE rows[u].state = "queued"
    BY <1>5, <2>1, <2>3 DEF IInv, QueuedAreStolen
  <2>4. CASE rows[u].state = "inflight"
    BY <2>1, <2>4 DEF Open, IInv, InState
  <2> QED BY <2>2, <2>3, <2>4
<1>7. ClaimedOnce'
  BY <1>1, <1>4, <1>5 DEF IInv, ClaimedOnce, Held
<1> QED BY <1>1, <1>2, <1>3, <1>4, <1>5, <1>6, <1>7 DEF IInv, AbstractStep

\* A new row, or nothing.
LEMMA EnqueueStep ==
  ASSUME IInv, NEW w \in Workers, NEW u \in Urls, NEW d \in Nat,
         rows' = enqueue(rows, u, d), past' = past, d = 0 => u = Seed,
         DOMAIN wk' = Workers, \A v \in Workers \ {w} : wk'[v] = wk[v],
         DOMAIN wk'[w].task \subseteq DOMAIN wk[w].task
  PROVE  /\ RowsOK' /\ QueuedAreStolen' /\ ClaimedOnce'
         /\ \A v \in Workers \ {w} : WorkerOK(v)'
         /\ \A x \in DOMAIN rows : rows'[x] = rows[x]
         /\ SettledIn(rows)' = SettledIn(rows)
         /\ u \in DOMAIN rows => rows' = rows
         /\ u \notin DOMAIN rows => rows'[u].depth = d
         /\ DOMAIN rows' = DOMAIN rows \cup {u}
<1>1. Typed(rows) /\ DOMAIN rows \subseteq Urls
  BY DEF IInv, RowsOK
<1>2. /\ DOMAIN rows' = DOMAIN rows \cup {u}
      /\ \A x \in DOMAIN rows : rows'[x] = rows[x]
      /\ u \in DOMAIN rows => rows' = rows
      /\ u \notin DOMAIN rows => rows'[u] = [depth |-> d, state |-> "queued"]
  BY DEF enqueue, Put
<1>3. SettledIn(rows)' = SettledIn(rows)
  BY <1>2 DEF SettledIn, InState
<1>4. RowsOK'
  <2>1. Typed(rows)'
    BY <1>1, <1>2 DEF Typed, Row, States, enqueue, Put
  <2> QED BY <1>2, <2>1 DEF IInv, RowsOK
<1>5. \A v \in Workers \ {w} : WorkerOK(v)'
  BY <1>2, <1>3, OtherWorkers DEF Depths
<1>6. \A v \in Workers : Held(v)' \subseteq Held(v) /\ Held(v) \subseteq DOMAIN rows
  BY DEF Held, IInv, WorkerOK
<1>7. QueuedAreStolen' /\ ClaimedOnce'
  BY <1>2, <1>6 DEF IInv, QueuedAreStolen, ClaimedOnce
<1> QED BY <1>2, <1>3, <1>4, <1>5, <1>7

LEMMA BeginStep ==
  ASSUME IInv, NEW w \in Workers, Begin(w)
  PROVE  IInv' /\ AbstractStep
<1>0. WorkerOK(w) /\ DOMAIN wk = Workers /\ DOMAIN wk[w] = Fields
  BY DEF IInv, WorkerOK
<1>1. /\ rows' = enqueue(rows, Seed, 0) /\ past' = past
      /\ DOMAIN wk' = Workers /\ \A v \in Workers \ {w} : wk'[v] = wk[v]
      /\ wk'[w].task = wk[w].task /\ wk'[w].scope = wk[w].scope
      /\ wk'[w].stage = "drain" /\ DOMAIN wk'[w] = Fields
  BY <1>0 DEF Begin, Fields
<1>2. /\ RowsOK' /\ QueuedAreStolen' /\ ClaimedOnce'
      /\ \A v \in Workers \ {w} : WorkerOK(v)'
      /\ \A x \in DOMAIN rows : rows'[x] = rows[x]
      /\ SettledIn(rows)' = SettledIn(rows)
      /\ Seed \in DOMAIN rows => rows' = rows
      /\ Seed \notin DOMAIN rows => rows'[Seed].depth = 0
      /\ DOMAIN rows' = DOMAIN rows \cup {Seed}
  BY <1>1, EnqueueStep
<1>3. WorkerOK(w)'
  BY <1>0, <1>1, <1>2 DEF WorkerOK, Held
<1>4. IInv'
  BY <1>1, <1>2, <1>3 DEF IInv
<1>5. AbstractStep
  <2>1. CASE Seed \in DOMAIN rows
    BY <1>2, <2>1 DEF AbstractStep, Depths
  <2>2. CASE Seed \notin DOMAIN rows
    <3>1. V!Plant
      BY <1>2, <2>2 DEF V!Plant, V!Known, SettledIn
    <3> QED BY <3>1 DEF AbstractStep, V!Next
  <2> QED BY <2>1, <2>2
<1> QED BY <1>4, <1>5

LEMMA ClaimStep ==
  ASSUME IInv, NEW w \in Workers, Claim(w)
  PROVE  IInv' /\ AbstractStep
<1>0. /\ WorkerOK(w) /\ DOMAIN wk = Workers /\ DOMAIN wk[w] = Fields
      /\ Typed(rows)
  BY DEF IInv, WorkerOK, RowsOK
<1> PICK B \in SUBSET InState(rows, "queued") :
      /\ rows' = claim(rows, B)
      /\ wk' = [wk EXCEPT ![w].task = [u \in B |->
                  [depth |-> rows[u].depth, st |-> "waiting", via |-> Direct]]]
  BY DEF Claim, Batches
<1>1. /\ past' = past /\ wk[w].stage = "drain" /\ Held(w) = {}
      /\ DOMAIN wk' = Workers /\ \A v \in Workers \ {w} : wk'[v] = wk[v]
      /\ wk'[w].task = [u \in B |->
                  [depth |-> rows[u].depth, st |-> "waiting", via |-> Direct]]
      /\ wk'[w].scope = wk[w].scope /\ wk'[w].stage = "drain"
      /\ DOMAIN wk'[w] = Fields
  BY <1>0 DEF Claim, Idle, Fields
<1>2. /\ Typed(rows)' /\ DOMAIN rows' = DOMAIN rows
      /\ Depths(rows)' = Depths(rows) /\ SettledIn(rows)' = SettledIn(rows)
      /\ \A u \in DOMAIN rows : rows'[u].state = "queued"
                                 => rows[u].state = "queued" /\ u \notin B
  BY <1>0, ClaimRows DEF Typed, Depths, SettledIn, InState
<1>3. \A u \in DOMAIN rows : rows'[u].depth = rows[u].depth
  BY <1>2 DEF Depths
<1>4. RowsOK'
  BY <1>2, <1>3 DEF RowsOK, IInv
<1>5. \A v \in Workers \ {w} : WorkerOK(v)'
  BY <1>1, <1>2, OtherWorkers
<1>6. WorkerOK(w)' /\ Held(w)' = B
  <2>1. B \subseteq DOMAIN rows
    BY DEF InState
  <2> QED BY <1>0, <1>1, <1>2, <1>3, <2>1 DEF WorkerOK, Held
<1>7. QueuedAreStolen'
  BY <1>1, <1>2, <1>6 DEF IInv, QueuedAreStolen, Held
<1>8. ClaimedOnce'
  <2>1. \A v \in Workers \ {w} : Held(v)' = Held(v) /\ Held(v) \cap B \subseteq past.stolen
    BY <1>1 DEF Held, IInv, QueuedAreStolen, InState
  <2> QED BY <1>1, <1>6, <2>1 DEF IInv, ClaimedOnce
<1> QED BY <1>1, <1>2, <1>4, <1>5, <1>6, <1>7, <1>8 DEF IInv, AbstractStep

\* What NextPage leaves of the worker's record.
LEMMA NextPageKeeps ==
  ASSUME NEW me, DOMAIN me = Fields
  PROVE  LET n == NextPage(me) IN
         /\ DOMAIN n = Fields /\ n.scope = me.scope
         /\ me.links # {} => n = me
         /\ me.links = {} => n.stage = "drain" /\ n.task = Drop(me.task, me.cur)
  BY DEF NextPage, Fields

LEMMA MarkStep ==
  ASSUME IInv, NEW w \in Workers, Mark(w)
  PROVE  IInv' /\ AbstractStep
<1> DEFINE u == wk[w].cur
           t == wk[w].task[u]
           scope == IF t.depth = 0 THEN Host[Redirected(t.st, u)] ELSE wk[w].scope
           links == IF t.st = "html" THEN Wanted(u, t.depth, scope, wk[w].enforce) ELSE {}
           st == IF t.st = "html" THEN "done" ELSE "error"
           me == [wk[w] EXCEPT !.stage = "follow", !.fetched = @ + 1,
                                !.scope = scope, !.links = links]
<1>0. /\ WorkerOK(w) /\ DOMAIN wk = Workers /\ DOMAIN wk[w] = Fields
      /\ Typed(rows) /\ u \in Held(w) /\ u \in DOMAIN rows
      /\ t.depth = rows[u].depth
  BY DEF Mark, IInv, WorkerOK, RowsOK
<1>1. /\ rows' = mark(rows, u, st) /\ past' = past
      /\ wk' = [wk EXCEPT ![w] = NextPage(me)]
  BY DEF Mark
<1>2. /\ DOMAIN me = Fields /\ me.scope = scope /\ me.links = links
      /\ me.stage = "follow" /\ me.cur = u /\ me.task = wk[w].task
  BY <1>0 DEF Fields
<1>3. /\ scope \in V!Scopes
      /\ links \subseteq Links[Final[u]]
      /\ links # {} => rows[u].depth < MaxDepth
      /\ SameHost => \A v \in links : Host[v] \in V!Scopes
  <2>1. scope \in V!Scopes
    BY <1>0 DEF V!Scopes, Redirected, WorkerOK, IInv, RowsOK
  <2> QED BY <1>0, <2>1 DEF Wanted
<1> HIDE DEF u, t, scope, links, st, me
<1>4. /\ DOMAIN wk' = Workers /\ \A v \in Workers \ {w} : wk'[v] = wk[v]
      /\ wk'[w] = NextPage(me)
  BY <1>0, <1>1
<1>5. /\ DOMAIN wk'[w] = Fields /\ wk'[w].scope = scope
      /\ links # {} => wk'[w] = me
      /\ links = {} => wk'[w].stage = "drain" /\ wk'[w].task = Drop(wk[w].task, u)
  BY <1>2, <1>4, NextPageKeeps
<1>6. /\ Typed(rows)' /\ DOMAIN rows' = DOMAIN rows
      /\ Depths(rows)' = Depths(rows)
      /\ SettledIn(rows)' = SettledIn(rows) \cup {u}
      /\ \A x \in DOMAIN rows : rows'[x].state = "queued" => rows[x].state = "queued"
  <2>1. st \in {"done", "error"}
    BY DEF st
  <2>2. LET r == mark(rows, u, st) IN
        /\ Typed(r) /\ DOMAIN r = DOMAIN rows /\ Depths(r) = Depths(rows)
        /\ SettledIn(r) = SettledIn(rows) \cup {u}
        /\ \A x \in DOMAIN rows : r[x].state = "queued" => rows[x].state = "queued"
    BY <1>0, <2>1, MarkRows
  <2> QED BY <1>1, <2>2 DEF Typed, Depths, SettledIn, InState
<1>7. \A x \in DOMAIN rows : rows'[x].depth = rows[x].depth
  BY <1>6 DEF Depths
<1>8. RowsOK'
  BY <1>6, <1>7 DEF RowsOK, IInv
<1>9. \A v \in Workers \ {w} : WorkerOK(v)'
  BY <1>4, <1>6, OtherWorkers
<1>10. WorkerOK(w)' /\ Held(w)' \subseteq Held(w)
  <2>1. CASE links = {}
    BY <1>0, <1>3, <1>5, <1>6, <1>7, <2>1 DEF WorkerOK, Held, Drop
  <2>2. CASE links # {}
    BY <1>0, <1>2, <1>3, <1>5, <1>6, <1>7, <2>2 DEF WorkerOK, Held
  <2> QED BY <2>1, <2>2
<1>11. \A v \in Workers : Held(v)' \subseteq Held(v) /\ Held(v) \subseteq DOMAIN rows
  BY <1>4, <1>10 DEF Held, IInv, WorkerOK
<1>12. QueuedAreStolen' /\ ClaimedOnce'
  BY <1>1, <1>6, <1>11 DEF IInv, QueuedAreStolen, ClaimedOnce
<1>13. IInv'
  BY <1>1, <1>4, <1>8, <1>9, <1>10, <1>12 DEF IInv
<1>14. AbstractStep
  <2>1. u \in DOMAIN Depths(rows)
    BY <1>0 DEF Depths
  <2>2. V!Settle(u)
    BY <1>6, <2>1 DEF V!Settle, Depths, SettledIn
  <2> QED BY <2>1, <2>2 DEF AbstractStep, V!Next, Depths
<1> QED BY <1>13, <1>14

LEMMA FollowStep ==
  ASSUME IInv, NEW w \in Workers, NEW v \in Urls, Follow(w, v)
  PROVE  IInv' /\ AbstractStep
<1> DEFINE u == wk[w].cur
           d == wk[w].task[u].depth + 1
           me == [wk[w] EXCEPT !.links = @ \ {v}]
<1>0. /\ WorkerOK(w) /\ DOMAIN wk = Workers /\ DOMAIN wk[w] = Fields
      /\ wk[w].stage = "follow" /\ v \in wk[w].links
      /\ u \in Held(w) /\ u \in DOMAIN rows /\ wk[w].task[u].depth = rows[u].depth
      /\ rows[u].depth \in Nat
  BY DEF Follow, IInv, WorkerOK, RowsOK, Typed, Row
<1>1. /\ rows' = enqueue(rows, v, d) /\ past' = past
      /\ wk' = [wk EXCEPT ![w] = NextPage(me)]
  BY DEF Follow
<1>2. /\ DOMAIN me = Fields /\ me.scope = wk[w].scope /\ me.links = wk[w].links \ {v}
      /\ me.stage = "follow" /\ me.cur = u /\ me.task = wk[w].task
  BY <1>0 DEF Fields
<1>3. d \in Nat /\ d # 0 /\ d = rows[u].depth + 1
  BY <1>0
<1> HIDE DEF u, d, me
<1>4. /\ DOMAIN wk' = Workers /\ \A x \in Workers \ {w} : wk'[x] = wk[x]
      /\ wk'[w] = NextPage(me)
  BY <1>0, <1>1
<1>5. /\ DOMAIN wk'[w] = Fields /\ wk'[w].scope = wk[w].scope
      /\ me.links # {} => wk'[w] = me
      /\ me.links = {} => wk'[w].stage = "drain" /\ wk'[w].task = Drop(wk[w].task, u)
  BY <1>2, <1>4, NextPageKeeps
<1>6. DOMAIN wk'[w].task \subseteq DOMAIN wk[w].task
  BY <1>2, <1>5 DEF Drop
<1>7. /\ RowsOK' /\ QueuedAreStolen' /\ ClaimedOnce'
      /\ \A x \in Workers \ {w} : WorkerOK(x)'
      /\ \A x \in DOMAIN rows : rows'[x] = rows[x]
      /\ SettledIn(rows)' = SettledIn(rows)
      /\ v \in DOMAIN rows => rows' = rows
      /\ v \notin DOMAIN rows => rows'[v].depth = d
      /\ DOMAIN rows' = DOMAIN rows \cup {v}
  <2> PICK k \in Nat : k = d
    BY <1>3
  <2>1. rows' = enqueue(rows, v, k) /\ k # 0
    BY <1>1, <1>3
  <2>2. rows' = enqueue(rows, v, k) /\ past' = past /\ DOMAIN wk' = Workers
    BY <1>1, <1>4, <2>1
  <2>3. k = 0 => v = Seed
    BY <2>1
  <2>4. \A x \in Workers \ {w} : wk'[x] = wk[x]
    BY <1>4
  <2> QED BY <2>2, <2>3, <2>4, <1>6, EnqueueStep
<1>8. WorkerOK(w)'
  <2>1. CASE me.links = {}
    BY <1>0, <1>5, <1>7, <2>1 DEF WorkerOK, Held, Drop
  <2>2. CASE me.links # {}
    BY <1>0, <1>2, <1>5, <1>7, <2>2 DEF WorkerOK, Held, u
  <2> QED BY <2>1, <2>2
<1>9. IInv'
  BY <1>1, <1>4, <1>7, <1>8 DEF IInv
<1>10. AbstractStep
  <2>1. CASE v \in DOMAIN rows
    BY <1>7, <2>1 DEF AbstractStep, Depths
  <2>2. CASE v \notin DOMAIN rows
    <3>1. /\ u \in SettledIn(rows) /\ v \in Links[Final[u]]
          /\ SameHost => Host[v] \in V!Scopes
          /\ rows[u].depth < MaxDepth
      BY <1>0 DEF WorkerOK, u
    <3>2. V!Discover(u, v)
      BY <1>0, <1>3, <1>7, <2>2, <3>1 DEF V!Discover, V!Known, SettledIn
    <3> QED BY <1>0, <3>2 DEF AbstractStep, V!Next
  <2> QED BY <2>1, <2>2
<1> QED BY <1>9, <1>10

-----------------------------------------------------------------------------
(* The theorems.                                                           *)

LEMMA CrawlStep ==
  ASSUME IInv, [Next]_vars
  PROVE  IInv' /\ AbstractStep
<1>1. CASE UNCHANGED vars
  BY <1>1 DEF vars, IInv, RowsOK, Typed, WorkerOK, Held, SettledIn, InState,
     QueuedAreStolen, ClaimedOnce, AbstractStep, Depths
<1>2. ASSUME NEW w \in Workers,
             \/ Open(w) \/ Work(w) \/ Crash(w)
             \/ \E u \in Urls : FetchFails(w, u) \/ Panic(w, u)
      PROVE  IInv' /\ AbstractStep
  <2>1. CASE \/ Stop(w) \/ Crash(w)
             \/ \E u \in Urls : \/ StartFetch(w, u) \/ Refuse(w, u) \/ FetchOk(w, u)
                                \/ FetchFails(w, u) \/ Panic(w, u)
                                \/ Join(w, u) \/ SkipPanic(w, u)
    BY <2>1, LocalActions DEF AbstractStep, Depths, SettledIn, InState
  <2>2. CASE Open(w)
    BY <2>2, OpenStep
  <2>3. CASE Begin(w)
    BY <2>3, BeginStep
  <2>4. CASE Claim(w)
    BY <2>4, ClaimStep
  <2>5. CASE Mark(w)
    BY <2>5, MarkStep
  <2>6. ASSUME NEW u \in Urls, Follow(w, u) PROVE IInv' /\ AbstractStep
    BY <2>6, FollowStep
  <2> QED BY <1>2, <2>1, <2>2, <2>3, <2>4, <2>5, <2>6 DEF Work, Task
<1> QED BY <1>1, <1>2 DEF Next

\* No two workers fetch one URL, unless the frontier was opened by one while
\* another was at work on it: SqliteFrontier::claim and its requeueing init.
THEOREM ClaimsAreExclusive == Spec => []ClaimedOnce
<1>1. IInv => ClaimedOnce
  BY DEF IInv
<1> QED BY <1>1, InitIInv, CrawlStep, PTL DEF Spec

\* The frontier of any number of crashing, panicking and overlapping workers
\* grows and settles as the abstract crawl does.
THEOREM CrawlImplementsVisits == Spec => ImplementsVisits
<1>1. Init => V!Init
  BY DEF Init, V!Init, NoRows, InState
<1>2. IInv /\ [Next]_vars => [V!Next]_(<<[u \in DOMAIN rows |-> rows[u].depth],
                                 InState(rows, "done") \cup InState(rows, "error")>>)
  BY CrawlStep DEF AbstractStep, Depths, SettledIn
<1>3. Spec => []IInv
  BY InitIInv, CrawlStep, PTL DEF Spec
<1> QED BY <1>1, <1>2, <1>3, PTL DEF Spec, ImplementsVisits, V!Spec

-----------------------------------------------------------------------------
(* What each step does to the worker's record, the archive and the         *)
(* counters: the facts that the three invariants below are proved from.    *)

\* Every worker but w is left alone.
Others(w) == DOMAIN wk' = Workers /\ \A v \in Workers \ {w} : wk'[v] = wk[v]

\* What a task of w leaves of its worker's plan.
SamePlan(w) ==
  /\ wk'[w].conc = wk[w].conc /\ wk'[w].enforce = wk[w].enforce
  /\ wk'[w].budget = wk[w].budget /\ wk'[w].fetched = wk[w].fetched

LEMMA TaskFacts ==
  ASSUME IInv, NEW w \in Workers, NEW u \in Urls,
         \/ StartFetch(w, u) \/ Refuse(w, u) \/ FetchOk(w, u)
         \/ FetchFails(w, u) \/ Panic(w, u)
  PROVE  /\ SameWorker(w) /\ SamePlan(w) /\ Others(w)
         /\ UNCHANGED <<rows, pages, opens, past>>
         /\ faults' = faults \/ (Panic(w, u) /\ faults' = faults + 1)
         /\ \A x \in Held(w) : wk'[w].task[x].st = "panic"
                                 => wk[w].task[x].st = "panic" \/ Panic(w, u)
<1>0. WorkerOK(w) /\ DOMAIN wk = Workers /\ DOMAIN wk[w] = Fields
  BY DEF IInv, WorkerOK
<1>a. \A x \in Held(w) : DOMAIN wk[w].task[x] = {"depth", "st", "via"}
  BY <1>0 DEF WorkerOK
<1>1. CASE StartFetch(w, u)
  <2>0. PICK pl, via : wk' = [wk EXCEPT ![w].pool = pl,
                                ![w].task[u].st = "fetching", ![w].task[u].via = via]
    BY <1>1 DEF StartFetch
  <2>1. u \in Held(w)
    BY <1>1 DEF StartFetch
  <2>2. SameWorker(w) /\ SamePlan(w)
    BY <1>0, <1>a, <2>0, <2>1 DEF SameWorker, SamePlan, Held, Fields
  <2>3. \A x \in Held(w) : wk'[w].task[x].st = IF x = u THEN "fetching" ELSE wk[w].task[x].st
    BY <1>0, <1>a, <2>0, <2>1 DEF Held, Fields
  <2>4. UNCHANGED <<rows, pages, faults, opens, past>>
    BY <1>1 DEF StartFetch
  <2>5. Others(w)
    BY <2>2 DEF SameWorker, Others
  <2> QED BY <2>2, <2>3, <2>4, <2>5
<1>2. CASE Refuse(w, u)
  <2>1. SameWorker(w) /\ SamePlan(w)
    BY <1>0, <1>a, <1>2 DEF Refuse, SameWorker, SamePlan, Held, Fields
  <2>2. \A x \in Held(w) : wk'[w].task[x].st = IF x = u THEN "noanswer" ELSE wk[w].task[x].st
    BY <1>0, <1>a, <1>2 DEF Refuse, Held, Fields
  <2> QED BY <1>2, <2>1, <2>2 DEF Refuse, SameWorker, Others
<1>3. ASSUME NEW out, out # "panic", Fetched(w, u, out)
      PROVE  /\ SameWorker(w) /\ SamePlan(w) /\ UNCHANGED <<rows, pages, faults, opens, past>>
             /\ \A x \in Held(w) : wk'[w].task[x].st = "panic" => wk[w].task[x].st = "panic"
  <2>1. SameWorker(w) /\ SamePlan(w)
    BY <1>0, <1>a, <1>3 DEF Fetched, Fetching, SameWorker, SamePlan, Held, Fields
  <2>2. \A x \in Held(w) : wk'[w].task[x].st = IF x = u THEN out ELSE wk[w].task[x].st
    BY <1>0, <1>a, <1>3 DEF Fetched, Fetching, Held, Fields
  <2> QED BY <1>3, <2>1, <2>2 DEF Fetched
<1>4. CASE Panic(w, u)
  <2>1. SameWorker(w) /\ SamePlan(w)
    BY <1>0, <1>a, <1>4 DEF Panic, Fetching, SameWorker, SamePlan, Held, Fields
  <2> QED BY <1>4, <2>1 DEF Panic, SameWorker, Others
<1>5. CASE FetchOk(w, u)
  BY <1>3, <1>5 DEF FetchOk, SameWorker, Others
<1>6. CASE FetchFails(w, u)
  BY <1>3, <1>6 DEF FetchFails, SameWorker, Others
<1> QED BY <1>1, <1>2, <1>4, <1>5, <1>6

LEMMA OpenFacts ==
  ASSUME IInv, NEW w \in Workers, Open(w)
  PROVE  /\ Others(w) /\ ~Running(w) /\ rows' = init(rows) /\ pages' = pages
         /\ faults' = faults /\ opens' = opens + 1
         /\ wk'[w].stage = "open" /\ Held(w)' = {} /\ wk'[w].conc \in Nat
         /\ wk'[w].budget = 0 /\ wk'[w].fetched = 0
         /\ past'.overlap = (past.overlap \/ \E v \in Workers \ {w} : Running(v))
<1>1. PICK o \in Options[w] :
        wk' = [wk EXCEPT ![w] = [Fresh(o[1], o[2], o[3]) EXCEPT !.stage = "open"]]
  BY DEF Open
<1>2. o[1] \in Nat
  BY DEF CrawlAssumption
<1>3. /\ wk'[w].stage = "open" /\ wk'[w].task = NoTask /\ wk'[w].conc = o[1]
      /\ wk'[w].budget = 0 /\ wk'[w].fetched = 0
  BY <1>1 DEF IInv, Fresh
<1>4. DOMAIN NoTask = {}
  BY DEF NoTask
<1>5. past'.overlap = (past.overlap \/ \E v \in Workers \ {w} : Running(v))
  BY DEF Open, IInv
<1> QED BY <1>1, <1>2, <1>3, <1>4, <1>5 DEF Open, IInv, Held, Others

LEMMA BeginFacts ==
  ASSUME IInv, NEW w \in Workers, Begin(w)
  PROVE  /\ Others(w) /\ wk[w].stage = "open" /\ rows' = enqueue(rows, Seed, 0)
         /\ UNCHANGED <<pages, faults, opens, past>>
         /\ wk'[w].stage = "drain" /\ wk'[w].task = wk[w].task
         /\ wk'[w].conc = wk[w].conc /\ wk'[w].enforce = wk[w].enforce
         /\ wk'[w].fetched = wk[w].fetched /\ wk'[w].scope = wk[w].scope
         /\ wk'[w].budget = IF MaxPages > counts(pages) THEN MaxPages - counts(pages) ELSE 0
  BY DEF Begin, IInv, WorkerOK, Fields, Others

LEMMA ClaimFacts ==
  ASSUME IInv, NEW w \in Workers, Claim(w)
  PROVE  \E B \in Batches(rows, Smaller(wk[w].budget - wk[w].fetched, wk[w].conc)) :
         /\ Others(w) /\ wk[w].stage = "drain" /\ Held(w) = {} /\ rows' = claim(rows, B)
         /\ wk[w].fetched < wk[w].budget
         /\ UNCHANGED <<pages, faults, opens, past>>
         /\ SamePlan(w) /\ wk'[w].scope = wk[w].scope /\ wk'[w].stage = "drain"
         /\ Held(w)' = B /\ \A u \in B : wk'[w].task[u].st = "waiting"
<1>1. PICK B \in Batches(rows, Smaller(wk[w].budget - wk[w].fetched, wk[w].conc)) :
        /\ rows' = claim(rows, B)
        /\ wk' = [wk EXCEPT ![w].task = [u \in B |->
                      [depth |-> rows[u].depth, st |-> "waiting", via |-> Direct]]]
  BY DEF Claim
<1>2. /\ wk'[w].task = [u \in B |->
                      [depth |-> rows[u].depth, st |-> "waiting", via |-> Direct]]
      /\ Others(w) /\ SamePlan(w) /\ wk'[w].scope = wk[w].scope
      /\ wk'[w].stage = wk[w].stage
  BY <1>1 DEF IInv, WorkerOK, Fields, Others, SamePlan
<1> QED BY <1>1, <1>2 DEF Claim, Idle, Held

LEMMA StopFacts ==
  ASSUME IInv, NEW w \in Workers, Stop(w)
  PROVE  /\ Others(w) /\ wk[w].stage = "drain" /\ Held(w) = {}
         /\ UNCHANGED <<rows, pages, faults, opens, past>>
         /\ wk'[w].stage = "ended" /\ Held(w)' = {}
         /\ wk'[w].conc = wk[w].conc /\ wk'[w].enforce = wk[w].enforce
         /\ wk'[w].budget = 0 /\ wk'[w].fetched = 0
<1>1. /\ wk'[w].stage = "ended" /\ wk'[w].task = NoTask
      /\ wk'[w].conc = wk[w].conc /\ wk'[w].enforce = wk[w].enforce
      /\ wk'[w].budget = 0 /\ wk'[w].fetched = 0 /\ Others(w)
  BY DEF Stop, Fresh, IInv, Others
<1>2. DOMAIN NoTask = {}
  BY DEF NoTask
<1> QED BY <1>1, <1>2 DEF Stop, Idle, Held

LEMMA CrashFacts ==
  ASSUME IInv, NEW w \in Workers, Crash(w)
  PROVE  /\ Others(w) /\ Running(w) /\ UNCHANGED <<rows, pages, opens, past>>
         /\ faults' = faults + 1 /\ wk'[w].stage = "off" /\ Held(w)' = {}
         /\ wk'[w].conc = 0 /\ wk'[w].budget = 0 /\ wk'[w].fetched = 0
<1>1. /\ wk'[w].stage = "off" /\ wk'[w].task = NoTask
      /\ wk'[w].conc = 0 /\ wk'[w].budget = 0 /\ wk'[w].fetched = 0 /\ Others(w)
  BY DEF Crash, Off, Fresh, IInv, Others
<1>2. DOMAIN NoTask = {}
  BY DEF NoTask
<1> QED BY <1>1, <1>2 DEF Crash, Held

LEMMA JoinFacts ==
  ASSUME IInv, NEW w \in Workers, NEW u \in Urls, Join(w, u)
  PROVE  /\ Others(w) /\ SamePlan(w) /\ wk[w].stage = "drain" /\ u \in Held(w)
         /\ UNCHANGED <<rows, faults, opens, past>>
         /\ DOMAIN pages' = DOMAIN pages \cup {u}
         /\ wk'[w].stage = "mark" /\ wk'[w].cur = u /\ wk'[w].scope = wk[w].scope
         /\ wk'[w].task = wk[w].task
  BY DEF Join, IInv, WorkerOK, Fields, Others, SamePlan, record_page, Put

LEMMA SkipFacts ==
  ASSUME IInv, NEW w \in Workers, NEW u \in Urls, SkipPanic(w, u)
  PROVE  /\ Others(w) /\ SamePlan(w) /\ wk[w].stage = "drain" /\ u \in Held(w)
         /\ wk[w].task[u].st = "panic"
         /\ UNCHANGED <<rows, pages, faults, opens, past>>
         /\ wk'[w].stage = "drain" /\ wk'[w].scope = wk[w].scope
         /\ wk'[w].task = Drop(wk[w].task, u)
  BY DEF SkipPanic, IInv, WorkerOK, Fields, Others, SamePlan

\* NextPage changes the stage, the task and the page in hand, nothing else.
LEMMA NextPageFacts ==
  ASSUME NEW me, DOMAIN me = Fields
  PROVE  LET n == NextPage(me) IN
         /\ n.conc = me.conc /\ n.enforce = me.enforce /\ n.scope = me.scope
         /\ n.budget = me.budget /\ n.fetched = me.fetched
         /\ me.links # {} => n = me
         /\ me.links = {} => n.stage = "drain" /\ n.task = Drop(me.task, me.cur)
  BY DEF NextPage, Fields

Scoped(w) ==
  LET u == wk[w].cur
      t == wk[w].task[u]
  IN IF t.depth = 0 THEN Host[Redirected(t.st, u)] ELSE wk[w].scope

\* Either the links of the page are next, or it is done with.
Goes(w, links) ==
  \/ /\ links # {} /\ wk'[w].stage = "follow" /\ wk'[w].links = links
     /\ wk'[w].cur = wk[w].cur /\ wk'[w].task = wk[w].task
  \/ /\ links = {} /\ wk'[w].stage = "drain"
     /\ wk'[w].task = Drop(wk[w].task, wk[w].cur)

LEMMA MarkFacts ==
  ASSUME IInv, NEW w \in Workers, Mark(w)
  PROVE  LET u == wk[w].cur
             t == wk[w].task[u]
             html == t.st = "html"
             links == IF html THEN Wanted(u, t.depth, Scoped(w), wk[w].enforce) ELSE {}
         IN /\ Others(w) /\ wk[w].stage = "mark" /\ UNCHANGED <<pages, faults, opens, past>>
            /\ rows' = mark(rows, u, IF html THEN "done" ELSE "error")
            /\ wk'[w].conc = wk[w].conc /\ wk'[w].enforce = wk[w].enforce
            /\ wk'[w].budget = wk[w].budget /\ wk'[w].fetched = wk[w].fetched + 1
            /\ wk'[w].scope = Scoped(w) /\ Goes(w, links)
<1> DEFINE u == wk[w].cur
           t == wk[w].task[u]
           links == IF t.st = "html" THEN Wanted(u, t.depth, Scoped(w), wk[w].enforce) ELSE {}
           me == [wk[w] EXCEPT !.stage = "follow", !.fetched = @ + 1,
                                !.scope = Scoped(w), !.links = links]
<1>0. DOMAIN wk = Workers /\ DOMAIN wk[w] = Fields
  BY DEF IInv, WorkerOK
<1>1. /\ wk' = [wk EXCEPT ![w] = NextPage(me)] /\ wk[w].stage = "mark"
      /\ UNCHANGED <<pages, faults, opens, past>>
      /\ rows' = mark(rows, u, IF t.st = "html" THEN "done" ELSE "error")
  BY DEF Mark, Scoped
<1> HIDE DEF links
<1>2. /\ DOMAIN me = Fields /\ me.scope = Scoped(w) /\ me.links = links
      /\ me.stage = "follow" /\ me.cur = u /\ me.task = wk[w].task
      /\ me.conc = wk[w].conc /\ me.enforce = wk[w].enforce
      /\ me.budget = wk[w].budget /\ me.fetched = wk[w].fetched + 1
  BY <1>0 DEF Fields
<1> HIDE DEF me
<1>3. wk'[w] = NextPage(me) /\ Others(w)
  BY <1>0, <1>1 DEF Others
<1>4. /\ wk'[w].conc = wk[w].conc /\ wk'[w].enforce = wk[w].enforce
      /\ wk'[w].budget = wk[w].budget /\ wk'[w].fetched = wk[w].fetched + 1
      /\ wk'[w].scope = Scoped(w) /\ Goes(w, links)
  BY <1>2, <1>3, NextPageFacts DEF Goes
<1> QED BY <1>1, <1>3, <1>4 DEF links

LEMMA FollowFacts ==
  ASSUME IInv, NEW w \in Workers, NEW v \in Urls, Follow(w, v)
  PROVE  /\ Others(w) /\ SamePlan(w) /\ wk[w].stage = "follow" /\ v \in wk[w].links
         /\ UNCHANGED <<pages, faults, opens, past>>
         /\ rows' = enqueue(rows, v, wk[w].task[wk[w].cur].depth + 1)
         /\ wk'[w].scope = wk[w].scope /\ Goes(w, wk[w].links \ {v})
<1> DEFINE me == [wk[w] EXCEPT !.links = @ \ {v}]
<1>0. DOMAIN wk = Workers /\ DOMAIN wk[w] = Fields
  BY DEF IInv, WorkerOK
<1>1. /\ wk' = [wk EXCEPT ![w] = NextPage(me)]
      /\ wk[w].stage = "follow" /\ v \in wk[w].links
      /\ UNCHANGED <<pages, faults, opens, past>>
      /\ rows' = enqueue(rows, v, wk[w].task[wk[w].cur].depth + 1)
  BY DEF Follow
<1>2. /\ DOMAIN me = Fields /\ me.scope = wk[w].scope /\ me.links = wk[w].links \ {v}
      /\ me.stage = "follow" /\ me.cur = wk[w].cur /\ me.task = wk[w].task
      /\ me.conc = wk[w].conc /\ me.enforce = wk[w].enforce
      /\ me.budget = wk[w].budget /\ me.fetched = wk[w].fetched
  BY <1>0, <1>1 DEF Fields
<1> HIDE DEF me
<1>3. wk'[w] = NextPage(me) /\ Others(w)
  BY <1>0, <1>1 DEF Others
<1>4. SamePlan(w) /\ wk'[w].scope = wk[w].scope /\ Goes(w, wk[w].links \ {v})
  BY <1>2, <1>3, NextPageFacts DEF Goes, SamePlan
<1> QED BY <1>1, <1>3, <1>4

-----------------------------------------------------------------------------
(* No row is forgotten.                                                    *)

\* A worker that is not at work holds nothing; the page in hand is archived.
Archiving(w) ==
  /\ wk[w].stage \in {"off", "ended", "open"} => Held(w) = {}
  /\ wk[w].stage \in {"mark", "follow"} => wk[w].cur \in DOMAIN pages
  /\ \A u \in Held(w) : wk[w].task[u].st = "panic" => faults > 0

LostInv ==
  /\ faults \in Nat
  /\ \A w \in Workers : Archiving(w)
  /\ NothingLost

\* Which rows are in a state after each statement of the frontier.
LEMMA StatesAfter ==
  ASSUME NEW r, Typed(r)
  PROVE  /\ InState(init(r), "inflight") = {}
         /\ \A s \in {"done", "error"} : InState(init(r), s) = InState(r, s)
         /\ \A B \in SUBSET InState(r, "queued") :
              /\ InState(claim(r, B), "inflight") = InState(r, "inflight") \cup B
              /\ \A s \in {"done", "error"} : InState(claim(r, B), s) = InState(r, s)
         /\ \A u, d : /\ InState(enqueue(r, u, d), "inflight") = InState(r, "inflight")
                      /\ \A s \in {"done", "error"} : InState(enqueue(r, u, d), s) = InState(r, s)
         /\ \A u \in DOMAIN r, s \in {"done", "error"} :
              /\ InState(mark(r, u, s), "inflight") = InState(r, "inflight") \ {u}
              /\ InState(mark(r, u, s), s) = InState(r, s) \cup {u}
              /\ \A z \in {"done", "error"} \ {s} :
                   InState(mark(r, u, s), z) = InState(r, z) \ {u}
<1>1. /\ InState(init(r), "inflight") = {}
      /\ \A s \in {"done", "error"} : InState(init(r), s) = InState(r, s)
  BY DEF Typed, Row, States, InState, init
<1>2. ASSUME NEW B \in SUBSET InState(r, "queued")
      PROVE  /\ InState(claim(r, B), "inflight") = InState(r, "inflight") \cup B
             /\ \A s \in {"done", "error"} : InState(claim(r, B), s) = InState(r, s)
  BY DEF Typed, Row, States, InState, claim
<1>3. ASSUME NEW u, NEW d
      PROVE  /\ InState(enqueue(r, u, d), "inflight") = InState(r, "inflight")
             /\ \A s \in {"done", "error"} : InState(enqueue(r, u, d), s) = InState(r, s)
  BY DEF InState, enqueue, Put
<1>4. ASSUME NEW u \in DOMAIN r, NEW s \in {"done", "error"}
      PROVE  /\ InState(mark(r, u, s), "inflight") = InState(r, "inflight") \ {u}
             /\ InState(mark(r, u, s), s) = InState(r, s) \cup {u}
             /\ \A z \in {"done", "error"} \ {s} :
                  InState(mark(r, u, s), z) = InState(r, z) \ {u}
  BY DEF Typed, Row, States, InState, mark
<1> QED BY <1>1, <1>2, <1>3, <1>4

LEMMA LostStep ==
  ASSUME IInv, LostInv, [Next]_vars
  PROVE  LostInv'
<1>0. /\ Typed(rows) /\ DOMAIN wk = Workers /\ \A v \in Workers : WorkerOK(v)
      /\ faults \in Nat /\ \A v \in Workers : Archiving(v)
      /\ faults = 0 => \A x \in InState(rows, "inflight") : \E v \in Workers : x \in Held(v)
      /\ InState(rows, "done") \cup InState(rows, "error") \subseteq DOMAIN pages
  BY DEF IInv, RowsOK, LostInv, NothingLost
<1>1. CASE UNCHANGED vars
  BY <1>1 DEF vars, LostInv, NothingLost, Archiving, Held, InState
<1> SUFFICES ASSUME NEW w \in Workers,
                    \/ Open(w) \/ Work(w) \/ Crash(w)
                    \/ \E u \in Urls : FetchFails(w, u) \/ Panic(w, u)
             PROVE  LostInv'
  BY <1>1 DEF Next
\* The workers that do not move.
<1>2. ASSUME Others(w), DOMAIN pages \subseteq DOMAIN pages',
             faults' = faults \/ faults' = faults + 1
      PROVE  faults' \in Nat /\ \A v \in Workers \ {w} : Archiving(v)' /\ Held(v)' = Held(v)
  BY <1>0, <1>2 DEF Archiving, Held, Others
<1>3. ASSUME NEW u \in Urls,
             \/ StartFetch(w, u) \/ Refuse(w, u) \/ FetchOk(w, u)
             \/ FetchFails(w, u) \/ Panic(w, u)
      PROVE  LostInv'
  <2>1. /\ SameWorker(w) /\ SamePlan(w) /\ Others(w)
        /\ UNCHANGED <<rows, pages, opens, past>>
        /\ faults' = faults \/ (Panic(w, u) /\ faults' = faults + 1)
        /\ \A x \in Held(w) : wk'[w].task[x].st = "panic"
                                => wk[w].task[x].st = "panic" \/ Panic(w, u)
    BY <1>3, TaskFacts
  <2>2. Panic(w, u) => faults' = faults + 1
    BY DEF Panic
  <2>3. faults' \in Nat /\ \A v \in Workers \ {w} : Archiving(v)' /\ Held(v)' = Held(v)
    BY <1>2, <2>1
  <2>4. Held(w)' = Held(w)
    BY <2>1 DEF SameWorker, Held
  <2>5. Archiving(w)'
    BY <1>0, <2>1, <2>2, <2>4 DEF Archiving, SameWorker
  <2>6. NothingLost'
    BY <1>0, <2>1, <2>3, <2>4 DEF NothingLost, InState
  <2> QED BY <2>3, <2>5, <2>6 DEF LostInv
<1>4. CASE Open(w)
  <2>1. /\ Others(w) /\ rows' = init(rows) /\ pages' = pages /\ faults' = faults
        /\ wk'[w].stage = "open" /\ Held(w)' = {}
    BY <1>4, OpenFacts
  <2>2. InState(rows, "inflight")' = {} /\ \A s \in {"done", "error"} : InState(rows, s)' = InState(rows, s)
    BY <1>0, <2>1, StatesAfter DEF InState
  <2>3. faults' \in Nat /\ \A v \in Workers \ {w} : Archiving(v)'
    BY <1>2, <2>1
  <2>4. Archiving(w)'
    BY <2>1 DEF Archiving
  <2>5. NothingLost'
    BY <1>0, <2>1, <2>2 DEF NothingLost
  <2> QED BY <2>3, <2>4, <2>5 DEF LostInv
<1>5. CASE Begin(w)
  <2>1. /\ Others(w) /\ rows' = enqueue(rows, Seed, 0) /\ UNCHANGED <<pages, faults>>
        /\ wk'[w].stage = "drain" /\ wk'[w].task = wk[w].task
    BY <1>5, BeginFacts
  <2>2. \A s \in {"inflight", "done", "error"} : InState(rows, s)' = InState(rows, s)
    BY <1>0, <2>1, StatesAfter DEF InState
  <2>3. faults' \in Nat /\ \A v \in Workers \ {w} : Archiving(v)' /\ Held(v)' = Held(v)
    BY <1>2, <2>1
  <2>4. Held(w)' = Held(w) /\ Archiving(w)'
    BY <1>0, <2>1 DEF Archiving, Held
  <2>5. NothingLost'
    BY <1>0, <2>1, <2>2, <2>3, <2>4 DEF NothingLost
  <2> QED BY <2>3, <2>4, <2>5 DEF LostInv
<1>6. CASE Claim(w)
  <2>1. PICK B \in Batches(rows, Smaller(wk[w].budget - wk[w].fetched, wk[w].conc)) :
          /\ Others(w) /\ Held(w) = {} /\ rows' = claim(rows, B)
          /\ UNCHANGED <<pages, faults>> /\ wk'[w].stage = "drain"
          /\ Held(w)' = B /\ \A u \in B : wk'[w].task[u].st = "waiting"
    BY <1>6, ClaimFacts
  <2>2. /\ InState(rows, "inflight")' = InState(rows, "inflight") \cup B
        /\ \A s \in {"done", "error"} : InState(rows, s)' = InState(rows, s)
    BY <1>0, <2>1, StatesAfter DEF InState, Batches
  <2>3. faults' \in Nat /\ \A v \in Workers \ {w} : Archiving(v)' /\ Held(v)' = Held(v)
    BY <1>2, <2>1
  <2>4. Archiving(w)'
    BY <2>1 DEF Archiving
  <2>5. NothingLost'
    BY <1>0, <2>1, <2>2, <2>3 DEF NothingLost
  <2> QED BY <2>3, <2>4, <2>5 DEF LostInv
<1>7. CASE Stop(w)
  <2>1. /\ Others(w) /\ Held(w) = {} /\ UNCHANGED <<rows, pages, faults>>
        /\ wk'[w].stage = "ended" /\ Held(w)' = {}
    BY <1>7, StopFacts
  <2>2. faults' \in Nat /\ \A v \in Workers \ {w} : Archiving(v)' /\ Held(v)' = Held(v)
    BY <1>2, <2>1
  <2>3. Archiving(w)' /\ NothingLost'
    BY <1>0, <2>1, <2>2 DEF Archiving, NothingLost, InState
  <2> QED BY <2>2, <2>3 DEF LostInv
<1>8. CASE Crash(w)
  <2>1. /\ Others(w) /\ UNCHANGED <<rows, pages>> /\ faults' = faults + 1
        /\ wk'[w].stage = "off" /\ Held(w)' = {}
    BY <1>8, CrashFacts
  <2>2. faults' \in Nat /\ \A v \in Workers \ {w} : Archiving(v)'
    BY <1>2, <2>1
  <2>3. Archiving(w)' /\ NothingLost'
    BY <1>0, <2>1 DEF Archiving, NothingLost, InState
  <2> QED BY <2>2, <2>3 DEF LostInv
<1>9. ASSUME NEW u \in Urls, Join(w, u) PROVE LostInv'
  <2>1. /\ Others(w) /\ UNCHANGED <<rows, faults>> /\ DOMAIN pages' = DOMAIN pages \cup {u}
        /\ wk'[w].stage = "mark" /\ wk'[w].cur = u /\ wk'[w].task = wk[w].task
    BY <1>9, JoinFacts
  <2>2. faults' \in Nat /\ \A v \in Workers \ {w} : Archiving(v)' /\ Held(v)' = Held(v)
    BY <1>2, <2>1
  <2>3. Held(w)' = Held(w) /\ Archiving(w)'
    BY <1>0, <2>1 DEF Archiving, Held
  <2>4. NothingLost'
    BY <1>0, <2>1, <2>2, <2>3 DEF NothingLost, InState
  <2> QED BY <2>2, <2>3, <2>4 DEF LostInv
<1>10. ASSUME NEW u \in Urls, SkipPanic(w, u) PROVE LostInv'
  <2>1. /\ Others(w) /\ UNCHANGED <<rows, pages, faults>> /\ u \in Held(w)
        /\ wk[w].task[u].st = "panic" /\ wk'[w].stage = "drain"
        /\ wk'[w].task = Drop(wk[w].task, u)
    BY <1>10, SkipFacts
  <2>2. faults' \in Nat /\ \A v \in Workers \ {w} : Archiving(v)' /\ Held(v)' = Held(v)
    BY <1>2, <2>1
  <2>3. faults > 0
    BY <1>0, <2>1 DEF Archiving
  <2>4. Archiving(w)'
    BY <1>0, <2>1, <2>3 DEF Archiving, Held, Drop
  <2>5. NothingLost'
    BY <1>0, <2>1, <2>3 DEF NothingLost, InState
  <2> QED BY <2>2, <2>4, <2>5 DEF LostInv
\* The rest of a page: dropped only once its row is settled.
<1>11. ASSUME NEW links, Goes(w, links), Others(w), UNCHANGED <<pages, faults>>,
              wk[w].stage \in {"mark", "follow"}, wk[w].cur \in DOMAIN pages,
              \A x \in InState(rows, "inflight")' : x \in InState(rows, "inflight") /\ x # wk[w].cur,
              (InState(rows, "done") \cup InState(rows, "error"))' \subseteq DOMAIN pages
       PROVE  LostInv'
  <2>2. faults' \in Nat /\ \A v \in Workers \ {w} : Archiving(v)' /\ Held(v)' = Held(v)
    BY <1>2, <1>11
  <2>3. Held(w)' \subseteq Held(w) /\ Held(w) \subseteq Held(w)' \cup {wk[w].cur}
    BY <1>11 DEF Goes, Held, Drop
  <2>4. Archiving(w)'
    <3>1. CASE links = {}
      BY <1>0, <1>11, <3>1 DEF Archiving, Goes, Held, Drop
    <3>2. CASE links # {}
      BY <1>0, <1>11, <3>2 DEF Archiving, Goes, Held
    <3> QED BY <3>1, <3>2
  <2>5. NothingLost'
    BY <1>0, <1>11, <2>2, <2>3 DEF NothingLost
  <2> QED BY <2>2, <2>4, <2>5 DEF LostInv
<1>12. CASE Mark(w)
  <2> DEFINE u == wk[w].cur
             s == IF wk[w].task[u].st = "html" THEN "done" ELSE "error"
  <2>1. PICK links :
          /\ Others(w) /\ wk[w].stage = "mark" /\ UNCHANGED <<pages, faults>>
          /\ rows' = mark(rows, u, s) /\ Goes(w, links)
    BY <1>12, MarkFacts
  <2>2. u \in DOMAIN rows /\ u \in DOMAIN pages /\ s \in {"done", "error"}
    BY <1>0, <2>1 DEF WorkerOK, Archiving
  <2> HIDE DEF s, u
  <2>3. /\ InState(rows, "inflight")' = InState(rows, "inflight") \ {u}
        /\ \A z \in {"done", "error"} : InState(rows, z)' \subseteq InState(rows, z) \cup {u}
    BY <1>0, <2>1, <2>2, StatesAfter DEF InState
  <2> QED BY <1>0, <1>11, <2>1, <2>2, <2>3 DEF u
<1>13. ASSUME NEW v \in Urls, Follow(w, v) PROVE LostInv'
  <2>1. /\ Others(w) /\ wk[w].stage = "follow" /\ UNCHANGED <<pages, faults>>
        /\ rows' = enqueue(rows, v, wk[w].task[wk[w].cur].depth + 1)
        /\ Goes(w, wk[w].links \ {v})
    BY <1>13, FollowFacts
  <2>2. \A s \in {"inflight", "done", "error"} : InState(rows, s)' = InState(rows, s)
    BY <1>0, <2>1, StatesAfter DEF InState
  <2>3. wk[w].cur \in SettledIn(rows) /\ wk[w].cur \in DOMAIN pages
    BY <1>0, <2>1 DEF WorkerOK, Archiving
  <2>4. wk[w].cur \notin InState(rows, "inflight")
    BY <2>3 DEF SettledIn, InState
  <2> QED BY <1>0, <1>11, <2>1, <2>2, <2>3, <2>4
<1> QED BY <1>3, <1>4, <1>5, <1>6, <1>7, <1>8, <1>9, <1>10, <1>12, <1>13 DEF Work, Task

LEMMA LostInitially == Init => LostInv
  BY DEF Init, LostInv, NothingLost, Archiving, Off, Fresh, Held, NoTask, NoRows, InState

\* As long as nothing fails a row in flight is in some worker's hands, and a
\* settled row has its page in the archive: record_page comes before mark.
THEOREM NothingIsLost == Spec => []NothingLost
<1>1. LostInv => NothingLost
  BY DEF LostInv
<1> QED BY <1>1, LostInitially, InitIInv, CrawlStep, LostStep, PTL DEF Spec

-----------------------------------------------------------------------------
(* The budget.  A batch is never larger than what is left of the budget,   *)
(* and a page is archived before it is counted.                            *)

\* Tasks that are not counted in `fetched` yet.
Uncounted(w) == IF wk[w].stage = "follow" THEN Held(w) \ {wk[w].cur} ELSE Held(w)

\* The page that is archived and not counted.
Ahead(w) == IF wk[w].stage = "mark" THEN 1 ELSE 0

Budgeted(w) ==
  /\ wk[w].budget \in Nat /\ wk[w].fetched \in Nat
  /\ IsFiniteSet(Held(w))
  /\ wk[w].stage = "open" => wk[w].fetched = 0
  /\ Running(w) /\ wk[w].stage # "open" =>
       /\ wk[w].fetched + Cardinality(Uncounted(w)) <= wk[w].budget
       /\ counts(pages) + wk[w].budget <= MaxPages + wk[w].fetched + Ahead(w)

\* Workers that follow one another: at most one of them runs.
OneByOne ==
  /\ counts(pages) <= MaxPages
  /\ \A v, w \in Workers : Running(v) /\ Running(w) => v = w
  /\ \A w \in Workers : Budgeted(w)

BudgetInv ==
  /\ IsFiniteSet(DOMAIN rows) /\ IsFiniteSet(DOMAIN pages)
  /\ past.overlap \in BOOLEAN
  /\ \A w \in Workers : wk[w].conc \in Nat
  /\ ~past.overlap => OneByOne

\* A step of a running worker has only its own budget to care for.
LEMMA OneWorker ==
  ASSUME BudgetInv, NEW w \in Workers, Running(w), Others(w), past' = past,
         IsFiniteSet(DOMAIN rows'), IsFiniteSet(DOMAIN pages'), wk'[w].conc \in Nat,
         OneByOne => counts(pages') <= MaxPages /\ Budgeted(w)'
  PROVE  BudgetInv'
<1>1. \A v \in Workers : wk'[v].conc \in Nat
  BY DEF BudgetInv, Others
<1>2. ASSUME OneByOne PROVE OneByOne'
  <2>1. \A v \in Workers \ {w} : ~Running(v) /\ wk'[v] = wk[v] /\ Budgeted(v)
    BY <1>2 DEF OneByOne, Others
  <2>2. \A v \in Workers \ {w} : ~Running(v)'
    BY <2>1 DEF Running
  <2>3. \A v \in Workers \ {w} : Budgeted(v)'
    BY <2>1, <2>2 DEF Budgeted, Running, Held
  <2> QED BY <1>2, <2>2, <2>3 DEF OneByOne, counts
<1> QED BY <1>1, <1>2 DEF BudgetInv

LEMMA WithoutOne ==
  ASSUME NEW S, IsFiniteSet(S), NEW x \in S
  PROVE  /\ IsFiniteSet(S \ {x}) /\ Cardinality(S) \in Nat
         /\ Cardinality(S \ {x}) \in Nat /\ Cardinality(S \ {x}) = Cardinality(S) - 1
  BY FS_RemoveElement, FS_CardinalityType

LEMMA WithOne ==
  ASSUME NEW S, IsFiniteSet(S), NEW x
  PROVE  /\ IsFiniteSet(S \cup {x}) /\ Cardinality(S \cup {x}) \in Nat
         /\ Cardinality(S \cup {x}) <= Cardinality(S) + 1
<1>1. Cardinality(S) \in Nat
  BY FS_CardinalityType
<1>2. /\ IsFiniteSet(S \cup {x})
      /\ \/ Cardinality(S \cup {x}) = Cardinality(S)
         \/ Cardinality(S \cup {x}) = Cardinality(S) + 1
  BY FS_AddElement
<1> QED BY <1>1, <1>2

LEMMA BudgetStep ==
  ASSUME IInv, LostInv, BudgetInv, [Next]_vars
  PROVE  BudgetInv'
<1>0. /\ Typed(rows) /\ DOMAIN wk = Workers /\ \A v \in Workers : WorkerOK(v) /\ Archiving(v)
      /\ IsFiniteSet(DOMAIN rows) /\ IsFiniteSet(DOMAIN pages) /\ past.overlap \in BOOLEAN
      /\ \A v \in Workers : wk[v].conc \in Nat /\ (OneByOne => Budgeted(v))
      /\ MaxPages \in Nat /\ counts(pages) \in Nat
      /\ ~past.overlap => OneByOne
  BY FS_CardinalityType DEF IInv, RowsOK, LostInv, BudgetInv, OneByOne, CrawlAssumption, counts
<1>1. CASE UNCHANGED vars
  BY <1>1 DEF vars, BudgetInv, OneByOne, Budgeted, Running, Uncounted, Held, Ahead, counts
<1> SUFFICES ASSUME NEW w \in Workers,
                    \/ Open(w) \/ Work(w) \/ Crash(w)
                    \/ \E u \in Urls : FetchFails(w, u) \/ Panic(w, u)
             PROVE  BudgetInv'
  BY <1>1 DEF Next
<1>2. ASSUME NEW u, NEW d, rows' = enqueue(rows, u, d) PROVE IsFiniteSet(DOMAIN rows')
  <2>1. DOMAIN rows' = DOMAIN rows \/ DOMAIN rows' = DOMAIN rows \cup {u}
    BY <1>2 DEF enqueue, Put
  <2>2. IsFiniteSet(DOMAIN rows \cup {u})
    BY <1>0, WithOne
  <2> QED BY <1>0, <2>1, <2>2
<1>3. ASSUME NEW u \in Urls,
             \/ StartFetch(w, u) \/ Refuse(w, u) \/ FetchOk(w, u)
             \/ FetchFails(w, u) \/ Panic(w, u)
      PROVE  BudgetInv'
  <2>1. /\ SameWorker(w) /\ SamePlan(w) /\ Others(w) /\ UNCHANGED <<rows, pages, past>>
    BY <1>3, TaskFacts
  <2>2. u \in Held(w)
    BY <1>3 DEF StartFetch, Refuse, FetchOk, FetchFails, Fetched, Fetching, Panic
  <2>3. Running(w)
    BY <1>0, <2>2 DEF Archiving, Running
  <2>4. OneByOne => counts(pages') <= MaxPages /\ Budgeted(w)'
    BY <1>0, <2>1 DEF SameWorker, SamePlan, OneByOne, Budgeted, Running, Uncounted, Held,
                      Ahead, counts
  <2> QED BY <1>0, <2>1, <2>3, <2>4, OneWorker DEF SamePlan
<1>4. CASE Open(w)
  <2>1. /\ Others(w) /\ ~Running(w) /\ rows' = init(rows) /\ pages' = pages
        /\ wk'[w].stage = "open" /\ Held(w)' = {} /\ wk'[w].conc \in Nat
        /\ wk'[w].budget = 0 /\ wk'[w].fetched = 0
        /\ past'.overlap = (past.overlap \/ \E v \in Workers \ {w} : Running(v))
    BY <1>4, OpenFacts
  <2>2. DOMAIN rows' = DOMAIN rows
    BY <2>1 DEF init
  <2>3. ASSUME ~past'.overlap PROVE OneByOne'
    <3>1. OneByOne /\ \A v \in Workers \ {w} : ~Running(v) /\ wk'[v] = wk[v]
      BY <1>0, <2>1, <2>3 DEF Others
    <3>2. \A v \in Workers \ {w} : ~Running(v)' /\ Budgeted(v)'
      BY <1>0, <3>1 DEF Budgeted, Running, Held
    <3>3. Budgeted(w)'
      BY <2>1, FS_EmptySet DEF Budgeted
    <3> QED BY <2>1, <3>1, <3>2, <3>3 DEF OneByOne, counts
  <2>4. \A v \in Workers : wk'[v].conc \in Nat
    BY <1>0, <2>1 DEF Others
  <2> QED BY <1>0, <2>1, <2>2, <2>3, <2>4 DEF BudgetInv
<1>5. CASE Begin(w)
  <2>1. /\ Others(w) /\ wk[w].stage = "open" /\ rows' = enqueue(rows, Seed, 0)
        /\ UNCHANGED <<pages, past>>
        /\ wk'[w].stage = "drain" /\ wk'[w].task = wk[w].task
        /\ wk'[w].conc = wk[w].conc /\ wk'[w].fetched = wk[w].fetched
        /\ wk'[w].budget = IF MaxPages > counts(pages) THEN MaxPages - counts(pages) ELSE 0
    BY <1>5, BeginFacts
  <2>2. Held(w) = {} /\ Held(w)' = {} /\ Running(w)
    BY <1>0, <2>1 DEF Archiving, Held, Running
  <2>3. Cardinality(Uncounted(w)') = 0 /\ IsFiniteSet(Held(w)')
    BY <2>1, <2>2, FS_EmptySet DEF Uncounted
  <2>4. ASSUME OneByOne PROVE counts(pages') <= MaxPages /\ Budgeted(w)'
    <3>1. counts(pages) <= MaxPages /\ wk[w].fetched = 0
      BY <1>0, <2>1, <2>4 DEF OneByOne, Budgeted
    <3>2. wk'[w].budget \in Nat /\ counts(pages) + wk'[w].budget = MaxPages
      BY <1>0, <2>1, <3>1
    <3>3. Ahead(w)' = 0 /\ counts(pages') = counts(pages)
      BY <2>1 DEF Ahead, counts
    <3>4. /\ wk'[w].fetched + Cardinality(Uncounted(w)') <= wk'[w].budget
          /\ counts(pages') + wk'[w].budget <= MaxPages + wk'[w].fetched + Ahead(w)'
      BY <1>0, <2>1, <2>3, <3>1, <3>2, <3>3
    <3> QED BY <2>1, <2>3, <3>1, <3>2, <3>3, <3>4 DEF Budgeted
  <2> QED BY <1>0, <1>2, <2>1, <2>2, <2>4, OneWorker
<1>6. CASE Claim(w)
  <2>1. PICK B \in Batches(rows, Smaller(wk[w].budget - wk[w].fetched, wk[w].conc)) :
          /\ Others(w) /\ wk[w].stage = "drain" /\ rows' = claim(rows, B)
          /\ wk[w].fetched < wk[w].budget /\ UNCHANGED <<pages, past>>
          /\ SamePlan(w) /\ wk'[w].stage = "drain" /\ Held(w)' = B
    BY <1>6, ClaimFacts
  <2>2. DOMAIN rows' = DOMAIN rows /\ Running(w) /\ Uncounted(w)' = B
    BY <2>1 DEF claim, Running, Uncounted
  <2> DEFINE queued == InState(rows, "queued")
  <2>3. /\ B \subseteq queued /\ queued \subseteq DOMAIN rows
        /\ Cardinality(B) = Smaller(Smaller(wk[w].budget - wk[w].fetched, wk[w].conc),
                                    Cardinality(queued))
    BY DEF Batches, InState
  <2>4. /\ IsFiniteSet(queued) /\ IsFiniteSet(B)
        /\ Cardinality(queued) \in Nat /\ Cardinality(B) \in Nat
    BY <1>0, <2>3, FS_Subset, FS_CardinalityType
  <2> HIDE DEF queued
  <2>5. OneByOne => counts(pages') <= MaxPages /\ Budgeted(w)'
    <3>1. SUFFICES ASSUME OneByOne PROVE counts(pages') <= MaxPages /\ Budgeted(w)'
      OBVIOUS
    <3>2. Budgeted(w) /\ wk[w].conc \in Nat
      BY <1>0, <3>1
    <3>3. wk[w].fetched + Cardinality(B) <= wk[w].budget
      BY <2>1, <2>3, <2>4, <3>2 DEF Smaller, Budgeted
    <3> QED BY <2>1, <2>2, <2>4, <3>1, <3>2, <3>3
            DEF OneByOne, Budgeted, Running, Ahead, counts, SamePlan
  <2> QED BY <1>0, <2>1, <2>2, <2>5, OneWorker DEF SamePlan
<1>7. CASE Stop(w)
  <2>1. /\ Others(w) /\ wk[w].stage = "drain" /\ UNCHANGED <<rows, pages, past>>
        /\ wk'[w].stage = "ended" /\ Held(w)' = {} /\ wk'[w].conc = wk[w].conc
        /\ wk'[w].budget = 0 /\ wk'[w].fetched = 0
    BY <1>7, StopFacts
  <2>2. Running(w) /\ (OneByOne => counts(pages') <= MaxPages /\ Budgeted(w)')
    BY <2>1, FS_EmptySet DEF Running, OneByOne, Budgeted
  <2> QED BY <1>0, <2>1, <2>2, OneWorker
<1>8. CASE Crash(w)
  <2>1. /\ Others(w) /\ Running(w) /\ UNCHANGED <<rows, pages, past>>
        /\ wk'[w].stage = "off" /\ Held(w)' = {} /\ wk'[w].conc = 0
        /\ wk'[w].budget = 0 /\ wk'[w].fetched = 0
    BY <1>8, CrashFacts
  <2>2. OneByOne => counts(pages') <= MaxPages /\ Budgeted(w)'
    BY <2>1, FS_EmptySet DEF Running, OneByOne, Budgeted
  <2> QED BY <1>0, <2>1, <2>2, OneWorker
<1>9. ASSUME NEW u \in Urls, Join(w, u) PROVE BudgetInv'
  <2>1. /\ Others(w) /\ SamePlan(w) /\ wk[w].stage = "drain" /\ u \in Held(w)
        /\ UNCHANGED <<rows, past>> /\ DOMAIN pages' = DOMAIN pages \cup {u}
        /\ wk'[w].stage = "mark" /\ wk'[w].task = wk[w].task
    BY <1>9, JoinFacts
  <2>2. Running(w) /\ Uncounted(w) = Held(w) /\ Uncounted(w)' = Held(w) /\ Held(w)' = Held(w)
    BY <2>1 DEF Running, Uncounted, Held
  <2>3. /\ IsFiniteSet(DOMAIN pages') /\ counts(pages') \in Nat
        /\ counts(pages') <= counts(pages) + 1
    <3>1. /\ IsFiniteSet(DOMAIN pages \cup {u}) /\ Cardinality(DOMAIN pages \cup {u}) \in Nat
          /\ Cardinality(DOMAIN pages \cup {u}) <= Cardinality(DOMAIN pages) + 1
      BY <1>0, WithOne
    <3>2. counts(pages') = Cardinality(DOMAIN pages \cup {u})
      BY <2>1 DEF counts
    <3> QED BY <2>1, <3>1, <3>2 DEF counts
  <2>4. OneByOne => counts(pages') <= MaxPages /\ Budgeted(w)'
    <3>1. SUFFICES ASSUME OneByOne PROVE counts(pages') <= MaxPages /\ Budgeted(w)'
      OBVIOUS
    <3>2. Budgeted(w)
      BY <1>0, <3>1
    <3>3. IsFiniteSet(Held(w)) /\ Cardinality(Held(w)) \in Nat /\ Cardinality(Held(w)) >= 1
      <4>1. IsFiniteSet(Held(w))
        BY <3>2 DEF Budgeted
      <4>2. /\ Cardinality(Held(w)) \in Nat /\ Cardinality(Held(w) \ {u}) \in Nat
            /\ Cardinality(Held(w) \ {u}) = Cardinality(Held(w)) - 1
        BY <2>1, <4>1, WithoutOne
      <4> QED BY <4>1, <4>2
    <3> QED BY <1>0, <2>1, <2>2, <2>3, <3>2, <3>3 DEF Budgeted, Running, Ahead, SamePlan
  <2> QED BY <1>0, <2>1, <2>2, <2>3, <2>4, OneWorker DEF SamePlan
<1>10. ASSUME NEW u \in Urls, SkipPanic(w, u) PROVE BudgetInv'
  <2>1. /\ Others(w) /\ SamePlan(w) /\ wk[w].stage = "drain" /\ u \in Held(w)
        /\ UNCHANGED <<rows, pages, past>>
        /\ wk'[w].stage = "drain" /\ wk'[w].task = Drop(wk[w].task, u)
    BY <1>10, SkipFacts
  <2>2. /\ Running(w) /\ Uncounted(w) = Held(w)
        /\ Uncounted(w)' = Held(w) \ {u} /\ Held(w)' = Held(w) \ {u}
    BY <2>1 DEF Running, Uncounted, Held, Drop
  <2>3. ASSUME OneByOne PROVE counts(pages') <= MaxPages /\ Budgeted(w)'
    <3>1. Budgeted(w) /\ IsFiniteSet(Held(w))
      BY <1>0, <2>3 DEF Budgeted
    <3>2. /\ IsFiniteSet(Held(w) \ {u}) /\ Cardinality(Held(w)) \in Nat
          /\ Cardinality(Held(w) \ {u}) \in Nat
          /\ Cardinality(Held(w) \ {u}) = Cardinality(Held(w)) - 1
      BY <2>1, <3>1, WithoutOne
    <3> QED BY <2>1, <2>2, <2>3, <3>1, <3>2 DEF OneByOne, Budgeted, Running, Ahead, SamePlan, counts
  <2> QED BY <1>0, <2>1, <2>2, <2>3, OneWorker DEF SamePlan
<1>11. CASE Mark(w)
  <2> DEFINE u == wk[w].cur
  <2>1. PICK links :
          /\ Others(w) /\ wk[w].stage = "mark" /\ UNCHANGED <<pages, past>>
          /\ rows' = mark(rows, u, IF wk[w].task[u].st = "html" THEN "done" ELSE "error")
          /\ wk'[w].conc = wk[w].conc /\ wk'[w].budget = wk[w].budget
          /\ wk'[w].fetched = wk[w].fetched + 1 /\ Goes(w, links)
    BY <1>11, MarkFacts
  <2>2. /\ DOMAIN rows' = DOMAIN rows /\ Running(w) /\ u \in Held(w)
        /\ Uncounted(w) = Held(w)
    BY <1>0, <2>1 DEF mark, Running, WorkerOK, Uncounted
  <2>3. Uncounted(w)' = Held(w) \ {u} /\ wk'[w].stage \in {"follow", "drain"}
    BY <2>1 DEF Goes, Uncounted, Held, Drop
  <2>4. Held(w)' = Held(w) \/ Held(w)' = Held(w) \ {u}
    BY <2>1 DEF Goes, Held, Drop
  <2> HIDE DEF u
  <2>5. ASSUME OneByOne PROVE counts(pages') <= MaxPages /\ Budgeted(w)'
    <3>1. Budgeted(w) /\ IsFiniteSet(Held(w))
      BY <1>0, <2>5 DEF Budgeted
    <3>2. /\ IsFiniteSet(Held(w) \ {u}) /\ Cardinality(Held(w)) \in Nat
          /\ Cardinality(Held(w) \ {u}) \in Nat
          /\ Cardinality(Held(w) \ {u}) = Cardinality(Held(w)) - 1
      BY <2>2, <3>1, WithoutOne
    <3>3. IsFiniteSet(Held(w)')
      BY <2>4, <3>1, <3>2
    <3>4. Cardinality(Uncounted(w)') = Cardinality(Held(w)) - 1
      BY <2>3, <3>2
    <3>5. /\ wk[w].fetched \in Nat /\ wk[w].budget \in Nat
          /\ wk[w].fetched + Cardinality(Held(w)) <= wk[w].budget
          /\ counts(pages) + wk[w].budget <= MaxPages + wk[w].fetched + 1
      BY <2>1, <2>2, <3>1 DEF Budgeted, Ahead
    <3>6. /\ wk'[w].fetched + Cardinality(Uncounted(w)') <= wk'[w].budget
          /\ counts(pages') + wk'[w].budget <= MaxPages + wk'[w].fetched + Ahead(w)'
      <4>1. Ahead(w)' = 0 /\ counts(pages') = counts(pages)
        BY <2>1, <2>3 DEF Ahead, counts
      <4> QED BY <1>0, <2>1, <3>2, <3>4, <3>5, <4>1
    <3>7. Budgeted(w)'
      BY <2>1, <2>3, <3>3, <3>5, <3>6 DEF Budgeted
    <3> QED BY <2>1, <2>5, <3>7 DEF OneByOne, counts
  <2> QED BY <1>0, <2>1, <2>2, <2>5, OneWorker
<1>12. ASSUME NEW v \in Urls, Follow(w, v) PROVE BudgetInv'
  <2>1. /\ Others(w) /\ SamePlan(w) /\ wk[w].stage = "follow" /\ UNCHANGED <<pages, past>>
        /\ rows' = enqueue(rows, v, wk[w].task[wk[w].cur].depth + 1)
        /\ Goes(w, wk[w].links \ {v})
    BY <1>12, FollowFacts
  <2>2. Running(w) /\ Uncounted(w)' = Uncounted(w) /\ wk'[w].stage \in {"follow", "drain"}
    BY <2>1 DEF Running, Goes, Uncounted, Held, Drop
  <2>3. Held(w)' \subseteq Held(w)
    BY <2>1 DEF Goes, Held, Drop
  <2>4. ASSUME OneByOne PROVE counts(pages') <= MaxPages /\ Budgeted(w)'
    <3>1. Budgeted(w) /\ IsFiniteSet(Held(w)')
      BY <1>0, <2>3, <2>4, FS_Subset DEF Budgeted
    <3> QED BY <2>1, <2>2, <2>4, <3>1 DEF OneByOne, Budgeted, Running, Ahead, SamePlan, counts
  <2> QED BY <1>0, <1>2, <2>1, <2>2, <2>4, OneWorker DEF SamePlan
<1> QED BY <1>3, <1>4, <1>5, <1>6, <1>7, <1>8, <1>9, <1>10, <1>11, <1>12 DEF Work, Task

LEMMA BudgetInitially == Init => BudgetInv
<1> SUFFICES ASSUME Init PROVE BudgetInv
  OBVIOUS
<1>1. DOMAIN rows = {} /\ DOMAIN pages = {} /\ counts(pages) = 0
  BY FS_EmptySet DEF Init, NoRows, counts
<1>2. \A w \in Workers : /\ wk[w].stage = "off" /\ Held(w) = {} /\ wk[w].conc = 0
                         /\ wk[w].budget = 0 /\ wk[w].fetched = 0
  BY DEF Init, Off, Fresh, Held, NoTask
<1>3. \A w \in Workers : Budgeted(w)
  <2>1. \A w \in Workers : IsFiniteSet(Held(w))
    BY <1>2, FS_EmptySet
  <2> QED BY <1>2, <2>1 DEF Budgeted, Running
<1> QED BY <1>1, <1>2, <1>3, FS_EmptySet
        DEF BudgetInv, OneByOne, Init, Running, CrawlAssumption

\* --max-pages holds across restarts and crashes: what is archived is charged
\* against the budget of the next worker, unless it starts beside another.
THEOREM BudgetIsKept == Spec => []ArchiveWithinBudget
<1>1. Init => BudgetInv
  BY BudgetInitially
<1>2. BudgetInv => ArchiveWithinBudget
  BY DEF BudgetInv, OneByOne, ArchiveWithinBudget, counts
<1>3. Init => LostInv
  BY LostInitially
<1> QED BY <1>1, <1>2, <1>3, InitIInv, CrawlStep, LostStep, BudgetStep, PTL DEF Spec

-----------------------------------------------------------------------------
(* The rotation: what a pool's lock protects, whatever order the requests  *)
(* of a worker end in.                                                     *)

Pools == [list : Seq(Proxies), live : SUBSET Nat, failures : [Proxies -> Nat], cursor : Nat]

\* A proxy in rotation is charged with its failures in a row and no more; a
\* position that fell out of it holds a condemned or an unbuildable proxy.
PoolOK(pool, streak, condemned) ==
  /\ pool \in Pools /\ streak \in [Proxies -> Nat]
  /\ pool.live \subseteq DOMAIN pool.list
  /\ \A i \in pool.live :
       /\ pool.failures[pool.list[i]] = streak[pool.list[i]]
       /\ streak[pool.list[i]] < MaxFailures
       /\ pool.list[i] \notin condemned
  /\ \A i \in DOMAIN pool.list \ pool.live :
       pool.list[i] \in condemned \cup (Proxies \ Buildable)

LEMMA RemoveKeeps ==
  ASSUME NEW pool \in Pools, pool.live \subseteq DOMAIN pool.list, NEW p
  PROVE  LET n == remove(pool, p) IN
         /\ n \in Pools /\ n.list = pool.list
         /\ n.live = {i \in pool.live : pool.list[i] # p}
         /\ \A q \in Proxies : q # p => n.failures[q] = pool.failures[q]
  BY DEF remove, Pools

LEMMA SelectKeeps ==
  ASSUME NEW pool, NEW streak, NEW condemned, PoolOK(pool, streak, condemned)
  PROVE  LET c == select(pool) IN
         /\ PoolOK(c.pool, streak, condemned) /\ c.pool.list = pool.list
         /\ c.via \in Buildable \cup {Direct}
<1> DEFINE next == AfterPick(pool)
           p == Picked(pool)
<1>0. /\ pool \in Pools /\ pool.list \in Seq(Proxies) /\ pool.live \in SUBSET Nat
      /\ pool.failures \in [Proxies -> Nat] /\ pool.cursor + 1 \in Nat
  BY DEF PoolOK, Pools
<1>1. /\ next \in Pools /\ next.list = pool.list /\ next.live = pool.live
      /\ next.failures = pool.failures
  <2>1. next = [list |-> pool.list, live |-> pool.live, failures |-> pool.failures,
                cursor |-> pool.cursor + 1]
    BY <1>0 DEF AfterPick, Pools
  <2> QED BY <1>0, <2>1 DEF Pools
<1>2. \A i \in DOMAIN pool.list : pool.list[i] \in Proxies
  BY DEF PoolOK, Pools
<1> HIDE DEF next, p
<1>3. PoolOK(next, streak, condemned)
  BY <1>1 DEF PoolOK
<1>4. CASE pool.live = {}
  BY <1>4 DEF select
<1>5. CASE pool.live # {} /\ p \in Buildable
  BY <1>1, <1>3, <1>5 DEF select, next, p
<1>6. CASE pool.live # {} /\ p \notin Buildable
  <2> DEFINE n == remove(next, p)
  <2>1. /\ n \in Pools /\ n.list = pool.list
        /\ n.live = {i \in pool.live : pool.list[i] # p}
        /\ \A q \in Proxies : q # p => n.failures[q] = pool.failures[q]
    <3>1. next.live \subseteq DOMAIN next.list
      BY <1>3 DEF PoolOK
    <3> QED BY <1>1, <3>1, RemoveKeeps
  <2>2. select(pool).pool = n /\ select(pool).via = Direct
    BY <1>6 DEF select, next, p
  <2> HIDE DEF n
  <2>3. PoolOK(n, streak, condemned)
    BY <1>2, <1>6, <2>1 DEF PoolOK
  <2> QED BY <2>1, <2>2, <2>3
<1> QED BY <1>4, <1>5, <1>6

LEMMA ReportKeeps ==
  ASSUME NEW pool, NEW streak, NEW condemned, PoolOK(pool, streak, condemned),
         NEW via \in Proxies, NEW answered \in BOOLEAN,
         NEW n \in Nat, n = IF answered THEN 0 ELSE streak[via] + 1
  PROVE  LET c == report(pool, via, answered) IN
         /\ c.list = pool.list
         /\ PoolOK(c, [streak EXCEPT ![via] = n],
                   IF n >= MaxFailures THEN condemned \cup {via} ELSE condemned)
<1> DEFINE c == report(pool, via, answered)
<1>1. /\ pool \in Pools /\ streak \in [Proxies -> Nat] /\ via # Direct
      /\ pool.live \subseteq DOMAIN pool.list
      /\ \A i \in DOMAIN pool.list : pool.list[i] \in Proxies
      /\ MaxFailures \in Nat \ {0}
  BY DEF PoolOK, Pools, PoolAssumption
<1>2. pool.failures \in [Proxies -> Nat]
  BY <1>1 DEF Pools
<1>3. CASE answered
  <2>1. /\ c \in Pools /\ c.list = pool.list /\ c.live = pool.live
        /\ c.failures = [pool.failures EXCEPT ![via] = 0]
    BY <1>1, <1>3 DEF report, report_success, Pools
  <2>2. n = 0
    BY <1>3
  <2> HIDE DEF c
  <2> QED BY <1>1, <1>2, <2>1, <2>2 DEF PoolOK, c
<1>4. CASE ~answered /\ pool.failures[via] + 1 >= MaxFailures
  <2>1. /\ c \in Pools /\ c.list = pool.list
        /\ c.live = {i \in pool.live : pool.list[i] # via}
        /\ \A q \in Proxies : q # via => c.failures[q] = pool.failures[q]
    <3>1. c = remove(pool, via)
      BY <1>1, <1>4 DEF report, report_failure
    <3> QED BY <1>1, <3>1, RemoveKeeps
  <2>2. n = streak[via] + 1
    BY <1>4
  <2> HIDE DEF c
  <2>3. PoolOK(c, [streak EXCEPT ![via] = n],
               IF n >= MaxFailures THEN condemned \cup {via} ELSE condemned)
    <3>1. \A i \in c.live : /\ i \in pool.live /\ pool.list[i] # via /\ pool.list[i] \in Proxies
      BY <1>1, <2>1
    <3>2. (\E i \in pool.live : pool.list[i] = via) => n >= MaxFailures
      BY <1>1, <1>4, <2>2 DEF PoolOK
    <3> QED BY <1>1, <2>1, <3>1, <3>2 DEF PoolOK
  <2> QED BY <2>1, <2>3 DEF c
<1>5. CASE ~answered /\ ~(pool.failures[via] + 1 >= MaxFailures)
  <2>1. /\ c \in Pools /\ c.list = pool.list /\ c.live = pool.live
        /\ c.failures = [pool.failures EXCEPT ![via] = pool.failures[via] + 1]
    <3>1. c = [pool EXCEPT !.failures[via] = @ + 1]
      BY <1>1, <1>5 DEF report, report_failure
    <3>2. [pool.failures EXCEPT ![via] = pool.failures[via] + 1] \in [Proxies -> Nat]
      BY <1>2
    <3>3. c = [pool EXCEPT !.failures = [pool.failures EXCEPT ![via] = pool.failures[via] + 1]]
      BY <3>1
    <3> HIDE DEF c
    <3> QED BY <1>1, <3>2, <3>3 DEF Pools
  <2>2. n = streak[via] + 1
    BY <1>5
  <2> HIDE DEF c
  <2>3. (\E i \in pool.live : pool.list[i] = via) => n < MaxFailures
    BY <1>1, <1>2, <1>5, <2>2 DEF PoolOK
  <2>4. PoolOK(c, [streak EXCEPT ![via] = n],
               IF n >= MaxFailures THEN condemned \cup {via} ELSE condemned)
    BY <1>1, <1>2, <2>1, <2>2, <2>3 DEF PoolOK
  <2> QED BY <2>1, <2>4 DEF c
<1> QED BY <1>3, <1>4, <1>5

Rotating(w) ==
  /\ PoolOK(wk[w].pool, wk[w].streak, wk[w].condemned)
  /\ \A u \in Held(w) : wk[w].task[u].via \in Buildable \cup {Direct}
  /\ Running(w) => \E o \in Options[w] : o[1] = wk[w].conc /\ wk[w].pool.list = o[2]

RotationInv == \A w \in Workers : Rotating(w)

LEMMA FreshPool ==
  ASSUME NEW s \in Seq(Proxies)
  PROVE  /\ PoolOK(from_list(s), [p \in Proxies |-> 0], {})
         /\ from_list(s).list = s
<1>1. DOMAIN s \subseteq Nat /\ \A i \in DOMAIN s : s[i] \in Proxies
  OBVIOUS
<1>2. MaxFailures \in Nat \ {0}
  BY DEF PoolAssumption
<1> QED BY <1>1, <1>2 DEF PoolOK, Pools, from_list

\* A step of w that leaves its rotation alone.
SameRotation(w) ==
  /\ wk'[w].pool = wk[w].pool /\ wk'[w].streak = wk[w].streak
  /\ wk'[w].condemned = wk[w].condemned /\ wk'[w].conc = wk[w].conc

LEMMA OneRotation ==
  ASSUME IInv, RotationInv, NEW w \in Workers, Others(w), Rotating(w)'
  PROVE  RotationInv'
  BY DEF RotationInv, Others, Rotating, Held, Running

LEMMA QuietRotation ==
  ASSUME IInv, RotationInv, NEW w \in Workers, Others(w), SameRotation(w), Running(w),
         \A u \in Held(w)' : \/ wk'[w].task[u].via = Direct
                             \/ u \in Held(w) /\ wk'[w].task[u].via = wk[w].task[u].via
  PROVE  RotationInv'
<1>1. Rotating(w)'
  BY DEF RotationInv, Rotating, SameRotation, Running
<1> QED BY <1>1, OneRotation

LEMMA NextPageRotation ==
  ASSUME NEW me, DOMAIN me = Fields
  PROVE  LET n == NextPage(me) IN
         /\ n.pool = me.pool /\ n.streak = me.streak /\ n.condemned = me.condemned
         /\ n.conc = me.conc
         /\ n.task = me.task \/ n.task = Drop(me.task, me.cur)
  BY DEF NextPage, Fields

LEMMA RotationStep ==
  ASSUME IInv, LostInv, RotationInv, [Next]_vars
  PROVE  RotationInv'
<1>0. /\ DOMAIN wk = Workers /\ \A v \in Workers : DOMAIN wk[v] = Fields
      /\ \A v \in Workers : \A u \in Held(v) : DOMAIN wk[v].task[u] = {"depth", "st", "via"}
      /\ \A v \in Workers : Rotating(v)
  BY DEF IInv, WorkerOK, RotationInv
<1>1. CASE UNCHANGED vars
  BY <1>1 DEF vars, RotationInv, Rotating, Held, Running
<1> SUFFICES ASSUME NEW w \in Workers,
                    \/ Open(w) \/ Work(w) \/ Crash(w)
                    \/ \E u \in Urls : FetchFails(w, u) \/ Panic(w, u)
             PROVE  RotationInv'
  BY <1>1 DEF Next
<1>a. \A u \in Held(w) : Running(w)
  BY DEF LostInv, Archiving, Running
<1>2. CASE Open(w)
  <2>1. PICK o \in Options[w] :
          wk' = [wk EXCEPT ![w] = [Fresh(o[1], o[2], o[3]) EXCEPT !.stage = "open"]]
    BY <1>2 DEF Open
  <2>2. o[2] \in Seq(Proxies)
    BY DEF CrawlAssumption
  <2>3. /\ Others(w) /\ wk'[w].pool = from_list(o[2]) /\ wk'[w].conc = o[1]
        /\ wk'[w].streak = [p \in Proxies |-> 0] /\ wk'[w].condemned = {}
        /\ wk'[w].task = NoTask
    BY <1>0, <2>1 DEF Fresh, Others
  <2>4. Rotating(w)'
    BY <2>2, <2>3, FreshPool DEF Rotating, Held, NoTask
  <2> QED BY <2>3, <2>4, OneRotation
<1>3. ASSUME Others(w), ~Running(w)', wk'[w].pool = from_list(<<>>), wk'[w].condemned = {},
             wk'[w].streak = [p \in Proxies |-> 0], wk'[w].task = NoTask
      PROVE  RotationInv'
  <2>1. <<>> \in Seq(Proxies)
    OBVIOUS
  <2>2. PoolOK(from_list(<<>>), [p \in Proxies |-> 0], {})
    BY <2>1, FreshPool
  <2>3. Rotating(w)'
    BY <1>3, <2>2 DEF Rotating, Held, NoTask
  <2> QED BY <1>3, <2>3, OneRotation
<1>4. CASE Stop(w)
  <2>1. /\ Others(w) /\ wk'[w].stage = "ended" /\ wk'[w].pool = from_list(<<>>)
        /\ wk'[w].condemned = {} /\ wk'[w].streak = [p \in Proxies |-> 0]
        /\ wk'[w].task = NoTask
    BY <1>0, <1>4 DEF Stop, Fresh, Others
  <2> QED BY <1>3, <2>1 DEF Running
<1>5. CASE Crash(w)
  <2>1. /\ Others(w) /\ wk'[w].stage = "off" /\ wk'[w].pool = from_list(<<>>)
        /\ wk'[w].condemned = {} /\ wk'[w].streak = [p \in Proxies |-> 0]
        /\ wk'[w].task = NoTask
    BY <1>0, <1>5 DEF Crash, Off, Fresh, Others
  <2> QED BY <1>3, <2>1 DEF Running
<1>6. CASE Begin(w)
  <2>1. /\ Others(w) /\ SameRotation(w) /\ Running(w) /\ wk'[w].task = wk[w].task
    BY <1>0, <1>6 DEF Begin, Fields, Others, SameRotation, Running
  <2> QED BY <2>1, QuietRotation DEF Held
<1>7. CASE Claim(w)
  <2>1. PICK B :
          wk' = [wk EXCEPT ![w].task = [u \in B |->
                      [depth |-> rows[u].depth, st |-> "waiting", via |-> Direct]]]
    BY <1>7 DEF Claim
  <2>2. /\ Others(w) /\ SameRotation(w) /\ Running(w)
        /\ wk'[w].task = [u \in B |->
                      [depth |-> rows[u].depth, st |-> "waiting", via |-> Direct]]
    BY <1>0, <1>7, <2>1 DEF Claim, Idle, Fields, Others, SameRotation, Running
  <2>3. \A u \in Held(w)' : wk'[w].task[u].via = Direct
    BY <2>2 DEF Held
  <2> QED BY <2>2, <2>3, QuietRotation
<1>8. ASSUME NEW u \in Urls, NEW st, u \in Held(w), wk' = [wk EXCEPT ![w].task[u].st = st]
      PROVE  RotationInv'
  <2>1. Others(w) /\ SameRotation(w)
    BY <1>0, <1>8 DEF Fields, Others, SameRotation
  <2>2. \A x \in Held(w)' : x \in Held(w) /\ wk'[w].task[x].via = wk[w].task[x].via
    BY <1>0, <1>8 DEF Fields, Held
  <2> QED BY <1>a, <1>8, <2>1, <2>2, QuietRotation
<1>9. ASSUME NEW u \in Urls, Refuse(w, u) \/ Panic(w, u) PROVE RotationInv'
  BY <1>8, <1>9 DEF Refuse, Panic, Fetching
<1>10. ASSUME NEW u \in Urls, Join(w, u) PROVE RotationInv'
  <2>1. Others(w) /\ SameRotation(w) /\ wk'[w].task = wk[w].task /\ u \in Held(w)
    BY <1>0, <1>10 DEF Join, Fields, Others, SameRotation
  <2> QED BY <1>a, <2>1, QuietRotation DEF Held
<1>11. ASSUME NEW u \in Urls, SkipPanic(w, u) PROVE RotationInv'
  <2>1. Others(w) /\ SameRotation(w) /\ wk'[w].task = Drop(wk[w].task, u) /\ u \in Held(w)
    BY <1>0, <1>11 DEF SkipPanic, Fields, Others, SameRotation
  <2> QED BY <1>a, <2>1, QuietRotation DEF Held, Drop
<1>12. ASSUME NEW me, DOMAIN me = Fields, wk' = [wk EXCEPT ![w] = NextPage(me)],
              wk[w].stage \in {"mark", "follow"}, me.task = wk[w].task, me.pool = wk[w].pool,
              me.streak = wk[w].streak, me.condemned = wk[w].condemned, me.conc = wk[w].conc
       PROVE  RotationInv'
  <2>1. /\ Others(w) /\ SameRotation(w) /\ Running(w)
        /\ wk'[w].task = wk[w].task \/ wk'[w].task = Drop(wk[w].task, me.cur)
    BY <1>0, <1>12, NextPageRotation DEF Others, SameRotation, Running
  <2>2. \A x \in Held(w)' : x \in Held(w) /\ wk'[w].task[x].via = wk[w].task[x].via
    BY <2>1 DEF Held, Drop
  <2> QED BY <2>1, <2>2, QuietRotation
<1>13. CASE Mark(w)
  <2>1. PICK scope, links :
          LET me == [wk[w] EXCEPT !.stage = "follow", !.fetched = @ + 1,
                                  !.scope = scope, !.links = links]
          IN wk' = [wk EXCEPT ![w] = NextPage(me)]
    BY <1>13 DEF Mark
  <2> DEFINE me == [wk[w] EXCEPT !.stage = "follow", !.fetched = @ + 1,
                                  !.scope = scope, !.links = links]
  <2>2. /\ DOMAIN me = Fields /\ me.task = wk[w].task /\ me.pool = wk[w].pool
        /\ me.streak = wk[w].streak /\ me.condemned = wk[w].condemned /\ me.conc = wk[w].conc
    BY <1>0 DEF Fields
  <2>3. wk' = [wk EXCEPT ![w] = NextPage(me)] /\ wk[w].stage = "mark"
    BY <1>13, <2>1 DEF Mark
  <2> HIDE DEF me
  <2> QED BY <1>12, <2>2, <2>3
<1>14. ASSUME NEW v \in Urls, Follow(w, v) PROVE RotationInv'
  <2> DEFINE me == [wk[w] EXCEPT !.links = @ \ {v}]
  <2>2. /\ DOMAIN me = Fields /\ me.task = wk[w].task /\ me.pool = wk[w].pool
        /\ me.streak = wk[w].streak /\ me.condemned = wk[w].condemned /\ me.conc = wk[w].conc
    BY <1>0 DEF Fields
  <2>3. wk' = [wk EXCEPT ![w] = NextPage(me)] /\ wk[w].stage = "follow"
    BY <1>14 DEF Follow
  <2> HIDE DEF me
  <2> QED BY <1>12, <2>2, <2>3
\* A request takes a client from the rotation.
<1>15. ASSUME NEW u \in Urls, StartFetch(w, u) PROVE RotationInv'
  <2> PICK c : c = select(wk[w].pool)
    OBVIOUS
  <2>1. /\ u \in Held(w)
        /\ wk' = [wk EXCEPT ![w].pool = c.pool,
                ![w].task[u].st = "fetching", ![w].task[u].via = c.via]
    BY <1>15 DEF StartFetch
  <2>2. /\ PoolOK(c.pool, wk[w].streak, wk[w].condemned) /\ c.pool.list = wk[w].pool.list
        /\ c.via \in Buildable \cup {Direct}
    BY <1>0, SelectKeeps DEF Rotating
  <2>3. /\ Others(w) /\ wk'[w].pool = c.pool /\ wk'[w].streak = wk[w].streak
        /\ wk'[w].condemned = wk[w].condemned /\ wk'[w].conc = wk[w].conc
        /\ wk'[w].stage = wk[w].stage
    BY <1>0, <2>1 DEF Fields, Others
  <2>4. /\ Held(w)' = Held(w)
        /\ \A x \in Held(w) : wk'[w].task[x].via = IF x = u THEN c.via ELSE wk[w].task[x].via
    BY <1>0, <2>1 DEF Fields, Held
  <2>5. Rotating(w)'
    BY <1>0, <2>2, <2>3, <2>4 DEF Rotating, Running
  <2> QED BY <2>3, <2>5, OneRotation
\* Its outcome is reported, before or after others took or lost the proxy.
<1>16. ASSUME NEW u \in Urls, NEW out, Fetched(w, u, out) PROVE RotationInv'
  <2> DEFINE via == wk[w].task[u].via
             answered == out # "noanswer"
             n == IF answered \/ via = Direct THEN 0 ELSE wk[w].streak[via] + 1
             streak == IF via = Direct THEN wk[w].streak ELSE [wk[w].streak EXCEPT ![via] = n]
             condemned == IF via # Direct /\ n >= MaxFailures
                            THEN wk[w].condemned \cup {via} ELSE wk[w].condemned
             pool == report(wk[w].pool, via, answered)
  <2>1. /\ u \in Held(w)
        /\ wk' = [wk EXCEPT ![w].task[u].st = out, ![w].pool = pool,
                            ![w].streak = streak, ![w].condemned = condemned]
    BY <1>16 DEF Fetched, Fetching
  <2>2. via \in Buildable \cup {Direct} /\ Buildable \subseteq Proxies /\ Direct \notin Proxies
    BY <1>0, <2>1 DEF Rotating, PoolAssumption
  <2>3. PoolOK(pool, streak, condemned) /\ pool.list = wk[w].pool.list
    <3>0. PoolOK(wk[w].pool, wk[w].streak, wk[w].condemned)
      BY <1>0 DEF Rotating
    <3>1. CASE via = Direct
      BY <3>0, <3>1 DEF report
    <3>2. CASE via # Direct
      <4>1. PICK p \in Proxies, a \in BOOLEAN : p = via /\ a = answered
        BY <2>2, <3>2
      <4>2. PICK k \in Nat : k = IF a THEN 0 ELSE wk[w].streak[p] + 1
        BY <3>0 DEF PoolOK
      <4>3. LET c == report(wk[w].pool, p, a) IN
            /\ c.list = wk[w].pool.list
            /\ PoolOK(c, [wk[w].streak EXCEPT ![p] = k],
                      IF k >= MaxFailures THEN wk[w].condemned \cup {p} ELSE wk[w].condemned)
        BY <3>0, <4>2, ReportKeeps
      <4>4. /\ k = n /\ pool = report(wk[w].pool, p, a)
            /\ streak = [wk[w].streak EXCEPT ![p] = k]
            /\ condemned = IF k >= MaxFailures THEN wk[w].condemned \cup {p}
                                               ELSE wk[w].condemned
        BY <3>2, <4>1, <4>2
      <4> HIDE DEF pool, streak, condemned
      <4> QED BY <4>3, <4>4
    <3> QED BY <3>1, <3>2
  <2> HIDE DEF pool, streak, condemned
  <2>4. /\ Others(w) /\ wk'[w].pool = pool /\ wk'[w].streak = streak
        /\ wk'[w].condemned = condemned /\ wk'[w].conc = wk[w].conc
        /\ wk'[w].stage = wk[w].stage
    BY <1>0, <2>1 DEF Fields, Others
  <2>5. Held(w)' = Held(w) /\ \A x \in Held(w) : wk'[w].task[x].via = wk[w].task[x].via
    BY <1>0, <2>1 DEF Fields, Held
  <2>6. Rotating(w)'
    BY <1>0, <2>3, <2>4, <2>5 DEF Rotating, Running
  <2> QED BY <2>4, <2>6, OneRotation
<1> QED BY <1>2, <1>4, <1>5, <1>6, <1>7, <1>9, <1>10, <1>11, <1>13, <1>14, <1>15, <1>16
        DEF Work, Task, FetchOk, FetchFails

\* No order of requests and answers loses a healthy proxy or brings a dead
\* one back: ProxyPool's streak counting under its one lock.
THEOREM RotationStaysHealthy == Spec => []RotationIsHealthy
<1>1. Init => RotationInv
  <2>1. <<>> \in Seq(Proxies)
    OBVIOUS
  <2>2. PoolOK(from_list(<<>>), [p \in Proxies |-> 0], {})
    BY <2>1, FreshPool
  <2>3. ASSUME Init, NEW w \in Workers PROVE Rotating(w)
    <3>1. /\ wk[w].pool = from_list(<<>>) /\ wk[w].condemned = {} /\ wk[w].task = NoTask
          /\ wk[w].streak = [p \in Proxies |-> 0] /\ wk[w].stage = "off"
      BY <2>3 DEF Init, Off, Fresh
    <3> QED BY <2>2, <3>1 DEF Rotating, Held, NoTask, Running
  <2> QED BY <2>3 DEF RotationInv
<1>2. RotationInv => RotationIsHealthy
  <2> SUFFICES ASSUME RotationInv, NEW w \in Workers, Running(w)
               PROVE  /\ Live(wk[w].pool) \cap wk[w].condemned = {}
                      /\ \E o \in Options[w] : o[1] = wk[w].conc /\ \A i \in DOMAIN o[2] :
                           o[2][i] \in Live(wk[w].pool) \cup wk[w].condemned
                                         \cup (Proxies \ Buildable)
    BY DEF RotationIsHealthy
  <2>1. Rotating(w) /\ PoolOK(wk[w].pool, wk[w].streak, wk[w].condemned)
    BY DEF RotationInv, Rotating
  <2>2. Live(wk[w].pool) \cap wk[w].condemned = {}
    BY <2>1 DEF PoolOK, Live
  <2>3. \A i \in DOMAIN wk[w].pool.list :
          wk[w].pool.list[i] \in Live(wk[w].pool) \cup wk[w].condemned
                                   \cup (Proxies \ Buildable)
    BY <2>1 DEF PoolOK, Live
  <2> QED BY <2>1, <2>2, <2>3 DEF Rotating
<1>3. Init => LostInv
  BY LostInitially
<1> QED BY <1>1, <1>2, <1>3, InitIInv, CrawlStep, LostStep, RotationStep, PTL DEF Spec

-----------------------------------------------------------------------------
(* An undisturbed crawl: one worker, opened once, and no failure.          *)

Home == Host[Final[Seed]]
Begun == \E u \in DOMAIN rows : rows[u].depth # 0 \/ rows[u].state = "done"
Owed(w, u) == IF wk[w].stage = "follow" /\ wk[w].cur = u THEN wk[w].links ELSE {}

\* What the only worker has done so far: once a page was read the scope is
\* the seed's final host, and each link of a page that is done is a row or
\* among those the worker still has to enqueue.
Closing(w) ==
  /\ \A v \in Workers : v # w => wk[v].stage = "off"
  /\ wk[w].stage = "open" => DOMAIN rows = {}
  /\ Begun => Seed \in SettledIn(rows)
  /\ Begun /\ wk[w].stage # "ended" => wk[w].scope = Home
  /\ \A u \in Held(w) :
       rows[u].state = "inflight" \/ (wk[w].stage = "follow" /\ u = wk[w].cur)
  /\ wk[w].stage = "follow" => wk[w].links # {} /\ rows[wk[w].cur].state = "done"
  /\ \A u \in InState(rows, "done") :
       Wanted(u, rows[u].depth, Home, wk[w].enforce) \subseteq DOMAIN rows \cup Owed(w, u)

ClosedInv ==
  /\ opens \in Nat
  /\ faults = 0 /\ opens = 0 =>
       DOMAIN rows = {} /\ \A w \in Workers : wk[w].stage = "off"
  /\ faults = 0 /\ opens = 1 =>
       \A w \in Workers : wk[w].stage # "off" => Closing(w)

\* A step of the only worker that is not off.
LEMMA OnlyWorker ==
  ASSUME IInv, LostInv, ClosedInv, NEW w \in Workers, wk[w].stage # "off", Others(w),
         opens' = opens, faults' = faults \/ faults' = faults + 1,
         faults = 0 /\ Closing(w) => Closing(w)'
  PROVE  ClosedInv'
<1>1. faults \in Nat
  BY DEF LostInv
<1>2. ASSUME faults' = 0, opens = 1, NEW v \in Workers, wk'[v].stage # "off"
      PROVE  Closing(v)'
  <2>1. faults = 0 /\ Closing(w)
    BY <1>1, <1>2 DEF ClosedInv
  <2>2. v = w
    BY <1>2, <2>1 DEF Closing, Others
  <2> QED BY <2>1, <2>2
<1>3. faults' = 0 => opens # 0
  BY <1>1 DEF ClosedInv
<1> QED BY <1>2, <1>3 DEF ClosedInv

LEMMA ClosedStep ==
  ASSUME IInv, LostInv, ClosedInv, [Next]_vars
  PROVE  ClosedInv'
<1>0. /\ Typed(rows) /\ DOMAIN wk = Workers /\ \A v \in Workers : WorkerOK(v) /\ Archiving(v)
      /\ \A u \in DOMAIN rows : rows[u].depth = 0 => u = Seed
      /\ Seed \in Urls /\ opens \in Nat /\ faults \in Nat
  BY DEF IInv, RowsOK, LostInv, ClosedInv, CrawlAssumption
<1>1. CASE UNCHANGED vars
  BY <1>1 DEF vars, ClosedInv, Closing, Begun, Owed, SettledIn, InState, Held
<1> SUFFICES ASSUME NEW w \in Workers,
                    \/ Open(w) \/ Work(w) \/ Crash(w)
                    \/ \E u \in Urls : FetchFails(w, u) \/ Panic(w, u)
             PROVE  ClosedInv'
  BY <1>1 DEF Next
<1>2. ASSUME NEW u \in Urls,
             \/ StartFetch(w, u) \/ Refuse(w, u) \/ FetchOk(w, u)
             \/ FetchFails(w, u) \/ Panic(w, u)
      PROVE  ClosedInv'
  <2>1. /\ SameWorker(w) /\ SamePlan(w) /\ Others(w) /\ UNCHANGED <<rows, opens>>
        /\ faults' = faults \/ faults' = faults + 1
    BY <1>2, TaskFacts
  <2>2. u \in Held(w)
    BY <1>2 DEF StartFetch, Refuse, FetchOk, FetchFails, Fetched, Fetching, Panic
  <2>3. wk[w].stage # "off"
    BY <1>0, <2>2 DEF Archiving
  <2>4. Closing(w) => Closing(w)'
    BY <2>1 DEF SameWorker, SamePlan, Others, Closing, Begun, Owed, SettledIn, InState, Held
  <2> QED BY <2>1, <2>3, <2>4, OnlyWorker
<1>3. CASE Open(w)
  <2>1. /\ Others(w) /\ rows' = init(rows) /\ faults' = faults /\ opens' = opens + 1
        /\ wk'[w].stage = "open" /\ Held(w)' = {}
    BY <1>3, OpenFacts
  <2>2. opens' \in Nat /\ opens' # 0
    BY <1>0, <2>1
  <2>3. ASSUME faults' = 0, opens' = 1 PROVE \A v \in Workers : wk'[v].stage # "off" => Closing(v)'
    <3>1. DOMAIN rows = {} /\ \A v \in Workers : wk[v].stage = "off"
      BY <1>0, <2>1, <2>3 DEF ClosedInv
    <3>2. DOMAIN rows' = {} /\ \A v \in Workers \ {w} : wk'[v].stage = "off"
      BY <2>1, <3>1 DEF init, Others
    <3>3. Closing(w)'
      BY <2>1, <3>2 DEF Closing, Begun, InState
    <3> QED BY <3>2, <3>3
  <2> QED BY <2>2, <2>3 DEF ClosedInv
<1>4. CASE Begin(w)
  <2>1. /\ Others(w) /\ wk[w].stage = "open" /\ rows' = enqueue(rows, Seed, 0)
        /\ UNCHANGED <<faults, opens>>
        /\ wk'[w].stage = "drain" /\ wk'[w].task = wk[w].task
    BY <1>4, BeginFacts
  <2>2. Held(w)' = {}
    BY <1>0, <2>1 DEF Archiving, Held
  <2>3. ASSUME Closing(w) PROVE Closing(w)'
    <3>1. DOMAIN rows' = {Seed} /\ rows'[Seed].depth = 0 /\ rows'[Seed].state = "queued"
      BY <2>1, <2>3 DEF Closing, enqueue, Put
    <3>2. ~Begun' /\ InState(rows, "done")' = {}
      BY <3>1 DEF Begun, InState
    <3> QED BY <2>1, <2>2, <2>3, <3>2 DEF Closing, Others
  <2> QED BY <2>1, <2>3, OnlyWorker
<1>5. CASE Claim(w)
  <2>1. PICK B \in Batches(rows, Smaller(wk[w].budget - wk[w].fetched, wk[w].conc)) :
          /\ Others(w) /\ wk[w].stage = "drain" /\ rows' = claim(rows, B)
          /\ UNCHANGED <<faults, opens>>
          /\ SamePlan(w) /\ wk'[w].scope = wk[w].scope /\ wk'[w].stage = "drain"
          /\ Held(w)' = B
    BY <1>5, ClaimFacts
  <2>2. B \subseteq InState(rows, "queued")
    BY DEF Batches
  <2>3. /\ DOMAIN rows' = DOMAIN rows
        /\ \A x \in DOMAIN rows : rows'[x].depth = rows[x].depth
        /\ \A x \in B : rows'[x].state = "inflight"
        /\ \A x \in DOMAIN rows : rows'[x].state = "done" <=> rows[x].state = "done"
        /\ SettledIn(rows)' = SettledIn(rows)
    BY <1>0, <2>1, <2>2 DEF claim, InState, SettledIn, Typed, Row
  <2>4. Begun' = Begun /\ InState(rows, "done")' = InState(rows, "done")
    BY <2>3 DEF Begun, InState
  <2>5. Closing(w) => Closing(w)'
    BY <2>1, <2>3, <2>4 DEF Closing, Others, SamePlan, Owed, InState
  <2> QED BY <2>1, <2>5, OnlyWorker
<1>6. CASE Stop(w)
  <2>1. /\ Others(w) /\ wk[w].stage = "drain" /\ UNCHANGED <<rows, faults, opens>>
        /\ wk'[w].stage = "ended" /\ Held(w)' = {} /\ wk'[w].enforce = wk[w].enforce
    BY <1>6, StopFacts
  <2>2. Closing(w) => Closing(w)'
    BY <2>1 DEF Closing, Others, Begun, Owed, SettledIn, InState
  <2> QED BY <2>1, <2>2, OnlyWorker
<1>7. CASE Crash(w)
  <2>1. faults' # 0 /\ opens' = opens
    BY <1>0, <1>7, CrashFacts
  <2> QED BY <1>0, <2>1 DEF ClosedInv
<1>8. ASSUME NEW u \in Urls, Join(w, u) PROVE ClosedInv'
  <2>1. /\ Others(w) /\ SamePlan(w) /\ wk[w].stage = "drain" /\ u \in Held(w)
        /\ UNCHANGED <<rows, faults, opens>>
        /\ wk'[w].stage = "mark" /\ wk'[w].scope = wk[w].scope /\ wk'[w].task = wk[w].task
    BY <1>8, JoinFacts
  <2>2. Closing(w) => Closing(w)'
    BY <2>1 DEF Closing, Others, SamePlan, Begun, Owed, SettledIn, InState, Held
  <2> QED BY <2>1, <2>2, OnlyWorker
<1>9. ASSUME NEW u \in Urls, SkipPanic(w, u) PROVE ClosedInv'
  <2>1. /\ u \in Held(w) /\ wk[w].task[u].st = "panic" /\ UNCHANGED <<faults, opens>>
    BY <1>9, SkipFacts
  <2>2. faults # 0
    BY <1>0, <2>1 DEF Archiving
  <2> QED BY <1>0, <2>1, <2>2 DEF ClosedInv
<1>10. CASE Mark(w)
  <2> DEFINE u == wk[w].cur
             t == wk[w].task[u]
             html == t.st = "html"
             links == IF html THEN Wanted(u, t.depth, Scoped(w), wk[w].enforce) ELSE {}
  <2>1. /\ Others(w) /\ wk[w].stage = "mark" /\ UNCHANGED <<faults, opens>>
        /\ rows' = mark(rows, u, IF html THEN "done" ELSE "error")
        /\ wk'[w].enforce = wk[w].enforce
        /\ wk'[w].scope = Scoped(w) /\ Goes(w, links)
    BY <1>10, MarkFacts
  <2>2. u \in Held(w) /\ u \in DOMAIN rows /\ t.depth = rows[u].depth
    BY <1>0, <2>1 DEF WorkerOK
  <2>3. ASSUME Closing(w) PROVE Closing(w)'
    <3>1. /\ DOMAIN rows' = DOMAIN rows
          /\ \A x \in DOMAIN rows : rows'[x].depth = rows[x].depth
          /\ \A x \in DOMAIN rows : x # u => rows'[x] = rows[x]
          /\ rows'[u].state = IF html THEN "done" ELSE "error"
          /\ SettledIn(rows)' = SettledIn(rows) \cup {u}
      <4> PICK to \in {"done", "error"} : to = IF html THEN "done" ELSE "error"
        OBVIOUS
      <4>1. Typed(rows) /\ rows' = mark(rows, u, to)
        BY <1>0, <2>1
      <4>2. /\ DOMAIN rows' = DOMAIN rows
            /\ \A x \in DOMAIN rows : rows'[x].depth = rows[x].depth
            /\ \A x \in DOMAIN rows : x # u => rows'[x] = rows[x]
            /\ rows'[u].state = to
        BY <2>2, <4>1 DEF mark, Typed, Row
      <4>3. SettledIn(rows)' = SettledIn(rows) \cup {u}
        BY <2>2, <4>2 DEF SettledIn, InState
      <4> QED BY <4>2, <4>3
    <3>2. rows[u].state = "inflight" /\ u \notin SettledIn(rows)
      BY <2>1, <2>2, <2>3 DEF Closing, SettledIn, InState
    <3>3. Begun' => Seed \in SettledIn(rows)' /\ Scoped(w) = Home
      <4>1. CASE Begun
        <5>1. Seed \in SettledIn(rows) /\ u # Seed /\ wk[w].scope = Home
          BY <2>1, <2>3, <3>2, <4>1 DEF Closing
        <5> QED BY <1>0, <2>2, <3>1, <5>1 DEF Scoped
      <4>2. CASE ~Begun
        <5>1. rows[u].depth = 0 /\ u = Seed
          BY <1>0, <2>2, <4>2 DEF Begun
        <5>2. Begun' => html
          BY <3>1, <4>2 DEF Begun
        <5>3. html => Scoped(w) = Home
          BY <2>2, <5>1 DEF Scoped, Redirected, Home
        <5> QED BY <3>1, <5>1, <5>2, <5>3
      <4> QED BY <4>1, <4>2
    <3>4. html => Begun'
      BY <2>2, <3>1 DEF Begun
    <3>5. \A x \in Held(w)' : rows'[x].state = "inflight" \/ (wk'[w].stage = "follow" /\ x = wk'[w].cur)
      <4>1. \A x \in Held(w) \ {u} : rows'[x].state = "inflight"
        BY <1>0, <2>1, <2>3, <3>1 DEF Closing, WorkerOK
      <4>2. CASE links # {}
        BY <2>1, <4>1, <4>2 DEF Goes, Held
      <4>3. CASE links = {}
        BY <2>1, <4>1, <4>3 DEF Goes, Held, Drop
      <4> QED BY <4>2, <4>3
    <3>6. wk'[w].stage = "follow" => wk'[w].links # {} /\ rows'[wk'[w].cur].state = "done"
      BY <2>1, <3>1 DEF Goes
    <3>7. ASSUME NEW x \in InState(rows, "done")'
          PROVE  Wanted(x, rows'[x].depth, Home, wk'[w].enforce) \subseteq DOMAIN rows' \cup Owed(w, x)'
      <4>1. CASE x = u
        <5>1. html /\ links = Wanted(x, rows'[x].depth, Home, wk'[w].enforce)
          BY <2>1, <2>2, <3>1, <3>3, <3>4, <3>7, <4>1 DEF InState
        <5>2. links = {} \/ Owed(w, x)' = links
          BY <2>1, <4>1 DEF Goes, Owed
        <5> QED BY <5>1, <5>2
      <4>2. CASE x # u
        <5>1. x \in InState(rows, "done") /\ Owed(w, x) = {}
          BY <2>1, <3>1, <3>7, <4>2 DEF InState, Owed
        <5> QED BY <2>1, <2>3, <3>1, <4>2, <5>1 DEF Closing, InState
      <4> QED BY <4>1, <4>2
    <3>8. wk'[w].stage \in {"follow", "drain"}
      BY <2>1 DEF Goes
    <3> HIDE DEF links, html, t, u
    <3>9. \A v \in Workers : v # w => wk'[v].stage = "off"
      BY <2>1, <2>3 DEF Closing, Others
    <3> QED BY <2>1, <3>3, <3>5, <3>6, <3>7, <3>8, <3>9 DEF Closing
  <2> QED BY <2>1, <2>3, OnlyWorker
<1>11. ASSUME NEW v \in Urls, Follow(w, v) PROVE ClosedInv'
  <2> DEFINE u == wk[w].cur
  <2>1. /\ Others(w) /\ SamePlan(w) /\ wk[w].stage = "follow" /\ v \in wk[w].links
        /\ UNCHANGED <<faults, opens>>
        /\ rows' = enqueue(rows, v, wk[w].task[u].depth + 1)
        /\ wk'[w].scope = wk[w].scope /\ Goes(w, wk[w].links \ {v})
    BY <1>11, FollowFacts
  <2>2. u \in Held(w) /\ u \in DOMAIN rows
    BY <1>0, <2>1 DEF WorkerOK
  <2>3. ASSUME Closing(w) PROVE Closing(w)'
    <3>1. /\ DOMAIN rows' = DOMAIN rows \cup {v}
          /\ \A x \in DOMAIN rows : rows'[x] = rows[x]
          /\ InState(rows, "done")' = InState(rows, "done")
          /\ SettledIn(rows)' = SettledIn(rows)
      BY <2>1 DEF enqueue, Put, InState, SettledIn
    <3>2. rows[u].state = "done" /\ Begun
      BY <2>1, <2>2, <2>3 DEF Closing, Begun
    <3>3. Seed \in SettledIn(rows)' /\ wk'[w].scope = Home
      BY <2>1, <2>3, <3>1, <3>2 DEF Closing
    <3>4. \A x \in Held(w)' : rows'[x].state = "inflight" \/ (wk'[w].stage = "follow" /\ x = wk'[w].cur)
      <4>1. \A x \in Held(w) \ {u} : rows'[x].state = "inflight"
        BY <1>0, <2>1, <2>3, <3>1 DEF Closing, WorkerOK
      <4>2. CASE wk[w].links \ {v} # {}
        BY <2>1, <4>1, <4>2 DEF Goes, Held
      <4>3. CASE wk[w].links \ {v} = {}
        BY <2>1, <4>1, <4>3 DEF Goes, Held, Drop
      <4> QED BY <4>2, <4>3
    <3>5. wk'[w].stage = "follow" => wk'[w].links # {} /\ rows'[wk'[w].cur].state = "done"
      BY <2>1, <2>2, <3>1, <3>2 DEF Goes
    <3>6. ASSUME NEW x \in InState(rows, "done")'
          PROVE  Wanted(x, rows'[x].depth, Home, wk'[w].enforce) \subseteq DOMAIN rows' \cup Owed(w, x)'
      <4>1. /\ x \in InState(rows, "done") /\ x \in DOMAIN rows /\ rows'[x] = rows[x]
            /\ wk'[w].enforce = wk[w].enforce
        BY <2>1, <3>1, <3>6 DEF InState, SamePlan
      <4>2. Wanted(x, rows[x].depth, Home, wk[w].enforce) \subseteq DOMAIN rows \cup Owed(w, x)
        BY <2>3, <4>1 DEF Closing
      <4>3. Owed(w, x) \subseteq Owed(w, x)' \cup {v}
        BY <2>1 DEF Goes, Owed
      <4> QED BY <3>1, <4>1, <4>2, <4>3
    <3>7. wk'[w].stage \in {"follow", "drain"} /\ \A y \in Workers : y # w => wk'[y].stage = "off"
      BY <2>1, <2>3 DEF Goes, Closing, Others
    <3> QED BY <3>3, <3>4, <3>5, <3>6, <3>7 DEF Closing
  <2> QED BY <2>1, <2>3, OnlyWorker
<1> QED BY <1>2, <1>3, <1>4, <1>5, <1>6, <1>7, <1>8, <1>9, <1>10, <1>11 DEF Work, Task

\* A crawl that nothing disturbs and whose budget is not spent has settled
\* every row, and every link it may follow from a page that was read is a row.
THEOREM UndisturbedCrawlCloses == Spec => []CrawlIsClosed
<1>1. Init => ClosedInv
  BY DEF Init, ClosedInv, Off, Fresh, NoRows
<1>2. IInv /\ LostInv /\ ClosedInv => CrawlIsClosed
  <2> SUFFICES ASSUME IInv, LostInv, ClosedInv, NEW w \in Workers, Calm, Finished(w),
                      NEW u \in DOMAIN rows
               PROVE  /\ rows[u].state \in {"done", "error"}
                      /\ rows[u].state = "done" =>
                           Wanted(u, rows[u].depth, Home, wk[w].enforce) \subseteq DOMAIN rows
    BY DEF CrawlIsClosed, Home
  <2>1. Closing(w) /\ wk[w].stage = "ended" /\ InState(rows, "queued") = {}
    BY DEF Calm, Finished, ClosedInv
  <2>2. \A v \in Workers : Held(v) = {}
    BY <2>1 DEF LostInv, Archiving, Closing
  <2>3. InState(rows, "inflight") = {}
    BY <2>2 DEF LostInv, NothingLost, Calm
  <2>4. rows[u].state \in States
    BY DEF IInv, RowsOK, Typed, Row
  <2>5. rows[u].state \in {"done", "error"}
    BY <2>1, <2>3, <2>4 DEF InState, States
  <2>6. Owed(w, u) = {}
    BY <2>1 DEF Owed
  <2> QED BY <2>1, <2>5, <2>6 DEF Closing, InState
<1> QED BY <1>1, <1>2, LostInitially, InitIInv, CrawlStep, LostStep, ClosedStep, PTL DEF Spec
-----------------------------------------------------------------------------
(* Distances.  A page is within n hops if a path of n hops, some of them   *)
(* staying where they are, ends there.                                     *)

LEMMA WithinStart == ASSUME NEW e PROVE Seed \in Within(0, e)
<1> DEFINE path == [i \in 0 .. 0 |-> Seed]
<1>1. Seed \in Urls
  BY DEF CrawlAssumption
<1>2. path \in Hops(0, e) /\ path[0] = Seed
  BY <1>1 DEF Hops
<1> QED BY <1>2 DEF Within

LEMMA WithinStep ==
  ASSUME NEW n \in Nat, NEW e, NEW u \in Within(n, e), NEW v \in Urls,
         v \in Wanted(u, 0, Home, e)
  PROVE  v \in Within(n + 1, e)
<1>1. PICK path \in Hops(n, e) : path[n] = u
  BY DEF Within
<1>2. /\ path \in [0 .. n -> Urls] /\ path[0] = Seed
      /\ \A i \in 1 .. n : path[i] \in {path[i - 1]} \cup Wanted(path[i - 1], 0, Home, e)
  BY DEF Hops, Home
<1> DEFINE longer == [i \in 0 .. n + 1 |-> IF i = n + 1 THEN v ELSE path[i]]
<1>3. longer \in [0 .. n + 1 -> Urls] /\ longer[0] = Seed /\ longer[n + 1] = v
  BY <1>2
<1>4. ASSUME NEW i \in 1 .. n + 1
      PROVE  longer[i] \in {longer[i - 1]} \cup Wanted(longer[i - 1], 0, Home, e)
  <2>1. CASE i = n + 1
    <3>1. longer[i] = v /\ longer[i - 1] = u
      BY <1>1, <2>1
    <3> QED BY <3>1
  <2>2. CASE i \in 1 .. n
    <3>1. longer[i] = path[i] /\ longer[i - 1] = path[i - 1]
      BY <2>2
    <3> QED BY <1>2, <2>2, <3>1
  <2> QED BY <2>1, <2>2
<1> HIDE DEF longer
<1>5. longer \in Hops(n + 1, e)
  BY <1>3, <1>4 DEF Hops, Home
<1> QED BY <1>3, <1>5 DEF Within

LEMMA WithinGrows ==
  ASSUME NEW m \in Nat, NEW n \in Nat, m <= n, NEW e
  PROVE  Within(m, e) \subseteq Within(n, e)
<1> SUFFICES ASSUME NEW path \in Hops(m, e) PROVE path[m] \in Within(n, e)
  BY DEF Within
<1>1. /\ path \in [0 .. m -> Urls] /\ path[0] = Seed
      /\ \A i \in 1 .. m : path[i] \in {path[i - 1]} \cup Wanted(path[i - 1], 0, Home, e)
  BY DEF Hops, Home
<1> DEFINE longer == [i \in 0 .. n |-> IF i <= m THEN path[i] ELSE path[m]]
<1>2. longer \in [0 .. n -> Urls] /\ longer[0] = Seed /\ longer[n] = path[m]
  BY <1>1
<1>3. ASSUME NEW i \in 1 .. n
      PROVE  longer[i] \in {longer[i - 1]} \cup Wanted(longer[i - 1], 0, Home, e)
  <2>1. CASE i <= m
    <3>1. longer[i] = path[i] /\ longer[i - 1] = path[i - 1] /\ i \in 1 .. m
      BY <2>1
    <3> QED BY <1>1, <3>1
  <2>2. CASE i > m
    <3>1. longer[i] = path[m] /\ longer[i - 1] = path[m]
      BY <2>2
    <3> QED BY <3>1
  <2> QED BY <2>1, <2>2
<1> HIDE DEF longer
<1>4. longer \in Hops(n, e)
  BY <1>2, <1>3 DEF Hops, Home
<1> QED BY <1>2, <1>4 DEF Within

\* If each link of a page is a row at most one deeper, no row is deeper than
\* its distance.
LEMMA DepthsAreDistances ==
  ASSUME NEW e, NEW r, Seed \in DOMAIN r, r[Seed].depth = 0,
         \A u \in DOMAIN r : r[u].depth \in Nat,
         \A u \in DOMAIN r : \A v \in Wanted(u, r[u].depth, Home, e) :
           v \in DOMAIN r /\ r[v].depth <= r[u].depth + 1,
         NEW n \in 0 .. MaxDepth, NEW x \in Within(n, e)
  PROVE  x \in DOMAIN r /\ r[x].depth <= n
<1>0. MaxDepth \in Nat
  BY DEF CrawlAssumption
<1>1. PICK path \in Hops(n, e) : path[n] = x
  BY DEF Within
<1>2. /\ path[0] = Seed
      /\ \A i \in 1 .. n : path[i] \in {path[i - 1]} \cup Wanted(path[i - 1], 0, Home, e)
  BY DEF Hops, Home
<1> DEFINE bad == {i \in 0 .. n : ~(path[i] \in DOMAIN r /\ r[path[i]].depth <= i)}
<1>3. SUFFICES ASSUME bad # {} PROVE FALSE
  BY <1>1
<1>4. IsWellFoundedOn({ss \in Nat \X Nat : ss[1] < ss[2]}, Nat)
  BY NatLessThanWellFounded DEF OpToRel
<1>5. bad \subseteq Nat
  OBVIOUS
<1>6. PICK i \in bad : \A j \in bad : ~ (<<j, i>> \in {ss \in Nat \X Nat : ss[1] < ss[2]})
  <2> HIDE DEF bad
  <2> QED BY <1>3, <1>4, <1>5, WFMin
<1>7. i \in 0 .. n /\ i # 0
  BY <1>2
<1>8. i - 1 \in 0 .. n /\ i - 1 \notin bad
  <2>1. i - 1 \in 0 .. n /\ i - 1 \in Nat /\ i - 1 < i /\ i \in Nat
    BY <1>0, <1>7
  <2>2. <<i - 1, i>> \in {ss \in Nat \X Nat : ss[1] < ss[2]}
    BY <2>1
  <2> HIDE DEF bad
  <2> QED BY <1>6, <2>1, <2>2
<1> DEFINE u == path[i - 1]
<1>9. u \in DOMAIN r /\ r[u].depth <= i - 1 /\ r[u].depth \in Nat
  BY <1>8
<1>10. CASE path[i] = u
  BY <1>7, <1>9, <1>10
<1>11. CASE path[i] \in Wanted(u, 0, Home, e)
  <2>1. r[u].depth < MaxDepth
    BY <1>0, <1>7, <1>9
  <2>2. path[i] \in Wanted(u, r[u].depth, Home, e)
    BY <1>11, <2>1 DEF Wanted
  <2>3. path[i] \in DOMAIN r /\ r[path[i]].depth <= r[u].depth + 1 /\ r[path[i]].depth \in Nat
    BY <1>9, <2>2
  <2> QED BY <1>7, <1>9, <2>3
<1> QED BY <1>2, <1>7, <1>10, <1>11
\* What the only worker keeps while it fetches one page at a time: pages are
\* settled by depth, and a link of a settled page is a row at most one deeper.
Way(w, u)  == Wanted(u, rows[u].depth, Home, wk[w].enforce)
Pending(w) == InState(rows, "queued") \cup Held(w)

Layered(w) ==
  /\ Seed \in DOMAIN rows /\ rows[Seed].depth = 0
  /\ \A x, y \in Held(w) : x = y
  /\ \A x \in DOMAIN rows :
       rows[x].depth <= MaxDepth /\ x \in Within(rows[x].depth, wk[w].enforce)
  /\ \A x \in DOMAIN rows, y \in Pending(w) : rows[x].depth <= rows[y].depth + 1
  /\ \A y \in InState(rows, "queued"), x \in DOMAIN rows \ InState(rows, "queued") :
       rows[x].depth <= rows[y].depth
  /\ wk[w].stage = "follow" => wk[w].links \subseteq Way(w, wk[w].cur)
  /\ \A u \in InState(rows, "done") : \A v \in Way(w, u) \ Owed(w, u) :
       v \in DOMAIN rows /\ rows[v].depth <= rows[u].depth + 1

AtWork(w) == wk[w].stage \notin {"off", "open"} /\ wk[w].conc = 1

BreadthInv ==
  /\ \A w \in Workers : wk[w].budget \in Nat /\ wk[w].fetched \in Nat
  /\ faults = 0 /\ opens = 1 => \A w \in Workers : AtWork(w) => Layered(w)

\* A step of the only worker that is not off.
LEMMA OnlyLayered ==
  ASSUME IInv, LostInv, ClosedInv, ClosedInv', BreadthInv,
         NEW w \in Workers, wk[w].stage # "off", Others(w),
         opens' = opens, faults' = faults \/ faults' = faults + 1,
         wk'[w].budget \in Nat, wk'[w].fetched \in Nat,
         /\ faults = 0 /\ opens = 1 /\ Closing(w) /\ Closing(w)'
         /\ AtWork(w) => Layered(w)
         /\ AtWork(w)'
         => Layered(w)'
  PROVE  BreadthInv'
<1>1. faults \in Nat
  BY DEF LostInv
<1>2. \A v \in Workers : wk'[v].budget \in Nat /\ wk'[v].fetched \in Nat
  BY DEF BreadthInv, Others
<1>3. ASSUME faults' = 0, opens' = 1, NEW v \in Workers, AtWork(v)'
      PROVE  Layered(v)'
  <2>1. faults = 0 /\ opens = 1 /\ Closing(w)
    BY <1>1, <1>3 DEF ClosedInv
  <2>2. v = w
    BY <1>3, <2>1 DEF Closing, Others, AtWork
  <2>3. Closing(w)'
    BY <1>3, <2>2 DEF ClosedInv, AtWork
  <2>4. AtWork(w) => Layered(w)
    BY <2>1 DEF BreadthInv
  <2> QED BY <1>3, <2>1, <2>2, <2>3, <2>4
<1> QED BY <1>2, <1>3 DEF BreadthInv

\* Steps that change no row and take on no page.
LEMMA LayersStay ==
  ASSUME NEW w \in Workers, Layered(w), rows' = rows, wk'[w].enforce = wk[w].enforce,
         Held(w)' \subseteq Held(w),
         wk'[w].stage = "follow" <=> wk[w].stage = "follow",
         wk[w].stage = "follow" => wk'[w].cur = wk[w].cur /\ wk'[w].links = wk[w].links
  PROVE  Layered(w)'
<1>1. \A u : Way(w, u)' = Way(w, u) /\ Owed(w, u)' = Owed(w, u)
  BY DEF Way, Owed
<1>2. Pending(w)' \subseteq Pending(w) /\ \A s : InState(rows, s)' = InState(rows, s)
  BY DEF Pending, InState
<1>3. \A n : Within(n, wk'[w].enforce) = Within(n, wk[w].enforce)
  OBVIOUS
<1>4. wk'[w].stage = "follow" => wk'[w].links \subseteq Way(w, wk[w].cur)'
  BY <1>1 DEF Layered, Way
<1> QED BY <1>1, <1>2, <1>3, <1>4 DEF Layered

LEMMA AtMostOne ==
  ASSUME NEW S, IsFiniteSet(S), Cardinality(S) <= 1
  PROVE  \A x, y \in S : x = y
<1> SUFFICES ASSUME NEW x \in S, NEW y \in S, x # y PROVE FALSE
  OBVIOUS
<1>1. IsFiniteSet(S \ {x}) /\ Cardinality(S \ {x}) = Cardinality(S) - 1 /\ Cardinality(S) \in Nat
  BY WithoutOne
<1>2. y \in S \ {x}
  OBVIOUS
<1>3. Cardinality((S \ {x}) \ {y}) = Cardinality(S \ {x}) - 1 /\ Cardinality((S \ {x}) \ {y}) \in Nat
  BY <1>1, <1>2, WithoutOne
<1> QED BY <1>1, <1>3

LEMMA BreadthClaim ==
  ASSUME IInv, LostInv, BudgetInv, BreadthInv, NEW w \in Workers, Claim(w),
         Closing(w), wk[w].conc = 1, Layered(w)
  PROVE  Layered(w)'
<1>1. PICK B \in Batches(rows, Smaller(wk[w].budget - wk[w].fetched, wk[w].conc)) :
        /\ Others(w) /\ wk[w].stage = "drain" /\ Held(w) = {} /\ rows' = claim(rows, B)
        /\ SamePlan(w) /\ wk'[w].stage = "drain" /\ Held(w)' = B
  BY ClaimFacts
<1> DEFINE queued == InState(rows, "queued")
<1>2. /\ B \subseteq queued /\ queued \subseteq DOMAIN rows
      /\ Cardinality(B) = Smaller(Smaller(wk[w].budget - wk[w].fetched, wk[w].conc),
                                  Cardinality(queued))
      /\ \A b \in B, q \in queued \ B : rows[b].depth <= rows[q].depth
  BY DEF Batches, InState
<1>3. IsFiniteSet(queued) /\ IsFiniteSet(B) /\ Cardinality(queued) \in Nat /\ Cardinality(B) \in Nat
  <2>1. IsFiniteSet(DOMAIN rows)
    BY DEF BudgetInv
  <2>2. IsFiniteSet(queued) /\ IsFiniteSet(B)
    BY <1>2, <2>1, FS_Subset
  <2> QED BY <2>2, FS_CardinalityType
<1> HIDE DEF queued
<1>4. Cardinality(B) <= 1
  <2>1. wk[w].budget - wk[w].fetched \in Int /\ wk[w].conc = 1
    BY DEF BreadthInv
  <2> QED BY <1>2, <1>3, <2>1 DEF Smaller
<1>5. \A x, y \in B : x = y
  BY <1>3, <1>4, AtMostOne
<1>6. /\ Typed(rows) /\ DOMAIN rows' = DOMAIN rows
      /\ \A x \in DOMAIN rows : rows'[x].depth = rows[x].depth /\ rows[x].depth \in Nat
      /\ InState(rows, "queued")' = queued \ B
      /\ InState(rows, "done")' = InState(rows, "done")
  <2>1. Typed(rows)
    BY DEF IInv, RowsOK
  <2>2. /\ DOMAIN rows' = DOMAIN rows
        /\ \A x \in DOMAIN rows : x \notin B => rows'[x] = rows[x]
        /\ \A x \in B : rows'[x].depth = rows[x].depth /\ rows'[x].state = "inflight"
                        /\ rows[x].state = "queued"
        /\ \A x \in DOMAIN rows : rows[x].depth \in Nat
    BY <1>1, <1>2, <2>1 DEF claim, Typed, Row, InState, queued
  <2>3. InState(rows, "queued")' = queued \ B /\ InState(rows, "done")' = InState(rows, "done")
    BY <1>2, <2>2 DEF InState, queued
  <2> QED BY <2>1, <2>2, <2>3
<1>7. /\ \A u \in DOMAIN rows : Way(w, u)' = Way(w, u)
      /\ \A u : Owed(w, u)' = {} /\ Owed(w, u) = {}
      /\ wk'[w].enforce = wk[w].enforce
  BY <1>1, <1>6 DEF Way, Owed, SamePlan
<1>8. Pending(w)' = queued
  BY <1>1, <1>2, <1>6 DEF Pending
<1>9. \A x \in DOMAIN rows', y \in Pending(w)' : rows'[x].depth <= rows'[y].depth + 1
  BY <1>2, <1>6, <1>8 DEF Layered, Pending, queued
<1>10. \A y \in InState(rows, "queued")', x \in DOMAIN rows' \ InState(rows, "queued")' :
         rows'[x].depth <= rows'[y].depth
  BY <1>2, <1>6 DEF Layered, queued
<1>11. \A u \in InState(rows, "done")' : \A v \in Way(w, u)' \ Owed(w, u)' :
         v \in DOMAIN rows' /\ rows'[v].depth <= rows'[u].depth + 1
  BY <1>6, <1>7 DEF Layered, InState
<1>12. \A x \in DOMAIN rows' :
         rows'[x].depth <= MaxDepth /\ x \in Within(rows'[x].depth, wk'[w].enforce)
  BY <1>6, <1>7 DEF Layered
<1>13. Seed \in DOMAIN rows' /\ rows'[Seed].depth = 0
  BY <1>6 DEF Layered
<1> QED BY <1>1, <1>5, <1>9, <1>10, <1>11, <1>12, <1>13 DEF Layered

LEMMA BreadthMark ==
  ASSUME IInv, LostInv, NEW w \in Workers, Mark(w),
         Closing(w), Closing(w)', Layered(w)
  PROVE  Layered(w)'
<1> PICK u : u = wk[w].cur
  OBVIOUS
<1> DEFINE t == wk[w].task[u]
           html == t.st = "html"
           links == IF html THEN Wanted(u, t.depth, Scoped(w), wk[w].enforce) ELSE {}
<1>1. /\ Others(w) /\ wk[w].stage = "mark"
      /\ rows' = mark(rows, u, IF html THEN "done" ELSE "error")
      /\ wk'[w].enforce = wk[w].enforce /\ wk'[w].scope = Scoped(w) /\ Goes(w, links)
  BY MarkFacts
<1>2. /\ Typed(rows) /\ u \in Held(w) /\ u \in DOMAIN rows /\ t.depth = rows[u].depth
      /\ rows[u].state = "inflight"
  BY <1>1 DEF IInv, RowsOK, WorkerOK, Closing
<1>3. /\ DOMAIN rows' = DOMAIN rows
      /\ \A x \in DOMAIN rows : rows'[x].depth = rows[x].depth /\ rows[x].depth \in Nat
      /\ \A x \in DOMAIN rows : x # u => rows'[x] = rows[x]
      /\ rows'[u].state = IF html THEN "done" ELSE "error"
  <2> PICK to : to = IF html THEN "done" ELSE "error"
    OBVIOUS
  <2>1. rows' = mark(rows, u, to)
    BY <1>1
  <2> HIDE DEF html
  <2>2. /\ DOMAIN rows' = DOMAIN rows
        /\ \A x \in DOMAIN rows : rows'[x].depth = rows[x].depth /\ rows[x].depth \in Nat
        /\ \A x \in DOMAIN rows : x # u => rows'[x] = rows[x]
        /\ rows'[u].state = to
    BY <1>2, <2>1 DEF mark, Typed, Row
  <2> QED BY <2>2
<1>4. /\ InState(rows, "queued")' = InState(rows, "queued")
      /\ InState(rows, "done")' = IF html THEN InState(rows, "done") \cup {u}
                                          ELSE InState(rows, "done")
  BY <1>2, <1>3 DEF InState
<1>5. html => links = Way(w, u)'
  <2>1. html => Begun'
    BY <1>2, <1>3 DEF Begun
  <2>2. wk'[w].stage # "ended"
    BY <1>1 DEF Goes
  <2>3. html => Scoped(w) = Home
    BY <1>1, <2>1, <2>2 DEF Closing
  <2> QED BY <1>1, <1>2, <1>3, <2>3 DEF Way
<1>6. /\ links # {} => html /\ wk'[w].stage = "follow" /\ wk'[w].cur = u /\ wk'[w].links = links
      /\ links = {} => wk'[w].stage = "drain"
      /\ Held(w)' \subseteq Held(w)
  BY <1>1 DEF Goes, Held, Drop
<1> HIDE DEF links, html, t
<1>7. \A x \in DOMAIN rows : Way(w, x)' = Way(w, x)
  BY <1>1, <1>3 DEF Way
<1>8. wk'[w].stage = "follow" => wk'[w].links \subseteq Way(w, wk[w].cur)'
  <2>1. CASE links = {}
    BY <1>6, <2>1
  <2>2. CASE links # {}
    <3>1. html /\ wk'[w].cur = u /\ wk'[w].links = Way(w, u)'
      BY <1>5, <1>6, <2>2
    <3>2. Way(w, wk[w].cur)' = Way(w, u)'
      BY <3>1 DEF Way
    <3> QED BY <3>1, <3>2
  <2> QED BY <2>1, <2>2
<1>9. ASSUME NEW x \in InState(rows, "done")', NEW v \in Way(w, x)' \ Owed(w, x)'
      PROVE  v \in DOMAIN rows' /\ rows'[v].depth <= rows'[x].depth + 1
  <2>1. CASE x = u
    <3>1. html
      BY <1>2, <1>4, <1>9, <2>1 DEF InState
    <3>2. Owed(w, x)' = links
      BY <1>6, <2>1 DEF Owed
    <3> QED BY <1>5, <1>9, <2>1, <3>1, <3>2
  <2>2. CASE x # u
    <3>1. x \in InState(rows, "done") /\ x \in DOMAIN rows /\ Owed(w, x) = {}
      BY <1>1, <1>4, <1>9, <2>2 DEF InState, Owed
    <3>2. v \in Way(w, x)
      BY <1>7, <1>9, <3>1
    <3> QED BY <1>3, <3>1, <3>2 DEF Layered
  <2> QED BY <2>1, <2>2
<1>10. Pending(w)' \subseteq Pending(w) /\ Pending(w) \subseteq DOMAIN rows
  <2>1. Held(w) \subseteq DOMAIN rows
    BY DEF IInv, WorkerOK
  <2> QED BY <1>4, <1>6, <2>1 DEF Pending, InState
<1>11. \A x \in DOMAIN rows', y \in Pending(w)' : rows'[x].depth <= rows'[y].depth + 1
  BY <1>3, <1>10 DEF Layered
<1>12. \A y \in InState(rows, "queued")', x \in DOMAIN rows' \ InState(rows, "queued")' :
         rows'[x].depth <= rows'[y].depth
  BY <1>3, <1>4 DEF Layered, InState
<1>13. \A x \in DOMAIN rows' :
         rows'[x].depth <= MaxDepth /\ x \in Within(rows'[x].depth, wk'[w].enforce)
  BY <1>1, <1>3 DEF Layered
<1>14. \A x, y \in Held(w)' : x = y
  BY <1>6 DEF Layered
<1>15. Seed \in DOMAIN rows' /\ rows'[Seed].depth = 0
  BY <1>3 DEF Layered
<1> QED BY <1>8, <1>9, <1>11, <1>12, <1>13, <1>14, <1>15 DEF Layered

LEMMA BreadthFollow ==
  ASSUME IInv, LostInv, NEW w \in Workers, NEW v \in Urls, Follow(w, v),
         Closing(w), Layered(w)
  PROVE  Layered(w)'
<1> PICK u : u = wk[w].cur
  OBVIOUS
<1>1. /\ SamePlan(w) /\ wk[w].stage = "follow" /\ v \in wk[w].links
      /\ rows' = enqueue(rows, v, wk[w].task[u].depth + 1) /\ Goes(w, wk[w].links \ {v})
  BY FollowFacts
<1>2. /\ Typed(rows) /\ u \in Held(w) /\ u \in DOMAIN rows
      /\ wk[w].task[u].depth = rows[u].depth /\ rows[u].state = "done"
      /\ Held(w) \subseteq DOMAIN rows
  BY <1>1 DEF IInv, RowsOK, WorkerOK, Closing
<1>3. \A x \in DOMAIN rows : rows[x].depth \in Nat
  BY <1>2 DEF Typed, Row
<1>4. wk'[w].enforce = wk[w].enforce
  BY <1>1 DEF SamePlan
\* The new row, if there is one, is one hop further.
<1>5. /\ DOMAIN rows' = DOMAIN rows \cup {v}
      /\ \A x \in DOMAIN rows : rows'[x] = rows[x]
      /\ v \notin DOMAIN rows => /\ rows'[v].depth = rows[u].depth + 1
                                 /\ rows'[v].state = "queued"
  BY <1>1, <1>2 DEF enqueue, Put
<1>6. v \in Wanted(u, 0, Home, wk[w].enforce) /\ rows[u].depth < MaxDepth /\ MaxDepth \in Nat
  <2>1. v \in Wanted(u, rows[u].depth, Home, wk[w].enforce)
    BY <1>1 DEF Layered, Way
  <2>2. MaxDepth \in Nat
    BY DEF CrawlAssumption
  <2> QED BY <1>2, <1>3, <2>1, <2>2 DEF Wanted
<1>7. rows'[v].depth <= rows[u].depth + 1 /\ rows'[v].depth \in Nat
  <2>1. CASE v \in DOMAIN rows
    <3>1. u \in Pending(w)
      BY <1>2 DEF Pending
    <3>2. rows[v].depth <= rows[u].depth + 1
      BY <2>1, <3>1 DEF Layered
    <3> QED BY <1>3, <1>5, <2>1, <3>2
  <2>2. CASE v \notin DOMAIN rows
    BY <1>2, <1>3, <1>5, <2>2
  <2> QED BY <2>1, <2>2
<1>8. /\ InState(rows, "done")' = InState(rows, "done")
      /\ v \in DOMAIN rows => InState(rows, "queued")' = InState(rows, "queued")
      /\ v \notin DOMAIN rows => InState(rows, "queued")' = InState(rows, "queued") \cup {v}
  BY <1>5 DEF InState
<1>9. /\ Held(w)' \subseteq Held(w)
      /\ wk'[w].stage = "follow" => wk'[w].cur = u /\ wk'[w].links = wk[w].links \ {v}
      /\ wk'[w].stage # "follow" => wk[w].links \ {v} = {}
  BY <1>1 DEF Goes, Held, Drop
<1>10. \A x \in DOMAIN rows : Way(w, x)' = Way(w, x)
  BY <1>4, <1>5 DEF Way
<1>11. \A x : Owed(w, x) \subseteq Owed(w, x)' \cup IF x = u THEN {v} ELSE {}
  BY <1>9 DEF Owed
<1>12. wk'[w].stage = "follow" => wk'[w].links \subseteq Way(w, wk[w].cur)'
  <2>1. wk[w].links \subseteq Way(w, u)
    BY <1>1 DEF Layered
  <2>2. wk'[w].cur = u => Way(w, wk[w].cur)' = Way(w, u)'
    BY DEF Way
  <2>3. Way(w, u)' = Way(w, u)
    BY <1>2, <1>10
  <2> QED BY <1>9, <2>1, <2>2, <2>3
<1>13. ASSUME NEW x \in InState(rows, "done")', NEW z \in Way(w, x)' \ Owed(w, x)'
       PROVE  z \in DOMAIN rows' /\ rows'[z].depth <= rows'[x].depth + 1
  <2>1. x \in InState(rows, "done") /\ x \in DOMAIN rows
    BY <1>8, <1>13 DEF InState
  <2>2. z \in Way(w, x) /\ (z \notin Owed(w, x) \/ (x = u /\ z = v))
    BY <1>10, <1>11, <1>13, <2>1
  <2>3. CASE z \notin Owed(w, x)
    BY <1>5, <2>1, <2>2, <2>3 DEF Layered
  <2>4. CASE x = u /\ z = v
    BY <1>5, <1>7, <2>1, <2>4
  <2> QED BY <2>2, <2>3, <2>4
<1>14. ASSUME NEW x \in DOMAIN rows'
       PROVE  rows'[x].depth <= MaxDepth /\ x \in Within(rows'[x].depth, wk'[w].enforce)
  <2>1. CASE x \in DOMAIN rows
    BY <1>4, <1>5, <2>1 DEF Layered
  <2>2. CASE x \notin DOMAIN rows
    <3>1. x = v /\ rows'[x].depth = rows[u].depth + 1
      BY <1>5, <2>2
    <3>2. u \in Within(rows[u].depth, wk[w].enforce)
      BY <1>2 DEF Layered
    <3>3. v \in Within(rows[u].depth + 1, wk[w].enforce)
      BY <1>2, <1>3, <1>6, <3>2, WithinStep
    <3> QED BY <1>2, <1>3, <1>4, <1>6, <3>1, <3>3
  <2> QED BY <2>1, <2>2
<1>15. ASSUME NEW x \in DOMAIN rows', NEW y \in Pending(w)'
       PROVE  rows'[x].depth <= rows'[y].depth + 1
  <2>1. x \in DOMAIN rows \/ (x = v /\ v \notin DOMAIN rows)
    BY <1>5
  <2>2. y \in Pending(w) \/ (y = v /\ v \notin DOMAIN rows)
    BY <1>8, <1>9 DEF Pending
  <2>3. u \in Pending(w) /\ Pending(w) \subseteq DOMAIN rows
    BY <1>2 DEF Pending, InState
  <2>4. CASE x \in DOMAIN rows /\ y \in Pending(w)
    BY <1>5, <2>3, <2>4 DEF Layered
  <2>5. CASE x \in DOMAIN rows /\ y = v /\ v \notin DOMAIN rows
    <3>1. rows[x].depth <= rows[u].depth + 1
      BY <2>3, <2>5 DEF Layered
    <3> QED BY <1>2, <1>3, <1>5, <2>5, <3>1
  <2>6. CASE x = v /\ v \notin DOMAIN rows /\ y \in Pending(w)
    <3>1. rows[u].depth <= rows[y].depth
      <4>1. CASE y \in Held(w)
        BY <1>2, <1>3, <4>1 DEF Layered
      <4>2. CASE y \in InState(rows, "queued")
        BY <1>2, <4>2 DEF Layered, InState
      <4> QED BY <2>6, <4>1, <4>2 DEF Pending
    <3> QED BY <1>2, <1>3, <1>5, <2>3, <2>6, <3>1
  <2>7. CASE x = v /\ y = v
    BY <1>7, <2>7
  <2> QED BY <2>1, <2>2, <2>4, <2>5, <2>6, <2>7
<1>16. ASSUME NEW y \in InState(rows, "queued")', NEW x \in DOMAIN rows' \ InState(rows, "queued")'
       PROVE  rows'[x].depth <= rows'[y].depth
  <2>1. x \in DOMAIN rows \ InState(rows, "queued")
    BY <1>5, <1>8, <1>16
  <2>2. CASE y \in InState(rows, "queued")
    BY <1>5, <2>1, <2>2 DEF Layered, InState
  <2>3. CASE y = v /\ v \notin DOMAIN rows
    <3>1. u \in Pending(w)
      BY <1>2 DEF Pending
    <3>2. rows[x].depth <= rows[u].depth + 1
      BY <2>1, <3>1 DEF Layered
    <3> QED BY <1>5, <2>1, <2>3, <3>2
  <2> QED BY <1>8, <1>16, <2>2, <2>3
<1>17. \A x, y \in Held(w)' : x = y
  BY <1>9 DEF Layered
<1>18. Seed \in DOMAIN rows' /\ rows'[Seed].depth = 0
  BY <1>5 DEF Layered
<1> QED BY <1>12, <1>13, <1>14, <1>15, <1>16, <1>17, <1>18 DEF Layered
LEMMA BreadthBegin ==
  ASSUME IInv, NEW w \in Workers, Begin(w), Closing(w)
  PROVE  Layered(w)'
<1>1. /\ wk[w].stage = "open" /\ rows' = enqueue(rows, Seed, 0)
      /\ wk'[w].stage = "drain" /\ wk'[w].task = wk[w].task
  BY BeginFacts
<1>2. /\ DOMAIN rows' = {Seed} /\ rows'[Seed].depth = 0 /\ rows'[Seed].state = "queued"
  BY <1>1 DEF Closing, enqueue, Put
<1>3. Held(w)' = {}
  <2>1. Held(w) \subseteq DOMAIN rows /\ DOMAIN rows = {}
    BY <1>1 DEF IInv, WorkerOK, Closing
  <2> QED BY <1>1, <2>1 DEF Held
<1>4. InState(rows, "queued")' = {Seed} /\ InState(rows, "done")' = {} /\ Pending(w)' = {Seed}
  BY <1>2, <1>3 DEF InState, Pending
<1>5. Seed \in Within(0, wk'[w].enforce) /\ MaxDepth \in Nat
  BY WithinStart DEF CrawlAssumption
<1> QED BY <1>1, <1>2, <1>3, <1>4, <1>5 DEF Layered

LEMMA BreadthStep ==
  ASSUME IInv, LostInv, ClosedInv, ClosedInv', BudgetInv, BreadthInv, [Next]_vars
  PROVE  BreadthInv'
<1>0. /\ DOMAIN wk = Workers /\ \A v \in Workers : WorkerOK(v) /\ Archiving(v)
      /\ \A v \in Workers : wk[v].budget \in Nat /\ wk[v].fetched \in Nat
      /\ opens \in Nat /\ faults \in Nat
  BY DEF IInv, LostInv, ClosedInv, BreadthInv
<1>1. CASE UNCHANGED vars
  <2>1. \A v \in Workers : Layered(v) => Layered(v)'
    BY <1>1, LayersStay DEF vars, Held
  <2> QED BY <1>1, <2>1 DEF vars, BreadthInv, AtWork
<1> SUFFICES ASSUME NEW w \in Workers,
                    \/ Open(w) \/ Work(w) \/ Crash(w)
                    \/ \E u \in Urls : FetchFails(w, u) \/ Panic(w, u)
             PROVE  BreadthInv'
  BY <1>1 DEF Next
<1>2. ASSUME NEW u \in Urls,
             \/ StartFetch(w, u) \/ Refuse(w, u) \/ FetchOk(w, u)
             \/ FetchFails(w, u) \/ Panic(w, u)
      PROVE  BreadthInv'
  <2>1. /\ SameWorker(w) /\ SamePlan(w) /\ Others(w) /\ UNCHANGED <<rows, opens>>
        /\ faults' = faults \/ faults' = faults + 1
    BY <1>2, TaskFacts
  <2>2. u \in Held(w)
    BY <1>2 DEF StartFetch, Refuse, FetchOk, FetchFails, Fetched, Fetching, Panic
  <2>3. wk[w].stage # "off"
    BY <1>0, <2>2 DEF Archiving
  <2>4. Layered(w) => Layered(w)'
    BY <2>1, LayersStay DEF SameWorker, SamePlan, Held
  <2>5. /\ AtWork(w)' => AtWork(w)
        /\ wk'[w].budget \in Nat /\ wk'[w].fetched \in Nat
    BY <1>0, <2>1 DEF AtWork, SameWorker, SamePlan
  <2> QED BY <2>1, <2>3, <2>4, <2>5, OnlyLayered
<1>3. CASE Open(w)
  <2>1. /\ Others(w) /\ faults' = faults /\ opens' = opens + 1
        /\ wk'[w].stage = "open" /\ wk'[w].budget = 0 /\ wk'[w].fetched = 0
    BY <1>3, OpenFacts
  <2>2. \A v \in Workers : wk'[v].budget \in Nat /\ wk'[v].fetched \in Nat
    BY <1>0, <2>1 DEF Others
  <2>3. ASSUME faults' = 0, opens' = 1, NEW v \in Workers PROVE ~AtWork(v)'
    <3>1. \A x \in Workers : wk[x].stage = "off"
      BY <1>0, <2>1, <2>3 DEF ClosedInv
    <3> QED BY <2>1, <3>1 DEF AtWork, Others
  <2> QED BY <2>2, <2>3 DEF BreadthInv
<1>4. CASE Begin(w)
  <2>1. /\ Others(w) /\ wk[w].stage = "open" /\ UNCHANGED <<faults, opens>>
        /\ wk'[w].fetched = wk[w].fetched
        /\ wk'[w].budget = IF MaxPages > counts(pages) THEN MaxPages - counts(pages) ELSE 0
    BY <1>4, BeginFacts
  <2>2. counts(pages) \in Nat /\ MaxPages \in Nat
    BY FS_CardinalityType DEF BudgetInv, counts, CrawlAssumption
  <2>3. wk'[w].budget \in Nat /\ wk'[w].fetched \in Nat
    BY <1>0, <2>1, <2>2
  <2> QED BY <1>4, <2>1, <2>3, BreadthBegin, OnlyLayered
<1>5. CASE Claim(w)
  <2>1. /\ Others(w) /\ wk[w].stage = "drain" /\ UNCHANGED <<faults, opens>>
        /\ SamePlan(w) /\ wk'[w].stage = "drain"
    BY <1>5, ClaimFacts
  <2>2. /\ AtWork(w)' => AtWork(w) /\ wk[w].conc = 1
        /\ wk'[w].budget \in Nat /\ wk'[w].fetched \in Nat
    BY <1>0, <2>1 DEF AtWork, SamePlan
  <2> QED BY <1>5, <2>1, <2>2, BreadthClaim, OnlyLayered
<1>6. CASE Stop(w)
  <2>1. /\ Others(w) /\ wk[w].stage = "drain" /\ UNCHANGED <<rows, faults, opens>>
        /\ wk'[w].stage = "ended" /\ Held(w)' = {}
        /\ wk'[w].conc = wk[w].conc /\ wk'[w].enforce = wk[w].enforce
        /\ wk'[w].budget = 0 /\ wk'[w].fetched = 0
    BY <1>6, StopFacts
  <2>2. Layered(w) => Layered(w)'
    BY <2>1, LayersStay
  <2> QED BY <2>1, <2>2, OnlyLayered DEF AtWork
<1>7. CASE Crash(w)
  <2>1. /\ Others(w) /\ faults' # 0 /\ wk'[w].budget = 0 /\ wk'[w].fetched = 0
    BY <1>0, <1>7, CrashFacts
  <2>2. \A v \in Workers : wk'[v].budget \in Nat /\ wk'[v].fetched \in Nat
    BY <1>0, <2>1 DEF Others
  <2> QED BY <2>1, <2>2 DEF BreadthInv
<1>8. ASSUME NEW u \in Urls, Join(w, u) PROVE BreadthInv'
  <2>1. /\ Others(w) /\ SamePlan(w) /\ wk[w].stage = "drain" /\ UNCHANGED <<rows, faults, opens>>
        /\ wk'[w].stage = "mark" /\ wk'[w].task = wk[w].task
    BY <1>8, JoinFacts
  <2>2. Layered(w) => Layered(w)'
    BY <2>1, LayersStay DEF SamePlan, Held
  <2>3. /\ AtWork(w)' => AtWork(w)
        /\ wk'[w].budget \in Nat /\ wk'[w].fetched \in Nat
    BY <1>0, <2>1 DEF AtWork, SamePlan
  <2> QED BY <2>1, <2>2, <2>3, OnlyLayered
<1>9. ASSUME NEW u \in Urls, SkipPanic(w, u) PROVE BreadthInv'
  <2>1. /\ Others(w) /\ SamePlan(w) /\ wk[w].stage = "drain" /\ UNCHANGED <<rows, faults, opens>>
        /\ wk'[w].stage = "drain" /\ wk'[w].task = Drop(wk[w].task, u)
    BY <1>9, SkipFacts
  <2>2. Layered(w) => Layered(w)'
    BY <2>1, LayersStay DEF SamePlan, Held, Drop
  <2>3. /\ AtWork(w)' => AtWork(w)
        /\ wk'[w].budget \in Nat /\ wk'[w].fetched \in Nat
    BY <1>0, <2>1 DEF AtWork, SamePlan
  <2> QED BY <2>1, <2>2, <2>3, OnlyLayered
<1>10. CASE Mark(w)
  <2>1. /\ Others(w) /\ wk[w].stage = "mark" /\ UNCHANGED <<faults, opens>>
        /\ wk'[w].conc = wk[w].conc
        /\ wk'[w].budget = wk[w].budget /\ wk'[w].fetched = wk[w].fetched + 1
    BY <1>10, MarkFacts
  <2>2. /\ AtWork(w)' => AtWork(w)
        /\ wk'[w].budget \in Nat /\ wk'[w].fetched \in Nat
    BY <1>0, <2>1 DEF AtWork
  <2> QED BY <1>10, <2>1, <2>2, BreadthMark, OnlyLayered
<1>11. ASSUME NEW v \in Urls, Follow(w, v) PROVE BreadthInv'
  <2>1. /\ Others(w) /\ SamePlan(w) /\ wk[w].stage = "follow" /\ UNCHANGED <<faults, opens>>
    BY <1>11, FollowFacts
  <2>2. /\ AtWork(w)' => AtWork(w)
        /\ wk'[w].budget \in Nat /\ wk'[w].fetched \in Nat
    BY <1>0, <2>1 DEF AtWork, SamePlan
  <2> QED BY <1>11, <2>1, <2>2, BreadthFollow, OnlyLayered
<1> QED BY <1>2, <1>3, <1>4, <1>5, <1>6, <1>7, <1>8, <1>9, <1>10, <1>11 DEF Work, Task

\* One page at a time, the claims in depth order make the crawl breadth-first:
\* if no page failed, the rows are the pages within MaxDepth hops and their
\* depths the distances from the seed.
THEOREM CrawlIsBreadthFirst == Spec => []BreadthFirst
<1>1. Init => BudgetInv
  BY BudgetInitially
<1>2. Init => ClosedInv
  BY DEF Init, ClosedInv, Off, Fresh, NoRows
<1>3. Init => BreadthInv
  BY DEF Init, BreadthInv, Off, Fresh
<1>4. IInv /\ LostInv /\ ClosedInv /\ BreadthInv => BreadthFirst
  <2> SUFFICES ASSUME IInv, LostInv, ClosedInv, BreadthInv, NEW w \in Workers, Calm,
                      Finished(w), wk[w].conc = 1, InState(rows, "error") = {}
               PROVE  /\ DOMAIN rows = Within(MaxDepth, wk[w].enforce)
                      /\ \A u \in DOMAIN rows : \A n \in 0 .. MaxDepth :
                           u \in Within(n, wk[w].enforce) <=> rows[u].depth <= n
    BY DEF BreadthFirst
  <2> DEFINE e == wk[w].enforce
  <2>1. /\ Closing(w) /\ wk[w].stage = "ended" /\ InState(rows, "queued") = {}
        /\ Layered(w)
    BY DEF Calm, Finished, ClosedInv, BreadthInv, AtWork
  <2>2. /\ \A u \in DOMAIN rows : rows[u].state \in States /\ rows[u].depth \in Nat
        /\ MaxDepth \in Nat
    BY DEF IInv, RowsOK, Typed, Row, CrawlAssumption
  <2>3. \A u \in DOMAIN rows : u \in InState(rows, "done")
    <3>1. \A v \in Workers : Held(v) = {}
      BY <2>1 DEF LostInv, Archiving, Closing
    <3>2. InState(rows, "inflight") = {}
      BY <3>1 DEF LostInv, NothingLost, Calm
    <3> QED BY <2>1, <2>2, <3>2 DEF InState, States
  <2>4. \A u \in DOMAIN rows : \A v \in Wanted(u, rows[u].depth, Home, e) :
          v \in DOMAIN rows /\ rows[v].depth <= rows[u].depth + 1
    BY <2>1, <2>3 DEF Layered, Way, Owed
  <2>5. ASSUME NEW n \in 0 .. MaxDepth, NEW x \in Within(n, e)
        PROVE  x \in DOMAIN rows /\ rows[x].depth <= n
    <3>1. Seed \in DOMAIN rows /\ rows[Seed].depth = 0
      BY <2>1 DEF Layered
    <3>2. \A u \in DOMAIN rows : rows[u].depth \in Nat
      BY <2>2
    <3> HIDE DEF e
    <3> QED BY <2>4, <2>5, <3>1, <3>2, DepthsAreDistances
  <2>6. ASSUME NEW u \in DOMAIN rows, NEW n \in 0 .. MaxDepth, rows[u].depth <= n
        PROVE  u \in Within(n, e)
    <3>1. u \in Within(rows[u].depth, e) /\ rows[u].depth \in Nat /\ n \in Nat
      BY <2>1, <2>2 DEF Layered
    <3> QED BY <2>6, <3>1, WithinGrows
  <2>7. \A u \in DOMAIN rows : rows[u].depth <= MaxDepth
    BY <2>1 DEF Layered
  <2>8. MaxDepth \in 0 .. MaxDepth
    BY <2>2
  <2> HIDE DEF e
  <2>9. DOMAIN rows = Within(MaxDepth, e)
    BY <2>5, <2>6, <2>7, <2>8
  <2>10. \A u \in DOMAIN rows : \A n \in 0 .. MaxDepth : u \in Within(n, e) <=> rows[u].depth <= n
    BY <2>5, <2>6
  <2> QED BY <2>9, <2>10 DEF e
<1>5. Init => LostInv
  BY LostInitially
<1> QED BY <1>1, <1>2, <1>3, <1>4, <1>5, InitIInv, CrawlStep, LostStep, BudgetStep, ClosedStep,
        BreadthStep, PTL DEF Spec
=============================================================================
