---------------------------- MODULE GraphQueries ----------------------------
(***************************************************************************)
(* The queries over the edges table: walks and cycles of graph.rs, the     *)
(* path search of query/why.rs, the file roll-up of query/importers.rs and *)
(* test selection of affected.rs on top of query/blast_radius.rs.  The     *)
(* edges are chosen at the start and do not change; each query runs its    *)
(* algorithm one iteration at a time, and its answer is compared with a    *)
(* definition over the graph.  A symbol is its id, FileOf its file, Tests  *)
(* what is_test_symbol says of it; lines, names and hydration are left out.*)
(***************************************************************************)
EXTENDS Naturals, Sequences, FiniteSets, SequencesExt

CONSTANTS Nodes,        \* ids of symbols, naturals
          Kinds,        \* kinds of edges, "call" among them
          WalkKinds,    \* those affected.rs follows
          Graphs,       \* the edge tables to start from: sets of <<src, dst, kind>>
          FileOf,       \* the file a symbol is in
          Tests,        \* the symbols that look like tests
          Asks          \* the queries: records with a job and its parameters

ASSUME GraphAssumption ==
  /\ Nodes \subseteq Nat /\ IsFiniteSet(Nodes)
  /\ \A E \in Graphs : E \subseteq Nodes \X Nodes \X Kinds
  /\ "call" \in Kinds /\ WalkKinds \subseteq Kinds /\ Tests \subseteq Nodes
  /\ \A a \in Asks : /\ a.job # "cycles" => a.depth \in Nat
                     /\ a.job = "walk" => a.start \in Nodes
                     /\ a.job = "why" => a.src \in Nodes /\ a.dst \in Nodes
                     /\ a.job = "affected" => a.changed \subseteq Nodes

VARIABLES edges,   \* rows of table edges
          ask,     \* the query being answered
          run,     \* what its algorithm keeps between two iterations
          answer   \* what it returned, or NoAnswer

graphVars == <<edges, ask, run, answer>>

NoAnswer == [found |-> FALSE]
Empty == [x \in {} |-> 0]
Least(S) == CHOOSE x \in S : \A y \in S : x <= y
Ascending(S) == CHOOSE s \in [1..Cardinality(S) -> S] :
                  \A i, j \in DOMAIN s : i < j => s[i] < s[j]
Return(a) == /\ answer' = [found |-> TRUE, value |-> a]
             /\ UNCHANGED <<edges, ask, run>>
Continue(r) == run' = r /\ UNCHANGED <<edges, ask, answer>>
Running(job) == ask.job = job /\ answer = NoAnswer

---------------------------------------------------------------------------
(* graph.rs: the call graph as its two adjacency maps.                     *)

Pairs(E, kinds) == {<<e[1], e[2]>> : e \in {x \in E : x[3] \in kinds}}
callees(n) == {p[2] : p \in {x \in Pairs(edges, {"call"}) : x[1] = n}}
callers(n) == {p[1] : p \in {x \in Pairs(edges, {"call"}) : x[2] = n}}
Calling == {p[1] : p \in Pairs(edges, {"call"})}
orphans == {n \in Calling : callers(n) = {}}

\* outgoing, incoming: a queue of <<node, depth>> and the set already seen.
bfs ==
  LET n == Head(run.queue)[1]  d == Head(run.queue)[2]
      new == IF d >= ask.depth THEN {}
             ELSE (IF ask.reverse THEN callers(n) ELSE callees(n)) \ run.seen
  IN /\ Running("walk") /\ run.queue # <<>>
     /\ Continue([run EXCEPT
          !.queue = Tail(@) \o [i \in 1..Cardinality(new) |-> <<Ascending(new)[i], d + 1>>],
          !.seen = @ \cup new,
          !.out = IF d > 0 THEN Append(@, Head(run.queue)) ELSE @])

WalkEnds == Running("walk") /\ run.queue = <<>> /\ Return(run.out)

\* cycles: Tarjan's components with an explicit stack of frames.  A frame is a
\* node and the children it has not looked at yet; index, low and the stack of
\* open nodes are those of the textbook.
NextRoot ==
  LET rest == Calling \ DOMAIN run.index IN
  /\ Running("cycles") /\ run.frames = <<>> /\ rest # {}
  /\ Continue([run EXCEPT !.frames = <<[node |-> Least(rest), entered |-> FALSE, todo |-> <<>>]>>])

Enter ==
  LET fr == Last(run.frames)  k == Cardinality(DOMAIN run.index) IN
  /\ Running("cycles") /\ run.frames # <<>> /\ ~fr.entered
  /\ Continue([run EXCEPT
       !.index = [x \in DOMAIN @ \cup {fr.node} |-> IF x = fr.node THEN k ELSE @[x]],
       !.low   = [x \in DOMAIN @ \cup {fr.node} |-> IF x = fr.node THEN k ELSE @[x]],
       !.open  = Append(@, fr.node),
       !.frames = Append(Front(@), [node |-> fr.node, entered |-> TRUE,
                                    todo |-> Ascending(callees(fr.node))])])

Lowered(low, n, m) == [low EXCEPT ![n] = Least({low[n], low[m]})]

NextChild ==
  LET fr == Last(run.frames)
      c  == Head(fr.todo)
      fs == Append(Front(run.frames), [fr EXCEPT !.todo = Tail(@)])
  IN /\ Running("cycles") /\ run.frames # <<>> /\ fr.entered /\ fr.todo # <<>>
     /\ Continue([run EXCEPT
          !.frames = IF c \in DOMAIN run.index THEN fs
                     ELSE Append(fs, [node |-> c, entered |-> FALSE, todo |-> <<>>]),
          !.low = IF c \in DOMAIN run.index /\ c \in ToSet(run.open)
                    THEN Lowered(@, fr.node, c) ELSE @])

\* Mutant: a node that leaves the frames does not pass its low link on.
Leave_forgetting ==
  LET fr == Last(run.frames)
      n  == fr.node
      at == CHOOSE i \in 1..Len(run.open) : run.open[i] = n
      root == run.low[n] = run.index[n]
  IN /\ Running("cycles") /\ run.frames # <<>> /\ fr.entered /\ fr.todo = <<>>
     /\ Continue([run EXCEPT
          !.frames = Front(@),
          !.comps = IF root THEN @ \cup {ToSet(SubSeq(run.open, at, Len(run.open)))} ELSE @,
          !.open = IF root THEN SubSeq(@, 1, at - 1) ELSE @])

Leave ==
  LET fr == Last(run.frames)
      n  == fr.node
      at == CHOOSE i \in 1..Len(run.open) : run.open[i] = n
      root == run.low[n] = run.index[n]
  IN /\ Running("cycles") /\ run.frames # <<>> /\ fr.entered /\ fr.todo = <<>>
     /\ Continue([run EXCEPT
          !.frames = Front(@),
          !.comps = IF root THEN @ \cup {ToSet(SubSeq(run.open, at, Len(run.open)))} ELSE @,
          !.open = IF root THEN SubSeq(@, 1, at - 1) ELSE @,
          !.low = IF Len(run.frames) = 1 THEN @
                  ELSE Lowered(@, run.frames[Len(run.frames) - 1].node, n)])

CyclesEnd ==
  /\ Running("cycles") /\ run.frames = <<>> /\ Calling \subseteq DOMAIN run.index
  /\ Return([cycles |-> {c \in run.comps : Cardinality(c) >= 2}, orphans |-> orphans])

---------------------------------------------------------------------------
(* query/why.rs: one level forward, one level back, until they meet.  The  *)
(* order in which SQLite returns the rows of a level is free, so any new   *)
(* node of the level may be the meeting point, with any of its parents.    *)

After(n)  == {e[2] : e \in {x \in edges : x[1] = n}}
Before(n) == {e[1] : e \in {x \in edges : x[2] = n}}
Links == Pairs(edges, Kinds)
Reversed(R) == {<<p[2], p[1]>> : p \in R}
Parents(new, level, R) == {f \in [new -> level] : \A n \in new : <<f[n], n>> \in R}
\* The symbols from src to meet, and from meet to dst.
FrontHalf(up, meet) ==
  LET path[n \in {ask.src} \cup DOMAIN up] ==
        IF n = ask.src THEN <<n>> ELSE Append(path[up[n]], n)
  IN path[meet]
BackHalf(down, meet) ==
  LET path[n \in {ask.dst} \cup DOMAIN down] ==
        IF n = ask.dst THEN <<>> ELSE <<down[n]>> \o path[down[n]]
  IN path[meet]
Joined(f, g) == [x \in DOMAIN f \cup DOMAIN g |-> IF x \in DOMAIN f THEN f[x] ELSE g[x]]

WhyForward ==
  LET new == (UNION {After(n) : n \in run.fwd}) \ run.seenFwd IN
  /\ Running("why") /\ ask.src # ask.dst /\ run.turn = "fwd" /\ run.hops < ask.depth
  /\ \E up \in Parents(new, run.fwd, Links) :
       LET all == Joined(run.up, up) IN
       \/ /\ new = {} /\ Return(<<>>)
       \/ \E meet \in new \cap run.seenRev :
            Return(FrontHalf(all, meet) \o BackHalf(run.down, meet))
       \/ /\ new # {} /\ new \cap run.seenRev = {}
          /\ Continue([run EXCEPT !.hops = @ + 1, !.turn = "rev", !.fwd = new,
                                  !.seenFwd = @ \cup new, !.up = all])

\* Mutant: the backward level does not look for the forward one.
WhyBackwardBlind ==
  LET new == (UNION {Before(n) : n \in run.rev}) \ run.seenRev IN
  /\ Running("why") /\ run.turn = "rev" /\ run.hops < ask.depth
  /\ \E down \in Parents(new, run.rev, Reversed(Links)) :
       LET all == Joined(run.down, down) IN
       \/ /\ new = {} /\ Return(<<>>)
       \/ /\ new # {}
          /\ Continue([run EXCEPT !.hops = @ + 1, !.turn = "fwd", !.rev = new,
                                  !.seenRev = @ \cup new, !.down = all])

WhyBackward ==
  LET new == (UNION {Before(n) : n \in run.rev}) \ run.seenRev IN
  /\ Running("why") /\ run.turn = "rev" /\ run.hops < ask.depth
  /\ \E down \in Parents(new, run.rev, Reversed(Links)) :
       LET all == Joined(run.down, down) IN
       \/ /\ new = {} /\ Return(<<>>)
       \/ \E meet \in new \cap run.seenFwd :
            Return(FrontHalf(run.up, meet) \o BackHalf(all, meet))
       \/ /\ new # {} /\ new \cap run.seenFwd = {}
          /\ Continue([run EXCEPT !.hops = @ + 1, !.turn = "fwd", !.rev = new,
                                  !.seenRev = @ \cup new, !.down = all])

WhyEnds ==
  /\ Running("why")
  /\ \/ ask.src = ask.dst /\ Return(<<ask.src>>)
     \/ ask.src # ask.dst /\ run.hops >= ask.depth /\ Return(<<>>)

---------------------------------------------------------------------------
(* affected.rs: for every changed symbol the recursive query of            *)
(* blast_radius collects rows <<node, depth>>; bump keeps the least depth. *)

Bump(cand, n, d) ==
  [x \in DOMAIN cand \cup {n} |->
     IF x # n THEN cand[x] ELSE IF n \in DOMAIN cand THEN Least({cand[n], d}) ELSE d]

NextChanged ==
  /\ Running("affected") /\ run.queue = <<>> /\ run.root = {} /\ run.todo # {}
  /\ \E n \in run.todo :
       Continue([run EXCEPT !.todo = @ \ {n}, !.root = {n}, !.cand = Bump(@, n, 0),
                            !.queue = IF ask.depth = 0 THEN <<>> ELSE <<<<n, 0>>>>,
                            !.rows = IF ask.depth = 0 THEN {} ELSE {<<n, 0>>}])

\* One row of the recursive part: UNION drops the rows that are there already.
BlastRow ==
  LET n == Head(run.queue)[1]  d == Head(run.queue)[2]
      new == IF d >= ask.depth THEN {}
             ELSE {<<x[1], d + 1>> : x \in {e \in edges : e[2] = n /\ e[3] \in WalkKinds}}
                  \ run.rows
  IN /\ Running("affected") /\ run.queue # <<>>
     /\ Continue([run EXCEPT !.queue = Tail(@) \o SetToSeq(new), !.rows = @ \cup new])

\* Mutant: a later walk overwrites the depth an earlier one found.
BlastEndsOverwriting ==
  LET depth_of(n) == Least({r[2] : r \in {x \in run.rows : x[1] = n}})
      found == {r[1] : r \in run.rows} \ run.root
  IN /\ Running("affected") /\ run.queue = <<>> /\ run.root # {}
     /\ Continue([run EXCEPT !.root = {}, !.rows = {},
          !.cand = [x \in DOMAIN @ \cup found |->
                      IF x \in found THEN depth_of(x) ELSE @[x]]])

\* SELECT node_id, MIN(depth) without the root, and a bump for each.
BlastEnds ==
  LET depth_of(n) == Least({r[2] : r \in {x \in run.rows : x[1] = n}})
      found == {r[1] : r \in run.rows} \ run.root
  IN /\ Running("affected") /\ run.queue = <<>> /\ run.root # {}
     /\ Continue([run EXCEPT !.root = {}, !.rows = {},
          !.cand = [x \in DOMAIN @ \cup found |->
                      IF x \notin found THEN @[x]
                      ELSE IF x \in DOMAIN @ THEN Least({@[x], depth_of(x)})
                      ELSE depth_of(x)]])

AffectedEnds ==
  /\ Running("affected") /\ run.queue = <<>> /\ run.root = {} /\ run.todo = {}
  /\ Return([n \in DOMAIN run.cand \cap Tests |-> run.cand[n]])

---------------------------------------------------------------------------
(* query/importers.rs: one wave of files at a time; an edge counts for the *)
(* file it comes from, which must not have been reached before.            *)

Wave ==
  LET crossing == {e \in edges : FileOf[e[2]] \in run.reached /\ FileOf[e[1]] \notin run.reached}
      files == {FileOf[e[1]] : e \in crossing}
  IN /\ Running("importers") /\ run.depth < ask.depth /\ run.frontier # {}
     /\ Continue([run EXCEPT !.depth = @ + 1, !.frontier = files, !.reached = @ \cup files,
          !.result = Joined(@, [f \in files |->
             [depth |-> run.depth + 1,
              edges |-> Cardinality({e \in crossing : FileOf[e[1]] = f})]])])

ImportersEnd ==
  /\ Running("importers") /\ (run.depth >= ask.depth \/ run.frontier = {})
  /\ Return(run.result)

---------------------------------------------------------------------------
Start(a) ==
  CASE a.job = "walk"      -> [queue |-> <<<<a.start, 0>>>>, seen |-> {a.start}, out |-> <<>>]
    [] a.job = "cycles"    -> [frames |-> <<>>, index |-> Empty, low |-> Empty,
                               open |-> <<>>, comps |-> {}]
    [] a.job = "why"       -> [turn |-> "fwd", hops |-> 0, fwd |-> {a.src}, rev |-> {a.dst},
                               seenFwd |-> {a.src}, seenRev |-> {a.dst},
                               up |-> Empty, down |-> Empty]
    [] a.job = "affected"  -> [todo |-> a.changed, root |-> {}, queue |-> <<>>, rows |-> {},
                               cand |-> Empty]
    [] a.job = "importers" -> [depth |-> 0, frontier |-> {a.file}, reached |-> {a.file},
                               result |-> Empty]

GraphInit == /\ edges \in Graphs /\ ask \in Asks
             /\ run = Start(ask) /\ answer = NoAnswer

GraphNext == \/ bfs \/ WalkEnds
             \/ NextRoot \/ Enter \/ NextChild \/ Leave \/ CyclesEnd
             \/ WhyForward \/ WhyBackward \/ WhyEnds
             \/ NextChanged \/ BlastRow \/ BlastEnds \/ AffectedEnds
             \/ Wave \/ ImportersEnd

---------------------------------------------------------------------------
(* What the answers are compared with.                                     *)

\* Level(R, S, d)[k]: what at most k steps of relation R reach from S, for k up to d.
Onto(R, S) == {p[2] : p \in {x \in R : x[1] \in S}}
Level(R, S, d) ==
  LET level[k \in 0..d] == IF k = 0 THEN S ELSE level[k - 1] \cup Onto(R, level[k - 1])
  IN level
\* The nodes at most d steps from S, each with its distance.
Distances(R, S, d) ==
  LET level == Level(R, S, d) IN
  [n \in level[d] |-> Least({k \in 0..d : n \in level[k]})]
Reached(R, n) == LET N == Cardinality(Nodes) IN Level(R, {n}, N)[N]
Answered(job) == ask.job = job /\ answer # NoAnswer

\* `graph walk`: the answer lists every symbol within the depth once, with its
\* distance, the nearest first, and never the symbol it started from.
WalksAreExact ==
  Answered("walk") =>
    LET R    == Pairs(edges, {"call"})
        dist == Distances(IF ask.reverse THEN Reversed(R) ELSE R, {ask.start}, ask.depth)
        hits == answer.value
    IN /\ ToSet(hits) = {<<n, dist[n]>> : n \in DOMAIN dist \ {ask.start}}
       /\ \A i, j \in DOMAIN hits : i < j => hits[i] # hits[j] /\ hits[i][2] <= hits[j][2]

\* `graph cycles`: the components are the classes of symbols that call each other,
\* and with `graph orphans` they are where dead-code triage can start: whatever calls
\* something is called from an orphan, a cycle or a symbol that calls itself.
CyclesAreComponents ==
  Answered("cycles") =>
    LET R == Pairs(edges, {"call"})
        reach == [n \in Nodes |-> Reached(R, n)]
        class(n) == {m \in reach[n] : n \in reach[m]}
        roots == answer.value.orphans \cup (UNION answer.value.cycles)
                   \cup {n \in Nodes : <<n, n>> \in R}
    IN /\ answer.value.cycles = {class(n) : n \in {x \in Nodes : class(x) # {x}}}
       /\ Calling \subseteq UNION {reach[n] : n \in roots}

\* `why`: the answer is a path of edges from src to dst, as short as any, and there
\* is one whenever max_depth edges suffice.
WhyIsShortest ==
  Answered("why") =>
    LET path == answer.value
        dist == Distances(Pairs(edges, Kinds), {ask.src}, ask.depth)
    IN IF ask.dst \notin DOMAIN dist THEN path = <<>>
       ELSE /\ path # <<>> /\ path[1] = ask.src /\ Last(path) = ask.dst
            /\ Len(path) = dist[ask.dst] + 1
            /\ \A i \in 1..Len(path) - 1 : path[i + 1] \in After(path[i])

\* What walk and why say of a way along the edges is a shortest one.
PathsAreExact == WalksAreExact /\ WhyIsShortest

\* `affected` selects the tests that a changed symbol is reached from within the
\* depth, with the least distance over all changed symbols; `importers` gives each
\* file its distance and the edges that lead to files nearer than itself.
ImpactIsExact ==
  /\ Answered("affected") =>
       LET dist == Distances(Reversed(Pairs(edges, WalkKinds)), ask.changed, ask.depth)
       IN answer.value = [n \in DOMAIN dist \cap Tests |-> dist[n]]
  /\ Answered("importers") =>
       LET dist == Distances({<<FileOf[e[2]], FileOf[e[1]]>> : e \in edges}, {ask.file}, ask.depth)
       IN answer.value =
            [f \in DOMAIN dist \ {ask.file} |->
               [depth |-> dist[f],
                edges |-> Cardinality({e \in edges : /\ FileOf[e[1]] = f
                                                     /\ FileOf[e[2]] \in DOMAIN dist
                                                     /\ dist[FileOf[e[2]]] < dist[f]})]]
=============================================================================
