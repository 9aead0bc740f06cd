------------------------------- MODULE Visits -------------------------------
(***************************************************************************)
(* What a crawl promises of its frontier, whatever number of workers share *)
(* it and however often they die: the known URLs grow from the seed along  *)
(* links of pages that have been settled, one hop deeper each time and     *)
(* never past MaxDepth; a settled URL stays settled and never changes its  *)
(* depth.  Crawl implements it.                                            *)
(***************************************************************************)
EXTENDS Naturals

CONSTANTS
  Urls, Seed, Hosts,
  Links,            \* Links[u]: URLs the page at u links to
  Final,            \* Final[u]: where a request for u ends after redirects
  Host,             \* Host[u]: host of a URL
  MaxDepth, SameHost

VARIABLES
  depth,            \* depth of every known URL
  settled           \* known URLs that are done or failed for good

Scopes == {Host[Seed], Host[Final[Seed]]}

Known(u, d) == [x \in DOMAIN depth \cup {u} |-> IF x = u THEN d ELSE depth[x]]

Init == depth = [x \in {} |-> 0] /\ settled = {}

Plant ==
  /\ Seed \notin DOMAIN depth
  /\ depth' = Known(Seed, 0)
  /\ UNCHANGED settled

Settle(u) ==
  /\ u \in DOMAIN depth
  /\ settled' = settled \cup {u}
  /\ UNCHANGED depth

Discover(u, v) ==
  /\ u \in settled
  /\ v \in Links[Final[u]] \ DOMAIN depth
  /\ SameHost => Host[v] \in Scopes
  /\ depth[u] < MaxDepth
  /\ depth' = Known(v, depth[u] + 1)
  /\ UNCHANGED settled

Next ==
  \/ Plant
  \/ \E u \in DOMAIN depth : Settle(u) \/ (\E v \in Urls : Discover(u, v))

Spec == Init /\ [][Next]_<<depth, settled>>
=============================================================================
