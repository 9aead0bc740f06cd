----------------------------- MODULE ProxyPool -----------------------------
(***************************************************************************)
(* The rotating proxy pool of the crawler (crawl/proxy.rs) and the choice  *)
(* of a client for a request (HttpFetcher::select, report).  A pool is a   *)
(* record: the list it was loaded with, the positions of it that are still *)
(* in rotation (`live`, a Vec that only `retain` changes), the failure     *)
(* counts (0: no entry) and the cursor.  Each operator is what one         *)
(* acquisition of the pool's lock does; cached clients are left out, since *)
(* a client is a function of its proxy.                                    *)
(***************************************************************************)
EXTENDS Naturals, Sequences, FiniteSets

CONSTANTS
  Proxies,
  Buildable,        \* those a reqwest client can be built for
  MaxFailures,      \* consecutive failures that evict a proxy
  Direct            \* "no proxy": the base client

ASSUME PoolAssumption ==
  /\ Direct \notin Proxies
  /\ Buildable \subseteq Proxies
  /\ MaxFailures \in Nat \ {0}

from_list(s) ==
  [list |-> s, live |-> DOMAIN s, failures |-> [p \in Proxies |-> 0], cursor |-> 0]
Live(pool)   == {pool.list[i] : i \in pool.live}

remove(pool, p) ==
  [pool EXCEPT !.live = {i \in pool.live : pool.list[i] # p},
               !.failures[p] = 0]

\* The proxy under the cursor, and the pool after the cursor has moved on.
Picked(pool) ==
  LET at == CHOOSE i \in pool.live :
              Cardinality({j \in pool.live : j < i}) = pool.cursor % Cardinality(pool.live)
  IN pool.list[at]
AfterPick(pool) == [pool EXCEPT !.cursor = @ + 1]

\* Mutant: a success leaves the count as it is.
report_success_keeps(pool, p) == pool

report_success(pool, p) == [pool EXCEPT !.failures[p] = 0]
report_failure(pool, p) ==
  IF pool.failures[p] + 1 >= MaxFailures
    THEN remove(pool, p)
    ELSE [pool EXCEPT !.failures[p] = @ + 1]

\* HttpFetcher::select: a proxy without a client is evicted at once and the
\* request goes out directly, on nobody's account.
select(pool) ==
  IF pool.live = {} THEN [via |-> Direct, pool |-> pool]
  ELSE IF Picked(pool) \in Buildable
    THEN [via |-> Picked(pool), pool |-> AfterPick(pool)]
    ELSE [via |-> Direct, pool |-> remove(AfterPick(pool), Picked(pool))]

\* HttpFetcher::report: an answer of any status speaks for the proxy.
report(pool, via, answered) ==
  CASE via = Direct -> pool
    [] via # Direct /\ answered  -> report_success(pool, via)
    [] via # Direct /\ ~answered -> report_failure(pool, via)
=============================================================================
