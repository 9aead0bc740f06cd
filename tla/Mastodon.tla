------------------------------- MODULE Mastodon -------------------------------
(***************************************************************************)
(* The rate limiter of one MCP server process, the response cache that all *)
(* of them share, and the keys the mastodon tools send and store under.    *)
(***************************************************************************)
EXTENDS Integers, FiniteSets

CONSTANTS
  RateMax, Window,  \* RATE_LIMIT_MAX, RATE_LIMIT_WINDOW_SECS
  CacheTtl,         \* CACHE_TTL_SECS
  NoKey

ASSUME MastodonAssumption == RateMax \in Nat \ {0} /\ Window \in Nat \ {0} /\ CacheTtl \in Nat

\* The attempts of a token: when each was, and a number that tells those of one
\* second apart.
\* Mutant: an attempt is forgotten one second early.
retained_short(attempts, now) == {a \in attempts : now - a.at < Window - 1}

\* check_rate_limit prunes what is older than the window.
retained(attempts, now) == {a \in attempts : now - a.at < Window}

allowed(attempts) == Cardinality(attempts) < RateMax

record_attempt(attempts, n, now) == attempts \cup {[n |-> n, at |-> now]}

\* A timeline's URL; the token is not part of it.
url(timeline) == timeline

\* The cache holds, for a URL, when its answer was stored.
cache_get(cache, u, now) == u \in DOMAIN cache /\ cache[u] + CacheTtl > now

cache_put(cache, u, now) == [x \in DOMAIN cache \cup {u} |-> IF x = u THEN now ELSE cache[x]]

\* Mutant: a key of its own for every request.
idem_key_fresh(key, text, tok, n) == IF key # NoKey THEN key ELSE <<text, n>>

\* The caller's key, or a hash of the text.
idem_key(key, text, tok, n) == IF key # NoKey THEN key ELSE text
=============================================================================
