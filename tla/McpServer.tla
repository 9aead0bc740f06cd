------------------------------ MODULE McpServer ------------------------------
(***************************************************************************)
(* MCP servers on one machine.  A server takes one request at a time       *)
(* (serve_io, and the loop of serve_http): a mastodon tool, which waits    *)
(* for the instance and may never hear of it, a memory tool, or a tool on  *)
(* the symbol index, for which a stdio server keeps one open Store.        *)
(* Other processes replace the index, and repositories come and go.        *)
(***************************************************************************)
EXTENDS Mastodon, PalaceRegistry

CONSTANTS
  Servers, Tokens, Texts, Keys,
  IdemTtl,          \* how long an instance knows an idempotency key
  MaxRequests,      \* bound: requests
  MaxEvents,        \* bound: changes by others
  MaxClock          \* bound: seconds

ASSUME McpServerAssumption ==
  /\ NoKey \in Keys /\ NoKey \notin Tokens
  /\ IdemTtl \in Nat /\ MaxRequests \in Nat /\ MaxEvents \in Nat /\ MaxClock \in Nat

VARIABLES
  limits,           \* limits[s][tok]: the attempts on record
  cache,            \* mastodon_cache
  posts,            \* the instance: statuses [tok, text, asked, key, at]
  req,              \* the request under way
  roots,            \* git_roots of every server
  git,              \* directories that have a .git
  disk,             \* index.db: a number that grows with every new file, 0 for none
  held,             \* the Store a stdio session holds, 0 for none
  clock, used,
  past              \* history for the properties; no guard reads it

vars == <<limits, cache, posts, req, roots, git, disk, held, clock, used, past>>
mastodon == <<limits, cache, posts>>
index    == <<disk, held>>

\* The three families of tools share no state.  Bound: a behaviour calls the
\* tools of one of them.
Families == {"mastodon", "memory", "index"}

None == [st |-> "idle", tok |-> NoKey, text |-> NoKey, asked |-> NoKey, key |-> NoKey,
         url |-> NoKey, sent |-> FALSE, ok |-> FALSE]

\* past.answered: answers counted against a token, [s, tok, at];
\* past.routed: the last memory call, [dir, root, at];  past.gits: time -> values of git;
\* past.replaced: servers whose index was replaced by another process;
\* past.made: files of the index so far.
Init ==
  /\ limits = [s \in Servers |-> [t \in Tokens |-> {}]]
  /\ cache = [u \in {} |-> 0] /\ posts = {} /\ req = [s \in Servers |-> None]
  /\ roots = [s \in Servers |-> {}] /\ git = {}
  /\ disk = 1 /\ held = [s \in Servers |-> 0]
  /\ clock = 0 /\ used \in [requests : {0}, events : {0}, family : Families]
  /\ past = [answered |-> {}, routed |-> {},
             gits |-> [t \in 0 .. MaxClock |-> IF t = 0 THEN {git} ELSE {}],
             replaced |-> {}, made |-> 1]

Request(s, family) ==
  /\ req[s].st = "idle" /\ used.family = family
  /\ used.requests < MaxRequests /\ used' = [used EXCEPT !.requests = @ + 1]

-----------------------------------------------------------------------------
(* mastodon.post, mastodon.read, mastodon.verify.                          *)

\* The limit is checked, and nothing else happens once it is reached.
Limited(s, tok, next) ==
  LET kept == retained(limits[s][tok], clock) IN
  /\ limits' = [limits EXCEPT ![s][tok] = kept]
  /\ IF allowed(kept) THEN next ELSE UNCHANGED <<req, cache, past>>

Post(s, tok, text, key) ==
  /\ Request(s, "mastodon")
  /\ Limited(s, tok,
       /\ req' = [req EXCEPT ![s] = [None EXCEPT !.st = "post", !.tok = tok, !.text = text,
                    !.asked = key, !.key = idem_key(key, text, tok, used.requests)]]
       /\ UNCHANGED <<cache, past>>)
  /\ UNCHANGED <<posts, roots, git, index, clock>>

\* A timeline that is in the cache is answered from it and not counted.
Read(s, tok, timeline) ==
  LET u == url(timeline)
      hit == cache_get(cache, u, clock) IN
  /\ Request(s, "mastodon")
  /\ Limited(s, tok,
       \/ /\ hit
          /\ UNCHANGED <<req, cache, past>>
       \/ /\ ~hit
          /\ req' = [req EXCEPT ![s] = [None EXCEPT !.st = "read", !.tok = tok, !.url = u]]
          /\ UNCHANGED <<cache, past>>)
  /\ UNCHANGED <<posts, roots, git, index, clock>>

\* Checked against the limit, never counted.
Verify(s, tok) ==
  /\ Request(s, "mastodon")
  /\ Limited(s, tok, UNCHANGED <<req, cache, past>>)
  /\ UNCHANGED <<posts, roots, git, index, clock>>

\* The instance takes a post: a key it knows is the post it has.
Accept(s) ==
  /\ req[s].st = "post" /\ ~req[s].sent
  /\ req' = [req EXCEPT ![s].sent = TRUE]
  /\ posts' = IF \E p \in posts : p.tok = req[s].tok /\ p.key = req[s].key /\ clock - p.at <= IdemTtl
                THEN posts
              ELSE posts \cup {[tok |-> req[s].tok, text |-> req[s].text,
                                asked |-> req[s].asked, key |-> req[s].key, at |-> clock]}
  /\ UNCHANGED <<limits, cache, roots, git, index, clock, used, past>>

Counted(s) ==
  /\ limits' = [limits EXCEPT ![s][req[s].tok] = record_attempt(@, used.requests, clock)]
  /\ req' = [req EXCEPT ![s] = None]

PostAnswered(s) ==
  /\ req[s].st = "post" /\ req[s].sent
  /\ Counted(s)
  /\ past' = [past EXCEPT !.answered = @ \cup {[s |-> s, tok |-> req[s].tok, at |-> clock,
                                               n |-> used.requests]}]
  /\ UNCHANGED <<cache, posts, roots, git, index, clock, used>>

ReadAnswered(s) ==
  LET x == req[s] IN
  /\ x.st = "read"
  /\ Counted(s)
  /\ cache' = cache_put(cache, x.url, clock)
  /\ past' = [past EXCEPT !.answered = @ \cup {[s |-> s, tok |-> x.tok, at |-> clock,
                                               n |-> used.requests]}]
  /\ UNCHANGED <<posts, roots, git, index, clock, used>>

\* An error status, a timeout or an answer that does not parse, whether or
\* not the instance has taken the request.
Failed(s) ==
  /\ req[s].st # "idle"
  /\ req' = [req EXCEPT ![s] = None]
  /\ UNCHANGED <<mastodon, roots, git, index, clock, used, past>>

-----------------------------------------------------------------------------
(* memory.* tools.                                                         *)

MemoryCall(s, d) ==
  LET memo == remember(roots[s], git, d, clock) IN
  /\ Request(s, "memory")
  /\ roots' = [roots EXCEPT ![s] = memo]
  /\ past' = [past EXCEPT !.routed = {[dir |-> d, root |-> root_for(memo, d), at |-> clock]}]
  /\ UNCHANGED <<mastodon, req, git, index, clock>>

-----------------------------------------------------------------------------
(* Tools on the symbol index.                                              *)

\* The cached Store, or one that is opened, and created, now.
Opened(s) == IF held[s] # 0 THEN held[s] ELSE IF disk # 0 THEN disk ELSE past.made + 1

OpenStore(s) ==
  /\ held' = [held EXCEPT ![s] = Opened(s)]
  /\ IF held[s] = 0 /\ disk = 0
       THEN disk' = past.made + 1 /\ past' = [past EXCEPT !.made = @ + 1]
       ELSE UNCHANGED <<disk, past>>

\* Any other tool; also index with logs, which returns before the drop.
Query(s) ==
  /\ Request(s, "index") /\ OpenStore(s)
  /\ UNCHANGED <<mastodon, req, roots, git, clock>>

\* index and refresh work on the store and drop it.
Reindex(s) ==
  /\ Request(s, "index")
  /\ IF held[s] = 0 /\ disk = 0
       THEN disk' = past.made + 1 /\ past' = [past EXCEPT !.made = @ + 1]
       ELSE UNCHANGED <<disk, past>>
  /\ held' = [held EXCEPT ![s] = 0]
  /\ UNCHANGED <<mastodon, req, roots, git, clock>>

Replaced(s) ==
  past' = [past EXCEPT !.replaced = @ \cup {t \in Servers \ {s} : held[t] # 0}]

\* upgrade with apply: cleanup_index removes the files.
Upgrade(s) ==
  /\ Request(s, "index")
  /\ disk' = 0 /\ held' = [held EXCEPT ![s] = 0] /\ Replaced(s)
  /\ UNCHANGED <<mastodon, req, roots, git, clock>>

-----------------------------------------------------------------------------
(* Everybody else.                                                         *)

Event(families) ==
  /\ used.family \in families
  /\ used.events < MaxEvents /\ used' = [used EXCEPT !.events = @ + 1]

\* crabcc index on the command line: a new file (fresh_db).
CliIndex ==
  /\ Event({"index"})
  /\ disk' = past.made + 1
  /\ past' = [past EXCEPT !.made = @ + 1,
                !.replaced = @ \cup {t \in Servers : held[t] # 0}]
  /\ UNCHANGED <<mastodon, req, roots, git, held, clock>>

\* git init, or a work tree that is removed.
Toggle(d) ==
  /\ Event({"memory"})
  /\ git' = IF d \in git THEN git \ {d} ELSE git \cup {d}
  /\ past' = [past EXCEPT !.gits[clock] = @ \cup {git'}]
  /\ UNCHANGED <<mastodon, req, roots, index, clock>>

\* A server ends and is started again: what it kept in memory is gone.
Restart(s) ==
  /\ Event(Families)
  /\ limits' = [limits EXCEPT ![s] = [t \in Tokens |-> {}]]
  /\ req' = [req EXCEPT ![s] = None] /\ roots' = [roots EXCEPT ![s] = {}]
  /\ held' = [held EXCEPT ![s] = 0]
  /\ past' = [past EXCEPT !.replaced = @ \ {s},
                !.answered = {a \in @ : a.s # s}]
  /\ UNCHANGED <<cache, posts, git, disk, clock>>

Tick ==
  /\ clock < MaxClock /\ clock' = clock + 1
  /\ past' = [past EXCEPT !.gits[clock + 1] = {git}]
  /\ UNCHANGED <<mastodon, req, roots, git, index, used>>

Next ==
  \/ \E s \in Servers :
       \/ \E tok \in Tokens, text \in Texts, key \in Keys : Post(s, tok, text, key)
       \/ \E tok \in Tokens, timeline \in {"home", "public"} : Read(s, tok, timeline)
       \/ \E tok \in Tokens : Verify(s, tok)
       \/ Accept(s) \/ PostAnswered(s) \/ ReadAnswered(s) \/ Failed(s)
       \/ \E d \in Dirs : MemoryCall(s, d)
       \/ Query(s) \/ Reindex(s) \/ Upgrade(s) \/ Restart(s)
  \/ \E d \in Dirs : Toggle(d)
  \/ CliIndex \/ Tick

Spec == Init /\ [][Next]_vars

-----------------------------------------------------------------------------
(* Properties.                                                             *)

\* "max 5 attempts per 48 hours": whatever was refused, failed, answered from
\* the cache or pruned in between, a server has had no more than RateMax
\* counted answers for a token in any window.
AnsweredWithinLimit ==
  \A s \in Servers, t \in Tokens, from \in 0 .. clock :
    Cardinality({a \in past.answered : a.s = s /\ a.tok = t /\ a.at \in from .. from + Window - 1})
      <= RateMax

\* "a re-run won't double-post": a text that is posted again by any server,
\* the answer to the first request having been lost, is there once as long as
\* the instance knows the key.
RetryPostsOnce ==
  \A p, q \in posts : p.tok = q.tok /\ p.text = q.text /\ p.asked = q.asked /\ p # q =>
    p.at - q.at > IdemTtl \/ q.at - p.at > IdemTtl

\* "worktree creations / removals reflect within human-perceptible time": the
\* repository of a memory call is one that the walk would have found in the
\* last GitRootTtl seconds.
RootIsRecent ==
  \A r \in past.routed : \E t \in 0 .. r.at : \E g \in past.gits[t] :
    /\ r.at - t < GitRootTtl
    /\ r.root \in IF find_git_root(g, r.dir) = {} THEN {r.dir} ELSE find_git_root(g, r.dir)

\* A session's Store is the index that everybody else opens, unless another
\* process has replaced the file since it was opened.
HeldIsCurrent == \A s \in Servers : held[s] \in {0, disk} \/ s \in past.replaced

\* What a server remembers between requests is true of the files still: the
\* root of a directory, and the Store of its session.
KeptIsCurrent == RootIsRecent /\ HeldIsCurrent
=============================================================================
