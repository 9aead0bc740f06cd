--------------------------- MODULE McpServerProofs ---------------------------
(***************************************************************************)
(* What MCP servers promise whatever their number, the requests they take   *)
(* and the changes around them: three inductive invariants, one for each    *)
(* family of tools, over common types.                                      *)
(***************************************************************************)
EXTENDS McpServer, FiniteSetTheorems, TLAPS

USE McpServerAssumption, MastodonAssumption, RegistryAssumption

-----------------------------------------------------------------------------
(* Types.                                                                  *)

Attempts == [n : Nat, at : Nat]
Answers  == [s : Servers, tok : Tokens, at : Nat, n : Nat]
Statuses == [tok : Tokens, text : Texts, asked : Keys, key : Keys \cup Texts, at : Nat]
Entries  == [dir : Dirs, root : SUBSET Dirs, at : Nat]
Routes   == [dir : Dirs, root : Dirs, at : Nat]
CallState ==
  [st : {"idle", "post", "read"}, tok : Tokens \cup {NoKey}, text : Texts \cup {NoKey},
   asked : Keys, key : Keys \cup Texts, url : {NoKey, "home", "public"}, sent : BOOLEAN,
   ok : BOOLEAN]
Story ==
  [answered : SUBSET Answers, routed : SUBSET Routes, gits : [0 .. MaxClock -> SUBSET (SUBSET Dirs)],
   replaced : SUBSET Servers, made : Nat]

\* A request under way is one of a token, a post one of a text.
CallFits(x) ==
  /\ x.st # "idle" => x.tok \in Tokens
  /\ x.st = "post" => x.text \in Texts

\* A directory has one root, or none.
OneRoot(memo) ==
  /\ \A e, o \in memo : e.dir = o.dir => e = o
  /\ \A e \in memo : \A r, q \in e.root : r = q

Typed ==
  /\ limits \in [Servers -> [Tokens -> SUBSET Attempts]]
  /\ posts \subseteq Statuses
  /\ req \in [Servers -> CallState] /\ \A s \in Servers : CallFits(req[s])
  /\ roots \in [Servers -> SUBSET Entries] /\ \A s \in Servers : OneRoot(roots[s])
  /\ git \subseteq Dirs
  /\ disk \in Nat /\ held \in [Servers -> Nat]
  /\ clock \in 0 .. MaxClock
  /\ used \in [requests : Nat, events : Nat, family : Families]
  /\ past \in Story

LEMMA WalkEnds ==
  ASSUME NEW g, NEW d \in Dirs
  PROVE  find_git_root(g, d) \subseteq Dirs /\ \A r, q \in find_git_root(g, d) : r = q
<1>1. Ancestors[d] \in Seq(Dirs)
  OBVIOUS
<1>2. find_git_root(g, d) \subseteq Dirs
  BY <1>1 DEF find_git_root
<1>3. ASSUME NEW i \in DOMAIN Ancestors[d], NEW j \in DOMAIN Ancestors[d],
             Ancestors[d][i] \in g, \A k \in 1 .. i - 1 : Ancestors[d][k] \notin g,
             Ancestors[d][j] \in g, \A k \in 1 .. j - 1 : Ancestors[d][k] \notin g
      PROVE  i = j
  <2>1. i \in Nat /\ j \in Nat /\ i >= 1 /\ j >= 1
    BY <1>1
  <2>2. ~(i < j) /\ ~(j < i)
    BY <1>3, <2>1
  <2> QED BY <2>1, <2>2
<1> QED BY <1>2, <1>3 DEF find_git_root

LEMMA MemoFits ==
  ASSUME NEW memo \in SUBSET Entries, OneRoot(memo), NEW g, NEW d \in Dirs, NEW now \in Nat
  PROVE  /\ remember(memo, g, d, now) \subseteq Entries /\ OneRoot(remember(memo, g, d, now))
         /\ \E e \in remember(memo, g, d, now) : e.dir = d
         /\ root_for(remember(memo, g, d, now), d) \in Dirs
<1> DEFINE m == remember(memo, g, d, now)
<1>1. m \subseteq Entries /\ OneRoot(m) /\ \E e \in m : e.dir = d
  <2>1. CASE fresh(memo, d, now) # {}
    BY <2>1 DEF remember, fresh
  <2>2. CASE fresh(memo, d, now) = {}
    <3> DEFINE new == [dir |-> d, root |-> find_git_root(g, d), at |-> now]
    <3>1. new \in Entries /\ new.dir = d /\ \A r, q \in new.root : r = q
      BY WalkEnds DEF Entries
    <3>2. m = {e \in memo : e.dir # d} \cup {new}
      BY <2>2 DEF remember
    <3> HIDE DEF m, new
    <3> QED BY <3>1, <3>2 DEF OneRoot
  <2> QED BY <2>1, <2>2
<1>2. root_for(m, d) \in Dirs
  <2> HIDE DEF m
  <2>1. (CHOOSE x \in m : x.dir = d) \in m
    BY <1>1
  <2> QED BY <1>1, <2>1 DEF root_for, Entries
<1> QED BY <1>1, <1>2

LEMMA InitTyped == Init => Typed
<1> SUFFICES ASSUME Init PROVE Typed
  OBVIOUS
<1>1. past \in Story
  BY DEF Init, Story
<1>2. None \in CallState /\ CallFits(None)
  BY DEF None, CallState, CallFits
<1> QED BY <1>1, <1>2 DEF Init, Typed, OneRoot
LEMMA RequestMoves ==
  ASSUME req \in [Servers -> CallState], \A r \in Servers : CallFits(req[r]),
         NEW s \in Servers, NEW x \in CallState, CallFits(x), req' = [req EXCEPT ![s] = x]
  PROVE  req' \in [Servers -> CallState] /\ \A r \in Servers : CallFits(req'[r])
<1>1. \A r \in Servers : req'[r] = IF r = s THEN x ELSE req[r]
  OBVIOUS
<1>2. \A r \in Servers : CallFits(req'[r])
  BY <1>1
<1> QED BY <1>2

LEMMA NoneFits == None \in CallState /\ CallFits(None)
BY DEF None, CallState, CallFits

LEMMA LimitsPruned ==
  ASSUME Typed, NEW s \in Servers, NEW tok \in Tokens,
         limits' = [limits EXCEPT ![s][tok] = retained(limits[s][tok], clock)]
  PROVE  limits' \in [Servers -> [Tokens -> SUBSET Attempts]]
BY DEF Typed, retained

LEMMA StepTyped == Typed /\ [Next]_vars => Typed'
<1> SUFFICES ASSUME Typed, [Next]_vars PROVE Typed'
  OBVIOUS
<1> DEFINE RequestsFit == req \in [Servers -> CallState] /\ \A r \in Servers : CallFits(req[r])
           Counters == [requests : Nat, events : Nat, family : Families]
<1>0. RequestsFit /\ past \in Story /\ used \in Counters /\ clock \in Nat
  BY DEF Typed
<1>1. ASSUME NEW s \in Servers, NEW family, Request(s, family) PROVE used' \in Counters
  BY <1>0, <1>1 DEF Request
<1>2. ASSUME NEW families, Event(families) PROVE used' \in Counters
  BY <1>0, <1>2 DEF Event
<1>3. ASSUME NEW s \in Servers, NEW tok \in Tokens, NEW text \in Texts, NEW key \in Keys,
             Post(s, tok, text, key)
      PROVE Typed'
  <2> DEFINE x == [None EXCEPT !.st = "post", !.tok = tok, !.text = text, !.asked = key,
                     !.key = idem_key(key, text, tok, used.requests)]
  <2>1. x \in CallState /\ CallFits(x)
    BY NoneFits DEF CallState, CallFits, idem_key
  <2>2. (req' = [req EXCEPT ![s] = x] \/ req' = req) /\ past' = past
    BY <1>3 DEF Post, Limited
  <2> HIDE DEF x
  <2>3. RequestsFit'
    BY <1>0, <2>1, <2>2, RequestMoves
  <2>4. limits' \in [Servers -> [Tokens -> SUBSET Attempts]]
    BY <1>3, LimitsPruned DEF Post, Limited
  <2> HIDE DEF Counters
  <2> QED BY <1>1, <1>3, <2>2, <2>3, <2>4 DEF Post, index, Typed, Counters
<1>4. ASSUME NEW s \in Servers, NEW tok \in Tokens, NEW timeline \in {"home", "public"},
             Read(s, tok, timeline)
      PROVE Typed'
  <2> DEFINE x == [None EXCEPT !.st = "read", !.tok = tok, !.url = url(timeline)]
  <2>1. x \in CallState /\ CallFits(x)
    BY NoneFits DEF CallState, CallFits, url
  <2>2. (req' = [req EXCEPT ![s] = x] \/ req' = req) /\ past' = past
    BY <1>4 DEF Read, Limited
  <2> HIDE DEF x
  <2>3. RequestsFit'
    BY <1>0, <2>1, <2>2, RequestMoves
  <2>4. limits' \in [Servers -> [Tokens -> SUBSET Attempts]]
    BY <1>4, LimitsPruned DEF Read, Limited
  <2> HIDE DEF Counters
  <2> QED BY <1>1, <1>4, <2>2, <2>3, <2>4 DEF Read, index, Typed, Counters
<1>5. ASSUME NEW s \in Servers, NEW tok \in Tokens, Verify(s, tok) PROVE Typed'
  <2>1. limits' \in [Servers -> [Tokens -> SUBSET Attempts]]
    BY <1>5, LimitsPruned DEF Verify, Limited
  <2> QED BY <1>1, <1>5, <2>1 DEF Verify, Limited, index, Typed
<1>6. ASSUME NEW s \in Servers, Accept(s) PROVE Typed'
  <2>1. req[s] \in CallState /\ CallFits(req[s]) /\ req[s].st = "post"
    BY <1>0, <1>6 DEF Accept
  <2> DEFINE x == [req[s] EXCEPT !.sent = TRUE]
             p == [tok |-> req[s].tok, text |-> req[s].text, asked |-> req[s].asked,
                   key |-> req[s].key, at |-> clock]
  <2>2. x \in CallState /\ CallFits(x) /\ p \in Statuses
    BY <1>0, <2>1 DEF CallState, CallFits, Statuses
  <2>3. req' = [req EXCEPT ![s] = x] /\ (posts' = posts \/ posts' = posts \cup {p})
    BY <1>0, <1>6 DEF Accept, CallState
  <2> HIDE DEF x, p
  <2>4. RequestsFit'
    BY <1>0, <2>2, <2>3, RequestMoves
  <2> QED BY <1>6, <2>2, <2>3, <2>4 DEF Accept, index, Typed
<1>7. ASSUME NEW s \in Servers, PostAnswered(s) \/ ReadAnswered(s) PROVE Typed'
  <2> DEFINE a == [s |-> s, tok |-> req[s].tok, at |-> clock, n |-> used.requests]
             new == [n |-> used.requests, at |-> clock]
  <2>1. a \in Answers /\ new \in Attempts /\ req[s].tok \in Tokens
    BY <1>0, <1>7 DEF PostAnswered, ReadAnswered, CallFits, Answers, Attempts
  <2>2. /\ limits' = [limits EXCEPT ![s][req[s].tok] = @ \cup {new}]
        /\ req' = [req EXCEPT ![s] = None]
        /\ past' = [past EXCEPT !.answered = @ \cup {a}]
    BY <1>7 DEF PostAnswered, ReadAnswered, Counted, record_attempt
  <2> HIDE DEF a, new
  <2>3. RequestsFit'
    BY <1>0, <2>2, NoneFits, RequestMoves
  <2>4. past' \in Story
    BY <1>0, <2>1, <2>2 DEF Story
  <2>5. limits' \in [Servers -> [Tokens -> SUBSET Attempts]]
    BY <2>1, <2>2 DEF Typed
  <2> QED BY <1>7, <2>3, <2>4, <2>5 DEF PostAnswered, ReadAnswered, index, Typed
<1>8. ASSUME NEW s \in Servers, Failed(s) PROVE Typed'
  <2>1. RequestsFit'
    BY <1>0, <1>8, NoneFits, RequestMoves DEF Failed
  <2> QED BY <1>8, <2>1 DEF Failed, mastodon, index, Typed
<1>9. ASSUME NEW s \in Servers, NEW d \in Dirs, MemoryCall(s, d) PROVE Typed'
  <2>1. PICK memo : memo = remember(roots[s], git, d, clock)
    OBVIOUS
  <2>2. memo \subseteq Entries /\ OneRoot(memo) /\ root_for(memo, d) \in Dirs
    BY <1>0, <2>1, MemoFits DEF Typed
  <2>3. /\ roots' = [roots EXCEPT ![s] = memo]
        /\ past' = [past EXCEPT !.routed = {[dir |-> d, root |-> root_for(memo, d), at |-> clock]}]
    BY <1>9, <2>1 DEF MemoryCall
  <2>4. roots' \in [Servers -> SUBSET Entries] /\ \A r \in Servers : OneRoot(roots'[r])
    <3>1. \A r \in Servers : roots'[r] = IF r = s THEN memo ELSE roots[r]
      BY <2>3 DEF Typed
    <3>2. \A r \in Servers : OneRoot(roots'[r])
      BY <2>2, <3>1 DEF Typed
    <3> QED BY <2>2, <2>3, <3>2 DEF Typed
  <2>5. past' \in Story
    <3>1. PICK r : r = [dir |-> d, root |-> root_for(memo, d), at |-> clock]
      OBVIOUS
    <3>2. r \in Routes
      BY <1>0, <2>2, <3>1 DEF Routes
    <3>3. past' = [past EXCEPT !.routed = {r}]
      BY <2>3, <3>1
    <3> QED BY <1>0, <3>2, <3>3 DEF Story
  <2> QED BY <1>1, <1>9, <2>4, <2>5 DEF MemoryCall, mastodon, index, Typed
<1>10. ASSUME disk' \in Nat, held' \in [Servers -> Nat], past' \in Story, used' \in Counters,
              UNCHANGED <<mastodon, req, roots, git, clock>>
       PROVE Typed'
  BY <1>10 DEF mastodon, Typed
<1>11. ASSUME NEW s \in Servers, Query(s) \/ Reindex(s) \/ Upgrade(s) PROVE Typed'
  <2>0. past.made \in Nat /\ disk \in Nat /\ held \in [Servers -> Nat]
    BY <1>0 DEF Story, Typed
  <2>1. disk' \in Nat /\ held' \in [Servers -> Nat]
    <3>1. CASE Query(s)
      BY <2>0, <3>1 DEF Query, OpenStore, Opened
    <3>2. CASE Reindex(s)
      BY <2>0, <3>2 DEF Reindex, OpenStore, Opened
    <3>3. CASE Upgrade(s)
      BY <2>0, <3>3 DEF Upgrade
    <3> QED BY <1>11, <3>1, <3>2, <3>3
  <2>2. past' \in Story
    <3>1. \/ past' = past
          \/ past' = [past EXCEPT !.made = past.made + 1]
          \/ past' = [past EXCEPT !.replaced = @ \cup {t \in Servers \ {s} : held[t] # 0}]
      BY <1>11 DEF Query, OpenStore, Reindex, Upgrade, Replaced
    <3>2. ASSUME NEW n \in Nat PROVE [past EXCEPT !.made = n] \in Story
      BY <1>0 DEF Story
    <3>3. ASSUME NEW gone \in SUBSET Servers PROVE [past EXCEPT !.replaced = @ \cup gone] \in Story
      BY <1>0 DEF Story
    <3>4. past.made + 1 \in Nat
      BY <2>0
    <3> QED BY <1>0, <3>1, <3>2, <3>3, <3>4
  <2>3. used' \in Counters
    BY <1>1, <1>11 DEF Query, Reindex, Upgrade
  <2> HIDE DEF Counters
  <2> QED BY <1>10, <1>11, <2>1, <2>2, <2>3 DEF Query, Reindex, Upgrade
<1>12. ASSUME CliIndex PROVE Typed'
  <2>1. disk' \in Nat /\ past' \in Story
    <3>0. PICK gone : gone = past.replaced \cup {t \in Servers : held[t] # 0}
      OBVIOUS
    <3>1. gone \in SUBSET Servers /\ past.made + 1 \in Nat
      BY <1>0, <3>0 DEF Story
    <3>2. disk' = past.made + 1 /\ past' = [past EXCEPT !.made = past.made + 1, !.replaced = gone]
      BY <1>12, <3>0 DEF CliIndex
    <3>3. ASSUME NEW n \in Nat PROVE [past EXCEPT !.made = n, !.replaced = gone] \in Story
      BY <1>0, <3>1 DEF Story
    <3> QED BY <3>1, <3>2, <3>3
  <2>2. used' \in Counters
    BY <1>2, <1>12 DEF CliIndex
  <2> HIDE DEF Counters
  <2> QED BY <1>10, <1>12, <2>1, <2>2 DEF CliIndex, Typed
<1>13. ASSUME NEW d \in Dirs, Toggle(d) PROVE Typed'
  <2>1. git' \subseteq Dirs /\ used' \in Counters
    BY <1>2, <1>13 DEF Toggle, Typed
  <2>2. past' \in Story
    BY <1>0, <1>13, <2>1 DEF Toggle, Story, Typed
  <2> QED BY <1>13, <2>1, <2>2 DEF Toggle, mastodon, index, Typed
<1>14. ASSUME NEW s \in Servers, Restart(s) PROVE Typed'
  <2>1. RequestsFit'
    BY <1>0, <1>14, NoneFits, RequestMoves DEF Restart
  <2>2. past' \in Story
    BY <1>0, <1>14 DEF Restart, Story
  <2>3. used' \in Counters
    BY <1>2, <1>14 DEF Restart
  <2>4. roots' \in [Servers -> SUBSET Entries] /\ \A r \in Servers : OneRoot(roots'[r])
    <3>1. \A r \in Servers : roots'[r] = IF r = s THEN {} ELSE roots[r]
      BY <1>14 DEF Restart, Typed
    <3>2. \A r \in Servers : OneRoot(roots'[r])
      BY <3>1 DEF Typed, OneRoot
    <3> QED BY <1>14, <3>2 DEF Restart, Typed
  <2>5. limits' \in [Servers -> [Tokens -> SUBSET Attempts]] /\ held' \in [Servers -> Nat]
    BY <1>14 DEF Restart, Typed
  <2> QED BY <1>14, <2>1, <2>2, <2>3, <2>4, <2>5 DEF Restart, Typed
<1>15. ASSUME Tick PROVE Typed'
  <2>1. clock' \in 0 .. MaxClock
    BY <1>15 DEF Tick, Typed
  <2>2. past' \in Story
    <3>1. past.gits \in [0 .. MaxClock -> SUBSET (SUBSET Dirs)] /\ {git} \in SUBSET (SUBSET Dirs)
      BY <1>0 DEF Story, Typed
    <3>2. [past.gits EXCEPT ![clock + 1] = {git}] \in [0 .. MaxClock -> SUBSET (SUBSET Dirs)]
      BY <3>1
    <3>3. past' = [past EXCEPT !.gits = [past.gits EXCEPT ![clock + 1] = {git}]]
      BY <1>15 DEF Tick
    <3> QED BY <1>0, <3>2, <3>3 DEF Story
  <2> QED BY <1>15, <2>1, <2>2 DEF Tick, mastodon, index, Typed
<1>16. CASE UNCHANGED vars
  BY <1>16 DEF vars, Typed
<1> QED BY <1>3, <1>4, <1>5, <1>6, <1>7, <1>8, <1>9, <1>11, <1>12, <1>13, <1>14, <1>15, <1>16
        DEF Next

\* Every reachable state is well typed, and a directory has one root in a
\* server's memory.
THEOREM AlwaysTyped == Spec => []Typed
BY InitTyped, StepTyped, PTL DEF Spec
-----------------------------------------------------------------------------
(* The invariant of the mastodon tools.                                    *)

Within(s, t, from) ==
  {a \in past.answered : a.s = s /\ a.tok = t /\ a.at \in from .. from + Window - 1}

\* What was answered within the last Window is on record, and a request is
\* only under way while the record has room for it.
LimitInv ==
  /\ IsFiniteSet(past.answered) /\ \A a \in past.answered : a.at <= clock
  /\ \A s \in Servers, t \in Tokens :
       IsFiniteSet(limits[s][t]) /\ Cardinality(limits[s][t]) <= RateMax
  /\ \A s \in Servers : req[s].st # "idle" => Cardinality(limits[s][req[s].tok]) < RateMax
  /\ \A a \in past.answered :
       clock - a.at < Window => [n |-> a.n, at |-> a.at] \in limits[a.s][a.tok]
  /\ AnsweredWithinLimit

LEMMA InitLimits == Init => LimitInv
<1> SUFFICES ASSUME Init PROVE LimitInv
  OBVIOUS
<1>1. past.answered = {} /\ \A s \in Servers : req[s].st = "idle"
  BY DEF Init, None
<1>2. \A s \in Servers, t \in Tokens : limits[s][t] = {}
  BY DEF Init
<1>3. \A s, t, from : Within(s, t, from) = {}
  BY <1>1 DEF Within
<1>4. Cardinality({}) = 0 /\ IsFiniteSet({})
  BY FS_EmptySet
<1>5. AnsweredWithinLimit
  <2> SUFFICES ASSUME NEW s \in Servers, NEW t \in Tokens, NEW from \in 0 .. clock
               PROVE  Cardinality(Within(s, t, from)) <= RateMax
    BY DEF AnsweredWithinLimit, Within
  <2>1. Cardinality(Within(s, t, from)) = 0
    BY <1>3, <1>4, Zenon
  <2> QED BY <2>1
<1>6. \A s \in Servers, t \in Tokens :
        IsFiniteSet(limits[s][t]) /\ Cardinality(limits[s][t]) <= RateMax
  <2>1. \A s \in Servers, t \in Tokens :
          IsFiniteSet(limits[s][t]) /\ Cardinality(limits[s][t]) = 0
    BY <1>2, <1>4, Zenon
  <2> QED BY <2>1
<1> QED BY <1>1, <1>4, <1>5, <1>6, Zenon DEF LimitInv

\* The windows of a moment gone by do not fill up, nor does one to come.
LEMMA WindowsKeep ==
  ASSUME Typed, LimitInv, past.answered' \subseteq past.answered, clock' \in {clock, clock + 1}
  PROVE  AnsweredWithinLimit'
<1> SUFFICES ASSUME NEW s \in Servers, NEW t \in Tokens, NEW from \in 0 .. clock'
             PROVE  Cardinality(Within(s, t, from)') <= RateMax
  BY DEF AnsweredWithinLimit, Within
<1>1. IsFiniteSet(Within(s, t, from)) /\ Within(s, t, from)' \subseteq Within(s, t, from)
  BY FS_Subset DEF LimitInv, Within
<1>2. clock \in Nat
  BY DEF Typed
<1>3. CASE from \in 0 .. clock
  <2>1. Cardinality(Within(s, t, from)) <= RateMax
    BY <1>3 DEF LimitInv, AnsweredWithinLimit, Within
  <2> QED BY <1>1, <2>1, FS_Subset, FS_CardinalityType
<1>4. CASE from = clock + 1
  <2>1. \A a \in past.answered : a.at <= clock /\ a.at \in Nat
    BY DEF LimitInv, Typed, Story, Answers
  <2>2. Within(s, t, from)' = {}
    BY <1>2, <1>4, <2>1 DEF Within
  <2> QED BY <2>2, FS_EmptySet
<1> QED BY <1>2, <1>3, <1>4

\* The limit is checked: the record keeps what is within the window.
LEMMA LimitedKeeps ==
  ASSUME Typed, LimitInv, NEW s \in Servers, NEW tok \in Tokens, NEW kept,
         kept = retained(limits[s][tok], clock), req[s].st = "idle",
         limits' = [limits EXCEPT ![s][tok] = kept], past' = past, clock' = clock,
         \/ req' = req
         \/ \E x : x.tok = tok /\ req' = [req EXCEPT ![s] = x] /\ allowed(kept)
  PROVE  LimitInv'
<1>0. /\ limits \in [Servers -> [Tokens -> SUBSET Attempts]] /\ req \in [Servers -> CallState]
      /\ clock \in Nat /\ past.answered \subseteq Answers
  BY DEF Typed, Story
<1>1. /\ limits'[s][tok] = kept
      /\ \A r \in Servers, t \in Tokens : <<r, t>> # <<s, tok>> => limits'[r][t] = limits[r][t]
  BY <1>0
<1>2. IsFiniteSet(kept) /\ Cardinality(kept) <= RateMax
  <2>1. IsFiniteSet(limits[s][tok]) /\ Cardinality(limits[s][tok]) <= RateMax
    BY DEF LimitInv
  <2>2. kept \subseteq limits[s][tok]
    BY DEF retained
  <2> QED BY <2>1, <2>2, FS_Subset, FS_CardinalityType
<1>3. \A r \in Servers, t \in Tokens :
        IsFiniteSet(limits'[r][t]) /\ Cardinality(limits'[r][t]) <= RateMax
  BY <1>1, <1>2 DEF LimitInv
<1>4. ASSUME NEW r \in Servers, req'[r].st # "idle"
      PROVE  Cardinality(limits'[r][req'[r].tok]) < RateMax
  <2>1. CASE r = s
    BY <1>0, <1>1, <1>4, <2>1 DEF allowed
  <2>2. CASE r # s
    <3>1. req'[r] = req[r] /\ req[r].tok \in Tokens
      BY <1>0, <1>4, <2>2 DEF Typed, CallFits
    <3> QED BY <1>1, <1>4, <2>2, <3>1 DEF LimitInv
  <2> QED BY <2>1, <2>2
<1>5. ASSUME NEW a \in past.answered, clock - a.at < Window
      PROVE  [n |-> a.n, at |-> a.at] \in limits'[a.s][a.tok]
  <2>1. a.s \in Servers /\ a.tok \in Tokens /\ [n |-> a.n, at |-> a.at] \in limits[a.s][a.tok]
    BY <1>0, <1>5 DEF LimitInv, Answers
  <2>2. CASE <<a.s, a.tok>> = <<s, tok>>
    BY <1>1, <1>5, <2>1, <2>2 DEF retained
  <2>3. CASE <<a.s, a.tok>> # <<s, tok>>
    BY <1>1, <2>1, <2>3
  <2> QED BY <2>2, <2>3
<1>6. AnsweredWithinLimit'
  BY WindowsKeep
<1> QED BY <1>3, <1>4, <1>5, <1>6 DEF LimitInv

\* An answer is counted, and the windows it is in hold what is on record.
LEMMA CountedKeeps ==
  ASSUME Typed, LimitInv, NEW s \in Servers, req[s].st # "idle", NEW tok, tok = req[s].tok,
         NEW a, a = [s |-> s, tok |-> tok, at |-> clock, n |-> used.requests],
         limits' = [limits EXCEPT ![s][tok] = @ \cup {[n |-> used.requests, at |-> clock]}],
         req' = [req EXCEPT ![s] = None], past.answered' = past.answered \cup {a}, clock' = clock
  PROVE  LimitInv'
<1>0. /\ limits \in [Servers -> [Tokens -> SUBSET Attempts]] /\ req \in [Servers -> CallState]
      /\ clock \in Nat /\ past.answered \subseteq Answers /\ tok \in Tokens
      /\ used.requests \in Nat /\ None.st = "idle"
  BY DEF Typed, Story, CallFits, None
<1>1. PICK new : new = [n |-> used.requests, at |-> clock]
  OBVIOUS
<1>2. /\ limits'[s][tok] = limits[s][tok] \cup {new}
      /\ \A r \in Servers, t \in Tokens : <<r, t>> # <<s, tok>> => limits'[r][t] = limits[r][t]
  BY <1>0, <1>1
<1>3. IsFiniteSet(limits'[s][tok]) /\ Cardinality(limits'[s][tok]) <= RateMax
  <2>1. IsFiniteSet(limits[s][tok]) /\ Cardinality(limits[s][tok]) < RateMax
    BY <1>0 DEF LimitInv
  <2>2. Cardinality(limits[s][tok]) \in Nat
    BY <2>1, FS_CardinalityType
  <2>3. PICK n \in Nat : n = Cardinality(limits[s][tok])
    BY <2>2
  <2>4. /\ IsFiniteSet(limits[s][tok] \cup {new})
        /\ Cardinality(limits[s][tok] \cup {new}) \in {n, n + 1}
    BY <2>1, <2>3, FS_AddElement
  <2>5. n < RateMax /\ \A k \in {n, n + 1} : k <= RateMax
    BY <2>1, <2>3
  <2> QED BY <1>2, <2>4, <2>5
<1>4. \A r \in Servers, t \in Tokens :
        IsFiniteSet(limits'[r][t]) /\ Cardinality(limits'[r][t]) <= RateMax
  BY <1>2, <1>3 DEF LimitInv
<1>5. ASSUME NEW r \in Servers, req'[r].st # "idle"
      PROVE  Cardinality(limits'[r][req'[r].tok]) < RateMax
  <2>1. r # s /\ req'[r] = req[r] /\ req[r].tok \in Tokens
    BY <1>0, <1>5 DEF Typed, CallFits
  <2> QED BY <1>2, <1>5, <2>1 DEF LimitInv
<1>6. ASSUME NEW b \in past.answered', clock - b.at < Window
      PROVE  [n |-> b.n, at |-> b.at] \in limits'[b.s][b.tok]
  <2>1. CASE b = a
    BY <1>1, <1>2, <2>1
  <2>2. CASE b \in past.answered
    <3>1. b.s \in Servers /\ b.tok \in Tokens /\ [n |-> b.n, at |-> b.at] \in limits[b.s][b.tok]
      BY <1>0, <1>6, <2>2 DEF LimitInv, Answers
    <3> QED BY <1>2, <3>1
  <2> QED BY <2>1, <2>2
<1>7. a \in Answers /\ past.answered' \subseteq Answers
  BY <1>0 DEF Answers
<1>8. \A b \in past.answered' : b.at <= clock
  BY <1>0 DEF LimitInv
<1>9. IsFiniteSet(past.answered')
  <2>1. IsFiniteSet(past.answered) /\ past.answered' = past.answered \cup {a}
    BY DEF LimitInv
  <2>2. IsFiniteSet(past.answered \cup {a})
    BY <2>1, FS_AddElement
  <2> QED BY <2>1, <2>2, Zenon
<1>10. ASSUME NEW r \in Servers, NEW t \in Tokens, NEW from \in 0 .. clock
       PROVE  Cardinality(Within(r, t, from)') <= RateMax
  <2>1. CASE a \in Within(r, t, from)'
    <3>1. r = s /\ t = tok /\ from + Window - 1 >= clock
      BY <1>0, <2>1 DEF Within
    <3>2. ASSUME NEW b \in Within(r, t, from)' PROVE [n |-> b.n, at |-> b.at] \in limits'[s][tok]
      <4>1. b \in past.answered' /\ b.s = s /\ b.tok = tok /\ b.at >= from
        BY <3>1, <3>2, <1>7 DEF Within, Answers
      <4>2. clock - b.at < Window
        BY <1>0, <1>7, <3>1, <4>1 DEF Answers
      <4> QED BY <1>6, <4>1, <4>2
    <3> DEFINE f == [b \in Within(r, t, from)' |-> [n |-> b.n, at |-> b.at]]
    <3>3. f \in Injection(Within(r, t, from)', limits'[s][tok])
      <4>1. f \in [Within(r, t, from)' -> limits'[s][tok]]
        BY <3>2
      <4>2. ASSUME NEW b \in Within(r, t, from)', NEW c \in Within(r, t, from)', f[b] = f[c]
            PROVE  b = c
        <5>1. b \in Answers /\ c \in Answers /\ b.s = c.s /\ b.tok = c.tok
          BY <1>7 DEF Within
        <5>2. b.n = c.n /\ b.at = c.at
          BY <4>2
        <5> QED BY <5>1, <5>2 DEF Answers
      <4> QED BY <4>1, <4>2 DEF Injection, IsInjective
    <3> HIDE DEF f
    <3>4. Cardinality(Within(r, t, from)') <= Cardinality(limits'[s][tok])
      BY <1>3, <3>3, FS_Injection
    <3>5. IsFiniteSet(Within(r, t, from)')
      BY <1>9, FS_Subset DEF Within
    <3> QED BY <1>3, <3>4, <3>5, FS_CardinalityType
  <2>2. CASE a \notin Within(r, t, from)'
    <3>1. Within(r, t, from)' = Within(r, t, from)
      BY <2>2 DEF Within
    <3> QED BY <3>1 DEF LimitInv, AnsweredWithinLimit, Within
  <2> QED BY <2>1, <2>2
<1>11. AnsweredWithinLimit'
  BY <1>10 DEF AnsweredWithinLimit, Within
<1> QED BY <1>4, <1>5, <1>6, <1>8, <1>9, <1>11 DEF LimitInv
LEMMA StepLimits == Typed /\ LimitInv /\ [Next]_vars => LimitInv'
<1> SUFFICES ASSUME Typed, LimitInv, [Next]_vars PROVE LimitInv'
  OBVIOUS
<1>0. /\ limits \in [Servers -> [Tokens -> SUBSET Attempts]] /\ req \in [Servers -> CallState]
      /\ clock \in Nat /\ past \in Story /\ past.answered \subseteq Answers /\ None.st = "idle"
      /\ \A r \in Servers : CallFits(req[r])
  BY DEF Typed, Story, None
<1>1. ASSUME NEW s \in Servers, NEW tok \in Tokens, NEW text \in Texts, NEW key \in Keys,
             Post(s, tok, text, key)
      PROVE LimitInv'
  <2>1. PICK x : x = [None EXCEPT !.st = "post", !.tok = tok, !.text = text, !.asked = key,
                        !.key = idem_key(key, text, tok, used.requests)]
    OBVIOUS
  <2>2. PICK kept : kept = retained(limits[s][tok], clock)
    OBVIOUS
  <2>3. /\ req[s].st = "idle" /\ limits' = [limits EXCEPT ![s][tok] = kept]
        /\ past' = past /\ clock' = clock
        /\ req' = req \/ (req' = [req EXCEPT ![s] = x] /\ allowed(kept))
    BY <1>1, <2>1, <2>2 DEF Post, Limited, Request
  <2>4. x.tok = tok
    BY <2>1 DEF None
  <2> QED BY <2>2, <2>3, <2>4, LimitedKeeps
<1>2. ASSUME NEW s \in Servers, NEW tok \in Tokens, NEW timeline \in {"home", "public"},
             Read(s, tok, timeline)
      PROVE LimitInv'
  <2>1. PICK x : x = [None EXCEPT !.st = "read", !.tok = tok, !.url = url(timeline)]
    OBVIOUS
  <2>2. PICK kept : kept = retained(limits[s][tok], clock)
    OBVIOUS
  <2>3. /\ req[s].st = "idle" /\ limits' = [limits EXCEPT ![s][tok] = kept]
        /\ past' = past /\ clock' = clock
        /\ req' = req \/ (req' = [req EXCEPT ![s] = x] /\ allowed(kept))
    BY <1>2, <2>1, <2>2 DEF Read, Limited, Request
  <2>4. x.tok = tok
    BY <2>1 DEF None
  <2> QED BY <2>2, <2>3, <2>4, LimitedKeeps
<1>3. ASSUME NEW s \in Servers, NEW tok \in Tokens, Verify(s, tok) PROVE LimitInv'
  <2>1. PICK kept : kept = retained(limits[s][tok], clock)
    OBVIOUS
  <2>2. /\ req[s].st = "idle" /\ limits' = [limits EXCEPT ![s][tok] = kept]
        /\ past' = past /\ clock' = clock /\ req' = req
    BY <1>3, <2>1 DEF Verify, Limited, Request
  <2> QED BY <2>1, <2>2, LimitedKeeps
<1>4. ASSUME NEW s \in Servers, PostAnswered(s) \/ ReadAnswered(s) PROVE LimitInv'
  <2>1. PICK tok : tok = req[s].tok
    OBVIOUS
  <2>2. PICK a : a = [s |-> s, tok |-> tok, at |-> clock, n |-> used.requests]
    OBVIOUS
  <2>3. /\ req[s].st # "idle" /\ req' = [req EXCEPT ![s] = None] /\ clock' = clock
        /\ limits' = [limits EXCEPT ![s][tok] = @ \cup {[n |-> used.requests, at |-> clock]}]
    BY <1>4, <2>1 DEF PostAnswered, ReadAnswered, Counted, record_attempt
  <2>4. past' = [past EXCEPT !.answered = past.answered \cup {a}]
    BY <1>4, <2>1, <2>2 DEF PostAnswered, ReadAnswered
  <2>5. past.answered' = past.answered \cup {a}
    BY <1>0, <2>4 DEF Story
  <2> QED BY <2>1, <2>2, <2>3, <2>5, CountedKeeps
\* Nothing else adds an answer or takes one off the record.
<1>5. ASSUME limits' = limits, past.answered' = past.answered, clock' = clock,
             \A r \in Servers :
               req'[r].st # "idle" => req[r].st # "idle" /\ req'[r].tok = req[r].tok
      PROVE LimitInv'
  <2>1. AnsweredWithinLimit'
    BY <1>5, WindowsKeep
  <2> QED BY <1>5, <2>1 DEF LimitInv
<1>6. ASSUME NEW s \in Servers, Accept(s) \/ Failed(s) PROVE LimitInv'
  <2>1. \A r \in Servers :
          req'[r].st # "idle" => req[r].st # "idle" /\ req'[r].tok = req[r].tok
    <3>1. CASE Accept(s)
      BY <1>0, <3>1 DEF Accept, CallState
    <3>2. CASE Failed(s)
      BY <1>0, <3>2 DEF Failed
    <3> QED BY <1>6, <3>1, <3>2
  <2> QED BY <1>5, <1>6, <2>1 DEF Accept, Failed, mastodon
<1>7. ASSUME UNCHANGED <<mastodon, req, clock>>, past.answered' = past.answered PROVE LimitInv'
  BY <1>5, <1>7 DEF mastodon
<1>8. ASSUME NEW s \in Servers, NEW d \in Dirs, MemoryCall(s, d) PROVE LimitInv'
  <2>1. PICK r : past' = [past EXCEPT !.routed = r]
    BY <1>8 DEF MemoryCall
  <2>2. past.answered' = past.answered
    BY <1>0, <2>1 DEF Story
  <2> QED BY <1>7, <1>8, <2>2 DEF MemoryCall
<1>9. ASSUME NEW s \in Servers, Query(s) \/ Reindex(s) \/ Upgrade(s) PROVE LimitInv'
  <2>1. past.answered' = past.answered
    BY <1>0, <1>9 DEF Query, OpenStore, Reindex, Upgrade, Replaced, Story
  <2> QED BY <1>7, <1>9, <2>1 DEF Query, Reindex, Upgrade
<1>10. ASSUME CliIndex PROVE LimitInv'
  <2>1. past.answered' = past.answered
    BY <1>0, <1>10 DEF CliIndex, Story
  <2> QED BY <1>7, <1>10, <2>1 DEF CliIndex
<1>11. ASSUME NEW d \in Dirs, Toggle(d) PROVE LimitInv'
  <2>1. past.answered' = past.answered
    BY <1>0, <1>11 DEF Toggle, Story
  <2> QED BY <1>7, <1>11, <2>1 DEF Toggle
\* A server that is started again has an empty record, and no answers yet.
<1>12. ASSUME NEW s \in Servers, Restart(s) PROVE LimitInv'
  <2>1. past' = [past EXCEPT !.replaced = @ \ {s}, !.answered = {a \in @ : a.s # s}]
    BY <1>12 DEF Restart
  <2>2. past.answered' = {a \in past.answered : a.s # s} /\ clock' = clock
    BY <1>0, <1>12, <2>1 DEF Story, Restart
  <2>3. /\ \A t \in Tokens : limits'[s][t] = {}
        /\ \A r \in Servers \ {s} : limits'[r] = limits[r] /\ req'[r] = req[r]
        /\ req'[s].st = "idle"
    BY <1>0, <1>12 DEF Restart
  <2>4. IsFiniteSet(past.answered') /\ AnsweredWithinLimit'
    BY <2>2, FS_Subset, WindowsKeep DEF LimitInv
  <2>5. \A r \in Servers, t \in Tokens :
          IsFiniteSet(limits'[r][t]) /\ Cardinality(limits'[r][t]) <= RateMax
    <3>1. \A t \in Tokens : IsFiniteSet(limits'[s][t]) /\ Cardinality(limits'[s][t]) = 0
      BY <2>3, FS_EmptySet, Zenon
    <3> QED BY <2>3, <3>1 DEF LimitInv
  <2>6. \A r \in Servers : req'[r].st # "idle" => Cardinality(limits'[r][req'[r].tok]) < RateMax
    BY <2>3 DEF LimitInv
  <2>7. \A a \in past.answered' : clock' - a.at < Window =>
          [n |-> a.n, at |-> a.at] \in limits'[a.s][a.tok]
    BY <1>0, <2>2, <2>3 DEF LimitInv, Answers
  <2> QED BY <2>2, <2>4, <2>5, <2>6, <2>7 DEF LimitInv
<1>13. ASSUME Tick PROVE LimitInv'
  <2>1. past.answered' = past.answered /\ clock' = clock + 1 /\ limits' = limits /\ req' = req
    BY <1>0, <1>13 DEF Tick, Story, mastodon
  <2>2. AnsweredWithinLimit'
    BY <2>1, WindowsKeep
  <2>3. \A a \in past.answered : a.at \in Nat
    BY <1>0 DEF Answers
  <2>4. \A a \in past.answered' :
          /\ a.at <= clock'
          /\ clock' - a.at < Window => [n |-> a.n, at |-> a.at] \in limits'[a.s][a.tok]
    <3>1. ASSUME NEW a \in past.answered
          PROVE  /\ a.at <= clock + 1
                 /\ clock + 1 - a.at < Window => [n |-> a.n, at |-> a.at] \in limits[a.s][a.tok]
      <4>1. a.at \in Nat /\ a.at <= clock
        BY <2>3 DEF LimitInv
      <4>2. a.at <= clock + 1 /\ (clock + 1 - a.at < Window => clock - a.at < Window)
        BY <1>0, <4>1
      <4>3. clock - a.at < Window => [n |-> a.n, at |-> a.at] \in limits[a.s][a.tok]
        BY DEF LimitInv
      <4> QED BY <4>2, <4>3
    <3>2. ASSUME NEW a, a \in past.answered'
          PROVE  /\ a.at <= clock'
                 /\ clock' - a.at < Window => [n |-> a.n, at |-> a.at] \in limits'[a.s][a.tok]
      <4>1. a \in past.answered /\ a.at \in Nat
        BY <2>1, <2>3, <3>2
      <4>2. limits'[a.s][a.tok] = limits[a.s][a.tok] /\ clock' = clock + 1
        BY <2>1
      <4>3. /\ a.at <= clock + 1
            /\ clock + 1 - a.at < Window => [n |-> a.n, at |-> a.at] \in limits[a.s][a.tok]
        BY <3>1, <4>1
      <4> QED BY <1>0, <4>1, <4>2, <4>3
    <3> QED BY <3>2
  <2> QED BY <2>1, <2>2, <2>4 DEF LimitInv
<1>14. CASE UNCHANGED vars
  BY <1>7, <1>14 DEF vars, mastodon
<1> QED BY <1>1, <1>2, <1>3, <1>4, <1>6, <1>8, <1>9, <1>10, <1>11, <1>12, <1>13, <1>14 DEF Next

\* "max 5 attempts per 48 hours": in no window has a server had more than
\* RateMax counted answers for a token, whatever was refused, failed,
\* answered from the cache or pruned in between (check_rate_limit).
THEOREM AlwaysWithinLimit == Spec => []AnsweredWithinLimit
<1>1. Typed /\ LimitInv /\ [Next]_vars => (Typed /\ LimitInv)'
  BY StepTyped, StepLimits
<1>2. LimitInv => AnsweredWithinLimit
  BY DEF LimitInv
<1> QED BY InitTyped, InitLimits, <1>1, <1>2, PTL DEF Spec

-----------------------------------------------------------------------------
(* The invariant of the posts.                                             *)

\* What is sent twice has one key.
PostInv ==
  /\ \A s \in Servers : req[s].st = "post" =>
       req[s].key = idem_key(req[s].asked, req[s].text, req[s].tok, 0)
  /\ \A p \in posts : p.key = idem_key(p.asked, p.text, p.tok, 0) /\ p.at <= clock
  /\ RetryPostsOnce

LEMMA InitPosts == Init => PostInv
BY DEF Init, None, PostInv, RetryPostsOnce

LEMMA StepPosts == Typed /\ PostInv /\ [Next]_vars => PostInv'
<1> SUFFICES ASSUME Typed, PostInv, [Next]_vars PROVE PostInv'
  OBVIOUS
<1>0. /\ req \in [Servers -> CallState] /\ \A r \in Servers : CallFits(req[r])
      /\ clock \in Nat /\ posts \subseteq Statuses /\ None.st = "idle"
  BY DEF Typed, None
<1>1. ASSUME posts' = posts, clock' \in {clock, clock + 1},
             \A r \in Servers : \/ req'[r] = req[r]
                                \/ req'[r].st # "post"
                                \/ req'[r].key = idem_key(req'[r].asked, req'[r].text, req'[r].tok, 0)
      PROVE PostInv'
  <2>1. \A p \in posts : p.at \in Nat
    BY <1>0 DEF Statuses
  <2> QED BY <1>0, <1>1, <2>1 DEF PostInv, RetryPostsOnce
<1>2. ASSUME NEW s \in Servers, NEW tok \in Tokens, NEW text \in Texts, NEW key \in Keys,
             Post(s, tok, text, key)
      PROVE PostInv'
  <2>1. PICK x : x = [None EXCEPT !.st = "post", !.tok = tok, !.text = text, !.asked = key,
                        !.key = idem_key(key, text, tok, used.requests)]
    OBVIOUS
  <2>2. x.key = idem_key(x.asked, x.text, x.tok, 0)
    BY <2>1 DEF None, idem_key
  <2>3. (req' = req \/ req' = [req EXCEPT ![s] = x]) /\ posts' = posts /\ clock' = clock
    BY <1>2, <2>1 DEF Post, Limited
  <2> QED BY <1>0, <1>1, <2>2, <2>3
<1>3. ASSUME NEW s \in Servers, NEW tok \in Tokens, NEW timeline, Read(s, tok, timeline)
      PROVE PostInv'
  <2>1. PICK x : x = [None EXCEPT !.st = "read", !.tok = tok, !.url = url(timeline)]
    OBVIOUS
  <2>2. x.st = "read"
    BY <2>1 DEF None
  <2>3. (req' = req \/ req' = [req EXCEPT ![s] = x]) /\ posts' = posts /\ clock' = clock
    BY <1>3, <2>1 DEF Read, Limited
  <2> QED BY <1>0, <1>1, <2>2, <2>3
<1>4. ASSUME NEW s \in Servers, Accept(s) PROVE PostInv'
  <2>1. PICK x : x = req[s]
    OBVIOUS
  <2>2. PICK new : new = [tok |-> x.tok, text |-> x.text, asked |-> x.asked, key |-> x.key,
                          at |-> clock]
    OBVIOUS
  <2>3. x.st = "post" /\ x.key = idem_key(x.asked, x.text, x.tok, 0)
    BY <1>4, <2>1 DEF Accept, PostInv
  <2>4. \A r \in Servers : req'[r] = req[r] \/ req'[r].key = idem_key(req'[r].asked, req'[r].text, req'[r].tok, 0)
    BY <1>0, <1>4, <2>1, <2>3 DEF Accept, CallState
  <2>5. CASE \E p \in posts : p.tok = x.tok /\ p.key = x.key /\ clock - p.at <= IdemTtl
    <3>1. posts' = posts /\ clock' = clock
      BY <1>4, <2>1, <2>5 DEF Accept
    <3> QED BY <1>1, <2>4, <3>1
  <2>6. CASE \A p \in posts : p.tok = x.tok /\ p.key = x.key => ~(clock - p.at <= IdemTtl)
    <3>1. posts' = posts \cup {new} /\ clock' = clock
      BY <1>4, <2>1, <2>2, <2>6 DEF Accept
    <3>2. ASSUME NEW p \in posts, p.tok = new.tok, p.text = new.text, p.asked = new.asked
          PROVE  new.at - p.at > IdemTtl
      <4>1. p.key = x.key
        BY <2>2, <2>3, <3>2 DEF PostInv
      <4>2. ~(clock - p.at <= IdemTtl) /\ p.at \in Nat
        BY <1>0, <2>2, <2>6, <3>2, <4>1 DEF Statuses
      <4> QED BY <1>0, <2>2, <4>2
    <3>3. RetryPostsOnce'
      BY <3>1, <3>2 DEF PostInv, RetryPostsOnce
    <3>4. \A p \in posts' : p.key = idem_key(p.asked, p.text, p.tok, 0) /\ p.at <= clock
      BY <1>0, <2>2, <2>3, <3>1 DEF PostInv
    <3>5. \A r \in Servers : req'[r].st = "post" =>
            req'[r].key = idem_key(req'[r].asked, req'[r].text, req'[r].tok, 0)
      BY <2>4 DEF PostInv
    <3> QED BY <3>1, <3>3, <3>4, <3>5 DEF PostInv
  <2> QED BY <2>5, <2>6
<1>5. ASSUME NEW s \in Servers,
             \/ PostAnswered(s) \/ ReadAnswered(s) \/ Failed(s) \/ Restart(s)
      PROVE PostInv'
  <2>1. req' = [req EXCEPT ![s] = None] /\ posts' = posts /\ clock' = clock
    BY <1>5 DEF PostAnswered, ReadAnswered, Counted, Failed, Restart, mastodon
  <2> QED BY <1>0, <1>1, <2>1
<1>6. ASSUME req' = req, posts' = posts, clock' \in {clock, clock + 1} PROVE PostInv'
  BY <1>1, <1>6
<1>7. ASSUME \/ \E s \in Servers : \/ \E tok \in Tokens : Verify(s, tok)
                                   \/ \E d \in Dirs : MemoryCall(s, d)
                                   \/ Query(s) \/ Reindex(s) \/ Upgrade(s)
             \/ \E d \in Dirs : Toggle(d)
             \/ CliIndex \/ Tick \/ UNCHANGED vars
      PROVE PostInv'
  BY <1>6, <1>7 DEF Verify, Limited, MemoryCall, Query, Reindex, Upgrade, Toggle, CliIndex, Tick,
     mastodon, vars
<1> QED BY <1>2, <1>3, <1>4, <1>5, <1>7 DEF Next

\* "a re-run won't double-post": a text that is posted again by any server,
\* however the first request ended, is there once while the instance knows
\* the key (handle_post: the key is the caller's or the text's).
THEOREM RetriesPostOnce == Spec => []RetryPostsOnce
<1>1. Typed /\ PostInv /\ [Next]_vars => (Typed /\ PostInv)'
  BY StepTyped, StepPosts
<1>2. PostInv => RetryPostsOnce
  BY DEF PostInv
<1> QED BY InitTyped, InitPosts, <1>1, <1>2, PTL DEF Spec
-----------------------------------------------------------------------------
(* The invariant of what a server keeps between requests.                  *)

\* A remembered root is what the walk found at its time; nothing is known of
\* a time to come.
KeptInv ==
  /\ \A s \in Servers : \A e \in roots[s] :
       /\ e.at <= clock
       /\ \E g \in past.gits[e.at] : e.root = find_git_root(g, e.dir)
  /\ git \in past.gits[clock]
  /\ \A r \in past.routed : r.at <= clock
  /\ KeptIsCurrent

LEMMA InitKept == Init => KeptInv
BY DEF Init, KeptInv, KeptIsCurrent, RootIsRecent, HeldIsCurrent

\* The root a call works on is one that was found in the last GitRootTtl.
LEMMA RouteIsRecent ==
  ASSUME Typed, KeptInv, NEW s \in Servers, NEW d \in Dirs, NEW memo,
         memo = remember(roots[s], git, d, clock)
  PROVE  /\ \A e \in memo : /\ e.at <= clock
                            /\ \E g \in past.gits[e.at] : e.root = find_git_root(g, e.dir)
         /\ \E t \in 0 .. clock : \E g \in past.gits[t] :
              /\ clock - t < GitRootTtl
              /\ root_for(memo, d)
                   \in IF find_git_root(g, d) = {} THEN {d} ELSE find_git_root(g, d)
<1>0. clock \in Nat /\ roots[s] \subseteq Entries /\ OneRoot(roots[s])
  BY DEF Typed
<1>1. memo \subseteq Entries /\ OneRoot(memo)
  BY <1>0, MemoFits
<1>2. \A e \in roots[s] : /\ e.at <= clock
                          /\ \E g \in past.gits[e.at] : e.root = find_git_root(g, e.dir)
  BY DEF KeptInv
<1>3. /\ \A e \in memo : /\ e.at <= clock
                         /\ \E g \in past.gits[e.at] : e.root = find_git_root(g, e.dir)
      /\ \E e \in memo : e.dir = d /\ clock - e.at < GitRootTtl
  <2>1. CASE fresh(roots[s], d, clock) # {}
    BY <1>2, <2>1 DEF remember, fresh
  <2>2. CASE fresh(roots[s], d, clock) = {}
    <3>1. PICK new : new = [dir |-> d, root |-> find_git_root(git, d), at |-> clock]
      OBVIOUS
    <3>2. memo = {e \in roots[s] : e.dir # d} \cup {new}
      BY <2>2, <3>1 DEF remember
    <3>3. git \in past.gits[clock]
      BY DEF KeptInv
    <3> QED BY <1>0, <1>2, <3>1, <3>2, <3>3
  <2> QED BY <2>1, <2>2
<1>4. PICK e \in memo : e.dir = d /\ clock - e.at < GitRootTtl
  BY <1>3
<1>5. (CHOOSE x \in memo : x.dir = d) = e
  <2>1. \A x \in memo : x.dir = d => x = e
    BY <1>1, <1>4 DEF OneRoot
  <2> QED BY <1>4, <2>1
<1>6. root_for(memo, d) \in IF e.root = {} THEN {d} ELSE e.root
  <2>1. PICK q : q = CHOOSE x \in memo : x.dir = d
    OBVIOUS
  <2>2. root_for(memo, d) = IF q.root = {} THEN d ELSE CHOOSE r \in q.root : TRUE
    BY <2>1 DEF root_for
  <2> QED BY <1>5, <2>1, <2>2
<1>7. e.at \in 0 .. clock
  BY <1>0, <1>1, <1>3 DEF Entries
<1>8. PICK g \in past.gits[e.at] : e.root = find_git_root(g, d)
  BY <1>3, <1>4
<1> QED BY <1>3, <1>4, <1>6, <1>7, <1>8

LEMMA StepKept == Typed /\ KeptInv /\ [Next]_vars => KeptInv'
<1> SUFFICES ASSUME Typed, KeptInv, [Next]_vars PROVE KeptInv'
  OBVIOUS
<1> DEFINE Remembered == \A s \in Servers : \A e \in roots[s] :
                           /\ e.at <= clock
                           /\ \E g \in past.gits[e.at] : e.root = find_git_root(g, e.dir)
           Routed == RootIsRecent /\ \A r \in past.routed : r.at <= clock
           Held == HeldIsCurrent
<1>0. /\ past \in Story /\ past.routed \subseteq Routes /\ clock \in Nat
      /\ past.gits \in [0 .. MaxClock -> SUBSET (SUBSET Dirs)]
      /\ roots \in [Servers -> SUBSET Entries] /\ held \in [Servers -> Nat] /\ disk \in Nat
      /\ past.replaced \subseteq Servers /\ past.made \in Nat
  BY DEF Typed, Story
<1>1. Remembered /\ git \in past.gits[clock] /\ Routed /\ Held
  BY DEF KeptInv, KeptIsCurrent
<1>2. ASSUME Remembered', git' \in past.gits[clock]', Routed', Held' PROVE KeptInv'
  BY <1>2 DEF KeptInv, KeptIsCurrent
\* The files change: the repositories do not.
<1>3. ASSUME roots' = roots, git' = git, clock' = clock, past'.gits = past.gits,
             past'.routed = past.routed, Held'
      PROVE KeptInv'
  <2>1. Remembered' /\ Routed' /\ git' \in past.gits[clock]'
    BY <1>1, <1>3 DEF RootIsRecent
  <2> HIDE DEF Remembered, Routed, Held
  <2> QED BY <1>2, <1>3, <2>1
<1>4. ASSUME roots' = roots, git' = git, clock' = clock, past'.gits = past.gits,
             past'.routed = past.routed, held' = held, disk' = disk,
             past'.replaced = past.replaced
      PROVE KeptInv'
  BY <1>1, <1>3, <1>4 DEF HeldIsCurrent
<1>5. ASSUME NEW s \in Servers, NEW d \in Dirs, MemoryCall(s, d) PROVE KeptInv'
  <2>1. PICK memo : memo = remember(roots[s], git, d, clock)
    OBVIOUS
  <2>2. PICK r : r = [dir |-> d, root |-> root_for(memo, d), at |-> clock]
    OBVIOUS
  <2>3. /\ roots' = [roots EXCEPT ![s] = memo] /\ past' = [past EXCEPT !.routed = {r}]
        /\ git' = git /\ clock' = clock /\ held' = held /\ disk' = disk
    BY <1>5, <2>1, <2>2 DEF MemoryCall, index
  <2>4. past'.routed = {r} /\ past'.gits = past.gits /\ past'.replaced = past.replaced
    BY <1>0, <2>3 DEF Story
  <2>5. Remembered'
    <3>1. \A q \in Servers : roots'[q] = IF q = s THEN memo ELSE roots[q]
      BY <1>0, <2>3
    <3>2. \A e \in memo : /\ e.at <= clock
                          /\ \E g \in past.gits[e.at] : e.root = find_git_root(g, e.dir)
      BY <2>1, RouteIsRecent
    <3> QED BY <1>1, <2>3, <2>4, <3>1, <3>2
  <2>6. Routed'
    <3>1. \E t \in 0 .. clock : \E g \in past.gits[t] :
            /\ clock - t < GitRootTtl
            /\ r.root \in IF find_git_root(g, d) = {} THEN {d} ELSE find_git_root(g, d)
      BY <2>1, <2>2, RouteIsRecent
    <3>2. r.dir = d /\ r.at = clock
      BY <2>2
    <3>3. RootIsRecent'
      BY <2>3, <2>4, <3>1, <3>2 DEF RootIsRecent
    <3>4. \A q \in past'.routed : q.at <= clock'
      BY <1>0, <2>3, <2>4, <3>2
    <3> QED BY <3>3, <3>4
  <2>7. Held'
    BY <1>1, <2>3, <2>4 DEF HeldIsCurrent
  <2> HIDE DEF Remembered, Routed, Held
  <2> QED BY <1>1, <1>2, <2>3, <2>4, <2>5, <2>6, <2>7
<1>6. ASSUME NEW s \in Servers, Query(s) \/ Reindex(s) \/ Upgrade(s) PROVE KeptInv'
  <2>1. /\ roots' = roots /\ git' = git /\ clock' = clock /\ past'.gits = past.gits
        /\ past'.routed = past.routed
    BY <1>0, <1>6 DEF Query, OpenStore, Reindex, Upgrade, Replaced, Story
  <2>2. Held'
    <3>1. CASE Query(s)
      <4>1. past'.replaced = past.replaced
        BY <1>0, <3>1 DEF Query, OpenStore, Story
      <4> QED BY <1>0, <1>1, <3>1, <4>1 DEF Query, OpenStore, Opened, HeldIsCurrent
    <3>2. CASE Reindex(s)
      <4>1. past'.replaced = past.replaced
        BY <1>0, <3>2 DEF Reindex, Story
      <4> QED BY <1>0, <1>1, <3>2, <4>1 DEF Reindex, HeldIsCurrent
    <3>3. CASE Upgrade(s)
      <4>1. past'.replaced = past.replaced \cup {t \in Servers \ {s} : held[t] # 0}
        BY <1>0, <3>3 DEF Upgrade, Replaced, Story
      <4> QED BY <1>0, <1>1, <3>3, <4>1 DEF Upgrade, HeldIsCurrent
    <3> QED BY <1>6, <3>1, <3>2, <3>3
  <2> HIDE DEF Held
  <2> QED BY <1>3, <2>1, <2>2
<1>7. ASSUME CliIndex PROVE KeptInv'
  <2>1. PICK gone : gone = past.replaced \cup {t \in Servers : held[t] # 0}
    OBVIOUS
  <2>2. past' = [past EXCEPT !.made = @ + 1, !.replaced = gone]
    BY <1>7, <2>1 DEF CliIndex
  <2>3. past'.gits = past.gits /\ past'.routed = past.routed /\ past'.replaced = gone
    BY <1>0, <2>2 DEF Story
  <2>4. Held'
    BY <1>0, <1>7, <2>1, <2>3 DEF CliIndex, HeldIsCurrent
  <2> HIDE DEF Held
  <2> QED BY <1>3, <1>7, <2>3, <2>4 DEF CliIndex
<1>8. ASSUME NEW d \in Dirs, Toggle(d) PROVE KeptInv'
  <2>1. past' = [past EXCEPT !.gits[clock] = @ \cup {git'}]
    BY <1>8 DEF Toggle
  <2>2. /\ past'.gits = [past.gits EXCEPT ![clock] = @ \cup {git'}]
        /\ past'.routed = past.routed /\ past'.replaced = past.replaced
    BY <1>0, <2>1 DEF Story
  <2>3. /\ git' \in past'.gits[clock] /\ \A t \in 0 .. MaxClock : past.gits[t] \subseteq past'.gits[t]
    BY <1>0, <2>2 DEF Typed
  <2>4. /\ roots' = roots /\ clock' = clock /\ held' = held /\ disk' = disk
    BY <1>8 DEF Toggle, index
  <2>5. Remembered'
    <3>1. ASSUME NEW s \in Servers, NEW e \in roots[s]
          PROVE  e.at <= clock /\ \E g \in past'.gits[e.at] : e.root = find_git_root(g, e.dir)
      <4>1. e.at \in 0 .. MaxClock
        BY <1>0, <1>1 DEF Entries, Typed
      <4> QED BY <1>1, <2>3, <4>1
    <3> QED BY <2>4, <3>1
  <2>6. Routed'
    <3>1. ASSUME NEW r \in past.routed, NEW t \in 0 .. r.at PROVE t \in 0 .. MaxClock
      BY <1>0, <1>1 DEF Routes, Typed
    <3> QED BY <1>1, <2>2, <2>3, <2>4, <3>1 DEF RootIsRecent
  <2>7. Held'
    BY <1>1, <2>2, <2>4 DEF HeldIsCurrent
  <2> HIDE DEF Remembered, Routed, Held
  <2> QED BY <1>2, <2>3, <2>4, <2>5, <2>6, <2>7
<1>9. ASSUME NEW s \in Servers, Restart(s) PROVE KeptInv'
  <2>1. past' = [past EXCEPT !.replaced = @ \ {s}, !.answered = {a \in @ : a.s # s}]
    BY <1>9 DEF Restart
  <2>2. /\ past'.gits = past.gits /\ past'.routed = past.routed
        /\ past'.replaced = past.replaced \ {s}
    BY <1>0, <2>1 DEF Story
  <2>3. /\ git' = git /\ clock' = clock /\ disk' = disk /\ held' = [held EXCEPT ![s] = 0]
        /\ roots' = [roots EXCEPT ![s] = {}]
    BY <1>9 DEF Restart
  <2>4. Remembered'
    BY <1>0, <1>1, <2>2, <2>3
  <2>5. Routed'
    BY <1>1, <2>2, <2>3 DEF RootIsRecent
  <2>6. Held'
    BY <1>0, <1>1, <2>2, <2>3 DEF HeldIsCurrent
  <2> HIDE DEF Remembered, Routed, Held
  <2> QED BY <1>1, <1>2, <2>2, <2>3, <2>4, <2>5, <2>6
<1>10. ASSUME Tick PROVE KeptInv'
  <2>1. /\ past' = [past EXCEPT !.gits[clock + 1] = {git}] /\ clock' = clock + 1
        /\ clock + 1 \in 0 .. MaxClock
        /\ git' = git /\ roots' = roots /\ held' = held /\ disk' = disk
    BY <1>0, <1>10 DEF Tick, index, Typed
  <2>2. /\ past'.gits = [past.gits EXCEPT ![clock + 1] = {git}]
        /\ past'.routed = past.routed /\ past'.replaced = past.replaced
    BY <1>0, <2>1 DEF Story
  <2>3. /\ git \in past'.gits[clock + 1] /\ \A t \in 0 .. clock : past'.gits[t] = past.gits[t]
    BY <1>0, <2>1, <2>2
  <2>4. Remembered'
    <3>1. ASSUME NEW s \in Servers, NEW e \in roots[s]
          PROVE  e.at <= clock + 1 /\ \E g \in past'.gits[e.at] : e.root = find_git_root(g, e.dir)
      <4>1. e.at \in 0 .. clock
        BY <1>0, <1>1 DEF Entries
      <4>2. \E g \in past.gits[e.at] : e.root = find_git_root(g, e.dir)
        BY <1>1
      <4>3. past'.gits[e.at] = past.gits[e.at] /\ e.at <= clock + 1
        BY <1>0, <2>3, <4>1
      <4> QED BY <4>2, <4>3
    <3> QED BY <2>1, <3>1
  <2>5. Routed'
    <3>1. ASSUME NEW r \in past.routed PROVE r.at <= clock + 1 /\ 0 .. r.at \subseteq 0 .. clock
      BY <1>0, <1>1 DEF Routes
    <3> QED BY <1>1, <2>1, <2>2, <2>3, <3>1 DEF RootIsRecent
  <2>6. Held'
    BY <1>1, <2>1, <2>2 DEF HeldIsCurrent
  <2> HIDE DEF Remembered, Routed, Held
  <2> QED BY <1>2, <2>1, <2>3, <2>4, <2>5, <2>6
<1>11. ASSUME NEW s \in Servers,
              \/ \E tok \in Tokens, text \in Texts, key \in Keys : Post(s, tok, text, key)
              \/ \E tok \in Tokens, timeline \in {"home", "public"} : Read(s, tok, timeline)
              \/ \E tok \in Tokens : Verify(s, tok)
       PROVE KeptInv'
  <2>1. UNCHANGED <<past, roots, git, disk, held, clock>>
    BY <1>11 DEF Post, Read, Verify, Limited, index
  <2> QED BY <1>4, <2>1
<1>12. ASSUME NEW s \in Servers, Accept(s) \/ Failed(s) PROVE KeptInv'
  BY <1>4, <1>12 DEF Accept, Failed, index
<1>13. ASSUME NEW s \in Servers, PostAnswered(s) \/ ReadAnswered(s) PROVE KeptInv'
  <2>1. PICK a : past' = [past EXCEPT !.answered = a]
    BY <1>13 DEF PostAnswered, ReadAnswered
  <2>2. /\ past'.gits = past.gits /\ past'.routed = past.routed
        /\ past'.replaced = past.replaced
    BY <1>0, <2>1 DEF Story
  <2> QED BY <1>4, <1>13, <2>2 DEF PostAnswered, ReadAnswered, index
<1>14. CASE UNCHANGED vars
  BY <1>4, <1>14 DEF vars
<1> QED BY <1>5, <1>6, <1>7, <1>8, <1>9, <1>10, <1>11, <1>12, <1>13, <1>14 DEF Next

\* What a server remembers between requests is true of the files still: the
\* root of a directory, up to GitRootTtl (resolve_git_root), and the Store of
\* its session, unless another process replaced it (dispatch_with_session).
THEOREM KeptStaysCurrent == Spec => []KeptIsCurrent
<1>1. Typed /\ KeptInv /\ [Next]_vars => (Typed /\ KeptInv)'
  BY StepTyped, StepKept
<1>2. KeptInv => KeptIsCurrent
  BY DEF KeptInv
<1> QED BY InitTyped, InitKept, <1>1, <1>2, PTL DEF Spec
=============================================================================
