---------------------------- MODULE PalaceRegistry ----------------------------
(***************************************************************************)
(* Which repository a memory tool call works on: the walk up from its      *)
(* directory to one with a .git, remembered for GIT_ROOT_CACHE_TTL.        *)
(***************************************************************************)
EXTENDS Integers, Sequences

CONSTANTS
  Dirs,
  Ancestors,        \* a directory and those above it, the nearest first
  GitRootTtl        \* GIT_ROOT_CACHE_TTL

ASSUME RegistryAssumption ==
  /\ Ancestors \in [Dirs -> Seq(Dirs)] /\ GitRootTtl \in Nat \ {0}

\* find_git_root, given the directories that have a .git: none or one.
find_git_root(git, d) ==
  {Ancestors[d][i] : i \in {j \in DOMAIN Ancestors[d] :
     /\ Ancestors[d][j] \in git
     /\ \A k \in 1 .. j - 1 : Ancestors[d][k] \notin git}}

fresh(memo, d, now) == {e \in memo : e.dir = d /\ now - e.at < GitRootTtl}

\* Mutant: an entry lives on as long as it is asked for.
remember_idle(memo, git, d, now) ==
  LET hit == fresh(memo, d, now)
      root == IF hit = {} THEN find_git_root(git, d) ELSE (CHOOSE e \in hit : TRUE).root IN
  {e \in memo : e.dir # d} \cup {[dir |-> d, root |-> root, at |-> now]}

\* git_roots.get_with: an entry that has not expired stays, with its time.
remember(memo, git, d, now) ==
  IF fresh(memo, d, now) # {} THEN memo
  ELSE {e \in memo : e.dir # d} \cup {[dir |-> d, root |-> find_git_root(git, d), at |-> now]}

\* open_for: the root, or the directory itself where there is none.
root_for(memo, d) ==
  LET e == CHOOSE x \in memo : x.dir = d IN
  IF e.root = {} THEN d ELSE CHOOSE r \in e.root : TRUE
=============================================================================
