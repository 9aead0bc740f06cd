----------------------------- MODULE DrawerStore -----------------------------
(***************************************************************************)
(* What a palace promises of its drawers: one per source and body, stored  *)
(* once and left as it is until it is forgotten; a drawer's id is its own  *)
(* as long as it lives; forgetting takes all drawers, the one of an id,     *)
(* those of a source, or those of a wing that are older than a time.       *)
(***************************************************************************)
EXTENDS Naturals

CONSTANTS Sources, Bodies, Wings

VARIABLE live       \* the drawers: <<source, body>> -> wing, time and id

Remember(k, r) ==
  /\ k \notin DOMAIN live
  /\ \A x \in DOMAIN live : live[x].id # r.id
  /\ live' = [x \in DOMAIN live \cup {k} |-> IF x = k THEN r ELSE live[x]]

Forget(K) == live' = [x \in DOMAIN live \ K |-> live[x]]

OfId(i)        == {x \in DOMAIN live : live[x].id = i}
OfSource(s)    == {x \in DOMAIN live : x[1] = s}
Before(w, t)   == {x \in DOMAIN live : live[x].wing = w /\ live[x].at < t}

Next ==
  \/ \E k \in Sources \X Bodies : k \in DOMAIN live' /\ Remember(k, live'[k])
  \/ Forget(DOMAIN live)
  \/ \E s \in Sources : Forget(OfSource(s))
  \/ \E x \in DOMAIN live : Forget(OfId(live[x].id))
  \/ \E w \in Wings, x \in DOMAIN live : Forget(Before(w, live[x].at + 1))

\* A store may start with the drawers of an earlier release.
Spec == DOMAIN live \subseteq Sources \X Bodies /\ [][Next]_live
=============================================================================
