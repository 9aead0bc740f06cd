--------------------------- MODULE InMemoryBackend ---------------------------
(***************************************************************************)
(* InMemoryBackend: the rows by id, an index of them by source and body,   *)
(* and a counter that never gives an id twice.                             *)
(***************************************************************************)
EXTENDS SqliteBackend

mem_add(m, d, now) ==
  LET key == <<d.src, d.body>>
      id  == m.next_id + 1 IN
  IF key \in DOMAIN m.sha_index THEN m
  ELSE [next_id |-> id,
        rows |-> With(m.rows, id, [src |-> d.src, body |-> d.body, wing |-> d.wing, at |-> now]),
        sha_index |-> With(m.sha_index, key, id)]

mem_delete(m, sel) ==
  LET ids == Selected(m.rows, sel) IN
  [m EXCEPT !.rows = Without(@, ids),
            !.sha_index = Without(@, {<<m.rows[i].src, m.rows[i].body>> : i \in ids})]

mem_query_lexical(m, word) == {i \in DOMAIN m.rows : m.rows[i].body = word}
=============================================================================
