------------------------------ MODULE MCDrawers ------------------------------
(* Two processes, one note source with two bodies, one mined file.           *)
EXTENDS Drawers, TLC

CONSTANTS p1, p2, note, file, b1, b2, w, proj

MCNotes == {[src |-> note, body |-> b1, wing |-> w]}
MCBuilds == p1 :> {TRUE} @@ p2 :> {TRUE, FALSE}
MCTree == file :> b2
\* A database of a release before full-text search: two drawers without.
Old == [src |-> note, body |-> b1, wing |-> w, at |-> 0]
MCLegacy == {[EmptyDb EXCEPT !.drawers = 1 :> Old @@ 2 :> [Old EXCEPT !.body = b2],
                             !.embs = 1 :> b1 @@ 2 :> b2]}
=============================================================================
