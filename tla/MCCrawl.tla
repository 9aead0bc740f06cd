------------------------------- MODULE MCCrawl -------------------------------
(* A seed that redirects to a page of another host, on which a page with a  *)
(* link outside the scope and a pair of pages that link each other.         *)
EXTENDS Crawl

CONSTANTS s, r, a, b, x, y, h1, h2, w1, w2, p, q

MCUrls  == {s, a, b, x, y, r}
MCHosts == {h1, h2}
MCLinks == s :> {} @@ r :> {a, b} @@ a :> {b, y} @@ b :> {a, x} @@ x :> {} @@ y :> {}
MCFinal == s :> r @@ r :> r @@ a :> a @@ b :> b @@ x :> x @@ y :> y
MCHost  == s :> h1 @@ r :> h2 @@ a :> h2 @@ b :> h2 @@ x :> h2 @@ y :> h1
MCOptions == w1 :> {<<1, <<p, q>>, FALSE>>} @@ w2 :> {<<2, <<>>, TRUE>>}
=============================================================================
