----------------------------- MODULE MCBrowser -----------------------------
(***************************************************************************)
(* Three products of which two are the default, a comparison page of one   *)
(* default product and the other, and addresses of the kinds the tests and *)
(* shared links have.                                                      *)
(***************************************************************************)
EXTENDS Browser

CONSTANTS p1, p2, p3

MCProducts == {p1, p2, p3}
MCTop == {p1, p2}
MCPair == {p1, p3}
MCLinks ==
  {[Plain("/compare") EXCEPT !.products = {p1}, !.range = "3m", !.expanded = "on"],
   [Plain("/orgs") EXCEPT !.products = {p3}, !.lang = "on"],
   [Plain("/products/id") EXCEPT !.range = "3m"],
   [Plain("/orgs") EXCEPT !.products = None],
   Plain("/products"), Plain(PairPage)}
MCNavTargets == {"/orgs", "/repos", "/compare", "/about", PairPage}
=============================================================================
