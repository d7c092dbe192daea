---- MODULE MCEnrichment ----
(* Small worlds for TLC: one busy worker, one with a single PR. *)
EXTENDS Enrichment

CONSTANTS r1, r2, p1, p2, b1, b2, c1, c2, c3, h1, h2, h3

Priority(s) == [priority |-> s, only |-> "none"]
Only(s) == [priority |-> "none", only |-> s]
DefaultRun == Priority("none")

\* One worker, two repositories: r1 is closed one day, r2 stays.  p1 has more
\* threads than a page, p2 has no threads and no readable reactions; b2 is a
\* bot that the code no longer lists.
OneRepoOf == [p \in {p1, p2} |-> IF p = p1 THEN r1 ELSE r2]
OneCombos == {<<p1, b1>>, <<p1, b2>>, <<p2, b1>>}
OneBackfilled == {<<p1, b1>>, <<p2, b1>>}
OneHash == [r \in {r1, r2} |-> IF r = r1 THEN 6 ELSE 9]
OneThreads == [c \in OneCombos |-> IF c = <<p1, b1>> THEN {c1, c2} ELSE {}]
OneFirstPage == [c \in OneCombos |-> IF c = <<p1, b1>> THEN {c1} ELSE {}]
OneHoorays == [p \in {p1, p2} |-> IF p = p1 THEN {h1} ELSE {}]
OneFate == [r \in {r1, r2} |-> IF r = r1 THEN "forbidden" ELSE "ok"]
OneOptions == [w \in {0} |->
  {DefaultRun, Priority("reactions"), Priority("prs"), Only("comments")}]

\* One worker on its hourly schedule, one repository: p1 has more threads than a
\* page; p2, reviewed by a bot still listed and one that is not, fits.
LiveRepoOf == [p \in {p1, p2} |-> r1]
LiveCombos == {<<p1, b1>>, <<p2, b1>>, <<p2, b2>>}
LiveBackfilled == {<<p1, b1>>, <<p2, b2>>}
LiveHash == [r \in {r1} |-> 6]
LiveThreads == [c \in LiveCombos |-> IF c = <<p1, b1>> THEN {c1, c2} ELSE {}]
LiveFirstPage == [c \in LiveCombos |-> IF c = <<p1, b1>> THEN {c1} ELSE {}]
LiveFate == [r \in {r1} |-> "ok"]
LiveOptions == [w \in {0} |-> {DefaultRun}]

\* Two workers, a repository and a PR each.
TwoRepoOf == [p \in {p1, p2} |-> IF p = p1 THEN r1 ELSE r2]
TwoCombos == {<<p1, b1>>, <<p2, b1>>}
TwoOptions == [w \in {0, 1} |->
  IF w = 0 THEN {DefaultRun} ELSE {Only("repos"), Only("comments")}]
TwoThreads == [c \in TwoCombos |-> IF c[1] = p1 THEN {c1, c2} ELSE {c3}]
TwoFirstPage == [c \in TwoCombos |-> IF c[1] = p1 THEN {c1} ELSE {c3}]
TwoHoorays == [p \in {p1, p2} |-> IF p = p1 THEN {h1} ELSE {}]
TwoFate == [r \in {r1, r2} |-> IF r = r1 THEN "not_found" ELSE "ok"]

\* One PR that got three hoorays, of which the first page shows two.
BusyRepoOf == [p \in {p1} |-> r1]
BusyCombos == {<<p1, b1>>}
BusyThreads == [c \in BusyCombos |-> {c1}]
BusyHoorays == [p \in {p1} |-> {h1, h2, h3}]
BusyFirstTwenty == [p \in {p1} |-> {h1, h2}]
BusyFate == [r \in {r1} |-> "ok"]
BusyOptions == [w \in {0} |-> {DefaultRun, Priority("reactions")}]
====
