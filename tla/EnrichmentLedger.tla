---- MODULE EnrichmentLedger ----
(***************************************************************************)
(* What enrichment promises its readers when GitHub tells the truth: the   *)
(* tables only ever gain answers; the answer for a (PR, bot) pair arrives  *)
(* in one step, empty or complete, and is final; and once a repository is  *)
(* recorded as gone nothing about it is written any more.                  *)
(***************************************************************************)
CONSTANTS Repos, PRs, Combos, RepoOf, Backfilled

VARIABLES
  known,     \* the announced (PR, bot) pairs
  blocked,   \* repositories recorded as gone or forbidden
  pulled,    \* PRs with a metadata row, a sentinel included
  scanned,   \* PRs whose reactions were scanned
  answer     \* what the comments table says of each pair

lvars == <<known, blocked, pulled, scanned, answer>>

KnownPRs == {c[1] : c \in known}
Open(p) == RepoOf[p] \notin blocked

Init == /\ known = Backfilled /\ blocked = {} /\ pulled = {} /\ scanned = {}
        /\ answer = [c \in Combos |-> "pending"]

Announce == /\ \E c \in Combos : known' = known \cup {c}
            /\ UNCHANGED <<blocked, pulled, scanned, answer>>

Block == /\ \E r \in Repos : blocked' = blocked \cup {r}
         /\ UNCHANGED <<known, pulled, scanned, answer>>

Pull == /\ \E S \in SUBSET {p \in KnownPRs : Open(p)} : pulled' = pulled \cup S
        /\ UNCHANGED <<known, blocked, scanned, answer>>

Scan == /\ \E S \in SUBSET {p \in KnownPRs : Open(p)} : scanned' = scanned \cup S
        /\ UNCHANGED <<known, blocked, pulled, answer>>

Answer ==
  /\ \E S \in SUBSET {c \in known : Open(c[1]) /\ answer[c] = "pending"} :
       \E v \in [S -> {"empty", "full"}] :
         answer' = [c \in Combos |-> IF c \in S THEN v[c] ELSE answer[c]]
  /\ UNCHANGED <<known, blocked, pulled, scanned>>

Next == Announce \/ Block \/ Pull \/ Scan \/ Answer

Spec == Init /\ [][Next]_lvars
====
