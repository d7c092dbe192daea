-------------------------- MODULE StatisticsProofs --------------------------
(***************************************************************************)
(* Theorems about the summary tables and the numbers of the status page,   *)
(* for any PRs, bots and repositories, however many rows are inserted,     *)
(* instances crash and views are taken off and put back; and, at the end,  *)
(* about the age of cached answers, for any keys, lifetimes, numbers of    *)
(* requests and of awaited stages.                                         *)
(***************************************************************************)
EXTENDS Statistics, QueryCache, CountingProofs, SequenceTheorems, TLAPS

-----------------------------------------------------------------------------
(* The statements of the migrations *)

\* The version that introduces a summary, and where its view is created.
Home(v) == CASE v = "pr_bot_event_counts" -> 1
             [] v = Characteristics -> 2
             [] v = "org_bot_pr_counts" -> 3
             [] v \in {"repo_pr_summary", "org_pr_summary"} -> 4
             [] v = "bot_comment_discovery_summary" -> 5
             [] OTHER -> 6
Place(v) == CASE v = "org_pr_summary" -> 3
              [] v = "pull_requests_enrichment_summary" -> 3
              [] v = "pr_comments_repo_bot_combos" -> 6
              [] v = "reaction_scan_repo_summary" -> 8
              [] v = "pr_bot_reactions_pr_summary" -> 11
              [] OTHER -> 1

\* Where it is filled from the rows there are.
FillPlace(v) == IF v \in CountingViews THEN Place(v) + 2 ELSE Place(v) + 1

\* A statement is at the place of a version that its view has there.
Fits(s, n, k) ==
  /\ s.view \in Views /\ n = Home(s.view)
  /\ \/ s = Create(s.view) /\ k = Place(s.view)
     \/ s = Truncate(s.view) /\ s.view \in CountingViews /\ k = Place(s.view) + 1
     \/ s = Fill(s.view) /\ k = FillPlace(s.view)

\* So are the m statements of a part of a version, after its first d.
AllStatements == {Create(v) : v \in Views} \cup {Truncate(v) : v \in Views} \cup {Fill(v) : v \in Views}
Laid(s, m, n, d) ==
  /\ s \in Seq(AllStatements) /\ Len(s) = m
  /\ \A k \in 1 .. m : Fits(s[k], n, d + k)

LEMMA LaidRefilled ==
  ASSUME NEW v \in Views \ CountingViews
  PROVE  Laid(Refilled(v), 2, Home(v), Place(v) - 1)
<1>1. Place(v) \in Nat
  BY DEF Place
<1>2. Refilled(v) \in Seq(AllStatements) /\ Len(Refilled(v)) = 2
  BY DEF Refilled, AllStatements
<1>3. Fits(Refilled(v)[1], Home(v), Place(v) - 1 + 1)
  BY <1>1 DEF Refilled, Create, Fits
<1>4. Fits(Refilled(v)[2], Home(v), Place(v) - 1 + 2)
  BY <1>1 DEF Refilled, Fill, Fits, FillPlace
<1>5. \A k \in 1 .. 2 : k = 1 \/ k = 2
  OBVIOUS
<1> QED BY <1>2, <1>3, <1>4, <1>5 DEF Laid

LEMMA LaidRecounted ==
  ASSUME NEW v \in CountingViews
  PROVE  Laid(Recounted(v), 3, Home(v), Place(v) - 1)
<1>1. Place(v) \in Nat /\ v \in Views
  BY DEF Place, Views
<1>2. Recounted(v) \in Seq(AllStatements) /\ Len(Recounted(v)) = 3
  BY <1>1 DEF Recounted, AllStatements
<1>3. Fits(Recounted(v)[1], Home(v), Place(v) - 1 + 1)
  BY <1>1 DEF Recounted, Create, Fits
<1>4. Fits(Recounted(v)[2], Home(v), Place(v) - 1 + 2)
  BY <1>1 DEF Recounted, Truncate, Fits
<1>5. Fits(Recounted(v)[3], Home(v), Place(v) - 1 + 3)
  BY <1>1 DEF Recounted, Fill, Fits, FillPlace
<1>6. \A k \in 1 .. 3 : k = 1 \/ k = 2 \/ k = 3
  OBVIOUS
<1> QED BY <1>2, <1>3, <1>4, <1>5, <1>6 DEF Laid

LEMMA LaidBehind ==
  ASSUME NEW s, NEW t, NEW m \in Nat, NEW l \in Nat, NEW n, NEW d \in Nat,
         Laid(s, m, n, d), Laid(t, l, n, d + m)
  PROVE  Laid(s \o t, m + l, n, d)
<1>1. /\ s \o t \in Seq(AllStatements) /\ Len(s \o t) = m + l
      /\ \A k \in 1 .. m + l : (s \o t)[k] = IF k <= m THEN s[k] ELSE t[k - m]
  BY ConcatProperties DEF Laid
<1>2. ASSUME NEW k \in 1 .. m + l PROVE Fits((s \o t)[k], n, d + k)
  <2>1. CASE k <= m
    BY <1>1, <2>1 DEF Laid
  <2>2. CASE k > m
    <3>1. k - m \in 1 .. l /\ (s \o t)[k] = t[k - m] /\ d + m + (k - m) = d + k
      BY <1>1, <2>2
    <3>2. Fits(t[k - m], n, d + m + (k - m))
      BY <3>1 DEF Laid
    <3> QED BY <3>1, <3>2
  <2>3. k <= m \/ k > m
    OBVIOUS
  <2> QED BY <2>1, <2>2, <2>3
<1> QED BY <1>1, <1>2 DEF Laid

\* How many statements a version has.
Length(n) == CASE n = 4 -> 4 [] n = 6 -> 12 [] OTHER -> 2

LEMMA Layout == Len(Migrations) = 6 /\ \A n \in 1 .. 6 : Laid(Migrations[n], Length(n), n, 0)
<1>1. Len(Migrations) = 6 /\ \A n \in 1 .. 6 : n = 1 \/ n = 2 \/ n = 3 \/ n = 4 \/ n = 5 \/ n = 6
  BY DEF Migrations
<1> DEFINE V == Views \ CountingViews
<1>2. /\ "pr_bot_event_counts" \in V /\ Characteristics \in V /\ "org_bot_pr_counts" \in V
      /\ "repo_pr_summary" \in V /\ "org_pr_summary" \in V /\ "bot_comment_discovery_summary" \in V
      /\ "pr_discovery_global_summary" \in V /\ "pr_comments_repo_bot_combos" \in V
      /\ "pr_bot_reactions_pr_summary" \in V
  BY DEF Views, CountingViews, DistinctViews, PairViews, EventPRViews, Characteristics
<1>3. "pull_requests_enrichment_summary" \in CountingViews /\ "reaction_scan_repo_summary" \in CountingViews
  BY DEF CountingViews
<1>4. Laid(Migrations[1], Length(1), 1, 0)
  <2>1. Home("pr_bot_event_counts") = 1 /\ Place("pr_bot_event_counts") - 1 = 0 /\ Length(1) = 2
    BY DEF Home, Place, Length, Characteristics
  <2>2. Laid(Refilled("pr_bot_event_counts"), 2, 1, 0)
    BY <1>2, <2>1, LaidRefilled
  <2> QED BY <2>1, <2>2 DEF Migrations, Version3
<1>5. Laid(Migrations[2], Length(2), 2, 0)
  <2>1. Home(Characteristics) = 2 /\ Place(Characteristics) - 1 = 0 /\ Length(2) = 2
    BY DEF Home, Place, Length, Characteristics
  <2>2. Laid(Refilled(Characteristics), 2, 2, 0)
    BY <1>2, <2>1, LaidRefilled
  <2> QED BY <2>1, <2>2 DEF Migrations, Version10
<1>6. Laid(Migrations[3], Length(3), 3, 0)
  <2>1. Home("org_bot_pr_counts") = 3 /\ Place("org_bot_pr_counts") - 1 = 0 /\ Length(3) = 2
    BY DEF Home, Place, Length, Characteristics
  <2>2. Laid(Refilled("org_bot_pr_counts"), 2, 3, 0)
    BY <1>2, <2>1, LaidRefilled
  <2> QED BY <2>1, <2>2 DEF Migrations, Version11
<1>7. Laid(Migrations[4], Length(4), 4, 0)
  <2>1. /\ Home("repo_pr_summary") = 4 /\ Place("repo_pr_summary") - 1 = 0 /\ Length(4) = 4
        /\ Home("org_pr_summary") = 4 /\ Place("org_pr_summary") - 1 = 2
    BY DEF Home, Place, Length, Characteristics
  <2>2. Laid(Refilled("repo_pr_summary"), 2, 4, 0) /\ Laid(Refilled("org_pr_summary"), 2, 4, 0 + 2)
    BY <1>2, <2>1, LaidRefilled
  <2>3. Laid(Refilled("repo_pr_summary") \o Refilled("org_pr_summary"), 2 + 2, 4, 0)
    BY <2>2, LaidBehind
  <2> QED BY <2>1, <2>3 DEF Migrations, Version12
<1>8. Laid(Migrations[5], Length(5), 5, 0)
  <2>1. /\ Home("bot_comment_discovery_summary") = 5 /\ Length(5) = 2
        /\ Place("bot_comment_discovery_summary") - 1 = 0
    BY DEF Home, Place, Length, Characteristics
  <2>2. Laid(Refilled("bot_comment_discovery_summary"), 2, 5, 0)
    BY <1>2, <2>1, LaidRefilled
  <2> QED BY <2>1, <2>2 DEF Migrations, Version13
<1>9. Laid(Migrations[6], Length(6), 6, 0)
  <2> DEFINE A == Refilled("pr_discovery_global_summary")
             B == Recounted("pull_requests_enrichment_summary")
             C == Refilled("pr_comments_repo_bot_combos")
             D == Recounted("reaction_scan_repo_summary")
             E == Refilled("pr_bot_reactions_pr_summary")
  <2>1. /\ Home("pr_discovery_global_summary") = 6 /\ Place("pr_discovery_global_summary") - 1 = 0
        /\ Home("pull_requests_enrichment_summary") = 6
        /\ Place("pull_requests_enrichment_summary") - 1 = 2
        /\ Home("pr_comments_repo_bot_combos") = 6 /\ Place("pr_comments_repo_bot_combos") - 1 = 5
        /\ Home("reaction_scan_repo_summary") = 6 /\ Place("reaction_scan_repo_summary") - 1 = 7
        /\ Home("pr_bot_reactions_pr_summary") = 6 /\ Place("pr_bot_reactions_pr_summary") - 1 = 10
        /\ Length(6) = 12
    BY DEF Home, Place, Length, Characteristics
  <2>2. /\ Laid(A, 2, 6, 0) /\ Laid(B, 3, 6, 0 + 2) /\ Laid(C, 2, 6, 0 + 5)
        /\ Laid(D, 3, 6, 0 + 7) /\ Laid(E, 2, 6, 0 + 10)
    BY <1>2, <1>3, <2>1, LaidRefilled, LaidRecounted
  <2> HIDE DEF A, B, C, D, E
  <2>3. Laid(A \o B, 5, 6, 0)
    BY <2>2, LaidBehind, 2 + 3 = 5
  <2>4. Laid(A \o B \o C, 7, 6, 0)
    BY <2>2, <2>3, LaidBehind, 5 + 2 = 7
  <2>5. Laid(A \o B \o C \o D, 10, 6, 0)
    BY <2>2, <2>4, LaidBehind, 7 + 3 = 10
  <2>6. Laid(A \o B \o C \o D \o E, 12, 6, 0)
    BY <2>2, <2>5, LaidBehind, 10 + 2 = 12
  <2> QED BY <2>1, <2>6 DEF Migrations, Version16, A, B, C, D, E
<1> QED BY <1>1, <1>4, <1>5, <1>6, <1>7, <1>8, <1>9

\* Every summary has a version, where its view is created before the fill.
LEMMA Places ==
  ASSUME NEW v \in Views
  PROVE  /\ Home(v) \in 1 .. 6
         /\ Place(v) \in Nat /\ FillPlace(v) \in Nat
         /\ 1 <= Place(v) /\ Place(v) < FillPlace(v) /\ FillPlace(v) <= Length(Home(v))
<1>1. Home(v) \in 1 .. 6 /\ Place(v) \in Nat /\ 1 <= Place(v)
  BY DEF Home, Place
<1>2. FillPlace(v) \in Nat /\ Place(v) < FillPlace(v)
  BY <1>1 DEF FillPlace
<1>3. FillPlace(v) <= Length(Home(v))
  BY DEF FillPlace, Place, Length, Home, Views, CountingViews, DistinctViews, PairViews, EventPRViews,
         Characteristics
<1> QED BY <1>1, <1>2, <1>3

-----------------------------------------------------------------------------
(* The inductive invariant *)

AllDistinct == DistinctViews \cup {Characteristics}

\* A fill of each kind of summary.
FillOK(f) ==
  \/ f = NoFill
  \/ f.view \in AllDistinct
  \/ f.view \in CountingViews /\ f.rows \in [PRs -> Nat]

TablesOK ==
  /\ events \subseteq PRs \X Bots
  /\ pulls \in [PRs -> Seq({"found", "gone"})] /\ scans \in [PRs -> Nat]
  /\ DOMAIN stored = AllDistinct /\ counted \in [CountingViews -> [PRs -> Nat]]

\* How many statements of its version the migrator has behind it.
Position == Length(version) - Len(todo["migrator"])

MigratorOK ==
  /\ version \in 1 .. 7
  /\ version < 7 =>
       /\ Position \in 0 .. Length(version)
       /\ todo["migrator"] = SubSeq(Migrations[version], Position + 1, Length(version))
  /\ version = 7 => todo["migrator"] = <<>>
  /\ fills["migrator"] # NoFill =>
       todo["migrator"] # <<>> /\ Head(todo["migrator"]) = Fill(fills["migrator"].view)

\* The operator's commands know pr_product_characteristics only.
OperatorOK ==
  /\ todo["operator"] \in {<<>>, DetachMV, ReattachMV, <<Fill(Characteristics)>>}
  /\ version <= 2 => todo["operator"] = <<>>
  /\ todo["operator"] = <<Fill(Characteristics)>> => Characteristics \in attached
  /\ fills["operator"] # NoFill =>
       todo["operator"] = <<Fill(Characteristics)>> /\ fills["operator"].view = Characteristics

ClientsOK ==
  /\ DOMAIN todo = Clients /\ DOMAIN fills = Clients \cup {"gone"}
  /\ \A c \in Clients \cup {"gone"} : FillOK(fills[c])
  /\ MigratorOK /\ OperatorOK

\* The view of a summary was made, and its fill is done, in this version or before.
Made(v) == Home(v) < version \/ (Home(v) = version /\ Place(v) <= Position)
Filled(v) == Home(v) < version \/ (Home(v) = version /\ FillPlace(v) <= Position)

\* No view is dropped but the one the operator may take off.
ViewsStay ==
  /\ \A v \in DistinctViews \cup CountingViews : Made(v) => v \in attached
  /\ version = 2 /\ Made(Characteristics) => Characteristics \in attached
  /\ whole => Characteristics \in attached

\* A summary holds nothing that is not in its table, and neither does what a fill has read.
NothingElse ==
  \A v \in DistinctViews :
    /\ stored[v] \subseteq Keys(v)
    /\ \A c \in Clients \cup {"gone"} : fills[c].view = v => fills[c].rows \subseteq Keys(v)

\* A summary that was filled lacks no row, and one that is being filled will not.
NothingLost ==
  \A v \in DistinctViews :
    /\ Filled(v) => Keys(v) \subseteq stored[v]
    /\ fills["migrator"].view = v => Keys(v) \subseteq stored[v] \cup fills["migrator"].rows

EveryRowCounted ==
  \A v \in CountingViews : \A p \in PRs :
    /\ Filled(v) => Counts(v)[p] <= counted[v][p]
    /\ fills["migrator"].view = v => Counts(v)[p] <= counted[v][p] + fills["migrator"].rows[p]

\* The same of pr_product_characteristics, as far as its joins go.
JoinsKept ==
  /\ due \subseteq Keys(Characteristics)
  /\ whole => due \subseteq stored[Characteristics]
  /\ \A c \in Clients : fills[c].view = Characteristics =>
                          due \subseteq stored[Characteristics] \cup fills[c].rows

IInv == TablesOK /\ ClientsOK /\ ViewsStay /\ NothingElse /\ NothingLost /\ EveryRowCounted /\ JoinsKept

\* What the runs check follows.
LEMMA IInvImplies == IInv => SummariesTellAll /\ CharacteristicsComplete
<1> SUFFICES ASSUME IInv PROVE SummariesTellAll /\ CharacteristicsComplete
  OBVIOUS
<1>1. ASSUME NEW v, Introduced(v) PROVE v \in Views /\ Filled(v)
  <2>1. PICK n \in 1 .. (version - 1) : \E i \in DOMAIN Migrations[n] : Migrations[n][i].view = v
    BY <1>1 DEF Introduced
  <2>2. PICK i \in DOMAIN Migrations[n] : Migrations[n][i].view = v
    BY <2>1
  <2>3. version \in 1 .. 7
    BY DEF IInv, ClientsOK, MigratorOK
  <2>4. n \in 1 .. 6 /\ n < version
    BY <2>3
  <2>5. Laid(Migrations[n], Length(n), n, 0)
    BY <2>4, Layout
  <2>6. i \in 1 .. Length(n)
    BY <2>5 DEF Laid
  <2>7. Fits(Migrations[n][i], n, 0 + i)
    BY <2>5, <2>6 DEF Laid
  <2> QED BY <2>2, <2>4, <2>7 DEF Fits, Filled
<1>2. SummariesTellAll
  <2>1. \A v \in DistinctViews : Introduced(v) => stored[v] = Keys(v)
    BY <1>1 DEF IInv, NothingElse, NothingLost
  <2>2. ASSUME NEW v \in CountingViews, Introduced(v), NEW p \in PRs
        PROVE  counted[v][p] >= Counts(v)[p]
    <3>1. Counts(v)[p] <= counted[v][p]
      BY <1>1, <2>2 DEF IInv, EveryRowCounted
    <3> QED BY <3>1
  <2> QED BY <2>1, <2>2 DEF SummariesTellAll
<1>3. CharacteristicsComplete
  BY DEF IInv, JoinsKept, CharacteristicsComplete
<1> QED BY <1>2, <1>3

-----------------------------------------------------------------------------
(* The steps of the clients *)

\* The versions' summaries do not overlap: a place belongs to one summary.
LEMMA Apart ==
  ASSUME NEW u \in Views, NEW v \in Views, NEW k \in Nat, Home(u) = Home(v),
         Place(u) <= k, k <= FillPlace(u), Place(v) <= k, k <= FillPlace(v)
  PROVE  u = v
<1> USE DEF Home, Place, FillPlace, Views, DistinctViews, PairViews, EventPRViews, CountingViews,
        Characteristics
<1>1. CASE Home(u) # 4 /\ Home(u) # 6
  BY <1>1
<1>2. CASE Home(u) = 4
  BY <1>2
<1>3. CASE Home(u) = 6
  <2>1. CASE u = "pr_discovery_global_summary"
    BY <1>3, <2>1
  <2>2. CASE u = "pull_requests_enrichment_summary"
    BY <1>3, <2>2
  <2>3. CASE u = "pr_comments_repo_bot_combos"
    BY <1>3, <2>3
  <2>4. CASE u = "reaction_scan_repo_summary"
    BY <1>3, <2>4
  <2>5. CASE u = "pr_bot_reactions_pr_summary"
    BY <1>3, <2>5
  <2> QED BY <1>3, <2>1, <2>2, <2>3, <2>4, <2>5
<1> QED BY <1>1, <1>2, <1>3

\* What is left of a script after one more statement.
LEMMA NextStatement ==
  ASSUME NEW S, NEW s \in Seq(S), NEW n \in Nat, Len(s) = n, NEW k \in 0 .. n,
         NEW t, t = SubSeq(s, k + 1, n)
  PROVE  /\ Len(t) = n - k /\ t \in Seq(S)
         /\ t # <<>> => /\ k < n /\ Head(t) = s[k + 1]
                        /\ Tail(t) = SubSeq(s, k + 2, n)
<1>1. t \in Seq(S) /\ Len(t) = n - k /\ \A i \in 1 .. n - k : t[i] = s[k + i]
  BY SubSeqProperties
<1>2. ASSUME t # <<>> PROVE k < n
  BY <1>1, <1>2
<1>3. ASSUME t # <<>> PROVE Head(t) = s[k + 1]
  BY <1>1, <1>2, <1>3
<1>4. ASSUME t # <<>> PROVE Tail(t) = SubSeq(s, k + 2, n)
  <2>1. k + 1 \in 0 .. n
    BY <1>2, <1>4
  <2>2. /\ SubSeq(s, k + 2, n) \in Seq(S) /\ Len(SubSeq(s, k + 2, n)) = n - k - 1
        /\ \A i \in 1 .. n - k - 1 : SubSeq(s, k + 2, n)[i] = s[k + 1 + i]
    BY <2>1, SubSeqProperties
  <2>3. /\ Tail(t) \in Seq(S) /\ Len(Tail(t)) = n - k - 1
        /\ \A i \in 1 .. n - k - 1 : Tail(t)[i] = s[k + 1 + i]
    BY <1>1, <1>2, <1>4
  <2> QED BY <2>2, <2>3, SeqEqual
<1> QED BY <1>1, <1>2, <1>3, <1>4

\* The statement the migrator has come to.
LEMMA Turn ==
  ASSUME ClientsOK, todo["migrator"] # <<>>
  PROVE  /\ version \in 1 .. 6 /\ Position \in Nat /\ Position < Length(version)
         /\ Fits(Head(todo["migrator"]), version, Position + 1)
         /\ Tail(todo["migrator"]) = SubSeq(Migrations[version], Position + 2, Length(version))
         /\ Len(Tail(todo["migrator"])) = Len(todo["migrator"]) - 1
<1>1. version \in 1 .. 6 /\ Position \in 0 .. Length(version)
  BY DEF ClientsOK, MigratorOK
<1>2. /\ Migrations[version] \in Seq(AllStatements) /\ Len(Migrations[version]) = Length(version)
      /\ \A k \in 1 .. Length(version) : Fits(Migrations[version][k], version, 0 + k)
  BY <1>1, Layout DEF Laid
<1>3. Length(version) \in Nat
  BY DEF Length
<1>4. todo["migrator"] = SubSeq(Migrations[version], Position + 1, Length(version))
  BY <1>1 DEF ClientsOK, MigratorOK
<1> DEFINE p == Position
<1>5. p \in 0 .. Length(version) /\ todo["migrator"] = SubSeq(Migrations[version], p + 1, Length(version))
  BY <1>1, <1>4
<1> HIDE DEF p
<1>6. /\ p < Length(version) /\ Head(todo["migrator"]) = Migrations[version][p + 1]
      /\ Tail(todo["migrator"]) = SubSeq(Migrations[version], p + 2, Length(version))
      /\ todo["migrator"] \in Seq(AllStatements)
  BY <1>2, <1>3, <1>5, NextStatement
<1>7. p + 1 \in 1 .. Length(version) /\ 0 + (p + 1) = p + 1
  BY <1>3, <1>5, <1>6
<1>8. Fits(Head(todo["migrator"]), version, p + 1)
  BY <1>2, <1>6, <1>7
<1>9. Len(Tail(todo["migrator"])) = Len(todo["migrator"]) - 1
  BY <1>6
<1>10. p \in Nat /\ p < Length(version)
  BY <1>3, <1>5, <1>6
<1> QED BY <1>1, <1>6, <1>8, <1>9, <1>10 DEF p

\* What a statement of the migrator is, and what is behind it.
LEMMA Statements ==
  ASSUME ClientsOK, todo["migrator"] # <<>>
  PROVE  LET s == Head(todo["migrator"]) IN
         /\ s.view \in Views /\ Home(s.view) = version
         /\ s \in {Create(s.view), Truncate(s.view), Fill(s.view)}
         /\ s = Truncate(s.view) => s.view \in CountingViews
         /\ s = Fill(s.view) => Made(s.view)
         /\ ~Filled(s.view)
<1> DEFINE s == Head(todo["migrator"])
<1>1. Position \in Nat /\ version \in 1 .. 6 /\ Fits(s, version, Position + 1)
  BY Turn
<1> DEFINE v == s.view
<1> HIDE DEF s
<1>2. /\ v \in Views /\ version = Home(v)
      /\ \/ s = Create(v) /\ Position + 1 = Place(v)
         \/ s = Truncate(v) /\ v \in CountingViews /\ Position + 1 = Place(v) + 1
         \/ s = Fill(v) /\ Position + 1 = FillPlace(v)
  BY <1>1 DEF Fits
<1> HIDE DEF v
<1>3. Home(v) \in 1 .. 6 /\ Place(v) \in Nat /\ FillPlace(v) \in Nat /\ Place(v) < FillPlace(v)
  BY <1>2, Places
<1>4. v \in CountingViews => FillPlace(v) = Place(v) + 2
  BY DEF FillPlace
<1>5. Create(v) # Fill(v) /\ Truncate(v) # Fill(v) /\ Create(v) # Truncate(v)
  BY DEF Create, Fill, Truncate
<1>6. s = Truncate(v) => v \in CountingViews
  BY <1>2, <1>5
<1>7. s = Fill(v) => Position + 1 = FillPlace(v)
  BY <1>2, <1>5
<1>8. s = Fill(v) => Made(v)
  <2>1. ASSUME Position + 1 = FillPlace(v) PROVE Place(v) <= Position
    BY <1>1, <1>3, <2>1
  <2> QED BY <1>2, <1>7, <2>1 DEF Made
<1>9. ~Filled(v)
  <2>1. Position < FillPlace(v)
    BY <1>1, <1>2, <1>3, <1>4
  <2>2. ~(FillPlace(v) <= Position)
    BY <1>1, <1>3, <2>1
  <2>3. ~(Home(v) < version)
    BY <1>1, <1>2
  <2> QED BY <2>2, <2>3 DEF Filled
<1>10. s \in {Create(v), Truncate(v), Fill(v)}
  BY <1>2
<1> QED BY <1>2, <1>6, <1>8, <1>9, <1>10 DEF s, v

\* One statement further, the views made are those of before, and the one created now; the
\* fills done are those of before, and the one done now.
LEMMA Advance ==
  ASSUME ClientsOK, NEW c \in Clients, todo[c] # <<>>, Did(c), version' = version
  PROVE  /\ DOMAIN todo' = Clients
         /\ \A d \in Clients : todo'[d] = IF d = c THEN Tail(todo[c]) ELSE todo[d]
         /\ \A v \in Views : /\ Made(v)' => Made(v) \/ (c = "migrator" /\ Statement(c) = Create(v))
                             /\ Filled(v)' => Filled(v) \/ (c = "migrator" /\ Statement(c) = Fill(v))
         /\ MigratorOK' \/ fills'["migrator"] # NoFill
<1>1. /\ DOMAIN todo' = Clients
      /\ \A d \in Clients : todo'[d] = IF d = c THEN Tail(todo[c]) ELSE todo[d]
  BY DEF ClientsOK, Did
<1>2. CASE c = "operator"
  <2>1. todo'["migrator"] = todo["migrator"]
    BY <1>1, <1>2 DEF Clients
  <2>2. Position' = Position
    BY <2>1 DEF Position
  <2>3. \A v : Made(v)' = Made(v) /\ Filled(v)' = Filled(v)
    BY <2>2 DEF Made, Filled
  <2>4. MigratorOK' \/ fills'["migrator"] # NoFill
    BY <2>1, <2>2 DEF MigratorOK, ClientsOK
  <2> QED BY <1>1, <2>3, <2>4
<1>3. CASE c = "migrator"
  <2>1. todo'["migrator"] = Tail(todo["migrator"])
    BY <1>1, <1>3 DEF Clients
  <2>2. /\ version \in 1 .. 6 /\ Position \in Nat /\ Position < Length(version)
        /\ Fits(Head(todo["migrator"]), version, Position + 1)
        /\ todo'["migrator"] = SubSeq(Migrations[version], Position + 2, Length(version))
        /\ Len(todo'["migrator"]) = Len(todo["migrator"]) - 1
    BY <1>3, <2>1, Turn
  <2>3. Length(version) \in Nat /\ Len(todo["migrator"]) = Length(version) - Position
    <3>1. Length(version) \in Nat
      BY DEF Length
    <3>2. Migrations[version] \in Seq(AllStatements) /\ Len(Migrations[version]) = Length(version)
      BY <2>2, Layout DEF Laid
    <3> DEFINE p == Position
    <3>3. p \in 0 .. Length(version) /\ todo["migrator"] = SubSeq(Migrations[version], p + 1, Length(version))
      BY <2>2, <3>1 DEF ClientsOK, MigratorOK
    <3> HIDE DEF p
    <3>4. Len(todo["migrator"]) = Length(version) - p
      BY <3>1, <3>2, <3>3, NextStatement
    <3> QED BY <3>1, <3>4 DEF p
  <2>4. Position' = Position + 1
    <3>1. Position' = Length(version) - Len(todo'["migrator"])
      BY DEF Position, Length
    <3> QED BY <2>2, <2>3, <3>1
  <2>5. MigratorOK' \/ fills'["migrator"] # NoFill
    <3>1. Position' \in 0 .. Length(version)
      BY <2>2, <2>3, <2>4
    <3>2. todo'["migrator"] = SubSeq(Migrations[version], Position' + 1, Length(version))
      <4>1. Position' + 1 = Position + 2
        BY <2>2, <2>4
      <4> QED BY <2>2, <4>1
    <3>3. version < 7 /\ version # 7 /\ version \in 1 .. 7
      BY <2>2
    <3>4. Length(version') = Length(version)
      OBVIOUS
    <3> QED BY <3>1, <3>2, <3>3, <3>4 DEF MigratorOK
  <2>6. ASSUME NEW v \in Views
        PROVE  /\ Made(v)' => Made(v) \/ Head(todo["migrator"]) = Create(v)
               /\ Filled(v)' => Filled(v) \/ Head(todo["migrator"]) = Fill(v)
    <3> DEFINE p == Position  s == Head(todo["migrator"])
    <3>1. p \in Nat /\ Fits(s, version, p + 1) /\ Position' = p + 1
      BY <2>2, <2>4
    <3>2. /\ Made(v)' <=> (Home(v) < version \/ (Home(v) = version /\ Place(v) <= p + 1))
          /\ Filled(v)' <=> (Home(v) < version \/ (Home(v) = version /\ FillPlace(v) <= p + 1))
          /\ Made(v) <=> (Home(v) < version \/ (Home(v) = version /\ Place(v) <= p))
          /\ Filled(v) <=> (Home(v) < version \/ (Home(v) = version /\ FillPlace(v) <= p))
      BY <3>1 DEF Made, Filled
    <3> HIDE DEF p, s
    <3>3. /\ Home(v) \in 1 .. 6 /\ Place(v) \in Nat /\ FillPlace(v) \in Nat
          /\ Place(v) < FillPlace(v)
      BY Places
    <3> DEFINE u == s.view
    <3>4. /\ u \in Views /\ version = Home(u)
          /\ \/ s = Create(u) /\ p + 1 = Place(u)
             \/ s = Truncate(u) /\ u \in CountingViews /\ p + 1 = Place(u) + 1
             \/ s = Fill(u) /\ p + 1 = FillPlace(u)
      BY <3>1 DEF Fits
    <3> HIDE DEF u
    <3>5. /\ Place(u) \in Nat /\ FillPlace(u) \in Nat /\ Place(u) < FillPlace(u)
          /\ u \in CountingViews => FillPlace(u) = Place(u) + 2
      BY <3>4, Places DEF FillPlace
    <3>6. Place(u) <= p + 1 /\ p + 1 <= FillPlace(u) /\ p + 1 \in Nat
      BY <3>1, <3>4, <3>5
    <3>7. ASSUME Made(v)', ~Made(v) PROVE s = Create(v)
      <4>1. Home(v) = version /\ Place(v) = p + 1
        BY <3>1, <3>2, <3>3, <3>7
      <4>2. u = v
        BY <3>3, <3>4, <3>6, <4>1, Apart
      <4>3. p + 1 # Place(u) + 1 /\ p + 1 # FillPlace(u)
        BY <3>1, <3>5, <4>1, <4>2
      <4> QED BY <3>4, <4>2, <4>3
    <3>8. ASSUME Filled(v)', ~Filled(v) PROVE s = Fill(v)
      <4>1. Home(v) = version /\ FillPlace(v) = p + 1
        BY <3>1, <3>2, <3>3, <3>8
      <4>2. u = v
        BY <3>3, <3>4, <3>6, <4>1, Apart
      <4>3. p + 1 # Place(u) /\ (u \in CountingViews => p + 1 # Place(u) + 1)
        BY <3>1, <3>5, <4>1, <4>2
      <4> QED BY <3>4, <4>2, <4>3
    <3> QED BY <3>7, <3>8 DEF s
  <2> QED BY <1>1, <1>3, <2>5, <2>6 DEF Statement
<1> QED BY <1>2, <1>3 DEF Clients

\* The commands of the operator.
LEMMA Commands ==
  ASSUME OperatorOK, todo["operator"] # <<>>
  PROVE  /\ version > 2 \/ version \notin 1 .. 7
         /\ LET s == Head(todo["operator"]) IN
            /\ s.view = Characteristics
            /\ s \in {Create(Characteristics), Fill(Characteristics), Drop(Characteristics)}
            /\ s = Fill(Characteristics) => /\ Tail(todo["operator"]) = <<>>
                                            /\ todo["operator"] = <<Fill(Characteristics)>>
            /\ s = Drop(Characteristics) => Tail(todo["operator"]) = <<>>
            /\ s = Create(Characteristics) => Tail(todo["operator"]) = <<Fill(Characteristics)>>
<1> USE DEF Create, Fill, Drop
<1>1. version > 2 \/ version \notin 1 .. 7
  BY DEF OperatorOK
<1>2. todo["operator"] \in {DetachMV, ReattachMV, <<Fill(Characteristics)>>}
  BY DEF OperatorOK
<1>3. CASE todo["operator"] = DetachMV
  BY <1>1, <1>3 DEF DetachMV
<1>4. CASE todo["operator"] = ReattachMV
  BY <1>1, <1>4 DEF ReattachMV
<1>5. CASE todo["operator"] = <<Fill(Characteristics)>>
  BY <1>1, <1>5
<1> QED BY <1>2, <1>3, <1>4, <1>5

\* A statement that is not a fill, or a fill that has been written, leaves the clients in order.
LEMMA ClientsAdvance ==
  ASSUME ClientsOK, NEW c \in Clients, todo[c] # <<>>, Did(c), version' = version,
         DOMAIN fills' = DOMAIN fills, fills'[c] = NoFill,
         \A d \in (Clients \cup {"gone"}) \ {c} : fills'[d] = fills[d],
         Characteristics \in attached => Characteristics \in attached'
                                         \/ (c = "operator" /\ Statement(c) = Drop(Characteristics)),
         Statement(c) = Create(Characteristics) => Characteristics \in attached'
  PROVE  ClientsOK'
<1>1. /\ DOMAIN todo' = Clients
      /\ \A d \in Clients : todo'[d] = IF d = c THEN Tail(todo[c]) ELSE todo[d]
      /\ MigratorOK' \/ fills'["migrator"] # NoFill
  BY Advance
<1>2. \A d \in Clients \cup {"gone"} : FillOK(fills[d])'
  BY DEF ClientsOK, FillOK, NoFill
<1>3. CASE c = "migrator"
  <2>1. MigratorOK'
    BY <1>1, <1>3
  <2>2. todo'["operator"] = todo["operator"] /\ fills'["operator"] = fills["operator"]
    BY <1>1, <1>3 DEF Clients
  <2>3. Characteristics \in attached => Characteristics \in attached'
    BY <1>3
  <2>4. OperatorOK'
    BY <2>2, <2>3 DEF OperatorOK, ClientsOK
  <2> QED BY <1>1, <1>2, <2>1, <2>4 DEF ClientsOK
<1>4. CASE c = "operator"
  <2>1. todo'["operator"] = Tail(todo["operator"]) /\ fills'["operator"] = NoFill
    BY <1>1, <1>4 DEF Clients
  <2>2. todo'["migrator"] = todo["migrator"] /\ fills'["migrator"] = fills["migrator"]
    BY <1>1, <1>4 DEF Clients
  <2>3. MigratorOK'
    BY <2>2 DEF ClientsOK, MigratorOK, Position
  <2>4. version > 2 /\ version \in 1 .. 7
    BY <1>4, Commands DEF ClientsOK, MigratorOK
  <2>5. todo'["operator"] \in {<<>>, <<Fill(Characteristics)>>}
    BY <1>4, <2>1, Commands DEF ClientsOK
  <2>6. todo'["operator"] = <<Fill(Characteristics)>> => Characteristics \in attached'
    <3>1. <<Fill(Characteristics)>> # <<>>
      OBVIOUS
    <3>2. ASSUME todo'["operator"] = <<Fill(Characteristics)>>
          PROVE  Statement(c) = Create(Characteristics)
      BY <1>4, <2>1, <3>1, <3>2, Commands DEF ClientsOK, Statement
    <3> QED BY <3>2
  <2>7. OperatorOK'
    BY <2>1, <2>4, <2>5, <2>6 DEF OperatorOK
  <2> QED BY <1>1, <1>2, <2>3, <2>7 DEF ClientsOK
<1> QED BY <1>3, <1>4 DEF Clients

\* A step of the clients leaves the tables, and with them what the views select, alone.
LEMMA SameKeys ==
  ASSUME UNCHANGED tables PROVE \A v : Keys(v)' = Keys(v) /\ Counts(v)' = Counts(v)
<1>1. /\ events' = events /\ pulls' = pulls /\ comments' = comments
      /\ scans' = scans /\ reactions' = reactions
  BY DEF tables
<1>2. ASSUME NEW v PROVE Keys(v)' = Keys(v)
  BY <1>1 DEF Keys, PRsOf
<1>3. ASSUME NEW v PROVE Counts(v)' = Counts(v)
  BY <1>1 DEF Counts, Rows
<1> QED BY <1>2, <1>3

LEMMA ViewNames ==
  /\ Views = AllDistinct \cup CountingViews /\ AllDistinct \cap CountingViews = {}
  /\ Characteristics \in AllDistinct /\ Characteristics \notin DistinctViews
  /\ DistinctViews \subseteq AllDistinct
  /\ "none" \notin Views /\ NoFill.view = "none"
BY DEF Views, AllDistinct, DistinctViews, PairViews, EventPRViews, CountingViews, Characteristics, NoFill

LEMMA FillNames ==
  ASSUME ClientsOK, NEW c \in Clients \cup {"gone"}
  PROVE  fills[c] # NoFill <=> fills[c].view \in Views
BY ViewNames DEF ClientsOK, FillOK

\* The summary the migrator fills has its view, and is not filled yet.
LEMMA BeingFilled ==
  ASSUME ClientsOK, fills["migrator"] # NoFill
  PROVE  LET v == fills["migrator"].view IN
         /\ v \in Views /\ Home(v) = version /\ Made(v) /\ ~Filled(v)
         /\ todo["migrator"] # <<>> /\ Head(todo["migrator"]) = Fill(v)
<1>1. todo["migrator"] # <<>> /\ Head(todo["migrator"]) = Fill(fills["migrator"].view)
  BY DEF ClientsOK, MigratorOK
<1>2. Fill(fills["migrator"].view).view = fills["migrator"].view
  BY DEF Fill
<1> QED BY <1>1, <1>2, Statements

LEMMA CreateViewKeeps ==
  ASSUME IInv, NEW c \in Clients, CreateView(c) PROVE IInv'
<1> DEFINE v == Statement(c).view
<1>1. /\ todo[c] # <<>> /\ fills[c] = NoFill /\ Statement(c).op = "create"
      /\ attached' = attached \cup {v} /\ Did(c)
      /\ UNCHANGED <<tables, summaries, version, fills, due, whole>>
  BY DEF CreateView, Begin
<1>2. ClientsOK'
  <2>1. Statement(c) = Create(Characteristics) => Characteristics \in attached'
    BY <1>1 DEF Create
  <2> QED BY <1>1, <2>1, ClientsAdvance DEF IInv
<1>3. \A u \in Views : /\ Made(u)' => Made(u) \/ (c = "migrator" /\ Statement(c) = Create(u))
                       /\ Filled(u)' => Filled(u)
  <2>1. \A u : Statement(c) # Fill(u)
    BY <1>1 DEF Fill
  <2> QED BY <1>1, <2>1, Advance DEF IInv
<1>4. \A u : Keys(u)' = Keys(u) /\ Counts(u)' = Counts(u)
  BY <1>1, SameKeys
<1>5. stored' = stored /\ counted' = counted /\ fills' = fills /\ due' = due /\ whole' = whole
      /\ events' = events /\ pulls' = pulls /\ scans' = scans
  BY <1>1 DEF summaries, tables
<1>6. ViewsStay'
  <2>1. \A u \in Views : Made(u)' => Made(u) \/ u \in attached'
    BY <1>1, <1>3 DEF Create
  <2>2. version' = version
    BY <1>1
  <2> QED BY <1>1, <1>5, <2>1, <2>2, ViewNames DEF ViewsStay, IInv
<1>7. TablesOK'
  BY <1>5 DEF TablesOK, IInv
<1>8. NothingElse' /\ NothingLost'
  BY <1>3, <1>4, <1>5, ViewNames DEF NothingElse, NothingLost, IInv
<1>9. EveryRowCounted'
  BY <1>3, <1>4, <1>5, ViewNames DEF EveryRowCounted, IInv
<1>10. JoinsKept'
  BY <1>4, <1>5 DEF JoinsKept, IInv
<1> QED BY <1>2, <1>6, <1>7, <1>8, <1>9, <1>10 DEF IInv

LEMMA DropViewKeeps ==
  ASSUME IInv, NEW c \in Clients, DropView(c) PROVE IInv'
<1>1. /\ todo[c] # <<>> /\ fills[c] = NoFill /\ Statement(c).op = "drop"
      /\ attached' = attached \ {Statement(c).view} /\ whole' = FALSE /\ Did(c)
      /\ UNCHANGED <<tables, summaries, version, fills, due>>
  BY DEF DropView, Begin
<1>2. c = "operator"
  <2>1. ASSUME c = "migrator" PROVE FALSE
    <3>1. Statement(c).op \in {"create", "truncate", "fill"}
      BY <1>1, <2>1, Statements DEF IInv, Statement, Create, Truncate, Fill
    <3> QED BY <1>1, <3>1
  <2> QED BY <2>1 DEF Clients
<1>3. Statement(c) = Drop(Characteristics) /\ Statement(c).view = Characteristics /\ version > 2
  BY <1>1, <1>2, Commands DEF IInv, ClientsOK, MigratorOK, Statement, Create, Fill
<1>4. ClientsOK'
  <2>1. Statement(c) # Create(Characteristics)
    BY <1>1 DEF Create
  <2> QED BY <1>1, <1>2, <1>3, <2>1, ClientsAdvance DEF IInv
<1>5. \A u \in Views : (Made(u)' => Made(u)) /\ (Filled(u)' => Filled(u))
  BY <1>1, <1>2, Advance DEF IInv
<1>6. \A u : Keys(u)' = Keys(u) /\ Counts(u)' = Counts(u)
  BY <1>1, SameKeys
<1>7. stored' = stored /\ counted' = counted /\ fills' = fills /\ due' = due
      /\ events' = events /\ pulls' = pulls /\ scans' = scans
  BY <1>1 DEF summaries, tables
<1>8. ViewsStay'
  <2>1. version' # 2
    BY <1>1, <1>3
  <2>2. \A u \in DistinctViews \cup CountingViews : u # Characteristics
    BY ViewNames
  <2> QED BY <1>1, <1>3, <1>5, <2>1, <2>2, ViewNames DEF ViewsStay, IInv
<1>9. TablesOK'
  BY <1>7 DEF TablesOK, IInv
<1>10. NothingElse' /\ NothingLost'
  BY <1>5, <1>6, <1>7, ViewNames DEF NothingElse, NothingLost, IInv
<1>11. EveryRowCounted'
  BY <1>5, <1>6, <1>7, ViewNames DEF EveryRowCounted, IInv
<1>12. JoinsKept'
  BY <1>1, <1>6, <1>7 DEF JoinsKept, IInv
<1> QED BY <1>4, <1>8, <1>9, <1>10, <1>11, <1>12 DEF IInv

LEMMA TruncateTableKeeps ==
  ASSUME IInv, NEW c \in Clients, TruncateTable(c) PROVE IInv'
<1> DEFINE v == Statement(c).view
<1>1. /\ todo[c] # <<>> /\ fills[c] = NoFill /\ Statement(c).op = "truncate" /\ Did(c)
      /\ counted' = [counted EXCEPT ![v] = [p \in PRs |-> 0]]
      /\ UNCHANGED <<tables, attached, stored, version, fills, due, whole>>
  BY DEF TruncateTable, Begin
<1>2. c = "migrator"
  <2>1. ASSUME c = "operator" PROVE FALSE
    <3>1. Statement(c).op \in {"create", "drop", "fill"}
      BY <1>1, <2>1, Commands DEF IInv, ClientsOK, Statement, Create, Drop, Fill
    <3> QED BY <1>1, <3>1
  <2> QED BY <2>1 DEF Clients
<1>3. Statement(c) = Truncate(v) /\ v \in CountingViews /\ ~Filled(v)
  BY <1>1, <1>2, Statements DEF IInv, Statement, Create, Fill
<1>4. \A u : Statement(c) # Fill(u) /\ Statement(c) # Create(u)
  BY <1>1 DEF Create, Fill
<1>5. ClientsOK'
  BY <1>1, <1>4, ClientsAdvance DEF IInv
<1>6. \A u \in Views : (Made(u)' => Made(u)) /\ (Filled(u)' => Filled(u))
  BY <1>1, <1>4, Advance DEF IInv
<1>7. \A u : Keys(u)' = Keys(u) /\ Counts(u)' = Counts(u)
  BY <1>1, SameKeys
<1>8. attached' = attached /\ stored' = stored /\ fills' = fills /\ due' = due /\ whole' = whole
      /\ events' = events /\ pulls' = pulls /\ scans' = scans
  BY <1>1 DEF tables
<1>9. ViewsStay'
  <2>1. version' = version
    BY <1>1
  <2> QED BY <1>6, <1>8, <2>1, ViewNames DEF ViewsStay, IInv
<1>10. TablesOK'
  <2>1. counted' \in [CountingViews -> [PRs -> Nat]]
    BY <1>1 DEF IInv, TablesOK
  <2> QED BY <1>8, <2>1 DEF TablesOK, IInv
<1>11. NothingElse' /\ NothingLost'
  BY <1>6, <1>7, <1>8, ViewNames DEF NothingElse, NothingLost, IInv
<1>12. EveryRowCounted'
  <2>1. \A u \in CountingViews : u # v => counted'[u] = counted[u]
    BY <1>1 DEF IInv, TablesOK
  <2>2. fills'["migrator"].view \notin CountingViews
    BY <1>1, <1>2, <1>8, ViewNames
  <2> QED BY <1>3, <1>6, <1>7, <2>1, <2>2, ViewNames DEF EveryRowCounted, IInv
<1>13. JoinsKept'
  BY <1>7, <1>8 DEF JoinsKept, IInv
<1> QED BY <1>5, <1>9, <1>10, <1>11, <1>12, <1>13 DEF IInv

LEMMA CountsType ==
  ASSUME TablesOK, NEW v \in CountingViews PROVE Counts(v) \in [PRs -> Nat]
<1>1. CASE v = "reaction_scan_repo_summary"
  BY <1>1 DEF Counts, TablesOK
<1>2. CASE v = "pull_requests_enrichment_summary"
  <2>1. ASSUME NEW p \in PRs PROVE Rows(p, "found") \in Nat
    <3>1. pulls[p] \in Seq({"found", "gone"})
      BY DEF TablesOK
    <3>2. IsFiniteSet(DOMAIN pulls[p])
      BY <3>1, FS_Interval
    <3>3. IsFiniteSet({i \in DOMAIN pulls[p] : pulls[p][i] = "found"})
      BY <3>2, FS_Subset
    <3> QED BY <3>3, FS_CardinalityType DEF Rows
  <2> QED BY <1>2, <2>1 DEF Counts
<1> QED BY <1>1, <1>2 DEF CountingViews

CountsOK == \A v \in CountingViews : Counts(v) \in [PRs -> Nat]
LEMMA AllCounts == TablesOK => CountsOK
BY CountsType DEF CountsOK

LEMMA FillReadsKeeps ==
  ASSUME IInv, NEW c \in Clients, FillReads(c) PROVE IInv'
<1> DEFINE v == Statement(c).view
           read == [view |-> v, rows |-> IF v \in CountingViews THEN Counts(v) ELSE Keys(v)]
<1>1. /\ todo[c] # <<>> /\ fills[c] = NoFill /\ Statement(c).op = "fill"
      /\ fills' = [fills EXCEPT ![c] = read]
      /\ UNCHANGED <<tables, attached, summaries, version, todo, due, whole>>
  BY DEF FillReads, Begin
<1>2. Statement(c) = Fill(v) /\ v \in Views
  <2>1. CASE c = "migrator"
    BY <1>1, <2>1, Statements DEF IInv, Statement, Create, Truncate
  <2>2. CASE c = "operator"
    BY <1>1, <2>2, Commands, ViewNames DEF IInv, ClientsOK, Statement, Create, Drop
  <2> QED BY <2>1, <2>2 DEF Clients
<1>3. /\ attached' = attached /\ stored' = stored /\ counted' = counted /\ due' = due /\ whole' = whole
      /\ events' = events /\ pulls' = pulls /\ scans' = scans /\ todo' = todo /\ version' = version
  BY <1>1 DEF summaries, tables
<1>4. \A u : Keys(u)' = Keys(u) /\ Counts(u)' = Counts(u)
  BY <1>1, SameKeys
<1>5. /\ DOMAIN fills' = DOMAIN fills /\ fills'[c] = read
      /\ \A d \in Clients \cup {"gone"} : d # c => fills'[d] = fills[d]
  BY <1>1 DEF IInv, ClientsOK
<1>6. read.view = v /\ read.rows = (IF v \in CountingViews THEN Counts(v) ELSE Keys(v)) /\ read # NoFill
  BY <1>2, ViewNames
<1> HIDE DEF read, v
<1>7. FillOK(read)
  BY <1>2, <1>6, CountsType, ViewNames DEF FillOK, IInv
<1>8. ClientsOK'
  <2>1. \A d \in Clients \cup {"gone"} : FillOK(fills[d])'
    BY <1>5, <1>7 DEF IInv, ClientsOK, FillOK, NoFill
  <2>2. MigratorOK'
    <3>1. fills'["migrator"] # NoFill =>
            todo["migrator"] # <<>> /\ Head(todo["migrator"]) = Fill(fills'["migrator"].view)
      <4>1. CASE c = "migrator"
        BY <1>1, <1>2, <1>5, <1>6, <4>1 DEF Statement
      <4>2. CASE c # "migrator"
        BY <1>5, <4>2 DEF IInv, ClientsOK, MigratorOK, Clients
      <4> QED BY <4>1, <4>2
    <3> QED BY <1>3, <3>1 DEF IInv, ClientsOK, MigratorOK, Position
  <2>3. OperatorOK'
    <3>1. fills'["operator"] # NoFill => /\ todo["operator"] = <<Fill(Characteristics)>>
                                         /\ fills'["operator"].view = Characteristics
      <4>1. CASE c = "operator"
        <5>1. Statement(c) = Fill(Characteristics) /\ todo["operator"] = <<Fill(Characteristics)>>
          BY <1>1, <1>2, <4>1, Commands DEF IInv, ClientsOK, Statement, Create, Drop, Fill
        <5> QED BY <1>2, <1>5, <1>6, <4>1, <5>1 DEF Fill
      <4>2. CASE c # "operator"
        BY <1>5, <4>2 DEF IInv, ClientsOK, OperatorOK, Clients
      <4> QED BY <4>1, <4>2
    <3> QED BY <1>3, <3>1 DEF IInv, ClientsOK, OperatorOK
  <2> QED BY <1>3, <1>5, <2>1, <2>2, <2>3 DEF IInv, ClientsOK
<1>9. \A u : Made(u)' = Made(u) /\ Filled(u)' = Filled(u)
  BY <1>3 DEF Made, Filled, Position
<1>10. TablesOK' /\ ViewsStay'
  BY <1>3, <1>9 DEF TablesOK, ViewsStay, IInv
<1>11. NothingElse' /\ NothingLost'
  <2>1. ASSUME NEW u \in DistinctViews, NEW d \in Clients \cup {"gone"}, fills'[d].view = u, d = c
        PROVE  fills'[d].rows = Keys(u)
    BY <1>5, <1>6, <2>1, ViewNames
  <2> QED BY <1>3, <1>4, <1>5, <1>9, <2>1 DEF NothingElse, NothingLost, IInv, Clients
<1>12. EveryRowCounted'
  <2>1. ASSUME NEW u \in CountingViews, NEW p \in PRs, fills'["migrator"].view = u
        PROVE  Counts(u)[p] <= counted[u][p] + fills'["migrator"].rows[p]
    <3>1. CASE c = "migrator"
      <4>1. fills'["migrator"].rows = Counts(u)
        BY <1>5, <1>6, <2>1, <3>1
      <4>2. Counts(u)[p] \in Nat /\ counted[u][p] \in Nat
        BY CountsType DEF IInv, TablesOK
      <4> QED BY <4>1, <4>2
    <3>2. CASE c # "migrator"
      BY <1>5, <2>1, <3>2 DEF IInv, EveryRowCounted, Clients
    <3> QED BY <3>1, <3>2
  <2> QED BY <1>3, <1>4, <1>9, <2>1 DEF EveryRowCounted, IInv
<1>13. JoinsKept'
  <2>1. ASSUME NEW d \in Clients, fills'[d].view = Characteristics
        PROVE  due \subseteq stored[Characteristics] \cup fills'[d].rows
    <3>1. CASE d = c
      BY <1>5, <1>6, <2>1, <3>1, ViewNames DEF IInv, JoinsKept
    <3>2. CASE d # c
      BY <1>5, <2>1, <3>2 DEF IInv, JoinsKept
    <3> QED BY <3>1, <3>2
  <2> QED BY <1>3, <1>4, <2>1 DEF JoinsKept, IInv
<1> QED BY <1>8, <1>10, <1>11, <1>12, <1>13 DEF IInv

\* Writing what a fill has read adds to its summary, and to no other.
LEMMA WrittenAdds ==
  ASSUME IInv, NEW c \in Clients \cup {"gone"}, fills[c] # NoFill, Written(fills[c])
  PROVE  LET v == fills[c].view
             rows == fills[c].rows IN
         /\ v \in Views
         /\ DOMAIN stored' = AllDistinct /\ counted' \in [CountingViews -> [PRs -> Nat]]
         /\ \A u \in AllDistinct : stored'[u] = IF u = v THEN stored[u] \cup rows ELSE stored[u]
         /\ \A u \in CountingViews : \A p \in PRs :
              counted'[u][p] = IF u = v THEN counted[u][p] + rows[p] ELSE counted[u][p]
         /\ \A u \in CountingViews : \A p \in PRs : counted[u][p] <= counted'[u][p]
<1> DEFINE f == fills[c]
<1>1. f.view \in Views /\ (f.view \in CountingViews => f.rows \in [PRs -> Nat])
  BY FillNames, ViewNames DEF IInv, ClientsOK, FillOK
<1>2. /\ DOMAIN stored = AllDistinct /\ counted \in [CountingViews -> [PRs -> Nat]]
  BY DEF IInv, TablesOK
<1>3. Written(f)
  OBVIOUS
<1> HIDE DEF f
<1>4. CASE f.view \in CountingViews
  <2>1. counted' = [counted EXCEPT ![f.view] = [p \in PRs |-> counted[f.view][p] + f.rows[p]]]
        /\ stored' = stored
    BY <1>2, <1>3, <1>4 DEF Written
  <2>2. [p \in PRs |-> counted[f.view][p] + f.rows[p]] \in [PRs -> Nat]
    BY <1>1, <1>2, <1>4
  <2>3. \A u \in CountingViews : \A p \in PRs :
          counted'[u][p] = IF u = f.view THEN counted[u][p] + f.rows[p] ELSE counted[u][p]
    BY <1>2, <1>4, <2>1
  <2>4. \A p \in PRs : f.rows[p] \in Nat
    BY <1>1, <1>4
  <2>5. \A u \in CountingViews : \A p \in PRs : counted[u][p] <= counted'[u][p]
    BY <1>2, <2>3, <2>4
  <2>6. counted' \in [CountingViews -> [PRs -> Nat]]
    BY <1>2, <2>1, <2>2
  <2> QED BY <1>1, <1>2, <1>4, <2>1, <2>3, <2>5, <2>6, ViewNames DEF f
<1>5. CASE f.view \notin CountingViews
  <2>1. f.view \in AllDistinct
    BY <1>1, <1>5, ViewNames
  <2>2. stored' = [stored EXCEPT ![f.view] = @ \cup f.rows] /\ counted' = counted
    BY <1>3, <1>5 DEF Written
  <2>3. \A u \in CountingViews : \A p \in PRs : counted[u][p] \in Nat /\ counted[u][p] <= counted'[u][p]
    BY <1>2, <2>2
  <2> QED BY <1>1, <1>2, <1>5, <2>1, <2>2, <2>3 DEF f
<1> QED BY <1>4, <1>5

LEMMA FillWritesKeeps ==
  ASSUME IInv, NEW c \in Clients, FillWrites(c) PROVE IInv'
<1> DEFINE v == fills[c].view
           rows == fills[c].rows
<1>1. /\ fills[c] # NoFill /\ Written(fills[c]) /\ Did(c)
      /\ whole' = (whole \/ v = Characteristics)
      /\ fills' = [fills EXCEPT ![c] = NoFill]
      /\ UNCHANGED <<tables, attached, version, due>>
  BY DEF FillWrites
<1>2. /\ v \in Views /\ DOMAIN stored' = AllDistinct /\ counted' \in [CountingViews -> [PRs -> Nat]]
      /\ \A u \in AllDistinct : stored'[u] = IF u = v THEN stored[u] \cup rows ELSE stored[u]
      /\ \A u \in CountingViews : \A p \in PRs :
           counted'[u][p] = IF u = v THEN counted[u][p] + rows[p] ELSE counted[u][p]
      /\ \A u \in CountingViews : \A p \in PRs : counted[u][p] <= counted'[u][p]
  BY <1>1, WrittenAdds
<1>3. todo[c] # <<>> /\ Statement(c) = Fill(v)
  <2>1. CASE c = "migrator"
    BY <1>1, <2>1 DEF IInv, ClientsOK, MigratorOK, Statement
  <2>2. CASE c = "operator"
    BY <1>1, <2>2 DEF IInv, ClientsOK, OperatorOK, Statement
  <2> QED BY <2>1, <2>2 DEF Clients
<1>4. /\ DOMAIN fills' = DOMAIN fills /\ fills'[c] = NoFill
      /\ \A d \in Clients \cup {"gone"} : d # c => fills'[d] = fills[d]
  BY <1>1 DEF IInv, ClientsOK
<1>5. \A u : Statement(c) = Fill(u) => u = v
  BY <1>3 DEF Fill
<1>6. \A u : Statement(c) # Create(u)
  BY <1>3 DEF Fill, Create
<1>7. ClientsOK'
  BY <1>1, <1>3, <1>4, <1>6, ClientsAdvance DEF IInv
<1>8. \A u \in Views : /\ Made(u)' => Made(u)
                       /\ Filled(u)' => Filled(u) \/ (c = "migrator" /\ u = v)
  BY <1>1, <1>3, <1>5, <1>6, Advance DEF IInv
<1>9. \A u : Keys(u)' = Keys(u) /\ Counts(u)' = Counts(u)
  BY <1>1, SameKeys
<1>10. attached' = attached /\ due' = due /\ events' = events /\ pulls' = pulls /\ scans' = scans
       /\ version' = version
  BY <1>1 DEF tables
<1>11. v = Characteristics => Characteristics \in attached
  <2>1. CASE c = "operator"
    BY <1>1, <2>1 DEF IInv, ClientsOK, OperatorOK
  <2>2. CASE c = "migrator"
    <3>1. Home(v) = version /\ Made(v)
      BY <1>1, <2>2, BeingFilled DEF IInv
    <3>2. Home(Characteristics) = 2
      BY DEF Home, Characteristics
    <3> QED BY <3>1, <3>2 DEF IInv, ViewsStay
  <2> QED BY <2>1, <2>2 DEF Clients
<1> HIDE DEF v, rows
<1>12. ViewsStay'
  BY <1>1, <1>8, <1>10, <1>11, ViewNames DEF ViewsStay, IInv
<1>13. TablesOK'
  BY <1>2, <1>10 DEF TablesOK, IInv
<1>14. NothingElse'
  <2>1. ASSUME NEW u \in DistinctViews
        PROVE  /\ stored'[u] \subseteq Keys(u)
               /\ \A d \in Clients \cup {"gone"} : fills'[d].view = u => fills'[d].rows \subseteq Keys(u)
    <3>1. u = v => rows \subseteq Keys(u)
      BY DEF IInv, NothingElse, v, rows
    <3>2. stored'[u] \subseteq Keys(u)
      BY <1>2, <3>1, ViewNames DEF IInv, NothingElse
    <3>3. ASSUME NEW d \in Clients \cup {"gone"}, fills'[d].view = u PROVE fills'[d].rows \subseteq Keys(u)
      <4>1. d # c
        BY <1>4, <3>3, ViewNames
      <4> QED BY <1>4, <3>3, <4>1 DEF IInv, NothingElse
    <3> QED BY <3>2, <3>3
  <2> QED BY <1>9, <2>1 DEF NothingElse
<1>15. NothingLost'
  <2>1. ASSUME NEW u \in DistinctViews, Filled(u)' PROVE Keys(u) \subseteq stored'[u]
    <3>1. CASE Filled(u)
      BY <1>2, <3>1, ViewNames DEF IInv, NothingLost
    <3>2. CASE c = "migrator" /\ u = v
      BY <1>2, <3>2, ViewNames DEF IInv, NothingLost, v, rows
    <3> QED BY <1>8, <2>1, <3>1, <3>2, ViewNames
  <2>2. ASSUME NEW u \in DistinctViews, fills'["migrator"].view = u
        PROVE  Keys(u) \subseteq stored'[u] \cup fills'["migrator"].rows
    <3>1. c # "migrator"
      BY <1>4, <2>2, ViewNames
    <3>2. fills'["migrator"] = fills["migrator"]
      BY <1>4, <3>1 DEF Clients
    <3> QED BY <1>2, <2>2, <3>2, ViewNames DEF IInv, NothingLost
  <2> QED BY <1>9, <2>1, <2>2 DEF NothingLost
<1>16. EveryRowCounted'
  <2>1. ASSUME NEW u \in CountingViews, NEW p \in PRs, Filled(u)' PROVE Counts(u)[p] <= counted'[u][p]
    <3>1. CASE Filled(u)
      <4>1. Counts(u)[p] <= counted[u][p] /\ counted[u][p] <= counted'[u][p]
        BY <1>2, <3>1 DEF IInv, EveryRowCounted
      <4>2. Counts(u)[p] \in Nat /\ counted[u][p] \in Nat /\ counted'[u][p] \in Nat
        BY <1>2, CountsType DEF IInv, TablesOK
      <4> QED BY <4>1, <4>2
    <3>2. CASE c = "migrator" /\ u = v
      BY <1>2, <3>2 DEF IInv, EveryRowCounted, v, rows
    <3> QED BY <1>8, <2>1, <3>1, <3>2, ViewNames
  <2>2. ASSUME NEW u \in CountingViews, NEW p \in PRs, fills'["migrator"].view = u
        PROVE  Counts(u)[p] <= counted'[u][p] + fills'["migrator"].rows[p]
    <3>1. c # "migrator"
      BY <1>4, <2>2, ViewNames
    <3>2. fills'["migrator"] = fills["migrator"]
      BY <1>4, <3>1 DEF Clients
    <3> DEFINE q == fills["migrator"].rows[p]
    <3>3. q \in Nat
      BY <2>2, <3>2, ViewNames DEF IInv, ClientsOK, FillOK, Clients
    <3>4. Counts(u)[p] <= counted[u][p] + q
      BY <2>2, <3>2 DEF IInv, EveryRowCounted
    <3> HIDE DEF q
    <3>5. counted[u][p] <= counted'[u][p]
      BY <1>2
    <3>6. Counts(u)[p] \in Nat /\ counted[u][p] \in Nat /\ counted'[u][p] \in Nat
      BY <1>2, CountsType DEF IInv, TablesOK
    <3>7. Counts(u)[p] <= counted'[u][p] + q
      BY <3>3, <3>4, <3>5, <3>6
    <3> QED BY <3>2, <3>7 DEF q
  <2> QED BY <1>9, <2>1, <2>2 DEF EveryRowCounted
<1>17. JoinsKept'
  <2>1. stored[Characteristics] \subseteq stored'[Characteristics]
    BY <1>2, ViewNames
  <2>2. v = Characteristics => due \subseteq stored'[Characteristics]
    BY <1>2, ViewNames DEF IInv, JoinsKept, v, rows
  <2>3. ASSUME NEW d \in Clients, fills'[d].view = Characteristics
        PROVE  due \subseteq stored'[Characteristics] \cup fills'[d].rows
    <3>1. d # c
      BY <1>4, <2>3, ViewNames
    <3> QED BY <1>4, <2>1, <2>3, <3>1 DEF IInv, JoinsKept
  <2> QED BY <1>1, <1>9, <1>10, <2>1, <2>2, <2>3 DEF JoinsKept, IInv
<1> QED BY <1>7, <1>12, <1>13, <1>14, <1>15, <1>16, <1>17 DEF IInv

\* A fill whose client is gone may go on: it adds to its summary what its table has.
LEMMA GoneWritesKeeps ==
  ASSUME IInv, GoneWrites PROVE IInv'
<1> DEFINE v == fills["gone"].view
           rows == fills["gone"].rows
<1>1. /\ fills["gone"] # NoFill /\ Written(fills["gone"])
      /\ fills' = [fills EXCEPT !["gone"] = NoFill]
      /\ UNCHANGED <<tables, attached, version, todo, due, whole>>
  BY DEF GoneWrites
<1>2. /\ v \in Views /\ DOMAIN stored' = AllDistinct /\ counted' \in [CountingViews -> [PRs -> Nat]]
      /\ \A u \in AllDistinct : stored'[u] = IF u = v THEN stored[u] \cup rows ELSE stored[u]
      /\ \A u \in CountingViews : \A p \in PRs : counted[u][p] <= counted'[u][p]
  BY <1>1, WrittenAdds
<1>3. /\ DOMAIN fills' = DOMAIN fills /\ fills'["gone"] = NoFill
      /\ \A d \in Clients : fills'[d] = fills[d] /\ d # "gone"
  BY <1>1 DEF IInv, ClientsOK, Clients
<1>4. \A u : Keys(u)' = Keys(u) /\ Counts(u)' = Counts(u)
  BY <1>1, SameKeys
<1>5. attached' = attached /\ due' = due /\ events' = events /\ pulls' = pulls /\ scans' = scans
      /\ version' = version /\ todo' = todo /\ whole' = whole
  BY <1>1 DEF tables
<1>6. \A u : Made(u)' = Made(u) /\ Filled(u)' = Filled(u)
  BY <1>5 DEF Made, Filled, Position
<1> HIDE DEF v, rows
<1>7. ClientsOK'
  <2>1. \A d \in Clients \cup {"gone"} : FillOK(fills[d])'
    BY <1>3 DEF IInv, ClientsOK, FillOK, NoFill
  <2>2. fills'["migrator"] = fills["migrator"] /\ fills'["operator"] = fills["operator"]
    BY <1>3 DEF Clients
  <2>3. MigratorOK'
    BY <1>5, <2>2 DEF IInv, ClientsOK, MigratorOK, Position
  <2>4. OperatorOK'
    BY <1>5, <2>2 DEF IInv, ClientsOK, OperatorOK
  <2> QED BY <1>3, <1>5, <2>1, <2>3, <2>4 DEF IInv, ClientsOK
<1>8. TablesOK'
  BY <1>2, <1>5 DEF TablesOK, IInv
<1>9. ViewsStay'
  BY <1>5, <1>6 DEF ViewsStay, IInv
<1>10. NothingElse'
  <2>1. ASSUME NEW u \in DistinctViews PROVE stored'[u] \subseteq Keys(u)
    <3>1. u = v => rows \subseteq Keys(u)
      BY DEF IInv, NothingElse, v, rows
    <3> QED BY <1>2, <3>1, ViewNames DEF IInv, NothingElse
  <2>2. ASSUME NEW u \in DistinctViews, NEW d \in Clients \cup {"gone"}, fills'[d].view = u
        PROVE  fills'[d].rows \subseteq Keys(u)
    <3>1. d # "gone"
      BY <1>3, <2>2, ViewNames
    <3> QED BY <1>3, <2>2, <3>1 DEF IInv, NothingElse
  <2> QED BY <1>4, <2>1, <2>2 DEF NothingElse
<1>11. NothingLost'
  <2>1. \A u \in DistinctViews : stored[u] \subseteq stored'[u]
    BY <1>2, ViewNames
  <2>2. fills'["migrator"] = fills["migrator"]
    BY <1>3 DEF Clients
  <2> QED BY <1>4, <1>6, <2>1, <2>2 DEF NothingLost, IInv
<1>12. EveryRowCounted'
  <2>1. ASSUME NEW u \in CountingViews, NEW p \in PRs
        PROVE  /\ Filled(u) => Counts(u)[p] <= counted'[u][p]
               /\ fills["migrator"].view = u => Counts(u)[p] <= counted'[u][p] + fills["migrator"].rows[p]
    <3>1. /\ Counts(u)[p] \in Nat /\ counted[u][p] \in Nat /\ counted'[u][p] \in Nat
          /\ counted[u][p] <= counted'[u][p]
      BY <1>2, CountsType DEF IInv, TablesOK
    <3>2. Filled(u) => Counts(u)[p] <= counted[u][p]
      BY DEF IInv, EveryRowCounted
    <3> DEFINE q == fills["migrator"].rows[p]
    <3>3. ASSUME fills["migrator"].view = u PROVE q \in Nat /\ Counts(u)[p] <= counted[u][p] + q
      BY <3>3, ViewNames DEF IInv, ClientsOK, FillOK, EveryRowCounted, Clients
    <3> HIDE DEF q
    <3>4. ASSUME fills["migrator"].view = u PROVE Counts(u)[p] <= counted'[u][p] + q
      BY <3>1, <3>3, <3>4
    <3>5. Filled(u) => Counts(u)[p] <= counted'[u][p]
      BY <3>1, <3>2
    <3> QED BY <3>4, <3>5 DEF q
  <2>2. fills'["migrator"] = fills["migrator"]
    BY <1>3 DEF Clients
  <2> QED BY <1>4, <1>6, <2>1, <2>2 DEF EveryRowCounted
<1>13. JoinsKept'
  <2>1. stored[Characteristics] \subseteq stored'[Characteristics]
    BY <1>2, ViewNames
  <2> QED BY <1>3, <1>4, <1>5, <2>1 DEF JoinsKept, IInv
<1> QED BY <1>7, <1>8, <1>9, <1>10, <1>11, <1>12, <1>13 DEF IInv

\* A recorded version has all of its summaries made and filled.
LEMMA RecordKeeps ==
  ASSUME IInv, Record PROVE IInv'
<1>1. /\ version < 7 /\ version \in 1 .. 7 /\ todo["migrator"] = <<>> /\ version' = version + 1
      /\ todo' = [todo EXCEPT !["migrator"] =
                    IF version < 6 THEN Migrations[version + 1] ELSE <<>>]
      /\ UNCHANGED <<tables, attached, summaries, fills, due, whole>>
  BY Layout DEF Record, Migrated, IInv, ClientsOK, MigratorOK
<1>2. Position = Length(version) /\ Length(version) \in Nat
  BY <1>1 DEF Position, Length
<1>3. fills["migrator"] = NoFill
  BY <1>1 DEF IInv, ClientsOK, MigratorOK
<1>4. /\ todo'["operator"] = todo["operator"] /\ DOMAIN todo' = Clients
      /\ todo'["migrator"] = IF version < 6 THEN Migrations[version + 1] ELSE <<>>
  BY <1>1 DEF IInv, ClientsOK, Clients
<1>5. attached' = attached /\ stored' = stored /\ counted' = counted /\ fills' = fills /\ due' = due
      /\ whole' = whole /\ events' = events /\ pulls' = pulls /\ scans' = scans
  BY <1>1 DEF summaries, tables
<1>6. \A u : Keys(u)' = Keys(u) /\ Counts(u)' = Counts(u)
  BY <1>1, SameKeys
<1>7. ASSUME version < 6
      PROVE  /\ Position' = 0 /\ Length(version') \in Nat
             /\ todo'["migrator"] = SubSeq(Migrations[version'], 0 + 1, Length(version'))
  <2>1. version + 1 \in 1 .. 6
    BY <1>1, <1>7
  <2>2. /\ Migrations[version + 1] \in Seq(AllStatements)
        /\ Len(Migrations[version + 1]) = Length(version + 1)
    BY <2>1, Layout DEF Laid
  <2>3. Length(version + 1) \in Nat
    BY DEF Length
  <2>4. SubSeq(Migrations[version + 1], 1, Length(version + 1)) = Migrations[version + 1]
    BY <2>2, SubSeqFull
  <2>5. Position' = Length(version + 1) - Len(todo'["migrator"])
    BY <1>1 DEF Position
  <2> QED BY <1>1, <1>4, <1>7, <2>2, <2>3, <2>4, <2>5
<1>8. ClientsOK'
  <2>1. \A d \in Clients \cup {"gone"} : FillOK(fills[d])'
    BY <1>5 DEF IInv, ClientsOK, FillOK, NoFill
  <2>2. MigratorOK'
    <3>1. CASE version < 6
      <4>1. version' \in 1 .. 7 /\ version' # 7
        BY <1>1, <3>1
      <4>2. Position' \in 0 .. Length(version') /\ Position' + 1 = 0 + 1
        BY <1>7, <3>1
      <4> QED BY <1>3, <1>5, <1>7, <3>1, <4>1, <4>2 DEF MigratorOK
    <3>2. CASE version = 6
      <4>1. version' = 7 /\ ~(version' < 7) /\ version' \in 1 .. 7
        BY <1>1, <3>2
      <4> QED BY <1>3, <1>4, <1>5, <3>2, <4>1 DEF MigratorOK
    <3> QED BY <1>1, <3>1, <3>2
  <2>3. OperatorOK'
    <3>1. version' <= 2 => version <= 2
      BY <1>1
    <3> QED BY <1>4, <1>5, <3>1 DEF IInv, ClientsOK, OperatorOK
  <2> QED BY <1>4, <1>5, <2>1, <2>2, <2>3 DEF IInv, ClientsOK
<1>9. \A u \in Views : (Made(u)' => Made(u)) /\ (Filled(u)' => Filled(u))
  <2> SUFFICES ASSUME NEW u \in Views PROVE (Made(u)' => Made(u)) /\ (Filled(u)' => Filled(u))
    OBVIOUS
  <2>1. /\ Home(u) \in 1 .. 6 /\ Place(u) \in Nat /\ FillPlace(u) \in Nat
        /\ 1 <= Place(u) /\ Place(u) < FillPlace(u) /\ FillPlace(u) <= Length(Home(u))
    BY Places
  <2>2. Home(u) = version => Made(u) /\ Filled(u)
    BY <1>2, <2>1 DEF Made, Filled
  <2>3. Home(u) < version => Made(u) /\ Filled(u)
    BY DEF Made, Filled
  <2>4. Home(u) < version + 1 => Home(u) = version \/ Home(u) < version
    BY <1>1, <2>1
  <2>5. ASSUME Home(u) = version' PROVE ~(Place(u) <= Position') /\ ~(FillPlace(u) <= Position')
    <3>1. version < 6
      BY <1>1, <2>1, <2>5
    <3> QED BY <1>7, <2>1, <3>1
  <2>6. Made(u)' \/ Filled(u)' => Home(u) < version + 1
    BY <1>1, <2>5 DEF Made, Filled
  <2> QED BY <2>2, <2>3, <2>4, <2>6
<1>10. TablesOK'
  BY <1>5 DEF TablesOK, IInv
<1>11. ViewsStay'
  <2>1. ASSUME version' = 2, Made(Characteristics)' PROVE FALSE
    <3>1. Home(Characteristics) = 2 /\ Place(Characteristics) = 1
      BY DEF Home, Place, Characteristics
    <3>2. (version < 6 /\ version' # Home(Characteristics)) \/ Place(Characteristics) <= Position'
      BY <1>1, <2>1, <3>1 DEF Made
    <3> QED BY <1>1, <1>7, <2>1, <3>1, <3>2
  <2> QED BY <1>5, <1>9, <2>1, ViewNames DEF ViewsStay, IInv
<1>12. NothingElse' /\ NothingLost'
  BY <1>5, <1>6, <1>9, ViewNames DEF NothingElse, NothingLost, IInv
<1>13. EveryRowCounted'
  BY <1>5, <1>6, <1>9, ViewNames DEF EveryRowCounted, IInv
<1>14. JoinsKept'
  BY <1>5, <1>6 DEF JoinsKept, IInv
<1> QED BY <1>8, <1>10, <1>11, <1>12, <1>13, <1>14 DEF IInv

LEMMA CrashKeeps ==
  ASSUME IInv, NEW c \in Clients, Crash(c) PROVE IInv'
<1>1. /\ IF c = "migrator" THEN ~Migrated ELSE todo[c] # <<>>
      /\ todo' = [todo EXCEPT ![c] = IF c = "migrator" THEN Migrations[version] ELSE <<>>]
      /\ UNCHANGED <<tables, attached, summaries, version, due, whole>>
  BY DEF Crash
<1>2. PICK left : /\ left = fills[c] \/ left = NoFill \/ left = fills["gone"]
                  /\ fills' = [fills EXCEPT ![c] = NoFill, !["gone"] = left]
  BY DEF Crash
<1>3. /\ DOMAIN fills' = DOMAIN fills /\ fills'[c] = NoFill /\ fills'["gone"] = left
      /\ \A d \in Clients : d # c => fills'[d] = fills[d]
      /\ \E d \in Clients \cup {"gone"} : left = fills[d] \/ left = NoFill
  BY <1>2 DEF IInv, ClientsOK, Clients
<1>4. attached' = attached /\ stored' = stored /\ counted' = counted /\ due' = due /\ version' = version
      /\ whole' = whole /\ events' = events /\ pulls' = pulls /\ scans' = scans
  BY <1>1 DEF summaries, tables
<1>5. \A u : Keys(u)' = Keys(u) /\ Counts(u)' = Counts(u)
  BY <1>1, SameKeys
<1>6. /\ DOMAIN todo' = Clients
      /\ \A d \in Clients : todo'[d] = IF d # c THEN todo[d]
                                       ELSE IF c = "migrator" THEN Migrations[version] ELSE <<>>
  BY <1>1 DEF IInv, ClientsOK
<1>7. ASSUME c = "migrator"
      PROVE  /\ version < 7 /\ version \in 1 .. 7 /\ Position' = 0 /\ Length(version) \in Nat
             /\ todo'["migrator"] = SubSeq(Migrations[version], 0 + 1, Length(version))
  <2>1. version \in 1 .. 7 /\ version < 7
    BY <1>1, <1>7, Layout DEF Migrated, IInv, ClientsOK, MigratorOK
  <2>2. Migrations[version] \in Seq(AllStatements) /\ Len(Migrations[version]) = Length(version)
    BY <2>1, Layout DEF Laid
  <2>3. Length(version) \in Nat
    BY DEF Length
  <2>4. SubSeq(Migrations[version], 1, Length(version)) = Migrations[version]
    BY <2>2, SubSeqFull
  <2>5. todo'["migrator"] = Migrations[version]
    BY <1>6, <1>7
  <2>6. Position' = Length(version) - Len(todo'["migrator"])
    BY <1>4 DEF Position
  <2> QED BY <2>1, <2>2, <2>3, <2>4, <2>5, <2>6
<1>8. c # "migrator" => todo'["migrator"] = todo["migrator"] /\ Position' = Position
  BY <1>4, <1>6 DEF Position, Clients
<1>9. \A u \in Views : (Made(u)' => Made(u)) /\ (Filled(u)' => Filled(u))
  <2> SUFFICES ASSUME NEW u \in Views PROVE (Made(u)' => Made(u)) /\ (Filled(u)' => Filled(u))
    OBVIOUS
  <2>1. /\ Place(u) \in Nat /\ FillPlace(u) \in Nat /\ 1 <= Place(u) /\ Place(u) < FillPlace(u)
    BY Places
  <2>2. CASE c = "migrator"
    BY <1>4, <1>7, <2>1, <2>2 DEF Made, Filled
  <2>3. CASE c # "migrator"
    BY <1>4, <1>8, <2>3 DEF Made, Filled
  <2> QED BY <2>2, <2>3
<1>10. ClientsOK'
  <2>1. \A d \in Clients \cup {"gone"} : FillOK(fills[d])'
    <3>1. FillOK(left)'
      BY <1>3 DEF IInv, ClientsOK, FillOK, NoFill
    <3> QED BY <1>3, <3>1 DEF IInv, ClientsOK, FillOK, NoFill
  <2>2. MigratorOK'
    <3>1. CASE c = "migrator"
      <4>1. Position' \in 0 .. Length(version') /\ Position' + 1 = 0 + 1 /\ version' # 7
        BY <1>4, <1>7, <3>1
      <4> QED BY <1>3, <1>4, <1>7, <3>1, <4>1 DEF MigratorOK
    <3>2. CASE c # "migrator"
      <4>1. fills'["migrator"] = fills["migrator"]
        BY <1>3, <3>2 DEF Clients
      <4> QED BY <1>4, <1>8, <3>2, <4>1 DEF IInv, ClientsOK, MigratorOK
    <3> QED BY <3>1, <3>2
  <2>3. OperatorOK'
    <3>1. CASE c = "operator"
      BY <1>3, <1>4, <1>6, <3>1 DEF OperatorOK
    <3>2. CASE c # "operator"
      <4>1. fills'["operator"] = fills["operator"] /\ todo'["operator"] = todo["operator"]
        BY <1>3, <1>6, <3>2 DEF Clients
      <4> QED BY <1>4, <4>1 DEF IInv, ClientsOK, OperatorOK
    <3> QED BY <3>1, <3>2
  <2> QED BY <1>3, <1>6, <2>1, <2>2, <2>3 DEF IInv, ClientsOK
<1>11. TablesOK'
  BY <1>4 DEF TablesOK, IInv
<1>12. ViewsStay'
  BY <1>4, <1>9, ViewNames DEF ViewsStay, IInv
<1>13. NothingElse'
  <2>1. ASSUME NEW u \in DistinctViews, NEW d \in Clients \cup {"gone"}, fills'[d].view = u
        PROVE  fills'[d].rows \subseteq Keys(u)
    <3>1. PICK e \in Clients \cup {"gone"} : fills'[d] = fills[e] \/ fills'[d] = NoFill
      BY <1>3
    <3>2. fills'[d] = fills[e]
      BY <2>1, <3>1, ViewNames
    <3> QED BY <2>1, <3>2 DEF IInv, NothingElse
  <2> QED BY <1>4, <1>5, <2>1 DEF NothingElse, IInv
<1>14. fills'["migrator"].view \in Views => fills'["migrator"] = fills["migrator"]
  BY <1>3, ViewNames DEF Clients
<1>15. NothingLost'
  BY <1>4, <1>5, <1>9, <1>14, ViewNames DEF NothingLost, IInv
<1>16. EveryRowCounted'
  BY <1>4, <1>5, <1>9, <1>14, ViewNames DEF EveryRowCounted, IInv
<1>17. JoinsKept'
  <2>1. \A d \in Clients : fills'[d].view = Characteristics => fills'[d] = fills[d]
    BY <1>3, ViewNames
  <2> QED BY <1>4, <1>5, <2>1 DEF JoinsKept, IInv
<1> QED BY <1>10, <1>11, <1>12, <1>13, <1>15, <1>16, <1>17 DEF IInv

LEMMA OperateKeeps ==
  ASSUME IInv, NEW commands \in {DetachMV, ReattachMV}, Operate(commands) PROVE IInv'
<1>1. /\ version > 2 /\ todo["operator"] = <<>>
      /\ todo' = [todo EXCEPT !["operator"] = commands]
      /\ UNCHANGED <<tables, attached, summaries, version, fills, due, whole>>
  BY DEF Operate
<1>2. DOMAIN todo' = Clients /\ todo'["operator"] = commands /\ todo'["migrator"] = todo["migrator"]
  BY <1>1 DEF IInv, ClientsOK, Clients
<1>3. attached' = attached /\ stored' = stored /\ counted' = counted /\ due' = due /\ version' = version
      /\ whole' = whole /\ events' = events /\ pulls' = pulls /\ scans' = scans /\ fills' = fills
  BY <1>1 DEF summaries, tables
<1>4. \A u : Keys(u)' = Keys(u) /\ Counts(u)' = Counts(u)
  BY <1>1, SameKeys
<1>5. \A u : Made(u)' = Made(u) /\ Filled(u)' = Filled(u)
  BY <1>2, <1>3 DEF Made, Filled, Position
<1>6. fills["operator"] = NoFill
  BY <1>1 DEF IInv, ClientsOK, OperatorOK
<1>7. commands # <<Fill(Characteristics)>>
  BY DEF DetachMV, ReattachMV, Drop, Fill
<1>8. ClientsOK'
  <2>1. \A d \in Clients \cup {"gone"} : FillOK(fills[d])'
    BY <1>3 DEF IInv, ClientsOK, FillOK, NoFill
  <2>2. MigratorOK'
    BY <1>2, <1>3 DEF IInv, ClientsOK, MigratorOK, Position
  <2>3. ~(version' <= 2)
    BY <1>1 DEF IInv, ClientsOK, MigratorOK
  <2>4. OperatorOK'
    BY <1>2, <1>3, <1>6, <1>7, <2>3 DEF OperatorOK
  <2> QED BY <1>2, <1>3, <2>1, <2>2, <2>4 DEF IInv, ClientsOK
<1>9. TablesOK' /\ ViewsStay'
  BY <1>3, <1>5 DEF TablesOK, ViewsStay, IInv
<1>10. NothingElse' /\ NothingLost'
  BY <1>3, <1>4, <1>5 DEF NothingElse, NothingLost, IInv
<1>11. EveryRowCounted' /\ JoinsKept'
  BY <1>3, <1>4, <1>5 DEF EveryRowCounted, JoinsKept, IInv
<1> QED BY <1>8, <1>9, <1>10, <1>11 DEF IInv

-----------------------------------------------------------------------------
(* The inserts of the pipeline, and the merges *)

KeysSay ==
  /\ \A v \in PairViews : Keys(v) = events
  /\ \A v \in EventPRViews : Keys(v) = PRsOf(events)
  /\ Keys("pr_comments_repo_bot_combos") = comments
  /\ Keys("pr_bot_reactions_pr_summary") = PRsOf(reactions)
  /\ Keys(Characteristics) =
       {<<e[1], ProductOf[e[2]]>> : e \in {d \in events : pulls[d[1]] # <<>>}}
  /\ Counts("pull_requests_enrichment_summary") = [p \in PRs |-> Rows(p, "found")]
  /\ Counts("reaction_scan_repo_summary") = scans

LEMMA KeysAre == KeysSay
<1> USE DEF Keys, PairViews, EventPRViews, Characteristics
<1>1. \A v \in PairViews : Keys(v) = events
  OBVIOUS
<1>2. \A v \in EventPRViews : Keys(v) = PRsOf(events)
  OBVIOUS
<1>3. Keys("pr_comments_repo_bot_combos") = comments
  OBVIOUS
<1>4. Keys("pr_bot_reactions_pr_summary") = PRsOf(reactions)
  OBVIOUS
<1>5. Keys(Characteristics) =
        {<<e[1], ProductOf[e[2]]>> : e \in {d \in events : pulls[d[1]] # <<>>}}
  OBVIOUS
<1>6. Counts("pull_requests_enrichment_summary") = [p \in PRs |-> Rows(p, "found")]
  BY DEF Counts
<1>7. Counts("reaction_scan_repo_summary") = scans
  BY DEF Counts
<1> QED BY <1>1, <1>2, <1>3, <1>4, <1>5, <1>6, <1>7 DEF KeysSay

\* Of a sequence of rows, those that say "found": a row more is one more or none, and a merge
\* leaves no more than there were.
Found(s) == Cardinality({i \in DOMAIN s : s[i] = "found"})

LEMMA FoundFinite ==
  ASSUME NEW s \in Seq({"found", "gone"})
  PROVE  IsFiniteSet({i \in DOMAIN s : s[i] = "found"}) /\ Found(s) \in Nat
<1>1. IsFiniteSet(1 .. Len(s)) /\ DOMAIN s = 1 .. Len(s)
  BY FS_Interval
<1>2. IsFiniteSet({i \in DOMAIN s : s[i] = "found"})
  BY <1>1, FS_Subset
<1> QED BY <1>2, FS_CardinalityType DEF Found

LEMMA FoundAppend ==
  ASSUME NEW s \in Seq({"found", "gone"}), NEW row \in {"found", "gone"}
  PROVE  Found(Append(s, row)) = IF row = "found" THEN Found(s) + 1 ELSE Found(s)
<1> DEFINE old == {i \in DOMAIN s : s[i] = "found"}
           new == {i \in DOMAIN Append(s, row) : Append(s, row)[i] = "found"}
<1>1. IsFiniteSet(old)
  BY FoundFinite
<1>2. /\ Len(s) \in Nat /\ Len(Append(s, row)) = Len(s) + 1
      /\ DOMAIN s = 1 .. Len(s) /\ DOMAIN Append(s, row) = 1 .. Len(s) + 1
      /\ Append(s, row)[Len(s) + 1] = row
      /\ \A i \in 1 .. Len(s) : Append(s, row)[i] = s[i]
  OBVIOUS
<1>3. \A i : i \in 1 .. Len(s) + 1 <=> i \in 1 .. Len(s) \/ i = Len(s) + 1
  BY <1>2
<1>4. Len(s) + 1 \notin 1 .. Len(s)
  BY <1>2
<1>5. CASE row = "found"
  <2>1. new = old \cup {Len(s) + 1} /\ Len(s) + 1 \notin old
    BY <1>2, <1>3, <1>4, <1>5
  <2>2. Cardinality(new) = Cardinality(old) + 1
    BY <1>1, <2>1, FS_AddElement
  <2> QED BY <1>5, <2>2 DEF Found
<1>6. CASE row # "found"
  <2>1. new = old
    BY <1>2, <1>3, <1>4, <1>6
  <2> QED BY <1>6, <2>1 DEF Found
<1> QED BY <1>5, <1>6

LEMMA FoundNewest ==
  ASSUME NEW s \in Seq({"found", "gone"})
  PROVE  /\ Newest(s) \in Seq({"found", "gone"}) /\ Found(Newest(s)) <= Found(s)
         /\ s # <<>> => Newest(s) # <<>>
<1>1. CASE s = <<>>
  <2>1. Newest(s) = s
    BY <1>1 DEF Newest
  <2>2. Found(s) \in Nat
    BY FoundFinite
  <2>3. Found(s) <= Found(s)
    BY <2>2
  <2>4. Found(Newest(s)) <= Found(s)
    BY <2>1, <2>3
  <2> QED BY <1>1, <2>1, <2>4
<1>2. CASE s # <<>>
  <2> DEFINE n == Len(s)
  <2>1. n \in Nat /\ n \in DOMAIN s /\ s[n] \in {"found", "gone"}
    BY <1>2
  <2>2. Newest(s) = <<s[n]>> /\ Newest(s) \in Seq({"found", "gone"}) /\ Newest(s) # <<>>
    BY <1>2, <2>1 DEF Newest
  <2>3. CASE s[n] = "found"
    <3>1. {i \in DOMAIN Newest(s) : Newest(s)[i] = "found"} = {1}
      BY <2>2, <2>3
    <3>2. Found(Newest(s)) = 1
      BY <3>1, FS_Singleton DEF Found
    <3>3. {n} \subseteq {i \in DOMAIN s : s[i] = "found"}
      BY <2>1, <2>3
    <3>4. Cardinality({n}) <= Found(s)
      BY <3>3, FoundFinite, FS_Subset DEF Found
    <3> QED BY <2>2, <3>2, <3>4, FS_Singleton
  <2>4. CASE s[n] # "found"
    <3>1. {i \in DOMAIN Newest(s) : Newest(s)[i] = "found"} = {}
      BY <2>2, <2>4
    <3>2. Found(Newest(s)) = 0
      BY <3>1, FS_EmptySet DEF Found
    <3>3. Found(s) \in Nat
      BY FoundFinite
    <3>4. Found(Newest(s)) <= Found(s)
      BY <3>2, <3>3
    <3> QED BY <2>2, <3>4
  <2> QED BY <2>3, <2>4
<1> QED BY <1>1, <1>2

LEMMA RowsFound == \A p : Rows(p, "found") = Found(pulls[p])
BY DEF Rows, Found

\* What a step on the tables has to see to: what a view would select more, it has fed to the
\* summary if it is there, and what is due is in the summary or was due before.
Fed ==
  /\ \A v \in DistinctViews : \E K :
       /\ Keys(v)' = Keys(v) \cup K
       /\ stored[v] \subseteq stored'[v] /\ stored'[v] \subseteq stored[v] \cup K
       /\ v \in attached => K \subseteq stored'[v]
  /\ \A v \in CountingViews \cap attached : \A p \in PRs : \E d \in {0, 1} :
       Counts(v)'[p] <= Counts(v)[p] + d /\ counted'[v][p] = counted[v][p] + d
  /\ due' \subseteq Keys(Characteristics)'
  /\ stored[Characteristics] \subseteq stored'[Characteristics]
  /\ Characteristics \in attached => due' \subseteq due \cup stored'[Characteristics]
  /\ Characteristics \notin attached => stored'[Characteristics] = stored[Characteristics]

LEMMA FedKeeps ==
  ASSUME IInv, UNCHANGED <<attached, clients, whole>>, TablesOK', Fed
  PROVE  IInv'
<1>1. attached' = attached /\ whole' = whole /\ version' = version /\ todo' = todo /\ fills' = fills
  BY DEF clients
<1>2. \A u : Made(u)' = Made(u) /\ Filled(u)' = Filled(u)
  BY <1>1 DEF Made, Filled, Position
<1>3. ClientsOK'
  <2>1. \A d \in Clients \cup {"gone"} : FillOK(fills[d])'
    BY <1>1 DEF IInv, ClientsOK, FillOK, NoFill
  <2>2. MigratorOK'
    BY <1>1 DEF IInv, ClientsOK, MigratorOK, Position
  <2>3. OperatorOK'
    BY <1>1 DEF IInv, ClientsOK, OperatorOK
  <2> QED BY <1>1, <2>1, <2>2, <2>3 DEF IInv, ClientsOK
<1>4. ViewsStay'
  BY <1>1, <1>2 DEF IInv, ViewsStay
<1>5. \A v \in DistinctViews \cup CountingViews :
        Filled(v) \/ fills["migrator"].view = v => v \in attached
  <2> SUFFICES ASSUME NEW v \in DistinctViews \cup CountingViews,
                      Filled(v) \/ fills["migrator"].view = v
               PROVE  Made(v)
    BY DEF IInv, ViewsStay
  <2>1. v \in Views
    BY ViewNames
  <2>2. CASE Filled(v)
    <3>1. Place(v) \in Nat /\ FillPlace(v) \in Nat /\ Place(v) < FillPlace(v)
      BY <2>1, Places
    <3>2. Home(v) = version => Position \in Int
      BY DEF IInv, ClientsOK, MigratorOK, Position, Home, Length
    <3>3. ASSUME Home(v) = version, FillPlace(v) <= Position PROVE Place(v) <= Position
      BY <3>1, <3>2, <3>3
    <3> QED BY <2>2, <3>3 DEF Made, Filled
  <2>3. CASE fills["migrator"].view = v
    <3>1. fills["migrator"] # NoFill
      BY <2>1, <2>3, ViewNames
    <3> QED BY <2>3, <3>1, BeingFilled DEF IInv
  <2> QED BY <2>2, <2>3
<1>6. NothingElse' /\ NothingLost'
  <2> SUFFICES ASSUME NEW v \in DistinctViews
               PROVE  /\ stored'[v] \subseteq Keys(v)'
                      /\ \A c \in Clients \cup {"gone"} : fills[c].view = v => fills[c].rows \subseteq Keys(v)'
                      /\ Filled(v) => Keys(v)' \subseteq stored'[v]
                      /\ fills["migrator"].view = v => Keys(v)' \subseteq stored'[v] \cup fills["migrator"].rows
    BY <1>1, <1>2 DEF NothingElse, NothingLost
  <2>1. PICK K : /\ Keys(v)' = Keys(v) \cup K
                 /\ stored[v] \subseteq stored'[v] /\ stored'[v] \subseteq stored[v] \cup K
                 /\ v \in attached => K \subseteq stored'[v]
    BY DEF Fed
  <2>2. /\ stored[v] \subseteq Keys(v)
        /\ \A c \in Clients \cup {"gone"} : fills[c].view = v => fills[c].rows \subseteq Keys(v)
        /\ Filled(v) => Keys(v) \subseteq stored[v]
        /\ fills["migrator"].view = v => Keys(v) \subseteq stored[v] \cup fills["migrator"].rows
    BY DEF IInv, NothingElse, NothingLost
  <2> QED BY <1>5, <2>1, <2>2
<1>7. EveryRowCounted'
  <2> SUFFICES ASSUME NEW v \in CountingViews, NEW p \in PRs
               PROVE  /\ Filled(v) => Counts(v)'[p] <= counted'[v][p]
                      /\ fills["migrator"].view = v =>
                           Counts(v)'[p] <= counted'[v][p] + fills["migrator"].rows[p]
    BY <1>1, <1>2 DEF EveryRowCounted
  <2>1. CASE v \notin attached
    BY <1>5, <2>1
  <2>2. CASE v \in attached
    <3>1. PICK d \in {0, 1} : Counts(v)'[p] <= Counts(v)[p] + d /\ counted'[v][p] = counted[v][p] + d
      BY <2>2 DEF Fed
    <3>2. Counts(v)[p] \in Nat /\ counted[v][p] \in Nat /\ counted'[v][p] \in Nat
      BY CountsType DEF IInv, TablesOK
    <3>3. (Counts(v)[p])' \in Nat
      <4>1. CountsOK'
        BY AllCounts, PTL
      <4> QED BY <4>1 DEF CountsOK
    <3> DEFINE n == Counts(v)[p]  m == Counts(v)'[p]  a == counted[v][p]  b == counted'[v][p]
               q == fills["migrator"].rows[p]
    <3>4. n \in Nat /\ m \in Nat /\ a \in Nat /\ b = a + d /\ m <= n + d
      BY <3>1, <3>2, <3>3
    <3>5. /\ Filled(v) => n <= a
          /\ fills["migrator"].view = v => q \in Nat /\ n <= a + q
      BY ViewNames DEF IInv, EveryRowCounted, ClientsOK, FillOK, Clients
    <3> HIDE DEF n, m, a, b, q
    <3>6. Filled(v) => m <= b
      BY <3>4, <3>5
    <3>7. fills["migrator"].view = v => m <= b + q
      BY <3>4, <3>5
    <3> QED BY <3>6, <3>7 DEF m, b, q
  <2> QED BY <2>1, <2>2
<1>8. JoinsKept'
  <2>1. /\ due \subseteq Keys(Characteristics)
        /\ whole => due \subseteq stored[Characteristics]
        /\ \A c \in Clients : fills[c].view = Characteristics =>
                                due \subseteq stored[Characteristics] \cup fills[c].rows
    BY DEF IInv, JoinsKept
  <2>2. whole => Characteristics \in attached
    BY DEF IInv, ViewsStay
  <2>3. ASSUME NEW c \in Clients, fills[c].view = Characteristics PROVE Characteristics \in attached
    <3>1. fills[c] # NoFill
      BY <2>3, ViewNames
    <3>2. CASE c = "operator"
      BY <3>1, <3>2 DEF IInv, ClientsOK, OperatorOK
    <3>3. CASE c = "migrator"
      <4>1. Home(Characteristics) = version /\ Made(Characteristics)
        BY <2>3, <3>1, <3>3, BeingFilled DEF IInv
      <4>2. Home(Characteristics) = 2
        BY DEF Home, Characteristics
      <4> QED BY <4>1, <4>2 DEF IInv, ViewsStay
    <3> QED BY <3>2, <3>3 DEF Clients
  <2> QED BY <1>1, <2>1, <2>2, <2>3 DEF JoinsKept, Fed
<1> QED BY <1>3, <1>4, <1>6, <1>7, <1>8 DEF IInv

\* A block that reaches its views: what it adds to their keys is what it brings.
LEMMA FedFeed ==
  ASSUME TablesOK, NEW keys, Feed(keys), counted' = counted, due' = due,
         due \subseteq Keys(Characteristics), Keys(Characteristics) \subseteq Keys(Characteristics)',
         Characteristics \notin DOMAIN keys,
         \A v \in CountingViews : Counts(v)' = Counts(v),
         \A v \in DistinctViews :
           Keys(v)' = IF v \in DOMAIN keys THEN Keys(v) \cup {keys[v]} ELSE Keys(v)
  PROVE  Fed /\ DOMAIN stored' = AllDistinct
<1>1. /\ DOMAIN stored' = AllDistinct
      /\ \A v \in AllDistinct : stored'[v] =
           IF v \in attached \cap DOMAIN keys THEN stored[v] \cup {keys[v]} ELSE stored[v]
  BY DEF TablesOK, Feed
<1>2. \A v \in DistinctViews : \E K :
        /\ Keys(v)' = Keys(v) \cup K
        /\ stored[v] \subseteq stored'[v] /\ stored'[v] \subseteq stored[v] \cup K
        /\ v \in attached => K \subseteq stored'[v]
  <2> SUFFICES ASSUME NEW v \in DistinctViews
               PROVE  \E K : /\ Keys(v)' = Keys(v) \cup K
                             /\ stored[v] \subseteq stored'[v] /\ stored'[v] \subseteq stored[v] \cup K
                             /\ v \in attached => K \subseteq stored'[v]
    OBVIOUS
  <2>1. CASE v \in DOMAIN keys
    <3> DEFINE K == {keys[v]}
    <3>1. /\ Keys(v)' = Keys(v) \cup K
          /\ stored[v] \subseteq stored'[v] /\ stored'[v] \subseteq stored[v] \cup K
          /\ v \in attached => K \subseteq stored'[v]
      BY <1>1, <2>1, ViewNames
    <3> QED BY <3>1
  <2>2. CASE v \notin DOMAIN keys
    <3> DEFINE K == {}
    <3>1. /\ Keys(v)' = Keys(v) \cup K
          /\ stored[v] \subseteq stored'[v] /\ stored'[v] \subseteq stored[v] \cup K
          /\ v \in attached => K \subseteq stored'[v]
      BY <1>1, <2>2, ViewNames
    <3> HIDE DEF K
    <3> QED BY <3>1
  <2> QED BY <2>1, <2>2
<1>3. \A v \in CountingViews \cap attached : \A p \in PRs : \E d \in {0, 1} :
        Counts(v)'[p] <= Counts(v)[p] + d /\ counted'[v][p] = counted[v][p] + d
  <2> SUFFICES ASSUME NEW v \in CountingViews, NEW p \in PRs
               PROVE  Counts(v)'[p] <= Counts(v)[p] + 0 /\ counted'[v][p] = counted[v][p] + 0
    OBVIOUS
  <2>1. Counts(v)[p] \in Nat /\ counted[v][p] \in Nat
    BY CountsType DEF TablesOK
  <2> QED BY <2>1
<1>4. stored'[Characteristics] = stored[Characteristics]
  BY <1>1, ViewNames
<1> QED BY <1>1, <1>2, <1>3, <1>4 DEF Fed

LEMMA NextKeysAre == KeysSay'
BY KeysAre, PTL

LEMMA PRsOfAdd ==
  ASSUME NEW E, NEW p, NEW b PROVE PRsOf(E \cup {<<p, b>>}) = PRsOf(E) \cup {p}
<1>1. <<p, b>>[1] = p
  OBVIOUS
<1>2. ASSUME NEW x \in PRsOf(E \cup {<<p, b>>}) PROVE x \in PRsOf(E) \cup {p}
  BY <1>1 DEF PRsOf
<1>3. ASSUME NEW x \in PRsOf(E) \cup {p} PROVE x \in PRsOf(E \cup {<<p, b>>})
  <2>1. CASE x = p
    BY <1>1, <2>1 DEF PRsOf
  <2>2. CASE x \in PRsOf(E)
    BY <2>2 DEF PRsOf
  <2> QED BY <1>3, <2>1, <2>2
<1> QED BY <1>2, <1>3

LEMMA InsertPrBotEventsKeeps ==
  ASSUME IInv, NEW p \in PRs, NEW b \in Bots, InsertPrBotEvents(p, b) PROVE IInv'
<1> DEFINE keys == [v \in PairViews \cup EventPRViews |-> IF v \in PairViews THEN <<p, b>> ELSE p]
<1>1. /\ events' = events \cup {<<p, b>>} /\ Feed(keys)
      /\ UNCHANGED <<pulls, comments, scans, reactions, repos, counted, due>>
      /\ UNCHANGED <<attached, clients, whole>>
  BY DEF InsertPrBotEvents, Insert
<1>2. /\ DOMAIN keys = PairViews \cup EventPRViews
      /\ \A v \in PairViews : keys[v] = <<p, b>>
      /\ \A v \in EventPRViews : v \notin PairViews /\ keys[v] = p
  BY DEF PairViews, EventPRViews
<1> HIDE DEF keys
<1>3. PRsOf(events)' = PRsOf(events) \cup {p} /\ PRsOf(reactions)' = PRsOf(reactions)
  <2>1. PRsOf(events') = PRsOf(events) \cup {p}
    BY <1>1, PRsOfAdd
  <2> QED BY <1>1, <2>1 DEF PRsOf
<1>4. \A v \in DistinctViews :
        Keys(v)' = IF v \in DOMAIN keys THEN Keys(v) \cup {keys[v]} ELSE Keys(v)
  <2>1. \A v \in PairViews : Keys(v)' = Keys(v) \cup {<<p, b>>}
    BY <1>1, KeysAre, NextKeysAre DEF KeysSay
  <2>2. \A v \in EventPRViews : Keys(v)' = Keys(v) \cup {p}
    BY <1>3, KeysAre, NextKeysAre DEF KeysSay
  <2>3. \A v \in {"pr_comments_repo_bot_combos", "pr_bot_reactions_pr_summary"} :
          Keys(v)' = Keys(v) /\ v \notin PairViews \cup EventPRViews
    BY <1>1, <1>3, KeysAre, NextKeysAre DEF KeysSay, PairViews, EventPRViews
  <2> QED BY <1>2, <2>1, <2>2, <2>3 DEF DistinctViews
<1>5. Keys(Characteristics) \subseteq Keys(Characteristics)'
  BY <1>1, KeysAre, NextKeysAre DEF KeysSay
<1>6. \A v \in CountingViews : Counts(v)' = Counts(v)
  BY <1>1, KeysAre, NextKeysAre DEF KeysSay, CountingViews, Rows
<1>7. Characteristics \notin DOMAIN keys
  BY <1>2 DEF Characteristics, PairViews, EventPRViews
<1>8. Fed /\ DOMAIN stored' = AllDistinct
  BY <1>1, <1>4, <1>5, <1>6, <1>7, FedFeed DEF IInv, JoinsKept
<1>9. TablesOK'
  BY <1>1, <1>8 DEF IInv, TablesOK
<1> QED BY <1>1, <1>8, <1>9, FedKeeps

LEMMA InsertPrCommentsKeeps ==
  ASSUME IInv, NEW p \in PRs, NEW b \in Bots, InsertPrComments(p, b) PROVE IInv'
<1> DEFINE keys == [v \in {"pr_comments_repo_bot_combos"} |-> <<p, b>>]
<1>1. /\ comments' = comments \cup {<<p, b>>} /\ Feed(keys)
      /\ UNCHANGED <<events, pulls, scans, reactions, repos, counted, due>>
      /\ UNCHANGED <<attached, clients, whole>>
  BY DEF InsertPrComments, Insert
<1>2. DOMAIN keys = {"pr_comments_repo_bot_combos"} /\ keys["pr_comments_repo_bot_combos"] = <<p, b>>
  OBVIOUS
<1> HIDE DEF keys
<1>3. PRsOf(events)' = PRsOf(events) /\ PRsOf(reactions)' = PRsOf(reactions)
  BY <1>1 DEF PRsOf
<1>4. \A v \in DistinctViews :
        Keys(v)' = IF v \in DOMAIN keys THEN Keys(v) \cup {keys[v]} ELSE Keys(v)
  <2>1. Keys("pr_comments_repo_bot_combos")' = Keys("pr_comments_repo_bot_combos") \cup {<<p, b>>}
    BY <1>1, KeysAre, NextKeysAre DEF KeysSay
  <2>2. \A v \in PairViews \cup EventPRViews \cup {"pr_bot_reactions_pr_summary"} :
          Keys(v)' = Keys(v) /\ v # "pr_comments_repo_bot_combos"
    BY <1>1, <1>3, KeysAre, NextKeysAre DEF KeysSay, PairViews, EventPRViews
  <2> QED BY <1>2, <2>1, <2>2 DEF DistinctViews
<1>5. Keys(Characteristics) \subseteq Keys(Characteristics)'
  BY <1>1, KeysAre, NextKeysAre DEF KeysSay
<1>6. \A v \in CountingViews : Counts(v)' = Counts(v)
  BY <1>1, KeysAre, NextKeysAre DEF KeysSay, CountingViews, Rows
<1>7. Characteristics \notin DOMAIN keys
  BY <1>2 DEF Characteristics
<1>8. Fed /\ DOMAIN stored' = AllDistinct
  BY <1>1, <1>4, <1>5, <1>6, <1>7, FedFeed DEF IInv, JoinsKept
<1>9. TablesOK'
  BY <1>1, <1>8 DEF IInv, TablesOK
<1> QED BY <1>1, <1>8, <1>9, FedKeeps

LEMMA InsertPrBotReactionsKeeps ==
  ASSUME IInv, NEW p \in PRs, NEW b \in Bots, InsertPrBotReactions(p, b) PROVE IInv'
<1> DEFINE keys == [v \in {"pr_bot_reactions_pr_summary"} |-> p]
<1>1. /\ reactions' = reactions \cup {<<p, b>>} /\ Feed(keys)
      /\ UNCHANGED <<events, pulls, comments, scans, repos, counted, due>>
      /\ UNCHANGED <<attached, clients, whole>>
  BY DEF InsertPrBotReactions, Insert
<1>2. DOMAIN keys = {"pr_bot_reactions_pr_summary"} /\ keys["pr_bot_reactions_pr_summary"] = p
  OBVIOUS
<1> HIDE DEF keys
<1>3. PRsOf(events)' = PRsOf(events) /\ PRsOf(reactions)' = PRsOf(reactions) \cup {p}
  <2>1. PRsOf(reactions') = PRsOf(reactions) \cup {p}
    BY <1>1, PRsOfAdd
  <2> QED BY <1>1, <2>1 DEF PRsOf
<1>4. \A v \in DistinctViews :
        Keys(v)' = IF v \in DOMAIN keys THEN Keys(v) \cup {keys[v]} ELSE Keys(v)
  <2>1. Keys("pr_bot_reactions_pr_summary")' = Keys("pr_bot_reactions_pr_summary") \cup {p}
    BY <1>3, KeysAre, NextKeysAre DEF KeysSay
  <2>2. \A v \in PairViews \cup EventPRViews \cup {"pr_comments_repo_bot_combos"} :
          Keys(v)' = Keys(v) /\ v # "pr_bot_reactions_pr_summary"
    BY <1>1, <1>3, KeysAre, NextKeysAre DEF KeysSay, PairViews, EventPRViews
  <2> QED BY <1>2, <2>1, <2>2 DEF DistinctViews
<1>5. Keys(Characteristics) \subseteq Keys(Characteristics)'
  BY <1>1, KeysAre, NextKeysAre DEF KeysSay
<1>6. \A v \in CountingViews : Counts(v)' = Counts(v)
  BY <1>1, KeysAre, NextKeysAre DEF KeysSay, CountingViews, Rows
<1>7. Characteristics \notin DOMAIN keys
  BY <1>2 DEF Characteristics
<1>8. Fed /\ DOMAIN stored' = AllDistinct
  BY <1>1, <1>4, <1>5, <1>6, <1>7, FedFeed DEF IInv, JoinsKept
<1>9. TablesOK'
  BY <1>1, <1>8 DEF IInv, TablesOK
<1> QED BY <1>1, <1>8, <1>9, FedKeeps

\* The steps that bring no summary of keys anything.
LEMMA FedCounts ==
  ASSUME TablesOK, \A v \in DistinctViews : Keys(v)' = Keys(v) /\ stored'[v] = stored[v]
  PROVE  \A v \in DistinctViews : \E K :
           /\ Keys(v)' = Keys(v) \cup K
           /\ stored[v] \subseteq stored'[v] /\ stored'[v] \subseteq stored[v] \cup K
           /\ v \in attached => K \subseteq stored'[v]
<1> SUFFICES ASSUME NEW v \in DistinctViews
             PROVE  \E K : /\ Keys(v)' = Keys(v) \cup K
                           /\ stored[v] \subseteq stored'[v] /\ stored'[v] \subseteq stored[v] \cup K
                           /\ v \in attached => K \subseteq stored'[v]
  OBVIOUS
<1> DEFINE K == {}
<1>1. /\ Keys(v)' = Keys(v) \cup K
      /\ stored[v] \subseteq stored'[v] /\ stored'[v] \subseteq stored[v] \cup K
      /\ v \in attached => K \subseteq stored'[v]
  OBVIOUS
<1> HIDE DEF K
<1> QED BY <1>1

\* The views of keys do not read pull_requests, reaction_scan_progress or repos.
LEMMA KeysAside ==
  ASSUME events' = events, comments' = comments, reactions' = reactions
  PROVE  \A v \in DistinctViews : Keys(v)' = Keys(v)
<1>1. PRsOf(events)' = PRsOf(events) /\ PRsOf(reactions)' = PRsOf(reactions)
  BY DEF PRsOf
<1>2. \A v \in PairViews \cup EventPRViews
                 \cup {"pr_comments_repo_bot_combos", "pr_bot_reactions_pr_summary"} :
        Keys(v)' = Keys(v)
  BY <1>1, KeysAre, NextKeysAre DEF KeysSay
<1> QED BY <1>2 DEF DistinctViews

LEMMA InsertReactionScanProgressKeeps ==
  ASSUME IInv, NEW p \in PRs, InsertReactionScanProgress(p) PROVE IInv'
<1> DEFINE s == "reaction_scan_repo_summary"
<1>1. /\ scans' = [scans EXCEPT ![p] = @ + 1] /\ Count(s, p)
      /\ UNCHANGED <<events, pulls, comments, reactions, repos, stored, due>>
      /\ UNCHANGED <<attached, clients, whole>>
  BY DEF InsertReactionScanProgress, Insert
<1>2. TablesOK
  BY DEF IInv
<1>3. scans \in [PRs -> Nat] /\ counted \in [CountingViews -> [PRs -> Nat]] /\ s \in CountingViews
  BY <1>2 DEF TablesOK, CountingViews
<1>4. \A v \in DistinctViews : Keys(v)' = Keys(v) /\ stored'[v] = stored[v]
  BY <1>1, KeysAside
<1>5. Keys(Characteristics)' = Keys(Characteristics)
  BY <1>1, KeysAre, NextKeysAre DEF KeysSay
<1>6. ASSUME NEW v \in CountingViews \cap attached, NEW q \in PRs
      PROVE  \E d \in {0, 1} : Counts(v)'[q] <= Counts(v)[q] + d /\ counted'[v][q] = counted[v][q] + d
  <2>1. CASE v = s
    <3>1. Counts(v)' = scans' /\ Counts(v) = scans
      BY <2>1, KeysAre, NextKeysAre DEF KeysSay
    <3>2. counted' = [counted EXCEPT ![s][p] = @ + 1]
      BY <1>1, <1>6, <2>1 DEF Count
    <3>3. CASE q = p
      <4>1. scans'[q] = scans[q] + 1 /\ counted'[v][q] = counted[v][q] + 1 /\ scans[q] \in Nat
        BY <1>1, <1>3, <2>1, <3>2, <3>3
      <4>2. Counts(v)'[q] <= Counts(v)[q] + 1
        BY <3>1, <4>1
      <4> QED BY <4>1, <4>2
    <3>4. CASE q # p
      <4>1. scans'[q] = scans[q] /\ counted'[v][q] = counted[v][q] /\ scans[q] \in Nat /\ counted[v][q] \in Nat
        BY <1>1, <1>3, <2>1, <3>2, <3>4
      <4>2. Counts(v)'[q] <= Counts(v)[q] + 0 /\ counted'[v][q] = counted[v][q] + 0
        BY <3>1, <4>1
      <4> QED BY <4>2
    <3> QED BY <3>3, <3>4
  <2>2. CASE v # s
    <3>1. v = "pull_requests_enrichment_summary"
      BY <2>2 DEF CountingViews
    <3>2. Counts(v)' = Counts(v)
      <4>1. /\ Counts(v) = [r \in PRs |-> Rows(r, "found")]
            /\ Counts(v)' = [r \in PRs |-> Rows(r, "found")']
        BY <3>1, KeysAre, NextKeysAre DEF KeysSay
      <4>2. \A r \in PRs : Rows(r, "found")' = Rows(r, "found")
        BY <1>1 DEF Rows
      <4> QED BY <4>1, <4>2
    <3>3. counted'[v] = counted[v]
      BY <1>1, <1>3, <2>2 DEF Count
    <3>4. Counts(v)[q] \in Nat /\ counted[v][q] \in Nat
      BY <1>2, <1>3, CountsType
    <3>5. Counts(v)'[q] <= Counts(v)[q] + 0 /\ counted'[v][q] = counted[v][q] + 0
      BY <3>2, <3>3, <3>4
    <3> QED BY <3>5
  <2> QED BY <2>1, <2>2
<1>7. Fed
  <2>1. due' = due /\ stored' = stored /\ due \subseteq Keys(Characteristics)
    BY <1>1 DEF IInv, JoinsKept
  <2>2. \A v \in DistinctViews : \E K :
           /\ Keys(v)' = Keys(v) \cup K
           /\ stored[v] \subseteq stored'[v] /\ stored'[v] \subseteq stored[v] \cup K
           /\ v \in attached => K \subseteq stored'[v]
    BY <1>2, <1>4, FedCounts
  <2> QED BY <1>5, <1>6, <2>1, <2>2 DEF Fed
<1>8. TablesOK'
  <2>1. scans' \in [PRs -> Nat]
    BY <1>1, <1>3
  <2>2. counted' \in [CountingViews -> [PRs -> Nat]]
    <3>1. CASE s \in attached
      BY <1>1, <1>3, <3>1 DEF Count
    <3>2. CASE s \notin attached
      BY <1>1, <1>3, <3>2 DEF Count
    <3> QED BY <3>1, <3>2
  <2> QED BY <1>1, <1>2, <2>1, <2>2 DEF TablesOK
<1> QED BY <1>1, <1>7, <1>8, FedKeeps

LEMMA InsertPullRequestsKeeps ==
  ASSUME IInv, NEW p \in PRs, NEW row \in {"found", "gone"}, InsertPullRequests(p, row) PROVE IInv'
<1> DEFINE s == "pull_requests_enrichment_summary"
           joined == {<<p, ProductOf[e[2]]>> : e \in {d \in events : d[1] = p}}
<1>1. /\ pulls' = [pulls EXCEPT ![p] = Append(@, row)] /\ due' = due \cup joined
      /\ stored' = IF Characteristics \in attached
                   THEN [stored EXCEPT ![Characteristics] = @ \cup joined] ELSE stored
      /\ IF row = "found" THEN Count(s, p) ELSE UNCHANGED counted
      /\ UNCHANGED <<events, comments, scans, reactions, repos>>
      /\ UNCHANGED <<attached, clients, whole>>
  BY DEF InsertPullRequests, Insert
<1>2. TablesOK
  BY DEF IInv
<1>3. /\ pulls \in [PRs -> Seq({"found", "gone"})] /\ events \subseteq PRs \X Bots
      /\ counted \in [CountingViews -> [PRs -> Nat]] /\ s \in CountingViews
  BY <1>2 DEF TablesOK, CountingViews
<1>4. /\ pulls'[p] = Append(pulls[p], row) /\ pulls'[p] # <<>>
      /\ \A q \in PRs : q # p => pulls'[q] = pulls[q]
  <2>1. pulls'[p] = Append(pulls[p], row) /\ \A q \in PRs : q # p => pulls'[q] = pulls[q]
    BY <1>1, <1>3
  <2>2. pulls[p] \in Seq({"found", "gone"})
    BY <1>3
  <2>3. Append(pulls[p], row) # <<>>
    BY <2>2, AppendProperties
  <2> QED BY <2>1, <2>3
<1>5. /\ DOMAIN stored' = AllDistinct
      /\ \A v \in DistinctViews : stored'[v] = stored[v]
      /\ stored[Characteristics] \subseteq stored'[Characteristics]
      /\ Characteristics \in attached => joined \subseteq stored'[Characteristics]
      /\ Characteristics \notin attached => stored'[Characteristics] = stored[Characteristics]
  BY <1>1, <1>2, ViewNames DEF TablesOK
<1>6. \A v \in DistinctViews : Keys(v)' = Keys(v)
  BY <1>1, KeysAside
<1>7. due' \subseteq Keys(Characteristics)'
  <2>1. Keys(Characteristics)' = {<<e[1], ProductOf[e[2]]>> : e \in {d \in events : pulls'[d[1]] # <<>>}}
    BY <1>1, NextKeysAre DEF KeysSay
  <2>2. joined \subseteq Keys(Characteristics)'
    BY <1>4, <2>1
  <2>3. Keys(Characteristics) \subseteq Keys(Characteristics)'
    <3>1. ASSUME NEW d \in events, pulls[d[1]] # <<>> PROVE pulls'[d[1]] # <<>>
      <4>1. d[1] \in PRs
        BY <1>3
      <4> QED BY <1>4, <3>1, <4>1
    <3>2. Keys(Characteristics) = {<<e[1], ProductOf[e[2]]>> : e \in {d \in events : pulls[d[1]] # <<>>}}
      BY KeysAre DEF KeysSay
    <3> QED BY <2>1, <3>1, <3>2
  <2>4. due \subseteq Keys(Characteristics)
    BY DEF IInv, JoinsKept
  <2> QED BY <1>1, <2>2, <2>3, <2>4
<1> HIDE DEF joined
<1>8. ASSUME NEW v \in CountingViews \cap attached, NEW q \in PRs
      PROVE  \E d \in {0, 1} : Counts(v)'[q] <= Counts(v)[q] + d /\ counted'[v][q] = counted[v][q] + d
  <2>1. CASE v = s
    <3>1. Counts(v)'[q] = Found(pulls'[q]) /\ Counts(v)[q] = Found(pulls[q])
      BY <2>1, KeysAre, NextKeysAre DEF KeysSay, Rows, Found
    <3>2. Found(pulls[q]) \in Nat /\ counted[v][q] \in Nat
      BY <1>3, FoundFinite
    <3>3. CASE q = p /\ row = "found"
      <4>1. Found(pulls'[q]) = Found(pulls[q]) + 1
        BY <1>3, <1>4, <3>3, FoundAppend
      <4>2. counted' = [counted EXCEPT ![s][p] = @ + 1]
        BY <1>1, <1>8, <2>1, <3>3 DEF Count
      <4>3. counted'[v][q] = counted[v][q] + 1
        BY <1>3, <2>1, <3>3, <4>2
      <4>4. Counts(v)'[q] <= Counts(v)[q] + 1
        BY <3>1, <3>2, <4>1
      <4> QED BY <4>3, <4>4
    <3>4. CASE q # p \/ row # "found"
      <4>1. Found(pulls'[q]) = Found(pulls[q])
        <5>1. CASE q = p
          BY <1>3, <1>4, <3>4, <5>1, FoundAppend
        <5>2. CASE q # p
          BY <1>4, <5>2
        <5> QED BY <5>1, <5>2
      <4>2. counted'[v][q] = counted[v][q]
        <5>1. CASE row = "found"
          <6>1. counted' = [counted EXCEPT ![s][p] = @ + 1] /\ q # p
            BY <1>1, <1>8, <2>1, <3>4, <5>1 DEF Count
          <6> QED BY <1>3, <2>1, <6>1
        <5>2. CASE row # "found"
          BY <1>1, <5>2
        <5> QED BY <5>1, <5>2
      <4>3. Counts(v)'[q] <= Counts(v)[q] + 0 /\ counted'[v][q] = counted[v][q] + 0
        BY <3>1, <3>2, <4>1, <4>2
      <4> QED BY <4>3
    <3> QED BY <3>3, <3>4
  <2>2. CASE v # s
    <3>1. v = "reaction_scan_repo_summary"
      BY <2>2 DEF CountingViews
    <3>2. Counts(v)' = Counts(v)
      BY <1>1, <3>1, KeysAre, NextKeysAre DEF KeysSay
    <3>3. counted'[v] = counted[v]
      BY <1>1, <1>3, <2>2 DEF Count
    <3>4. Counts(v)[q] \in Nat /\ counted[v][q] \in Nat
      BY <1>2, <1>3, CountsType
    <3>5. Counts(v)'[q] <= Counts(v)[q] + 0 /\ counted'[v][q] = counted[v][q] + 0
      BY <3>2, <3>3, <3>4
    <3> QED BY <3>5
  <2> QED BY <2>1, <2>2
<1>9. Fed
  <2>1. \A v \in DistinctViews : \E K :
           /\ Keys(v)' = Keys(v) \cup K
           /\ stored[v] \subseteq stored'[v] /\ stored'[v] \subseteq stored[v] \cup K
           /\ v \in attached => K \subseteq stored'[v]
    BY <1>2, <1>5, <1>6, FedCounts
  <2>2. Characteristics \in attached => due' \subseteq due \cup stored'[Characteristics]
    BY <1>1, <1>5
  <2> QED BY <1>5, <1>7, <1>8, <2>1, <2>2 DEF Fed
<1>10. TablesOK'
  <2>1. pulls' \in [PRs -> Seq({"found", "gone"})]
    BY <1>1, <1>3
  <2>2. counted' \in [CountingViews -> [PRs -> Nat]]
    <3>1. CASE s \in attached /\ row = "found"
      <4>1. counted' = [counted EXCEPT ![s][p] = @ + 1]
        BY <1>1, <3>1 DEF Count
      <4> HIDE DEF s
      <4> QED BY <1>3, <4>1
    <3>2. CASE ~(s \in attached /\ row = "found")
      BY <1>1, <1>3, <3>2 DEF Count
    <3> QED BY <3>1, <3>2
  <2> QED BY <1>1, <1>2, <1>5, <2>1, <2>2 DEF TablesOK
<1> QED BY <1>1, <1>9, <1>10, FedKeeps

LEMMA InsertReposKeeps ==
  ASSUME IInv, NEW r \in Repos, NEW status, InsertRepos(r, status) PROVE IInv'
<1>1. /\ UNCHANGED <<events, pulls, comments, scans, reactions, stored, counted, due>>
      /\ UNCHANGED <<attached, clients, whole>>
  BY DEF InsertRepos, Insert, summaries
<1>2. TablesOK /\ TablesOK'
  BY <1>1 DEF IInv, TablesOK
<1>3. \A v \in DistinctViews : Keys(v)' = Keys(v) /\ stored'[v] = stored[v]
  BY <1>1, KeysAside
<1>4. Keys(Characteristics)' = Keys(Characteristics)
  BY <1>1, KeysAre, NextKeysAre DEF KeysSay
<1>5. ASSUME NEW v \in CountingViews, NEW q \in PRs
      PROVE  \E d \in {0, 1} : Counts(v)'[q] <= Counts(v)[q] + d /\ counted'[v][q] = counted[v][q] + d
  <2>1. Counts(v)' = Counts(v)
    BY <1>1, KeysAre, NextKeysAre DEF KeysSay, CountingViews, Rows
  <2>2. Counts(v)[q] \in Nat /\ counted[v][q] \in Nat
    BY <1>2, CountsType DEF TablesOK
  <2>3. Counts(v)'[q] <= Counts(v)[q] + 0 /\ counted'[v][q] = counted[v][q] + 0
    BY <1>1, <2>1, <2>2
  <2> QED BY <2>3
<1>6. \A v \in DistinctViews : \E K :
         /\ Keys(v)' = Keys(v) \cup K
         /\ stored[v] \subseteq stored'[v] /\ stored'[v] \subseteq stored[v] \cup K
         /\ v \in attached => K \subseteq stored'[v]
  BY <1>2, <1>3, FedCounts
<1>7. due' = due /\ stored' = stored /\ due \subseteq Keys(Characteristics)
  BY <1>1 DEF IInv, JoinsKept
<1>8. Fed
  BY <1>4, <1>5, <1>6, <1>7 DEF Fed
<1> QED BY <1>1, <1>2, <1>8, FedKeeps

\* A merge leaves a row of every key: the queries' keys stay, and their counts do not grow.
LEMMA MergeKeeps ==
  ASSUME IInv, NEW table \in {"pull_requests", "repos", "reaction_scan_progress"}, Merge(table)
  PROVE  IInv'
<1>1. /\ UNCHANGED <<events, comments, reactions, stored, counted, due>>
      /\ UNCHANGED <<attached, clients, whole>>
      /\ pulls' = pulls \/ pulls' = [p \in PRs |-> Newest(pulls[p])]
      /\ scans' = scans \/ scans' = [p \in PRs |-> IF scans[p] = 0 THEN 0 ELSE 1]
  BY DEF Merge, summaries
<1>2. TablesOK /\ pulls \in [PRs -> Seq({"found", "gone"})] /\ scans \in [PRs -> Nat]
      /\ events \subseteq PRs \X Bots
  BY DEF IInv, TablesOK
<1>3. \A p \in PRs : /\ pulls'[p] \in Seq({"found", "gone"}) /\ Found(pulls'[p]) <= Found(pulls[p])
                     /\ pulls[p] # <<>> => pulls'[p] # <<>>
  <2> SUFFICES ASSUME NEW p \in PRs
               PROVE  /\ pulls'[p] \in Seq({"found", "gone"}) /\ Found(pulls'[p]) <= Found(pulls[p])
                      /\ pulls[p] # <<>> => pulls'[p] # <<>>
    OBVIOUS
  <2>1. CASE pulls' = pulls
    <3>1. Found(pulls[p]) \in Nat
      BY <1>2, FoundFinite
    <3>2. Found(pulls[p]) <= Found(pulls[p])
      BY <3>1
    <3> QED BY <1>2, <2>1, <3>2
  <2>2. CASE pulls' = [q \in PRs |-> Newest(pulls[q])]
    <3>1. pulls'[p] = Newest(pulls[p]) /\ pulls[p] \in Seq({"found", "gone"})
      BY <1>2, <2>2
    <3> QED BY <3>1, FoundNewest
  <2> QED BY <1>1, <2>1, <2>2
<1>4. \A p \in PRs : scans'[p] \in Nat /\ scans'[p] <= scans[p]
  BY <1>1, <1>2
<1>5. TablesOK'
  <2>1. pulls' \in [PRs -> Seq({"found", "gone"})]
    BY <1>1, <1>2, <1>3
  <2>2. scans' \in [PRs -> Nat]
    BY <1>1, <1>2, <1>4
  <2> QED BY <1>1, <1>2, <2>1, <2>2 DEF TablesOK
<1>6. \A v \in DistinctViews : Keys(v)' = Keys(v) /\ stored'[v] = stored[v]
  BY <1>1, KeysAside
<1>7. Keys(Characteristics) \subseteq Keys(Characteristics)'
  <2>1. ASSUME NEW d \in events, pulls[d[1]] # <<>> PROVE pulls'[d[1]] # <<>>
    <3>1. d[1] \in PRs
      BY <1>2
    <3> QED BY <1>3, <2>1, <3>1
  <2>2. /\ Keys(Characteristics) = {<<e[1], ProductOf[e[2]]>> : e \in {d \in events : pulls[d[1]] # <<>>}}
        /\ Keys(Characteristics)' = {<<e[1], ProductOf[e[2]]>> : e \in {d \in events : pulls'[d[1]] # <<>>}}
    BY <1>1, KeysAre, NextKeysAre DEF KeysSay
  <2> QED BY <2>1, <2>2
<1>8. ASSUME NEW v \in CountingViews, NEW q \in PRs
      PROVE  \E d \in {0, 1} : Counts(v)'[q] <= Counts(v)[q] + d /\ counted'[v][q] = counted[v][q] + d
  <2>1. Counts(v)[q] \in Nat /\ counted[v][q] \in Nat
    BY <1>2, CountsType DEF TablesOK
  <2>2. Counts(v)'[q] <= Counts(v)[q]
    <3>1. CASE v = "pull_requests_enrichment_summary"
      <4>1. Counts(v)'[q] = Found(pulls'[q]) /\ Counts(v)[q] = Found(pulls[q])
        BY <3>1, KeysAre, NextKeysAre DEF KeysSay, Rows, Found
      <4> QED BY <1>3, <4>1
    <3>2. CASE v = "reaction_scan_repo_summary"
      <4>1. Counts(v)' = scans' /\ Counts(v) = scans
        BY <3>2, KeysAre, NextKeysAre DEF KeysSay
      <4> QED BY <1>4, <4>1
    <3> QED BY <3>1, <3>2 DEF CountingViews
  <2>3. Counts(v)'[q] <= Counts(v)[q] + 0 /\ counted'[v][q] = counted[v][q] + 0
    BY <1>1, <2>1, <2>2
  <2> QED BY <2>3
<1>9. \A v \in DistinctViews : \E K :
         /\ Keys(v)' = Keys(v) \cup K
         /\ stored[v] \subseteq stored'[v] /\ stored'[v] \subseteq stored[v] \cup K
         /\ v \in attached => K \subseteq stored'[v]
  BY <1>2, <1>6, FedCounts
<1>10. due' = due /\ stored' = stored /\ due \subseteq Keys(Characteristics)
  BY <1>1 DEF IInv, JoinsKept
<1>11. Fed
  BY <1>7, <1>8, <1>9, <1>10 DEF Fed
<1> QED BY <1>1, <1>5, <1>11, FedKeeps

\* The refreshable views and the status page touch none of it.
LEMMA AsideKeeps ==
  ASSUME IInv, UNCHANGED <<tables, attached, summaries, clients, due, whole>> PROVE IInv'
<1>1. /\ attached' = attached /\ stored' = stored /\ counted' = counted /\ due' = due /\ whole' = whole
      /\ events' = events /\ pulls' = pulls /\ scans' = scans
      /\ version' = version /\ todo' = todo /\ fills' = fills
  BY DEF summaries, tables, clients
<1>2. \A u : Keys(u)' = Keys(u) /\ Counts(u)' = Counts(u)
  BY SameKeys
<1>3. \A u : Made(u)' = Made(u) /\ Filled(u)' = Filled(u)
  BY <1>1 DEF Made, Filled, Position
<1>4. ClientsOK'
  <2>1. \A d \in Clients \cup {"gone"} : FillOK(fills[d])'
    BY <1>1 DEF IInv, ClientsOK, FillOK, NoFill
  <2>2. MigratorOK'
    BY <1>1 DEF IInv, ClientsOK, MigratorOK, Position
  <2>3. OperatorOK'
    BY <1>1 DEF IInv, ClientsOK, OperatorOK
  <2> QED BY <1>1, <2>1, <2>2, <2>3 DEF IInv, ClientsOK
<1>5. TablesOK' /\ ViewsStay'
  BY <1>1, <1>3 DEF TablesOK, ViewsStay, IInv
<1>6. NothingElse' /\ NothingLost'
  BY <1>1, <1>2, <1>3 DEF NothingElse, NothingLost, IInv
<1>7. EveryRowCounted' /\ JoinsKept'
  BY <1>1, <1>2, <1>3 DEF EveryRowCounted, JoinsKept, IInv
<1> QED BY <1>4, <1>5, <1>6, <1>7 DEF IInv

-----------------------------------------------------------------------------
(* The theorems *)

LEMMA InitKeeps == Init => IInv
<1> SUFFICES ASSUME Init PROVE IInv
  OBVIOUS
<1>1. /\ events = OldEvents
      /\ pulls = [p \in PRs |-> IF p \in Old THEN <<"found">> ELSE <<>>]
      /\ scans = [p \in PRs |-> IF p \in Old THEN 1 ELSE 0]
      /\ due = {<<e[1], ProductOf[e[2]]>> : e \in OldEvents}
      /\ fills = [c \in Clients \cup {"gone"} |-> NoFill]
  BY DEF Init
<1>2. /\ events \subseteq PRs \X Bots
      /\ pulls \in [PRs -> Seq({"found", "gone"})] /\ scans \in [PRs -> Nat]
  <2>1. events \subseteq PRs \X Bots
    BY <1>1, StatisticsAssumption
  <2>2. <<"found">> \in Seq({"found", "gone"}) /\ <<>> \in Seq({"found", "gone"})
    OBVIOUS
  <2>3. pulls \in [PRs -> Seq({"found", "gone"})]
    <3> DEFINE S == Seq({"found", "gone"})
               g(p) == IF p \in Old THEN <<"found">> ELSE <<>>
    <3>1. \A p \in PRs : g(p) \in S
      BY <2>2
    <3>2. pulls = [p \in PRs |-> g(p)]
      BY <1>1
    <3> HIDE DEF S, g
    <3>3. pulls \in [PRs -> S]
      BY <3>1, <3>2
    <3> QED BY <3>3 DEF S
  <2>4. scans \in [PRs -> Nat]
    BY <1>1
  <2> QED BY <2>1, <2>3, <2>4
<1>3. due = Keys(Characteristics)
  <2>1. ASSUME NEW d \in events PROVE pulls[d[1]] # <<>>
    <3>1. d[1] \in PRs /\ d[1] \in Old
      BY <1>1, <1>2 DEF Old, PRsOf
    <3> QED BY <1>1, <3>1
  <2>2. Keys(Characteristics) = {<<e[1], ProductOf[e[2]]>> : e \in {d \in events : pulls[d[1]] # <<>>}}
    BY KeysAre DEF KeysSay
  <2> QED BY <1>1, <2>1, <2>2
<1>4. \A v \in CountingViews : Counts(v) \in [PRs -> Nat]
  <2>1. \A p \in PRs : Rows(p, "found") \in Nat
    BY <1>2, FoundFinite, RowsFound
  <2>2. Counts("pull_requests_enrichment_summary") \in [PRs -> Nat]
    BY <2>1, KeysAre DEF KeysSay
  <2>3. Counts("reaction_scan_repo_summary") \in [PRs -> Nat]
    BY <1>2, KeysAre DEF KeysSay
  <2> QED BY <2>2, <2>3 DEF CountingViews
<1>5. \A c \in Clients \cup {"gone"} : fills[c] = NoFill /\ fills[c].view \notin Views
  BY <1>1, ViewNames
<1>6. DOMAIN fills = Clients \cup {"gone"} /\ \A c \in Clients \cup {"gone"} : FillOK(fills[c])
  BY <1>1 DEF FillOK
<1>7. fills["migrator"].view \notin Views /\ "migrator" \in Clients /\ "operator" \in Clients
  BY <1>5 DEF Clients
<1>8. CASE /\ version = 1 /\ todo = [c \in Clients |-> IF c = "migrator" THEN Version3 ELSE <<>>]
           /\ attached = {} /\ whole = FALSE
           /\ stored = [v \in DistinctViews \cup {Characteristics} |-> {}]
           /\ counted = [v \in CountingViews |-> [p \in PRs |-> 0]]
  <2>1. /\ todo["migrator"] = Migrations[1] /\ todo["operator"] = <<>> /\ DOMAIN todo = Clients
        /\ Migrations[1] \in Seq(AllStatements) /\ Len(Migrations[1]) = 2 /\ Length(1) = 2
    <3>1. Laid(Migrations[1], Length(1), 1, 0)
      BY Layout
    <3>2. Length(1) = 2
      BY DEF Length
    <3>3. Migrations[1] = Version3
      BY DEF Migrations
    <3> QED BY <1>7, <1>8, <3>1, <3>2, <3>3 DEF Laid
  <2>2. Position = 0
    <3>1. Position = Length(1) - Len(todo["migrator"])
      BY <1>8 DEF Position
    <3>2. Length(1) = 2 /\ Len(todo["migrator"]) = 2
      BY <2>1
    <3> QED BY <3>1, <3>2
  <2>3. todo["migrator"] = SubSeq(Migrations[1], 0 + 1, Length(1))
    <3>1. SubSeq(Migrations[1], 1, Len(Migrations[1])) = Migrations[1]
      BY <2>1, SubSeqFull
    <3>2. Len(Migrations[1]) = Length(1) /\ 0 + 1 = 1
      BY <2>1
    <3> QED BY <2>1, <3>1, <3>2
  <2>4. ClientsOK
    <3>1. MigratorOK
      <4>1. version \in 1 .. 7 /\ version # 7 /\ Position \in 0 .. Length(version)
        BY <1>8, <2>1, <2>2
      <4> QED BY <1>5, <1>7, <1>8, <2>2, <2>3, <4>1 DEF MigratorOK
    <3>2. OperatorOK
      BY <1>5, <1>7, <2>1 DEF OperatorOK
    <3> QED BY <1>6, <2>1, <3>1, <3>2 DEF ClientsOK
  <2>5. \A v \in Views : ~Made(v) /\ ~Filled(v)
    <3>1. \A v \in Views : /\ Home(v) \in 1 .. 6 /\ Place(v) \in Nat /\ FillPlace(v) \in Nat
                           /\ 1 <= Place(v) /\ Place(v) < FillPlace(v)
      BY Places
    <3> QED BY <1>8, <2>2, <3>1 DEF Made, Filled
  <2>6. TablesOK
    BY <1>2, <1>8 DEF TablesOK, AllDistinct
  <2>7. ViewsStay
    BY <1>8, <2>5, ViewNames DEF ViewsStay
  <2>8. NothingElse /\ NothingLost /\ EveryRowCounted
    <3>1. \A v \in DistinctViews : stored[v] = {} /\ v \in Views
      BY <1>8, ViewNames
    <3>2. \A v \in CountingViews : v \in Views
      BY ViewNames
    <3> QED BY <1>5, <1>7, <2>5, <3>1, <3>2 DEF NothingElse, NothingLost, EveryRowCounted
  <2>9. JoinsKept
    BY <1>3, <1>5, <1>8, ViewNames DEF JoinsKept
  <2> QED BY <2>4, <2>6, <2>7, <2>8, <2>9 DEF IInv
<1>9. CASE /\ version = Len(Migrations) + 1 /\ todo = [c \in Clients |-> <<>>]
           /\ attached = Views /\ whole = TRUE
           /\ stored = Feeding
           /\ counted = [v \in CountingViews |-> Counts(v)]
  <2>1. version = 7 /\ ~(version < 7) /\ ~(version <= 2) /\ version # 2 /\ version \in 1 .. 7
    BY <1>9, Layout
  <2>2. todo["migrator"] = <<>> /\ todo["operator"] = <<>> /\ DOMAIN todo = Clients
    BY <1>7, <1>9
  <2>3. ClientsOK
    <3>1. MigratorOK
      BY <1>5, <1>7, <2>1, <2>2 DEF MigratorOK
    <3>2. OperatorOK
      BY <1>5, <1>7, <2>2 DEF OperatorOK
    <3> QED BY <1>6, <2>2, <3>1, <3>2 DEF ClientsOK
  <2>4. /\ DOMAIN stored = AllDistinct /\ \A v \in AllDistinct : stored[v] = Keys(v)
        /\ \A v \in CountingViews : counted[v] = Counts(v)
    BY <1>9 DEF Feeding, AllDistinct
  <2>5. TablesOK
    <3>1. counted \in [CountingViews -> [PRs -> Nat]]
      BY <1>4, <1>9
    <3> QED BY <1>2, <2>4, <3>1 DEF TablesOK
  <2>6. ViewsStay
    BY <1>9, <2>1, ViewNames DEF ViewsStay
  <2>7. NothingElse /\ NothingLost
    <3>1. \A v \in DistinctViews : stored[v] = Keys(v) /\ v \in Views
      BY <2>4, ViewNames
    <3> QED BY <1>5, <1>7, <3>1 DEF NothingElse, NothingLost
  <2>8. EveryRowCounted
    <3> SUFFICES ASSUME NEW v \in CountingViews, NEW p \in PRs
                 PROVE  Counts(v)[p] <= counted[v][p] /\ fills["migrator"].view # v
      BY DEF EveryRowCounted
    <3>1. counted[v] = Counts(v) /\ Counts(v)[p] \in Nat
      BY <1>4, <2>4
    <3>2. Counts(v)[p] <= counted[v][p]
      BY <3>1
    <3> QED BY <1>7, <3>2, ViewNames
  <2>9. JoinsKept
    <3>1. stored[Characteristics] = due
      BY <1>3, <2>4 DEF AllDistinct
    <3> QED BY <1>3, <1>5, <3>1, ViewNames DEF JoinsKept
  <2> QED BY <2>3, <2>5, <2>6, <2>7, <2>8, <2>9 DEF IInv
<1> QED BY <1>8, <1>9 DEF Init

LEMMA StepKeeps == IInv /\ [Next]_vars => IInv'
<1> SUFFICES ASSUME IInv, [Next]_vars PROVE IInv'
  OBVIOUS
<1>1. ASSUME NEW c \in Clients, Work(c) PROVE IInv'
  BY <1>1, CreateViewKeeps, DropViewKeeps, TruncateTableKeeps, FillReadsKeeps, FillWritesKeeps DEF Work
<1>2. ASSUME NEW c \in Clients, Crash(c) PROVE IInv'
  BY <1>2, CrashKeeps
<1>3. CASE Record
  BY <1>3, RecordKeeps
<1>4. CASE GoneWrites
  BY <1>4, GoneWritesKeeps
<1>5. CASE Detach \/ Reattach
  BY <1>5, OperateKeeps DEF Detach, Reattach
<1>6. CASE Pipeline
  <2>1. ASSUME NEW p \in PRs, NEW b \in Bots,
               InsertPrBotEvents(p, b) \/ InsertPrComments(p, b) \/ InsertPrBotReactions(p, b)
        PROVE  IInv'
    BY <2>1, InsertPrBotEventsKeeps, InsertPrCommentsKeeps, InsertPrBotReactionsKeeps
  <2>2. ASSUME NEW p \in PRs, InsertReactionScanProgress(p) PROVE IInv'
    BY <2>2, InsertReactionScanProgressKeeps
  <2>3. ASSUME NEW p \in PRs, NEW row \in {"found", "gone"}, InsertPullRequests(p, row) PROVE IInv'
    BY <2>3, InsertPullRequestsKeeps
  <2>4. ASSUME NEW r \in Repos, NEW status \in {"ok", "closed"}, InsertRepos(r, status) PROVE IInv'
    BY <2>4, InsertReposKeeps
  <2> QED BY <1>6, <2>1, <2>2, <2>3, <2>4 DEF Pipeline
<1>7. ASSUME NEW table \in {"pull_requests", "repos", "reaction_scan_progress"}, Merge(table) PROVE IInv'
  BY <1>7, MergeKeeps
<1>8. CASE Refresh
  BY <1>8, AsideKeeps DEF Refresh
<1>9. ASSUME NEW query \in Queries, AnswerArrives(query) PROVE IInv'
  BY <1>9, AsideKeeps DEF AnswerArrives
<1>10. CASE UNCHANGED vars
  BY <1>10, AsideKeeps DEF vars
<1> QED BY <1>1, <1>2, <1>3, <1>4, <1>5, <1>6, <1>7, <1>8, <1>9, <1>10 DEF Next

LEMMA Invariance == Spec => []IInv
BY InitKeeps, StepKeeps, PTL DEF Spec

\* Of the eight uniqExact summaries of app/src/lib/migrations.ts and the two count summaries:
\* once its version is recorded, a summary of keys is exactly what its view would select from
\* the whole table, and a count is at least that of the rows there are, for any tables, inserts
\* during the fills, crashes of the app between two statements, and abandoned fills.
THEOREM SummariesAreComplete == Spec => []SummariesTellAll
BY Invariance, IInvImplies, PTL

\* Detaching and reattaching pr_product_characteristics by hand (pipeline/src/cli.ts), as often
\* as one likes and with lost clients in between, loses no PR that was stored after its event,
\* once the backfill of a reattach-mv has written.
THEOREM ReattachingLosesNothing == Spec => []CharacteristicsComplete
BY Invariance, IInvImplies, PTL
-----------------------------------------------------------------------------
(* What the statistics say of work that is left *)

Known == {RepoOf[p] : p \in PRsOf(events)}

\* Nothing is fetched of what was not discovered, and a closed repository's newest row, the
\* only one that says so, is the last.
StoreInv ==
  /\ comments \subseteq events
  /\ repos \in [Repos -> Seq({"ok", "closed"})]
  /\ \A r \in Repos : \A i \in DOMAIN repos[r] : repos[r][i] = "closed" => i = Len(repos[r])
  /\ \A p \in PRs : pulls[p] # <<>> \/ scans[p] > 0 => p \in PRsOf(events)

\* Of some PRs there is no more to do, and a summary or their repository tells it.
Done(P, v) == P \subseteq PRsOf(events) /\ \A p \in P : RepoOf[p] \in Closed \/ counted[v][p] > 0

\* What an instance was told was so when it was, and is not less so now.
AnswersTyped ==
  /\ answers \in [waiting: SUBSET Queries, got: [Fields -> Nat],
                  finished: [Kinds -> SUBSET (Repos \cup PRs)]]
  /\ answers.finished.repos \subseteq Repos
  /\ answers.finished.prs \subseteq PRs /\ answers.finished.reactions \subseteq PRs

AnswersTrue ==
  /\ AnswersTyped
  /\ \A r \in answers.finished.repos : repos[r] # <<>>
  /\ Done(answers.finished.prs, "pull_requests_enrichment_summary")
  /\ Done(answers.finished.reactions, "reaction_scan_repo_summary")
  /\ "global" \notin answers.waiting =>
       /\ answers.got["repos_total"] <= Cardinality(Known)
       /\ answers.got["prs_discovered"] <= Cardinality(PRsOf(events))
  /\ "pulls" \notin answers.waiting =>
       /\ Cardinality(answers.finished.repos)
            <= answers.got["repos_ok"] + answers.got["repos_not_found"]
       /\ Cardinality(answers.finished.prs)
            <= answers.got["prs_enriched"] + answers.got["prs_unreachable"]
  /\ "reactions" \notin answers.waiting =>
       Cardinality(answers.finished.reactions)
         <= answers.got["reactions_scanned"] + answers.got["reactions_unreachable"]

PageInv == answers = Unread \/ (version = 7 /\ AnswersTrue)

LEMMA StoreFinite ==
  ASSUME TablesOK
  PROVE  /\ IsFiniteSet(PRs) /\ IsFiniteSet(Repos) /\ IsFiniteSet(events)
         /\ PRsOf(events) \subseteq PRs /\ IsFiniteSet(PRsOf(events))
         /\ Known \subseteq Repos /\ IsFiniteSet(Known)
<1>1. IsFiniteSet(PRs) /\ IsFiniteSet(Bots) /\ IsFiniteSet(Repos) /\ RepoOf \in [PRs -> Repos]
  BY StatisticsAssumption
<1>2. IsFiniteSet(PRs \X Bots)
  BY <1>1, FS_Product
<1>3. IsFiniteSet(events)
  BY <1>2, FS_Subset DEF TablesOK
<1>4. PRsOf(events) \subseteq PRs
  BY DEF TablesOK, PRsOf
<1>5. IsFiniteSet(PRsOf(events))
  BY <1>1, <1>4, FS_Subset
<1>6. Known \subseteq Repos
  BY <1>1, <1>4 DEF Known
<1>7. IsFiniteSet(Known)
  BY <1>1, <1>6, FS_Subset
<1> QED BY <1>1, <1>3, <1>4, <1>5, <1>6, <1>7

\* enrich-status announces no more repositories than have no row or no column.
LEMMA PendingRepos ==
  ASSUME TablesOK, StoreInv, NEW forbidden \in SUBSET Closed
  PROVE  EnrichStatus(forbidden).repos
           <= Cardinality({r \in Known : repos[r] = <<>> \/ r \in forbidden})
<1> DEFINE enriched == {r \in Known : "ok" \in Range(repos[r])}
           gone == Known \cap (Closed \ forbidden)
           left == {r \in Known : repos[r] = <<>> \/ r \in forbidden}
<1>1. EnrichStatus(forbidden).repos = Cardinality(Known) - Cardinality(enriched) - Cardinality(gone)
  BY DEF EnrichStatus, Known
<1>2. IsFiniteSet(enriched) /\ IsFiniteSet(gone) /\ IsFiniteSet(left)
  <2>1. IsFiniteSet(Known) /\ enriched \subseteq Known /\ gone \subseteq Known /\ left \subseteq Known
    BY StoreFinite
  <2> QED BY <2>1, FS_Subset
<1>3. ASSUME NEW r \in Known, r \notin enriched, r \notin left PROVE r \in gone
  <2>1. r \in Repos /\ repos[r] \in Seq({"ok", "closed"}) /\ repos[r] # <<>>
    BY <1>3, StoreFinite DEF StoreInv
  <2>2. 1 \in DOMAIN repos[r] /\ repos[r][1] \in {"ok", "closed"}
    BY <2>1
  <2>3. repos[r][1] # "ok"
    BY <1>3, <2>2 DEF Range
  <2>4. r \in Closed
    BY <2>1, <2>2, <2>3 DEF Closed
  <2> QED BY <1>3, <2>4
<1>4. Known \subseteq (enriched \cup gone) \cup left
  BY <1>3
<1> HIDE DEF enriched, gone, left
<1>5. /\ IsFiniteSet(enriched \cup gone)
      /\ Cardinality(enriched \cup gone) <= Cardinality(enriched) + Cardinality(gone)
      /\ Cardinality(enriched \cup gone) \in Nat
      /\ Cardinality(enriched) \in Nat /\ Cardinality(gone) \in Nat
  BY <1>2, CoveredBy, Zenon
<1>6. /\ Cardinality(Known) <= Cardinality(enriched \cup gone) + Cardinality(left)
      /\ Cardinality(Known) \in Nat /\ Cardinality(left) \in Nat
  BY <1>2, <1>4, <1>5, CoveredBy
<1>7. Cardinality(Known) - Cardinality(enriched) - Cardinality(gone) <= Cardinality(left)
  BY <1>5, <1>6
<1> QED BY <1>1, <1>7 DEF left

\* It says of PRs and scans what is left when every row is counted, as rows that are not
\* merged only make it say less.
LEMMA PendingRows ==
  ASSUME TablesOK, NEW f, DOMAIN f = PRs, \A p \in PRs : f[p] \in Nat,
         \A p \in PRs : f[p] > 0 => p \in PRsOf(events)
  PROVE  LET none == {p \in PRsOf(events) : f[p] = 0}
             rest == Cardinality(PRsOf(events)) - SumFunction(f) IN
         /\ rest <= Cardinality(none)
         /\ (\A p \in PRs : f[p] <= 1) => rest = Cardinality(none)
<1> DEFINE none == {p \in PRsOf(events) : f[p] = 0}
           some == {p \in PRs : f[p] > 0}
<1>1. SumFunction(f) = SumFunctionOnSet(f, PRs)
  BY SumOfFunction
<1>2. IsFiniteSet(PRs) /\ IsFiniteSet(PRsOf(events)) /\ PRsOf(events) \subseteq PRs
  BY StoreFinite
<1>3. some \in SUBSET PRs /\ none \in SUBSET PRsOf(events)
  OBVIOUS
<1>4. \A p \in some : f[p] > 0
  OBVIOUS
<1>5. none \cap some = {} /\ PRsOf(events) = none \cup some
  BY <1>2
<1>6. \A p \in PRs \ some : f[p] = 0
  OBVIOUS
<1> HIDE DEF none, some
<1>7. IsFiniteSet(none) /\ IsFiniteSet(some)
  BY <1>2, <1>3, FS_Subset
<1>8. Cardinality(some) <= SumFunctionOnSet(f, PRs) /\ SumFunctionOnSet(f, PRs) \in Nat
  BY <1>2, <1>3, <1>4, SumAtLeast, SumNat
<1>9. Cardinality(PRsOf(events)) = Cardinality(none) + Cardinality(some)
  BY <1>5, <1>7, CountDisjoint
<1>10. Cardinality(none) \in Nat /\ Cardinality(some) \in Nat
  BY <1>7, FS_CardinalityType
<1>11. ASSUME \A p \in PRs : f[p] <= 1 PROVE SumFunctionOnSet(f, PRs) = Cardinality(some)
  <2>1. \A p \in some : f[p] = 1
    BY <1>3, <1>4, <1>11
  <2> QED BY <1>2, <1>3, <1>6, <2>1, SumExactly
<1> QED BY <1>1, <1>8, <1>9, <1>10, <1>11 DEF none

LEMMA EnrichStatusHolds ==
  ASSUME TablesOK, StoreInv, NEW forbidden \in SUBSET Closed
  PROVE  LET status == EnrichStatus(forbidden)
             discovered == PRsOf(events)
             unmerged == {p \in PRs : Len(pulls[p]) > 1 \/ scans[p] > 1}
         IN /\ status.repos <= Cardinality({r \in {RepoOf[p] : p \in discovered} :
                                              repos[r] = <<>> \/ r \in forbidden})
            /\ status.prs <= Cardinality({p \in discovered : pulls[p] = <<>>})
            /\ status.comments = Cardinality(events \ comments)
            /\ status.reactions <= Cardinality({p \in discovered : scans[p] = 0})
            /\ unmerged = {} =>
                 /\ status.prs = Cardinality({p \in discovered : pulls[p] = <<>>})
                 /\ status.reactions = Cardinality({p \in discovered : scans[p] = 0})
<1> DEFINE rows == [p \in PRs |-> Len(pulls[p])]
           status == EnrichStatus(forbidden)
<1>1. /\ status.prs = Cardinality(PRsOf(events)) - SumFunction(rows)
      /\ status.comments = Cardinality(events) - Cardinality(comments)
      /\ status.reactions = Cardinality(PRsOf(events)) - SumFunction(scans)
  BY DEF EnrichStatus
<1>2. status.repos <= Cardinality({r \in {RepoOf[p] : p \in PRsOf(events)} :
                                     repos[r] = <<>> \/ r \in forbidden})
  BY PendingRepos DEF Known
<1>3. /\ DOMAIN rows = PRs /\ \A p \in PRs : rows[p] \in Nat
      /\ \A p \in PRs : rows[p] = Len(pulls[p]) /\ (pulls[p] = <<>> <=> rows[p] = 0)
      /\ DOMAIN scans = PRs /\ \A p \in PRs : scans[p] \in Nat
  BY DEF TablesOK
<1>4. PRsOf(events) \subseteq PRs /\ IsFiniteSet(events)
  BY StoreFinite
<1> HIDE DEF rows, status
<1>5. /\ \A p \in PRs : rows[p] > 0 => p \in PRsOf(events)
      /\ \A p \in PRs : scans[p] > 0 => p \in PRsOf(events)
  BY <1>3 DEF StoreInv
<1>6. {p \in PRsOf(events) : pulls[p] = <<>>} = {p \in PRsOf(events) : rows[p] = 0}
  BY <1>3, <1>4
<1>7. status.comments = Cardinality(events \ comments)
  <2>1. events \cap comments = comments
    BY DEF StoreInv
  <2>2. IsFiniteSet(events)
    BY <1>4
  <2>3. Cardinality(events \ comments) = Cardinality(events) - Cardinality(events \cap comments)
    BY <2>2, FS_Difference
  <2> QED BY <1>1, <2>1, <2>3
<1>8. /\ status.prs <= Cardinality({p \in PRsOf(events) : pulls[p] = <<>>})
      /\ (\A p \in PRs : rows[p] <= 1) =>
           status.prs = Cardinality({p \in PRsOf(events) : pulls[p] = <<>>})
  <2>1. LET none == {p \in PRsOf(events) : rows[p] = 0}
            rest == Cardinality(PRsOf(events)) - SumFunction(rows) IN
        /\ rest <= Cardinality(none)
        /\ (\A p \in PRs : rows[p] <= 1) => rest = Cardinality(none)
    BY <1>3, <1>5, PendingRows
  <2> QED BY <1>1, <1>6, <2>1
<1>9. /\ status.reactions <= Cardinality({p \in PRsOf(events) : scans[p] = 0})
      /\ (\A p \in PRs : scans[p] <= 1) =>
           status.reactions = Cardinality({p \in PRsOf(events) : scans[p] = 0})
  <2>1. LET none == {p \in PRsOf(events) : scans[p] = 0}
            rest == Cardinality(PRsOf(events)) - SumFunction(scans) IN
        /\ rest <= Cardinality(none)
        /\ (\A p \in PRs : scans[p] <= 1) => rest = Cardinality(none)
    BY <1>3, <1>5, PendingRows
  <2> QED BY <1>1, <2>1
<1>10. ASSUME {p \in PRs : Len(pulls[p]) > 1 \/ scans[p] > 1} = {}, NEW p \in PRs
       PROVE  rows[p] <= 1 /\ scans[p] <= 1
  <2>1. ~(Len(pulls[p]) > 1) /\ ~(scans[p] > 1)
    BY <1>10
  <2> QED BY <1>3, <2>1
<1> QED BY <1>2, <1>7, <1>8, <1>9, <1>10 DEF status

\* When all versions are recorded, every summary was filled.
LEMMA Told ==
  ASSUME IInv, version = 7
  PROVE  /\ \A v \in DistinctViews : stored[v] = Keys(v)
         /\ \A v \in CountingViews : \A p \in PRs : Counts(v)[p] <= counted[v][p]
<1>1. \A v \in Views : Filled(v)
  <2>1. \A v \in Views : Home(v) < 7
    BY Places
  <2> QED BY <2>1 DEF Filled
<1>2. \A v \in DistinctViews \cup CountingViews : Filled(v)
  BY <1>1, ViewNames
<1> QED BY <1>2 DEF IInv, NothingElse, NothingLost, EveryRowCounted

\* The pairs of the status page's query for comments: of closed repositories, with
\* comments, and the rest.
LEMMA CommentsHold ==
  ASSUME IInv, StoreInv, version = 7
  PROVE  LET n == CommentsAnswer IN
         n.comments_discovered - n.comments_enriched - n.comments_unreachable
           = Cardinality({e \in events \ comments : RepoOf[e[1]] \notin Closed})
<1> DEFINE rest == {e \in events \ comments : RepoOf[e[1]] \notin Closed}
           enriched == comments \ InClosed(comments)
           closed == InClosed(events)
<1>1. /\ stored["bot_comment_discovery_summary"] = events
      /\ stored["pr_bot_event_counts"] = events
      /\ stored["pr_comments_repo_bot_combos"] = comments
  BY Told, KeysAre DEF KeysSay, DistinctViews, PairViews, EventPRViews
<1>2. /\ CommentsAnswer.comments_discovered = Cardinality(events)
      /\ CommentsAnswer.comments_enriched = Cardinality(enriched)
      /\ CommentsAnswer.comments_unreachable = Cardinality(closed)
  BY <1>1 DEF CommentsAnswer
<1>3. /\ enriched \subseteq events /\ closed \subseteq events /\ rest \subseteq events
      /\ events = (enriched \cup closed) \cup rest
      /\ enriched \cap closed = {} /\ (enriched \cup closed) \cap rest = {}
  BY DEF InClosed, StoreInv
<1> HIDE DEF enriched, closed, rest
<1>4. IsFiniteSet(enriched) /\ IsFiniteSet(closed) /\ IsFiniteSet(rest)
  <2>1. IsFiniteSet(events)
    BY StoreFinite DEF IInv
  <2> QED BY <1>3, <2>1, FS_Subset
<1>5. /\ IsFiniteSet(enriched \cup closed)
      /\ Cardinality(enriched \cup closed) = Cardinality(enriched) + Cardinality(closed)
  BY <1>3, <1>4, CountDisjoint
<1>6. Cardinality((enriched \cup closed) \cup rest) = Cardinality(enriched \cup closed) + Cardinality(rest)
  BY <1>3, <1>4, <1>5, CountDisjoint
<1>7. Cardinality(enriched) \in Nat /\ Cardinality(closed) \in Nat /\ Cardinality(rest) \in Nat
  BY <1>4, FS_CardinalityType
<1>8. Cardinality(events) = Cardinality(enriched) + Cardinality(closed) + Cardinality(rest)
  BY <1>3, <1>5, <1>6
<1>9. Cardinality(events) - Cardinality(enriched) - Cardinality(closed) = Cardinality(rest)
  BY <1>7, <1>8
<1> QED BY <1>2, <1>9 DEF rest

-----------------------------------------------------------------------------
(* The status page *)

LEMMA DifferenceLess ==
  ASSUME NEW T, IsFiniteSet(T), NEW D, IsFiniteSet(D), NEW n \in Nat, n <= Cardinality(T),
         NEW a \in Nat, NEW b \in Nat, Cardinality(D) <= a + b
  PROVE  Difference(n, a, b) <= Cardinality(T \ D)
<1>1. T \subseteq (T \ D) \cup D /\ IsFiniteSet(T \ D)
  BY FS_Subset
<1>2. /\ Cardinality(T) <= Cardinality(T \ D) + Cardinality(D)
      /\ Cardinality(T) \in Nat /\ Cardinality(T \ D) \in Nat /\ Cardinality(D) \in Nat
  BY <1>1, CoveredBy
<1>3. CASE n > a + b
  BY <1>2, <1>3 DEF Difference
<1>4. CASE ~(n > a + b)
  BY <1>2, <1>4 DEF Difference
<1> QED BY <1>3, <1>4

LEMMA PageHolds ==
  ASSUME TablesOK, PageInv, answers.waiting = {}
  PROVE  LET discovered == PRsOf(events) IN
         /\ Shown.repos_pending
              <= Cardinality({RepoOf[p] : p \in discovered} \ answers.finished.repos)
         /\ Shown.prs_pending <= Cardinality(discovered \ answers.finished.prs)
         /\ Shown.reactions_pending <= Cardinality(discovered \ answers.finished.reactions)
<1> DEFINE got == answers.got
           done == answers.finished
<1>1. answers # Unread
  BY DEF Unread, Queries
<1>2. /\ got \in [Fields -> Nat]
      /\ done.repos \subseteq Repos /\ done.prs \subseteq PRs /\ done.reactions \subseteq PRs
      /\ got["repos_total"] <= Cardinality(Known)
      /\ got["prs_discovered"] <= Cardinality(PRsOf(events))
      /\ Cardinality(done.repos) <= got["repos_ok"] + got["repos_not_found"]
      /\ Cardinality(done.prs) <= got["prs_enriched"] + got["prs_unreachable"]
      /\ Cardinality(done.reactions) <= got["reactions_scanned"] + got["reactions_unreachable"]
  BY <1>1 DEF PageInv, AnswersTrue, AnswersTyped
<1>3. /\ Shown.repos_pending
           = Difference(got["repos_total"], got["repos_ok"], got["repos_not_found"])
      /\ Shown.prs_pending
           = Difference(got["prs_discovered"], got["prs_enriched"], got["prs_unreachable"])
      /\ Shown.reactions_pending
           = Difference(got["prs_discovered"], got["reactions_scanned"], got["reactions_unreachable"])
  BY DEF Shown
<1>4. \A f \in {"repos_total", "prs_discovered", "repos_ok", "repos_not_found", "prs_enriched",
                "prs_unreachable", "reactions_scanned", "reactions_unreachable"} : got[f] \in Nat
  BY <1>2 DEF Fields
<1> HIDE DEF got, done
<1>5. /\ IsFiniteSet(Known) /\ IsFiniteSet(PRsOf(events))
      /\ IsFiniteSet(done.repos) /\ IsFiniteSet(done.prs) /\ IsFiniteSet(done.reactions)
  BY <1>2, StoreFinite, FS_Subset
<1>6. Shown.repos_pending <= Cardinality(Known \ done.repos)
  BY <1>2, <1>3, <1>4, <1>5, DifferenceLess
<1>7. Shown.prs_pending <= Cardinality(PRsOf(events) \ done.prs)
  BY <1>2, <1>3, <1>4, <1>5, DifferenceLess
<1>8. Shown.reactions_pending <= Cardinality(PRsOf(events) \ done.reactions)
  BY <1>2, <1>3, <1>4, <1>5, DifferenceLess
<1> QED BY <1>6, <1>7, <1>8 DEF done, Known

LEMMA InitStored == Init => StoreInv /\ PageInv
<1> SUFFICES ASSUME Init PROVE StoreInv /\ PageInv
  OBVIOUS
<1>1. /\ events = OldEvents /\ comments = OldEvents /\ answers = Unread
      /\ pulls = [p \in PRs |-> IF p \in Old THEN <<"found">> ELSE <<>>]
      /\ scans = [p \in PRs |-> IF p \in Old THEN 1 ELSE 0]
      /\ repos = [r \in Repos |-> IF \E p \in Old : RepoOf[p] = r THEN <<"ok">> ELSE <<>>]
  BY DEF Init
<1>2. \A p \in PRs : pulls[p] # <<>> \/ scans[p] > 0 => p \in PRsOf(events)
  BY <1>1 DEF Old
<1>3. /\ repos \in [Repos -> Seq({"ok", "closed"})]
      /\ \A r \in Repos : \A i \in DOMAIN repos[r] : repos[r][i] # "closed"
  <2>1. repos = [r \in Repos |-> IF \E p \in Old : RepoOf[p] = r THEN <<"ok">> ELSE <<>>]
    BY <1>1
  <2>2. /\ <<"ok">> \in Seq({"ok", "closed"}) /\ <<>> \in Seq({"ok", "closed"})
        /\ \A i \in DOMAIN <<"ok">> : <<"ok">>[i] # "closed"
        /\ \A i \in DOMAIN <<>> : <<>>[i] # "closed"
    OBVIOUS
  <2>3. \A r \in Repos : repos[r] = <<"ok">> \/ repos[r] = <<>>
    BY <2>1
  <2>4. \A r \in Repos : \A i \in DOMAIN repos[r] : repos[r][i] # "closed"
    BY <2>2, <2>3, Zenon
  <2> QED BY <2>1, <2>2, <2>3, <2>4
<1> QED BY <1>1, <1>2, <1>3 DEF StoreInv, PageInv

-----------------------------------------------------------------------------
(* What is known is not forgotten *)

\* What is known now is known later, once all versions are recorded.
Onward ==
  /\ version' = 7 /\ events \subseteq events'
  /\ \A r \in Repos : repos[r] # <<>> => repos[r]' # <<>>
  /\ Closed \subseteq Closed'
  /\ \A v \in CountingViews : \A p \in PRs : counted[v][p] <= counted[v][p]'

LEMMA DoneOnward ==
  ASSUME Onward, TablesOK, TablesOK', NEW P \in SUBSET PRs, NEW v \in CountingViews, Done(P, v)
  PROVE  Done(P, v)'
<1>1. PRsOf(events) \subseteq PRsOf(events)'
  BY DEF Onward, PRsOf
<1>2. ASSUME NEW p \in P PROVE RepoOf[p] \in Closed' \/ counted'[v][p] > 0
  <2>1. RepoOf[p] \in Closed \/ counted[v][p] > 0
    BY DEF Done
  <2>2. counted[v][p] \in Nat /\ counted'[v][p] \in Nat /\ counted[v][p] <= counted'[v][p]
    BY DEF Onward, TablesOK
  <2> QED BY <2>1, <2>2 DEF Onward
<1> QED BY <1>1, <1>2 DEF Done

KnownFinite == IsFiniteSet(Known) /\ IsFiniteSet(PRsOf(events))
LEMMA NowFinite == TablesOK => KnownFinite
BY StoreFinite DEF KnownFinite

LEMMA NextFinite == TablesOK' => KnownFinite'
BY NowFinite, PTL

LEMMA PageOnward ==
  ASSUME Onward, TablesOK, TablesOK', PageInv, answers' = answers
  PROVE  PageInv'
<1> USE DEF CountingViews
<1>1. CASE answers = Unread
  BY <1>1 DEF PageInv, Unread
<1>2. CASE answers # Unread
  <2>1. /\ AnswersTyped
        /\ \A r \in answers.finished.repos : repos[r] # <<>>
        /\ Done(answers.finished.prs, "pull_requests_enrichment_summary")
        /\ Done(answers.finished.reactions, "reaction_scan_repo_summary")
    BY <1>2 DEF PageInv, AnswersTrue
  <2>2. \A r \in answers.finished.repos : repos'[r] # <<>>
    BY <2>1 DEF Onward, AnswersTyped
  <2>3. Done(answers.finished.prs, "pull_requests_enrichment_summary")'
    <3> DEFINE P == answers.finished.prs
    <3>1. P \in SUBSET PRs /\ Done(P, "pull_requests_enrichment_summary")
      BY <2>1 DEF AnswersTyped
    <3>3. /\ P \subseteq PRsOf(events')
          /\ \A p \in P : RepoOf[p] \in Closed' \/ counted'["pull_requests_enrichment_summary"][p] > 0
      <4> HIDE DEF P
      <4> QED BY <3>1, DoneOnward DEF Done, PRsOf
    <3> QED BY <3>3 DEF Done, PRsOf
  <2>4. Done(answers.finished.reactions, "reaction_scan_repo_summary")'
    <3> DEFINE P == answers.finished.reactions
    <3>1. P \in SUBSET PRs /\ Done(P, "reaction_scan_repo_summary")
      BY <2>1 DEF AnswersTyped
    <3>3. /\ P \subseteq PRsOf(events')
          /\ \A p \in P : RepoOf[p] \in Closed' \/ counted'["reaction_scan_repo_summary"][p] > 0
      <4> HIDE DEF P
      <4> QED BY <3>1, DoneOnward DEF Done, PRsOf
    <3> QED BY <3>3 DEF Done, PRsOf
  <2>5. ASSUME "global" \notin answers.waiting
        PROVE  /\ answers.got["repos_total"] <= Cardinality(Known')
               /\ answers.got["prs_discovered"] <= Cardinality(PRsOf(events)')
    <3>1. PRsOf(events) \subseteq PRsOf(events)' /\ Known \subseteq Known'
      BY DEF Onward, PRsOf, Known
    <3>2. IsFiniteSet(Known') /\ IsFiniteSet(PRsOf(events)')
      BY NextFinite DEF KnownFinite
    <3>3. /\ Cardinality(PRsOf(events)) <= Cardinality(PRsOf(events)')
          /\ Cardinality(Known) <= Cardinality(Known')
          /\ IsFiniteSet(PRsOf(events)) /\ IsFiniteSet(Known)
      BY <3>1, <3>2, FS_Subset
    <3>4. /\ Cardinality(PRsOf(events)) \in Nat /\ Cardinality(PRsOf(events)') \in Nat
          /\ Cardinality(Known) \in Nat /\ Cardinality(Known') \in Nat
      BY <3>2, <3>3, FS_CardinalityType
    <3>5. /\ answers.got["repos_total"] <= Cardinality(Known)
          /\ answers.got["prs_discovered"] <= Cardinality(PRsOf(events))
          /\ answers.got["repos_total"] \in Nat /\ answers.got["prs_discovered"] \in Nat
      BY <1>2, <2>1, <2>5 DEF PageInv, AnswersTrue, AnswersTyped, Fields
    <3> QED BY <3>3, <3>4, <3>5
  <2>6. version' = 7
    BY DEF Onward
  <2>7. /\ "pulls" \notin answers.waiting =>
             /\ Cardinality(answers.finished.repos) <= answers.got["repos_ok"] + answers.got["repos_not_found"]
             /\ Cardinality(answers.finished.prs)
                  <= answers.got["prs_enriched"] + answers.got["prs_unreachable"]
        /\ "reactions" \notin answers.waiting =>
             Cardinality(answers.finished.reactions)
               <= answers.got["reactions_scanned"] + answers.got["reactions_unreachable"]
    BY <1>2 DEF PageInv, AnswersTrue
  <2> QED BY <2>1, <2>2, <2>3, <2>4, <2>5, <2>6, <2>7 DEF PageInv, AnswersTrue, AnswersTyped
<1> QED BY <1>1, <1>2

\* A merge leaves the newest row.
LEMMA NewestRow ==
  ASSUME NEW S, NEW s \in Seq(S)
  PROVE  /\ Newest(s) \in Seq(S) /\ (Newest(s) = <<>> <=> s = <<>>)
         /\ s # <<>> => /\ Len(s) \in DOMAIN s /\ s[Len(s)] \in S
                        /\ Newest(s) = <<s[Len(s)]>> /\ Len(Newest(s)) = 1
                        /\ DOMAIN Newest(s) = {1} /\ Newest(s)[1] = s[Len(s)]
<1>1. CASE s = <<>>
  BY <1>1 DEF Newest
<1>2. CASE s # <<>>
  <2>1. Len(s) \in DOMAIN s /\ s[Len(s)] \in S
    BY <1>2
  <2>2. Newest(s) = <<s[Len(s)]>>
    BY <1>2 DEF Newest
  <2> QED BY <1>2, <2>1, <2>2
<1> QED BY <1>1, <1>2

\* Neither a merge nor another row reopens a repository.
LEMMA MergedRepos ==
  ASSUME StoreInv, repos' = [r \in Repos |-> Newest(repos[r])]
  PROVE  /\ repos' \in [Repos -> Seq({"ok", "closed"})]
         /\ \A r \in Repos : \A i \in DOMAIN repos'[r] : repos'[r][i] = "closed" => i = Len(repos'[r])
         /\ \A r \in Repos : repos[r] # <<>> => repos'[r] # <<>>
         /\ Closed \subseteq Closed'
<1>1. \A r \in Repos : repos'[r] = Newest(repos[r]) /\ repos[r] \in Seq({"ok", "closed"})
  BY DEF StoreInv
<1>2. ASSUME NEW r \in Repos
      PROVE  /\ repos'[r] \in Seq({"ok", "closed"})
             /\ \A i \in DOMAIN repos'[r] : repos'[r][i] = "closed" => i = Len(repos'[r])
             /\ repos[r] # <<>> => repos'[r] # <<>>
  <2>1. CASE repos[r] = <<>>
    <3>1. repos'[r] = <<>>
      BY <1>1, <2>1, NewestRow
    <3>2. <<>> \in Seq({"ok", "closed"}) /\ DOMAIN <<>> = {}
      OBVIOUS
    <3>3. DOMAIN repos'[r] = {}
      BY <3>1, <3>2
    <3> QED BY <2>1, <3>1, <3>2, <3>3
  <2>2. CASE repos[r] # <<>>
    <3>1. /\ repos'[r] \in Seq({"ok", "closed"}) /\ repos'[r] # <<>>
          /\ Len(repos'[r]) = 1 /\ DOMAIN repos'[r] = {1}
      BY <1>1, <2>2, NewestRow
    <3> QED BY <3>1
  <2> QED BY <2>1, <2>2
<1>3. ASSUME NEW r \in Closed PROVE r \in Closed'
  <2>1. PICK i \in DOMAIN repos[r] : r \in Repos /\ repos[r][i] = "closed"
    BY DEF Closed
  <2>2. i = Len(repos[r]) /\ repos[r] # <<>>
    BY <1>1, <2>1 DEF StoreInv
  <2>3. 1 \in DOMAIN repos'[r] /\ repos'[r][1] = "closed"
    BY <1>1, <2>1, <2>2, NewestRow
  <2> QED BY <2>1, <2>3 DEF Closed
<1> QED BY <1>2, <1>3

LEMMA OneMoreRow ==
  ASSUME StoreInv, NEW r \in Repos, NEW status \in {"ok", "closed"},
         repos[r] # <<>> => repos[r][Len(repos[r])] = "ok",
         repos' = [repos EXCEPT ![r] = Append(@, status)]
  PROVE  /\ repos' \in [Repos -> Seq({"ok", "closed"})]
         /\ \A q \in Repos : \A i \in DOMAIN repos'[q] : repos'[q][i] = "closed" => i = Len(repos'[q])
         /\ \A q \in Repos : repos[q] # <<>> => repos'[q] # <<>>
         /\ Closed \subseteq Closed'
<1> DEFINE s == repos[r]
           t == Append(s, status)
<1>1. /\ s \in Seq({"ok", "closed"}) /\ repos \in [Repos -> Seq({"ok", "closed"})]
      /\ \A i \in DOMAIN s : s[i] = "closed" => i = Len(s)
  BY DEF StoreInv
<1>2. repos'[r] = t /\ \A q \in Repos : q # r => repos'[q] = repos[q]
  BY <1>1
<1>3. s # <<>> => s[Len(s)] = "ok"
  OBVIOUS
<1> HIDE DEF s
<1>4. /\ t \in Seq({"ok", "closed"}) /\ Len(t) = Len(s) + 1 /\ DOMAIN t = 1 .. Len(s) + 1
      /\ t # <<>> /\ \A i \in 1 .. Len(s) : t[i] = s[i]
  <2>1. /\ t \in Seq({"ok", "closed"}) /\ Len(t) = Len(s) + 1
        /\ \A i \in 1 .. Len(s) : t[i] = s[i]
    BY <1>1, AppendProperties
  <2>2. Len(s) \in Nat
    BY <1>1
  <2> HIDE DEF t
  <2> QED BY <2>1, <2>2
<1>5. \A i \in DOMAIN s : s[i] # "closed"
  BY <1>1, <1>3
<1>6. \A i \in DOMAIN t : t[i] = "closed" => i = Len(t)
  BY <1>1, <1>4, <1>5
<1>7. r \notin Closed
  BY <1>5 DEF Closed, s
<1> HIDE DEF t
<1>8. repos' \in [Repos -> Seq({"ok", "closed"})]
  BY <1>1, <1>4, <1>2 DEF t, s
<1>9. \A q \in Repos : \A i \in DOMAIN repos'[q] : repos'[q][i] = "closed" => i = Len(repos'[q])
  BY <1>2, <1>6 DEF StoreInv
<1>10. \A q \in Repos : repos[q] # <<>> => repos'[q] # <<>>
  BY <1>2, <1>4
<1>11. ASSUME NEW q \in Closed PROVE q \in Closed'
  <2>1. q \in Repos /\ q # r /\ \E i \in DOMAIN repos[q] : repos[q][i] = "closed"
    BY <1>7 DEF Closed
  <2>2. repos'[q] = repos[q]
    BY <1>2, <2>1
  <2> QED BY <2>1, <2>2 DEF Closed
<1> QED BY <1>8, <1>9, <1>10, <1>11

\* A step that leaves the tables alone.
LEMMA TablesAside ==
  ASSUME StoreInv, UNCHANGED tables, version = 7 => version' = 7,
         version = 7 => \A v \in CountingViews : \A p \in PRs : counted[v][p] <= counted'[v][p]
  PROVE  StoreInv' /\ (version = 7 => Onward)
<1>1. /\ events' = events /\ pulls' = pulls /\ comments' = comments
      /\ scans' = scans /\ reactions' = reactions /\ repos' = repos
  BY DEF tables
<1>2. StoreInv'
  BY <1>1 DEF StoreInv, PRsOf
<1>3. Closed' = Closed
  BY <1>1 DEF Closed
<1> QED BY <1>1, <1>2, <1>3 DEF Onward

LEMMA SameCounts ==
  ASSUME TablesOK, counted' = counted
  PROVE  \A v \in CountingViews : \A p \in PRs : counted[v][p] <= counted'[v][p]
BY DEF TablesOK

\* Once all versions are recorded the clients only ever add to the counts.
LEMMA WorkOnward ==
  ASSUME IInv, StoreInv, NEW c \in Clients, Work(c)
  PROVE  StoreInv' /\ (version = 7 => Onward)
<1>1. CASE CreateView(c)
  BY <1>1, TablesAside, SameCounts DEF CreateView, IInv, summaries
<1>2. CASE DropView(c)
  BY <1>2, TablesAside, SameCounts DEF DropView, IInv, summaries
<1>3. CASE TruncateTable(c)
  <2>1. version # 7
    <3>1. todo[c] # <<>> /\ Statement(c).op = "truncate"
      BY <1>3 DEF TruncateTable, Begin
    <3>2. CASE c = "migrator"
      BY <3>1, <3>2 DEF IInv, ClientsOK, MigratorOK
    <3>3. CASE c = "operator"
      BY <3>1, <3>3, Commands DEF IInv, ClientsOK, Statement, Create, Fill, Drop
    <3> QED BY <3>2, <3>3 DEF Clients
  <2>2. UNCHANGED tables /\ version' = version
    BY <1>3 DEF TruncateTable
  <2> QED BY <2>1, <2>2, TablesAside
<1>4. CASE FillReads(c)
  BY <1>4, TablesAside, SameCounts DEF FillReads, IInv, summaries
<1>5. CASE FillWrites(c)
  <2>1. /\ UNCHANGED tables /\ version' = version
        /\ fills[c] # NoFill /\ Written(fills[c]) /\ c \in Clients \cup {"gone"}
    BY <1>5 DEF FillWrites
  <2>2. \A v \in CountingViews : \A p \in PRs : counted[v][p] <= counted'[v][p]
    BY <2>1, WrittenAdds
  <2> QED BY <2>1, <2>2, TablesAside
<1> QED BY <1>1, <1>2, <1>3, <1>4, <1>5 DEF Work

LEMMA ClientsOnward ==
  ASSUME IInv, StoreInv,
         \/ \E c \in Clients : Work(c) \/ Crash(c)
         \/ Record \/ GoneWrites \/ Detach \/ Reattach \/ Refresh
         \/ UNCHANGED <<tables, summaries, version>>
  PROVE  StoreInv' /\ (version = 7 => Onward)
<1>1. ASSUME NEW c \in Clients, Work(c) PROVE StoreInv' /\ (version = 7 => Onward)
  BY <1>1, WorkOnward
<1>2. ASSUME NEW c \in Clients, Crash(c) PROVE StoreInv' /\ (version = 7 => Onward)
  BY <1>2, TablesAside, SameCounts DEF Crash, IInv, summaries
<1>3. CASE Record
  <2>1. version # 7 /\ UNCHANGED tables
    BY <1>3, Layout DEF Record, Migrated
  <2> QED BY <2>1, TablesAside
<1>4. CASE GoneWrites
  <2>1. /\ UNCHANGED tables /\ version' = version
        /\ fills["gone"] # NoFill /\ Written(fills["gone"]) /\ "gone" \in Clients \cup {"gone"}
    BY <1>4 DEF GoneWrites
  <2>2. \A v \in CountingViews : \A p \in PRs : counted[v][p] <= counted'[v][p]
    BY <2>1, WrittenAdds
  <2> QED BY <2>1, <2>2, TablesAside
<1>5. CASE Detach \/ Reattach
  BY <1>5, TablesAside, SameCounts DEF Detach, Reattach, Operate, IInv, summaries
<1>6. CASE Refresh
  BY <1>6, TablesAside, SameCounts DEF Refresh, IInv, summaries, clients
<1>7. CASE UNCHANGED <<tables, summaries, version>>
  BY <1>7, TablesAside, SameCounts DEF IInv, summaries
<1> QED BY <1>1, <1>2, <1>3, <1>4, <1>5, <1>6, <1>7

\* An insert that leaves repositories and counts alone: of events and what comes of them.
LEMMA InsertOnward ==
  ASSUME IInv, StoreInv, repos' = repos, version' = version, events \subseteq events',
         comments' \subseteq events',
         \A p \in PRs : pulls'[p] # <<>> \/ scans'[p] > 0 => p \in PRsOf(events)',
         \A v \in CountingViews : \A p \in PRs : counted[v][p] <= counted'[v][p]
  PROVE  StoreInv' /\ (version = 7 => Onward)
<1>1. Closed' = Closed
  BY DEF Closed
<1>2. StoreInv'
  BY DEF StoreInv
<1>3. version = 7 => Onward
  BY <1>1 DEF Onward
<1> QED BY <1>2, <1>3

LEMMA CountOnward ==
  ASSUME TablesOK, NEW v \in CountingViews, NEW p \in PRs, Count(v, p)
  PROVE  \A u \in CountingViews : \A q \in PRs : counted[u][q] <= counted'[u][q]
<1>1. CASE v \in attached
  <2>1. counted' = [counted EXCEPT ![v][p] = @ + 1]
    BY <1>1 DEF Count
  <2> QED BY <2>1 DEF TablesOK
<1>2. CASE v \notin attached
  BY <1>2, SameCounts DEF Count
<1> QED BY <1>1, <1>2

LEMMA EventsOnward ==
  ASSUME IInv, StoreInv, NEW p \in PRs, NEW b \in Bots,
         InsertPrBotEvents(p, b) \/ InsertPrComments(p, b) \/ InsertPrBotReactions(p, b)
  PROVE  StoreInv' /\ (version = 7 => Onward)
<1>1. /\ repos' = repos /\ version' = version /\ counted' = counted
      /\ pulls' = pulls /\ scans' = scans
  BY DEF InsertPrBotEvents, InsertPrComments, InsertPrBotReactions, Insert, clients
<1>2. events \subseteq events' /\ comments' \subseteq events'
  <2>1. CASE InsertPrBotEvents(p, b)
    BY <2>1 DEF InsertPrBotEvents, StoreInv
  <2>2. CASE InsertPrComments(p, b)
    BY <2>2 DEF InsertPrComments, StoreInv
  <2>3. CASE InsertPrBotReactions(p, b)
    BY <2>3 DEF InsertPrBotReactions, StoreInv
  <2> QED BY <2>1, <2>2, <2>3
<1>3. PRsOf(events) \subseteq PRsOf(events)'
  BY <1>2 DEF PRsOf
<1>4. \A q \in PRs : pulls'[q] # <<>> \/ scans'[q] > 0 => q \in PRsOf(events)'
  BY <1>1, <1>3 DEF StoreInv
<1>5. \A v \in CountingViews : \A q \in PRs : counted[v][q] <= counted'[v][q]
  BY <1>1, SameCounts DEF IInv
<1> QED BY <1>1, <1>2, <1>4, <1>5, InsertOnward

LEMMA RowsOnward ==
  ASSUME IInv, StoreInv, NEW p \in PRs,
         InsertReactionScanProgress(p) \/ \E row \in {"found", "gone"} : InsertPullRequests(p, row)
  PROVE  StoreInv' /\ (version = 7 => Onward)
<1>1. /\ repos' = repos /\ version' = version /\ events' = events /\ comments' = comments
      /\ p \in PRsOf(events)
  BY DEF InsertReactionScanProgress, InsertPullRequests, Insert, clients
<1>2. \A q \in PRs : q # p => pulls'[q] = pulls[q] /\ scans'[q] = scans[q]
  <2>1. CASE InsertReactionScanProgress(p)
    BY <2>1 DEF InsertReactionScanProgress, IInv, TablesOK
  <2>2. CASE \E row \in {"found", "gone"} : InsertPullRequests(p, row)
    BY <2>2 DEF InsertPullRequests, IInv, TablesOK
  <2> QED BY <2>1, <2>2
<1>3. PRsOf(events)' = PRsOf(events)
  BY <1>1 DEF PRsOf
<1>4. \A q \in PRs : pulls'[q] # <<>> \/ scans'[q] > 0 => q \in PRsOf(events)'
  BY <1>1, <1>2, <1>3 DEF StoreInv
<1>5. \A v \in CountingViews : \A q \in PRs : counted[v][q] <= counted'[v][q]
  <2>1. CASE InsertReactionScanProgress(p)
    BY <2>1, CountOnward DEF InsertReactionScanProgress, IInv, CountingViews
  <2>2. ASSUME NEW row \in {"found", "gone"}, InsertPullRequests(p, row)
        PROVE  \A v \in CountingViews : \A q \in PRs : counted[v][q] <= counted'[v][q]
    <3>1. CASE row = "found"
      BY <2>2, <3>1, CountOnward DEF InsertPullRequests, IInv, CountingViews
    <3>2. CASE row # "found"
      BY <2>2, <3>2, SameCounts DEF InsertPullRequests, IInv
    <3> QED BY <3>1, <3>2
  <2> QED BY <2>1, <2>2
<1>6. events \subseteq events' /\ comments' \subseteq events'
  BY <1>1 DEF StoreInv
<1> QED BY <1>1, <1>4, <1>5, <1>6, InsertOnward

LEMMA ReposOnward ==
  ASSUME IInv, StoreInv, NEW r \in Repos, NEW status \in {"ok", "closed"}, InsertRepos(r, status)
  PROVE  StoreInv' /\ (version = 7 => Onward)
<1>1. /\ repos[r] # <<>> => repos[r][Len(repos[r])] = "ok"
      /\ repos' = [repos EXCEPT ![r] = Append(@, status)]
      /\ UNCHANGED <<events, pulls, comments, scans, counted, version>>
  BY DEF InsertRepos, Insert, clients, summaries
<1>2. /\ repos' \in [Repos -> Seq({"ok", "closed"})]
      /\ \A q \in Repos : \A i \in DOMAIN repos'[q] : repos'[q][i] = "closed" => i = Len(repos'[q])
      /\ \A q \in Repos : repos[q] # <<>> => repos'[q] # <<>>
      /\ Closed \subseteq Closed'
  BY <1>1, OneMoreRow
<1>3. \A v \in CountingViews : \A p \in PRs : counted[v][p] <= counted'[v][p]
  BY <1>1, SameCounts DEF IInv
<1>4. StoreInv'
  BY <1>1, <1>2 DEF StoreInv, PRsOf
<1> QED BY <1>1, <1>2, <1>3, <1>4 DEF Onward

LEMMA MergeOnward ==
  ASSUME IInv, StoreInv, NEW table \in {"pull_requests", "repos", "reaction_scan_progress"},
         Merge(table)
  PROVE  StoreInv' /\ (version = 7 => Onward)
<1>1. UNCHANGED <<events, comments, counted, version>>
  BY DEF Merge, clients, summaries
<1>2. \A v \in CountingViews : \A p \in PRs : counted[v][p] <= counted'[v][p]
  BY <1>1, SameCounts DEF IInv
<1>3. CASE table = "repos"
  <2>1. repos' = [r \in Repos |-> Newest(repos[r])] /\ UNCHANGED <<scans, pulls>>
    BY <1>3 DEF Merge
  <2>2. /\ repos' \in [Repos -> Seq({"ok", "closed"})]
        /\ \A r \in Repos : \A i \in DOMAIN repos'[r] : repos'[r][i] = "closed" => i = Len(repos'[r])
        /\ \A r \in Repos : repos[r] # <<>> => repos'[r] # <<>>
        /\ Closed \subseteq Closed'
    BY <2>1, MergedRepos
  <2>3. StoreInv'
    BY <1>1, <2>1, <2>2 DEF StoreInv, PRsOf
  <2> QED BY <1>1, <1>2, <2>2, <2>3 DEF Onward
<1>4. CASE table # "repos"
  <2>1. repos' = repos
    BY <1>4 DEF Merge
  <2>2. \A p \in PRs : pulls'[p] # <<>> \/ scans'[p] > 0 => pulls[p] # <<>> \/ scans[p] > 0
    <3>1. CASE table = "pull_requests"
      <4>1. pulls' = [p \in PRs |-> Newest(pulls[p])] /\ scans' = scans
        BY <3>1 DEF Merge
      <4>2. \A p \in PRs : pulls'[p] = <<>> <=> pulls[p] = <<>>
        BY <4>1, NewestRow DEF IInv, TablesOK
      <4> QED BY <4>1, <4>2
    <3>2. CASE table = "reaction_scan_progress"
      <4>1. pulls' = pulls /\ scans' = [p \in PRs |-> IF scans[p] = 0 THEN 0 ELSE 1]
        BY <3>2 DEF Merge
      <4> QED BY <4>1 DEF IInv, TablesOK
    <3> QED BY <1>4, <3>1, <3>2
  <2>3. PRsOf(events)' = PRsOf(events)
    BY <1>1 DEF PRsOf
  <2>4. \A p \in PRs : pulls'[p] # <<>> \/ scans'[p] > 0 => p \in PRsOf(events)'
    BY <2>2, <2>3 DEF StoreInv
  <2>5. events \subseteq events' /\ comments' \subseteq events'
    BY <1>1 DEF StoreInv
  <2> QED BY <1>1, <1>2, <2>1, <2>4, <2>5, InsertOnward
<1> QED BY <1>3, <1>4

-----------------------------------------------------------------------------
(* The answers of the status page *)

\* Each repository that has a row has at least one that is counted.
LEMMA RowsCounted ==
  ASSUME TablesOK, StoreInv, NEW T \in SUBSET Repos, \A r \in T : repos[r] # <<>>
  PROVE  /\ RowsOf("ok") \in Nat /\ RowsOf("closed") \in Nat
         /\ Cardinality(T) <= RowsOf("ok") + RowsOf("closed")
<1> DEFINE f(status) ==
             [r \in Repos |-> Cardinality({i \in DOMAIN repos[r] : repos[r][i] = status})]
           ok == f("ok")
           closed == f("closed")
           all == [r \in Repos |-> ok[r] + closed[r]]
<1>1. IsFiniteSet(Repos)
  BY StoreFinite
<1>2. ASSUME NEW r \in Repos, NEW status \in {"ok", "closed"}
      PROVE  /\ IsFiniteSet({i \in DOMAIN repos[r] : repos[r][i] = status})
             /\ f(status)[r] \in Nat
             /\ (\E i \in DOMAIN repos[r] : repos[r][i] = status) => f(status)[r] > 0
  <2> DEFINE D == {i \in DOMAIN repos[r] : repos[r][i] = status}
  <2>1. repos[r] \in Seq({"ok", "closed"})
    BY DEF StoreInv
  <2>2. IsFiniteSet(DOMAIN repos[r])
    BY <2>1, FS_Interval
  <2>3. IsFiniteSet(D)
    BY <2>2, FS_Subset
  <2>4. f(status)[r] = Cardinality(D)
    OBVIOUS
  <2>5. (\E i \in DOMAIN repos[r] : repos[r][i] = status) => D # {}
    OBVIOUS
  <2>6. Cardinality(D) \in Nat /\ (D # {} => Cardinality(D) # 0)
    <3> HIDE DEF D
    <3> QED BY <2>3, FS_CardinalityType, FS_EmptySet
  <2> HIDE DEF f
  <2> QED BY <2>3, <2>4, <2>5, <2>6
<1>3. RowsOf("ok") = SumFunctionOnSet(ok, Repos) /\ RowsOf("closed") = SumFunctionOnSet(closed, Repos)
  BY SumOfFunction DEF RowsOf
<1>4. \A r \in Repos : ok[r] \in Nat /\ closed[r] \in Nat
  BY <1>2
<1>5. ASSUME NEW r \in T PROVE ok[r] > 0 \/ closed[r] > 0
  <2>1. r \in Repos /\ repos[r] \in Seq({"ok", "closed"}) /\ repos[r] # <<>>
    BY DEF StoreInv
  <2>2. 1 \in DOMAIN repos[r] /\ repos[r][1] \in {"ok", "closed"}
    BY <2>1
  <2> HIDE DEF f
  <2>3. CASE repos[r][1] = "ok"
    BY <1>2, <2>1, <2>2, <2>3
  <2>4. CASE repos[r][1] = "closed"
    BY <1>2, <2>1, <2>2, <2>4
  <2> QED BY <2>2, <2>3, <2>4
<1> HIDE DEF ok, closed
<1>6. \A r \in Repos : all[r] \in Nat /\ all[r] = ok[r] + closed[r]
  BY <1>4
<1>7. \A r \in T : all[r] > 0
  BY <1>4, <1>5, <1>6
<1> HIDE DEF all
<1>8. Cardinality(T) <= SumFunctionOnSet(all, Repos)
  <2>1. \A r \in Repos : all[r] \in Nat
    BY <1>6
  <2> QED BY <1>1, <1>7, <2>1, SumAtLeast
<1>9. SumFunctionOnSet(all, Repos) = SumFunctionOnSet(ok, Repos) + SumFunctionOnSet(closed, Repos)
  <2>1. \A r \in Repos : ok[r] \in Int /\ closed[r] \in Int /\ all[r] = ok[r] + closed[r]
    BY <1>4, <1>6
  <2> QED BY <1>1, <2>1, SumPlus
<1>10. SumFunctionOnSet(ok, Repos) \in Nat /\ SumFunctionOnSet(closed, Repos) \in Nat
  <2>1. \A r \in Repos : ok[r] \in Nat
    BY <1>4
  <2>2. \A r \in Repos : closed[r] \in Nat
    BY <1>4
  <2> QED BY <1>1, <2>1, <2>2, SumNat
<1> QED BY <1>3, <1>8, <1>9, <1>10

\* What is done is unreachable or counted.
LEMMA DoneCounted ==
  ASSUME IInv, version = 7, NEW P \in SUBSET PRs, NEW v \in CountingViews, Done(P, v)
  PROVE  LET open == {p \in PRs : RepoOf[p] \notin Closed} IN
         /\ Cardinality(PRsInClosed) \in Nat
         /\ SumFunctionOnSet(counted[v], open) \in Nat /\ SumFunction(counted[v]) \in Nat
         /\ Cardinality(P) <= SumFunctionOnSet(counted[v], open) + Cardinality(PRsInClosed)
         /\ Cardinality(P) <= SumFunction(counted[v]) + Cardinality(PRsInClosed)
<1> DEFINE open == {p \in PRs : RepoOf[p] \notin Closed}
           some == {p \in P : RepoOf[p] \notin Closed}
           f == counted[v]
<1>1. PRsInClosed = {p \in PRsOf(events) : RepoOf[p] \in Closed}
  <2>1. stored["repo_pr_summary"] = PRsOf(events)
    BY Told, KeysAre DEF KeysSay, DistinctViews, EventPRViews
  <2> QED BY <2>1 DEF PRsInClosed
<1>2. IsFiniteSet(PRs) /\ IsFiniteSet(PRsOf(events))
  BY StoreFinite DEF IInv
<1>3. IsFiniteSet(PRsInClosed) /\ IsFiniteSet(open)
  <2>1. PRsInClosed \in SUBSET PRsOf(events) /\ open \in SUBSET PRs
    BY <1>1
  <2> QED BY <1>2, <2>1, FS_Subset
<1>4. P \subseteq some \cup PRsInClosed
  BY <1>1 DEF Done
<1>5. DOMAIN f = PRs /\ \A p \in PRs : f[p] \in Nat
  BY DEF IInv, TablesOK
<1>6. some \in SUBSET open /\ open \in SUBSET PRs /\ \A p \in some : f[p] > 0
  BY DEF Done
<1> HIDE DEF f, some, open
<1>7. \A p \in open : f[p] \in Nat
  BY <1>5, <1>6
<1>8. IsFiniteSet(some) /\ Cardinality(some) <= SumFunctionOnSet(f, open)
  BY <1>3, <1>6, <1>7, SumAtLeast
<1>9. SumFunctionOnSet(f, open) <= SumFunctionOnSet(f, PRs)
  BY <1>2, <1>5, <1>6, SumSubset
<1>10. SumFunctionOnSet(f, open) \in Nat /\ SumFunctionOnSet(f, PRs) \in Nat
  BY <1>2, <1>3, <1>5, <1>7, SumNat
<1>11. SumFunction(f) = SumFunctionOnSet(f, PRs)
  BY <1>5, SumOfFunction
<1>12. /\ Cardinality(P) <= Cardinality(some) + Cardinality(PRsInClosed)
       /\ Cardinality(P) \in Nat /\ Cardinality(some) \in Nat /\ Cardinality(PRsInClosed) \in Nat
  BY <1>3, <1>4, <1>8, CoveredBy
<1>13. /\ Cardinality(P) <= SumFunctionOnSet(f, open) + Cardinality(PRsInClosed)
       /\ Cardinality(P) <= SumFunctionOnSet(f, PRs) + Cardinality(PRsInClosed)
  BY <1>8, <1>9, <1>10, <1>12
<1> QED BY <1>10, <1>11, <1>12, <1>13 DEF f, open

\* What is finished now is unreachable or counted.
LEMMA FinishedIsDone ==
  ASSUME IInv, StoreInv, version = 7
  PROVE  /\ Finished.repos = {r \in Repos : repos[r] # <<>>}
         /\ Finished.prs \subseteq PRs /\ Done(Finished.prs, "pull_requests_enrichment_summary")
         /\ Finished.reactions \subseteq PRs /\ Done(Finished.reactions, "reaction_scan_repo_summary")
<1>1. version = 7
  OBVIOUS
<1> DEFINE P == Finished.prs
           R == Finished.reactions
           gone == {p \in PRsOf(events) : RepoOf[p] \in Closed}
<1>3. /\ Finished = [repos |-> {r \in Repos : repos[r] # <<>>}, prs |-> P, reactions |-> R]
      /\ P = gone \cup {p \in PRs : Rows(p, "found") > 0}
      /\ R = gone \cup {p \in PRs : scans[p] > 0}
  BY DEF Finished
<1> HIDE DEF P, R
<1>4. gone \subseteq PRs /\ gone \subseteq PRsOf(events)
  BY StoreFinite DEF IInv
<1>5. ASSUME NEW p \in PRs, Rows(p, "found") > 0
      PROVE  p \in PRsOf(events) /\ counted["pull_requests_enrichment_summary"][p] > 0
  <2>1. pulls[p] # <<>>
    <3>1. ASSUME pulls[p] = <<>> PROVE Rows(p, "found") = 0
      <4>1. {i \in DOMAIN pulls[p] : pulls[p][i] = "found"} = {}
        BY <3>1
      <4> QED BY <4>1, FS_EmptySet DEF Rows
    <3> QED BY <1>5, <3>1
  <2>2. Counts("pull_requests_enrichment_summary")[p] <= counted["pull_requests_enrichment_summary"][p]
    BY <1>1, Told DEF CountingViews
  <2>3. Counts("pull_requests_enrichment_summary")[p] = Rows(p, "found")
    BY KeysAre DEF KeysSay
  <2>4. Rows(p, "found") \in Nat /\ counted["pull_requests_enrichment_summary"][p] \in Nat
    <3>1. pulls[p] \in Seq({"found", "gone"})
      BY DEF IInv, TablesOK
    <3>2. Rows(p, "found") \in Nat
      BY <3>1, FoundFinite, RowsFound
    <3> QED BY <3>2 DEF IInv, TablesOK, CountingViews
  <2> QED BY <1>5, <2>1, <2>2, <2>3, <2>4 DEF StoreInv
<1>6. ASSUME NEW p \in PRs, scans[p] > 0
      PROVE  p \in PRsOf(events) /\ counted["reaction_scan_repo_summary"][p] > 0
  <2>1. Counts("reaction_scan_repo_summary")[p] <= counted["reaction_scan_repo_summary"][p]
    BY <1>1, Told DEF CountingViews
  <2>2. Counts("reaction_scan_repo_summary")[p] = scans[p]
    BY KeysAre DEF KeysSay
  <2>3. scans[p] \in Nat /\ counted["reaction_scan_repo_summary"][p] \in Nat
    BY DEF IInv, TablesOK, CountingViews
  <2> QED BY <1>6, <2>1, <2>2, <2>3 DEF StoreInv
<1>7. /\ P \subseteq PRs /\ Done(P, "pull_requests_enrichment_summary")
      /\ R \subseteq PRs /\ Done(R, "reaction_scan_repo_summary")
  BY <1>3, <1>4, <1>5, <1>6 DEF Done
<1> QED BY <1>3, <1>7 DEF P, R

\* What each query answers.
LEMMA AnswersAre ==
  /\ Answer("global") = GlobalAnswer /\ Answer("pulls") = PullsAnswer
  /\ Answer("reactions") = ReactionsAnswer
  /\ DOMAIN GlobalAnswer = {"repos_total", "prs_discovered"}
  /\ DOMAIN PullsAnswer = {"repos_ok", "repos_not_found", "prs_enriched", "prs_unreachable"}
  /\ DOMAIN ReactionsAnswer = {"reactions_scanned", "reactions_unreachable"}
BY DEF Answer, GlobalAnswer, PullsAnswer, ReactionsAnswer

LEMMA AnswersCount ==
  ASSUME IInv, StoreInv, version = 7
  PROVE  /\ \A f \in DOMAIN GlobalAnswer : GlobalAnswer[f] \in Nat
         /\ \A f \in DOMAIN PullsAnswer : PullsAnswer[f] \in Nat
         /\ \A f \in DOMAIN ReactionsAnswer : ReactionsAnswer[f] \in Nat
         /\ GlobalAnswer.repos_total = Cardinality(Known)
         /\ GlobalAnswer.prs_discovered = Cardinality(PRsOf(events))
<1>1. stored["pr_discovery_global_summary"] = PRsOf(events)
  BY Told, KeysAre DEF KeysSay, DistinctViews, PairViews, EventPRViews
<1>2. IsFiniteSet(Known) /\ IsFiniteSet(PRsOf(events))
  BY StoreFinite DEF IInv
<1>3. /\ GlobalAnswer.repos_total = Cardinality(Known)
      /\ GlobalAnswer.prs_discovered = Cardinality(PRsOf(events))
  BY <1>1 DEF GlobalAnswer, Known
<1>4. Cardinality(Known) \in Nat /\ Cardinality(PRsOf(events)) \in Nat
  BY <1>2, FS_CardinalityType
<1>5. RowsOf("ok") \in Nat /\ RowsOf("closed") \in Nat
  <2>1. {} \in SUBSET Repos /\ \A r \in {} : repos[r] # <<>>
    OBVIOUS
  <2> QED BY <2>1, RowsCounted DEF IInv
<1>6. /\ Cardinality(PRsInClosed) \in Nat
      /\ SumFunction(counted["pull_requests_enrichment_summary"]) \in Nat
      /\ SumFunctionOnSet(counted["reaction_scan_repo_summary"],
                          {p \in PRs : RepoOf[p] \notin Closed}) \in Nat
  <2>1. \A v : Done({}, v)
    BY DEF Done
  <2> QED BY <2>1, DoneCounted DEF CountingViews
<1>7. \A f \in DOMAIN GlobalAnswer : GlobalAnswer[f] \in Nat
  BY <1>3, <1>4, AnswersAre
<1>8. \A f \in DOMAIN PullsAnswer : PullsAnswer[f] \in Nat
  BY <1>5, <1>6 DEF PullsAnswer
<1>9. \A f \in DOMAIN ReactionsAnswer : ReactionsAnswer[f] \in Nat
  BY <1>6 DEF ReactionsAnswer
<1> QED BY <1>3, <1>7, <1>8, <1>9

\* Whatever the age of the answers it is combined with, an answer is true of what it tells.
LEMMA AnswerArrivesKeeps ==
  ASSUME IInv, StoreInv, PageInv, NEW query \in Queries, AnswerArrives(query)
  PROVE  PageInv'
<1> DEFINE got == answers.got
           done == answers.finished
           new == answers'.got
           now == answers'.finished
           v == "pull_requests_enrichment_summary"
           w == "reaction_scan_repo_summary"
<1>1. version = 7
  BY Layout DEF AnswerArrives, Migrated, IInv, ClientsOK, MigratorOK
<1>2. UNCHANGED <<repos, events, counted, version>>
  BY DEF AnswerArrives, tables, summaries, clients
<1>3. /\ AnswersTyped
      /\ \A r \in done.repos : repos[r] # <<>>
      /\ Done(done.prs, v) /\ Done(done.reactions, w)
  <2>1. CASE answers = Unread
    <3>1. /\ answers.waiting = Queries /\ answers.got = Blank
          /\ done = [k \in Kinds |-> {}]
          /\ answers \in [waiting: {Queries}, got: {Blank}, finished: {[k \in Kinds |-> {}]}]
      BY <2>1 DEF Unread
    <3>2. done.repos = {} /\ done.prs = {} /\ done.reactions = {}
      BY <3>1 DEF Kinds
    <3>3. Blank \in [Fields -> Nat]
      BY DEF Blank
    <3>4. [k \in Kinds |-> {}] \in [Kinds -> SUBSET (Repos \cup PRs)]
      OBVIOUS
    <3>5. AnswersTyped
      BY <3>1, <3>2, <3>3, <3>4 DEF AnswersTyped
    <3> QED BY <3>2, <3>5 DEF Done
  <2>2. CASE answers # Unread
    BY <2>2 DEF PageInv, AnswersTrue
  <2> QED BY <2>1, <2>2
<1>4. /\ answers'.waiting = answers.waiting \ {query}
      /\ new = [f \in Fields |-> IF f \in DOMAIN Answer(query) THEN Answer(query)[f] ELSE got[f]]
      /\ now = [k \in Kinds |-> IF k \in Tells(query) THEN Finished[k] ELSE done[k]]
      /\ answers' \in [waiting: {answers.waiting \ {query}}, got: {new}, finished: {now}]
  BY DEF AnswerArrives
<1>5. \A f \in Fields : new[f] = IF f \in DOMAIN Answer(query) THEN Answer(query)[f] ELSE got[f]
  BY <1>4
<1>6. new \in [Fields -> Nat]
  <2>1. \A f \in DOMAIN Answer(query) : Answer(query)[f] \in Nat
    BY <1>1, AnswersCount, AnswersAre DEF Queries
  <2>2. got \in [Fields -> Nat]
    BY <1>3 DEF AnswersTyped
  <2> QED BY <1>4, <2>1, <2>2
<1>7. /\ query = "pulls" => now.repos = Finished.repos /\ now.prs = Finished.prs
      /\ query # "pulls" => now.repos = done.repos /\ now.prs = done.prs
      /\ query = "reactions" => now.reactions = Finished.reactions
      /\ query # "reactions" => now.reactions = done.reactions
      /\ DOMAIN now = Kinds
  BY <1>4 DEF Tells, Kinds, Queries
<1>8. /\ now.repos \subseteq Repos /\ \A r \in now.repos : repos[r] # <<>>
      /\ now.prs \subseteq PRs /\ Done(now.prs, v)
      /\ now.reactions \subseteq PRs /\ Done(now.reactions, w)
  <2>1. /\ done.repos \subseteq Repos /\ done.prs \subseteq PRs /\ done.reactions \subseteq PRs
    BY <1>3 DEF AnswersTyped
  <2>2. /\ Finished.repos = {r \in Repos : repos[r] # <<>>}
        /\ Finished.prs \subseteq PRs /\ Done(Finished.prs, v)
        /\ Finished.reactions \subseteq PRs /\ Done(Finished.reactions, w)
    BY <1>1, FinishedIsDone
  <2>3. now.repos \subseteq Repos /\ \A r \in now.repos : repos[r] # <<>>
    BY <1>3, <1>7, <2>1, <2>2
  <2>4. now.prs \subseteq PRs /\ Done(now.prs, v)
    BY <1>3, <1>7, <2>1, <2>2
  <2>5. now.reactions \subseteq PRs /\ Done(now.reactions, w)
    BY <1>3, <1>7, <2>1, <2>2
  <2> QED BY <2>3, <2>4, <2>5
<1>9. v \in CountingViews /\ w \in CountingViews
  BY DEF CountingViews
<1>10. /\ "repos_total" \in Fields /\ "prs_discovered" \in Fields /\ "repos_ok" \in Fields
       /\ "repos_not_found" \in Fields /\ "prs_enriched" \in Fields /\ "prs_unreachable" \in Fields
       /\ "reactions_scanned" \in Fields /\ "reactions_unreachable" \in Fields
  BY DEF Fields
<1>11. answers' \in [waiting: SUBSET Queries, got: [Fields -> Nat],
                     finished: [Kinds -> SUBSET (Repos \cup PRs)]]
  <2>1. answers.waiting \ {query} \in SUBSET Queries
    BY <1>3 DEF AnswersTyped
  <2>2. now.repos \subseteq Repos \cup PRs /\ now.prs \subseteq Repos \cup PRs
        /\ now.reactions \subseteq Repos \cup PRs
    BY <1>8
  <2>3. now \in [Kinds -> SUBSET (Repos \cup PRs)]
    <3>1. \A k \in Kinds : now[k] \in SUBSET (Repos \cup PRs)
      BY <2>2 DEF Kinds
    <3> QED BY <1>4, <3>1
  <2> HIDE DEF new, now
  <2> QED BY <1>4, <1>6, <2>1, <2>3
<1> HIDE DEF new, now
<1>12. ASSUME "global" \notin answers'.waiting
       PROVE  /\ new["repos_total"] <= Cardinality(Known)
              /\ new["prs_discovered"] <= Cardinality(PRsOf(events))
  <2>1. CASE query = "global"
    <3>1. /\ new["repos_total"] = Cardinality(Known)
          /\ new["prs_discovered"] = Cardinality(PRsOf(events))
      BY <1>1, <1>5, <1>10, <2>1, AnswersAre, AnswersCount
    <3>2. new["repos_total"] \in Nat /\ new["prs_discovered"] \in Nat
      BY <1>6, <1>10
    <3> QED BY <3>1, <3>2
  <2>2. CASE query # "global"
    <3>1. "global" \in Queries
      BY DEF Queries
    <3>2. "global" \notin answers.waiting
      BY <1>4, <1>12, <2>2
    <3>3. answers # Unread
      BY <3>1, <3>2 DEF Unread
    <3>4. new["repos_total"] = got["repos_total"] /\ new["prs_discovered"] = got["prs_discovered"]
      BY <1>5, <1>10, <2>2, AnswersAre DEF Queries
    <3> QED BY <3>2, <3>3, <3>4 DEF PageInv, AnswersTrue
  <2> QED BY <2>1, <2>2
<1>13. ASSUME "pulls" \notin answers'.waiting
       PROVE  /\ Cardinality(now.repos) <= new["repos_ok"] + new["repos_not_found"]
              /\ Cardinality(now.prs) <= new["prs_enriched"] + new["prs_unreachable"]
  <2>1. CASE query = "pulls"
    <3>1. /\ new["repos_ok"] = RowsOf("ok") /\ new["repos_not_found"] = RowsOf("closed")
          /\ new["prs_enriched"] = SumFunction(counted[v])
          /\ new["prs_unreachable"] = Cardinality(PRsInClosed)
      BY <1>5, <1>10, <2>1, AnswersAre DEF PullsAnswer
    <3>2. now.repos \in SUBSET Repos /\ \A r \in now.repos : repos[r] # <<>>
      BY <1>8
    <3>3. Cardinality(now.repos) <= RowsOf("ok") + RowsOf("closed")
      BY <3>2, RowsCounted DEF IInv
    <3>4. now.prs \in SUBSET PRs /\ Done(now.prs, v)
      BY <1>8
    <3>5. Cardinality(now.prs) <= SumFunction(counted[v]) + Cardinality(PRsInClosed)
      BY <1>1, <1>9, <3>4, DoneCounted
    <3> QED BY <3>1, <3>3, <3>5
  <2>2. CASE query # "pulls"
    <3>1. "pulls" \notin answers.waiting /\ "pulls" \in Queries
      BY <1>4, <1>13, <2>2 DEF Queries
    <3>2. answers # Unread
      BY <3>1 DEF Unread
    <3>3. /\ new["repos_ok"] = got["repos_ok"] /\ new["repos_not_found"] = got["repos_not_found"]
          /\ new["prs_enriched"] = got["prs_enriched"]
          /\ new["prs_unreachable"] = got["prs_unreachable"]
      BY <1>5, <1>10, <2>2, AnswersAre DEF Queries
    <3>4. now.repos = done.repos /\ now.prs = done.prs
      BY <1>7, <2>2
    <3> QED BY <3>1, <3>2, <3>3, <3>4 DEF PageInv, AnswersTrue
  <2> QED BY <2>1, <2>2
<1>14. ASSUME "reactions" \notin answers'.waiting
       PROVE  Cardinality(now.reactions) <= new["reactions_scanned"] + new["reactions_unreachable"]
  <2>1. CASE query = "reactions"
    <3>1. /\ new["reactions_scanned"]
                = SumFunctionOnSet(counted[w], {p \in PRs : RepoOf[p] \notin Closed})
          /\ new["reactions_unreachable"] = Cardinality(PRsInClosed)
      BY <1>5, <1>10, <2>1, AnswersAre DEF ReactionsAnswer
    <3>2. now.reactions \in SUBSET PRs /\ Done(now.reactions, w)
      BY <1>8
    <3>3. Cardinality(now.reactions)
            <= SumFunctionOnSet(counted[w], {p \in PRs : RepoOf[p] \notin Closed})
                 + Cardinality(PRsInClosed)
      BY <1>1, <1>9, <3>2, DoneCounted
    <3> QED BY <3>1, <3>3
  <2>2. CASE query # "reactions"
    <3>1. "reactions" \notin answers.waiting /\ "reactions" \in Queries
      BY <1>4, <1>14, <2>2 DEF Queries
    <3>2. answers # Unread
      BY <3>1 DEF Unread
    <3>3. /\ new["reactions_scanned"] = got["reactions_scanned"]
          /\ new["reactions_unreachable"] = got["reactions_unreachable"]
      BY <1>5, <1>10, <2>2, AnswersAre DEF Queries
    <3>4. now.reactions = done.reactions
      BY <1>7, <2>2
    <3> QED BY <3>1, <3>2, <3>3, <3>4 DEF PageInv, AnswersTrue
  <2> QED BY <2>1, <2>2
<1>15. /\ Known' = Known /\ PRsOf(events)' = PRsOf(events) /\ Closed' = Closed
       /\ new = answers'.got /\ now = answers'.finished
  BY <1>2 DEF Known, PRsOf, Closed, new, now
<1>16. Done(answers.finished.prs, v)' /\ Done(answers.finished.reactions, w)'
  BY <1>2, <1>8, <1>15 DEF Done
<1>17. AnswersTyped'
  BY <1>8, <1>11, <1>15 DEF AnswersTyped
<1> QED BY <1>1, <1>2, <1>8, <1>12, <1>13, <1>14, <1>15, <1>16, <1>17 DEF PageInv, AnswersTrue

LEMMA StatusStep == IInv /\ StoreInv /\ PageInv /\ [Next]_vars => StoreInv' /\ PageInv'
<1> SUFFICES ASSUME IInv, StoreInv, PageInv, [Next]_vars PROVE StoreInv' /\ PageInv'
  OBVIOUS
<1>1. IInv'
  BY StepKeeps
<1>2. ASSUME StoreInv' /\ (version = 7 => Onward), answers' = answers PROVE StoreInv' /\ PageInv'
  <2>1. CASE answers = Unread
    BY <1>2, <2>1 DEF PageInv, Unread
  <2>2. CASE answers # Unread
    <3>1. Onward
      BY <1>2, <2>2 DEF PageInv
    <3> QED BY <1>1, <1>2, <3>1, PageOnward DEF IInv
  <2> QED BY <2>1, <2>2
<1>3. ASSUME \/ \E c \in Clients : Work(c) \/ Crash(c)
             \/ Record \/ GoneWrites \/ Detach \/ Reattach \/ Refresh
      PROVE  StoreInv' /\ PageInv'
  <2>1. answers' = answers
    BY <1>3 DEF Work, CreateView, DropView, TruncateTable, FillReads, FillWrites, Crash, Record,
                GoneWrites, Detach, Reattach, Operate, Refresh
  <2> QED BY <1>2, <1>3, <2>1, ClientsOnward
<1>4. CASE Pipeline
  <2>1. answers' = answers
    BY <1>4 DEF Pipeline, InsertPrBotEvents, InsertPrComments, InsertPrBotReactions, InsertRepos,
                InsertReactionScanProgress, InsertPullRequests, Insert
  <2>2. StoreInv' /\ (version = 7 => Onward)
    BY <1>4, EventsOnward, RowsOnward, ReposOnward DEF Pipeline
  <2> QED BY <1>2, <2>1, <2>2
<1>5. ASSUME NEW table \in {"pull_requests", "repos", "reaction_scan_progress"}, Merge(table)
      PROVE  StoreInv' /\ PageInv'
  BY <1>2, <1>5, MergeOnward DEF Merge
<1>6. ASSUME NEW query \in Queries, AnswerArrives(query) PROVE StoreInv' /\ PageInv'
  <2>1. UNCHANGED <<tables, summaries, version>>
    BY <1>6 DEF AnswerArrives, clients
  <2>2. StoreInv'
    BY <2>1, ClientsOnward
  <2> QED BY <1>6, <2>2, AnswerArrivesKeeps
<1>7. CASE UNCHANGED vars
  BY <1>2, <1>7, ClientsOnward DEF vars, clients
<1> QED BY <1>3, <1>4, <1>5, <1>6, <1>7 DEF Next

\* getDataCollectionStats (app/src/lib/clickhouse.ts) and pipeline enrich-status
\* (pipeline/src/cli.ts) never announce more pending work than there is, for any tables,
\* inserts, merges and refreshes, and answers of the status page's queries cached each for itself
\* and combined at any age; and the count of pairs without comments is that of what the comments
\* stage would select.
THEOREM PendingHolds == Spec => []PendingIsReal
<1>1. IInv /\ StoreInv /\ PageInv => PendingIsReal
  <2> SUFFICES ASSUME IInv, StoreInv, PageInv PROVE PendingIsReal
    OBVIOUS
  <2>1. TablesOK
    BY DEF IInv
  <2>2. Migrated => version = 7
    BY Layout DEF Migrated, IInv, ClientsOK, MigratorOK
  <2> QED BY <2>1, <2>2, PageHolds, CommentsHold, EnrichStatusHolds DEF PendingIsReal
<1>2. Spec => [](StoreInv /\ PageInv)
  BY Invariance, InitStored, StatusStep, PTL DEF Spec
<1> QED BY <1>1, <1>2, Invariance, PTL

-----------------------------------------------------------------------------
(* The cache of an instance of the app *)

Reads == UNION {[Q -> Nat \cup {None}] : Q \in SUBSET CacheQueries}
WorkType ==
  [key : CacheKeys, stage : Nat \ {0}, asked : Nat, failed : BOOLEAN, flying : Reads, oldest : Nat]

CacheTyped ==
  /\ cache \in [CacheKeys -> [age : Nat, left : Nat]]
  /\ working \in [Requests -> {NoRequest} \cup WorkType]

\* What is added to a key's lifetime.
Slack(k) == IF k \in CacheQueries THEN Slow ELSE Longest + (Len(Stages(k)) + 1) * Slow

EntriesAge ==
  \A k \in CacheKeys : Cached(k) => cache[k].age + cache[k].left <= TTL[k] + Slack(k)

\* How old the parts of a request may be when its n-th stage begins.
Before(n) == Longest + n * Slow

\* A request in its limits.
Ages(w) ==
  /\ w.stage <= Len(Stages(w.key)) /\ w.asked <= Slow
  /\ w.oldest <= Before(w.stage) + w.asked
  /\ \A q \in DOMAIN w.flying : w.flying[q] # None => w.flying[q] <= w.asked

WorkAges == \A r \in Requests : Busy(r) => Ages(working[r])

CacheInv == CacheTyped /\ EntriesAge /\ WorkAges

-----------------------------------------------------------------------------
(* Facts about values *)

\* A bounded set of times has a greatest one.
LEMMA Greatest ==
  ASSUME NEW S \in SUBSET Nat, S # {}, NEW B \in Nat, \A a \in S : a <= B
  PROVE  \E a \in S : \A b \in S : a >= b
<1> DEFINE R == OpToRel(<, Nat)
           T == {B - a : a \in S}
<1>1. \A x, y \in Nat : <<y, x>> \in R <=> y < x BY DEF OpToRel
<1>2. IsWellFoundedOn(R, Nat) BY NatLessThanWellFounded
<1> HIDE DEF R
<1>3. \A a \in S : a \in Nat /\ B - a \in Nat OBVIOUS
<1>4. T \subseteq Nat /\ T # {} BY <1>3
<1>5. PICK x \in T : \A y \in T : ~(<<y, x>> \in R)
  <2> HIDE DEF T
  <2> QED BY <1>2, <1>4, WFMin
<1>6. PICK a \in S : x = B - a OBVIOUS
<1>7. ASSUME NEW b \in S PROVE a >= b
  <2>1. B - b \in T OBVIOUS
  <2>2. ~(B - b < B - a) BY <1>1, <1>4, <1>5, <1>6, <2>1
  <2> QED BY <1>3, <2>2
<1> QED BY <1>7

LEMMA Multiples ==
  /\ \A n \in Nat : n * Slow \in Nat /\ (n + 1) * Slow = n * Slow + Slow
  /\ \A n \in Nat : Before(n) \in Nat /\ Before(n + 1) = Before(n) + Slow /\ Before(n) >= Longest
<1>1. Slow \in Nat /\ Longest \in Nat BY QueryCacheAssumption, LongestAssumption
<1>2. \A n \in Nat : n * Slow \in Nat /\ (n + 1) * Slow = n * Slow + Slow BY <1>1
<1> QED BY <1>1, <1>2 DEF Before

LEMMA StagesTyped ==
  ASSUME NEW k \in CacheKeys
  PROVE  /\ Len(Stages(k)) \in Nat
         /\ \A i \in 1 .. Len(Stages(k)) : Stages(k)[i] \subseteq CacheQueries
         /\ k \in CacheQueries => Len(Stages(k)) = 1
BY QueryCacheAssumption DEF Stages, CacheKeys

LEMMA Limits ==
  ASSUME NEW k \in CacheKeys
  PROVE  /\ TTL[k] \in Nat \ {0} /\ Slack(k) \in Nat /\ Slow \in Nat \ {0}
         /\ k \in CacheQueries => TTL[k] <= Longest /\ Slack(k) = Slow
         /\ k \notin CacheQueries => Slack(k) = Before(Len(Stages(k))) + Slow
<1>1. Len(Stages(k)) \in Nat BY StagesTyped
<1>2. (Len(Stages(k)) + 1) * Slow = Len(Stages(k)) * Slow + Slow /\ Len(Stages(k)) * Slow \in Nat
      BY <1>1, Multiples
<1>3. TTL[k] \in Nat \ {0} /\ Slow \in Nat \ {0} /\ Longest \in Nat
      BY QueryCacheAssumption, LongestAssumption
<1>4. k \in CacheQueries => TTL[k] <= Longest
      BY LongestAssumption
<1>5. CASE k \in CacheQueries
  <2>1. Slack(k) = Slow BY <1>5 DEF Slack
  <2> QED BY <1>3, <1>4, <1>5, <2>1
<1>6. CASE k \notin CacheQueries
  <2> DEFINE L == Len(Stages(k)) * Slow
  <2>1. Slack(k) = Longest + (L + Slow) BY <1>2, <1>6 DEF Slack
  <2>2. Before(Len(Stages(k))) = Longest + L BY DEF Before
  <2>3. L \in Nat BY <1>2
  <2> HIDE DEF L
  <2>4. Slack(k) \in Nat /\ Slack(k) = (Longest + L) + Slow BY <1>3, <2>1, <2>3
  <2> QED BY <1>3, <1>6, <2>2, <2>4
<1> QED BY <1>5, <1>6

LEMMA BusyType ==
  ASSUME CacheTyped, NEW r \in Requests, Busy(r)
  PROVE  /\ working[r] \in WorkType /\ working[r].key \in CacheKeys
         /\ working[r].stage \in Nat \ {0} /\ working[r].asked \in Nat /\ working[r].oldest \in Nat
         /\ Flying(r) \subseteq CacheQueries /\ working[r].flying \in [Flying(r) -> Nat \cup {None}]
<1>1. working[r] \in WorkType BY DEF CacheTyped, Busy
<1>2. working[r].flying \in Reads BY <1>1 DEF WorkType
<1>3. PICK Q \in SUBSET CacheQueries : working[r].flying \in [Q -> Nat \cup {None}]
      BY <1>2 DEF Reads
<1> QED BY <1>1, <1>3 DEF WorkType, Flying

\* An entry that has time left is younger than its key's lifetime and slack.
LEMMA Younger ==
  ASSUME NEW a \in Nat, NEW left \in Nat, left > 0, NEW ttl \in Nat, NEW most \in Nat,
         ttl <= most, NEW slow \in Nat, a + left <= ttl + slow, NEW bound \in Nat,
         bound >= most + slow
  PROVE  a <= bound
OBVIOUS

LEMMA NoRequestIsNone == \A w \in WorkType : w # NoRequest
BY QueryCacheAssumption DEF WorkType, NoRequest

-----------------------------------------------------------------------------
(* The steps *)

\* A request begins a stage.
LEMMA EnterAges ==
  ASSUME CacheInv, NEW key \in CacheKeys, NEW stage \in 1 .. Len(Stages(key)), NEW oldest \in Nat,
         oldest <= Before(stage)
  PROVE  Enter(key, stage, oldest) \in WorkType /\ Ages(Enter(key, stage, oldest))
<1> DEFINE cached == {q \in Stages(key)[stage] : Cached(q)}
           asks == Stages(key)[stage] \ cached
           flying == [q \in asks |-> None]
           age == OldestOf(cached, oldest)
           w == Enter(key, stage, oldest)
<1>1. stage \in Nat \ {0} /\ Before(stage) \in Nat /\ Before(stage) = Before(stage - 1) + Slow
      /\ Before(stage) >= Longest + Slow /\ Slow \in Nat /\ Longest \in Nat
  <2>1. stage - 1 \in Nat /\ stage \in Nat \ {0} /\ stage = (stage - 1) + 1 BY StagesTyped
  <2>2. Before(stage - 1) \in Nat /\ Before(stage) = Before(stage - 1) + Slow
        BY <2>1, Multiples
  <2>3. Before(stage - 1) >= Longest
        BY <2>1, Multiples
  <2> QED BY <2>1, <2>2, <2>3, Limits, LongestAssumption
<1>2. cached \subseteq CacheQueries /\ asks \subseteq CacheQueries BY StagesTyped
<1>3. \A q \in cached : cache[q].age \in Nat /\ cache[q].age <= Before(stage)
  <2> SUFFICES ASSUME NEW q \in cached PROVE cache[q].age \in Nat /\ cache[q].age <= Before(stage)
      OBVIOUS
  <2>1. q \in CacheKeys /\ q \in CacheQueries /\ Cached(q) BY <1>2 DEF CacheKeys
  <2>2. cache[q].age \in Nat /\ cache[q].left \in Nat BY <2>1 DEF CacheInv, CacheTyped
  <2>3. cache[q].age + cache[q].left <= TTL[q] + Slow BY <2>1, Limits DEF CacheInv, EntriesAge
  <2>4. cache[q].left > 0 BY <2>1 DEF Cached
  <2>5. TTL[q] \in Nat /\ TTL[q] <= Longest BY <2>1, Limits
  <2> QED BY <2>2, <2>3, <2>4, <2>5, <1>1, Younger
<1>4. age \in Nat /\ age <= Before(stage)
  <2> DEFINE S == {oldest} \cup {cache[k].age : k \in cached}
  <2>1. S \subseteq Nat /\ S # {} /\ \A a \in S : a <= Before(stage) BY <1>3
  <2>2. \E a \in S : \A b \in S : a >= b
    <3> HIDE DEF S
    <3> QED BY <2>1, <1>1, Greatest
  <2>3. \E a \in S : a >= oldest /\ \A k \in cached : a >= cache[k].age BY <2>2
  <2>4. age = CHOOSE a \in S : a >= oldest /\ \A k \in cached : a >= cache[k].age
        BY DEF OldestOf
  <2>5. age \in S
    <3> HIDE DEF S, age, cached
    <3> QED BY <2>3, <2>4
  <2> HIDE DEF S, age
  <2> QED BY <2>1, <2>5
<1>5. w = [key |-> key, stage |-> stage, asked |-> 0, failed |-> FALSE, flying |-> flying,
           oldest |-> age]
      BY DEF Enter
<1>6. flying \in Reads
  <2> HIDE DEF asks
  <2>1. flying \in [asks -> Nat \cup {None}] OBVIOUS
  <2> QED BY <1>2, <2>1 DEF Reads
<1>7. \A q \in DOMAIN flying : flying[q] = None OBVIOUS
<1> HIDE DEF flying, age, w, cached, asks
<1>8. w \in WorkType BY <1>1, <1>4, <1>5, <1>6 DEF WorkType
<1>9. /\ w.key = key /\ w.stage = stage /\ w.asked = 0 /\ w.oldest = age /\ w.flying = flying
      BY <1>5
<1>10. Ages(w) BY <1>1, <1>4, <1>7, <1>9 DEF Ages
<1> QED BY <1>8, <1>10 DEF w

\* Nothing is cached, and nobody asks.
LEMMA CacheInitHolds == CacheInit => CacheInv
BY DEF CacheInit, CacheInv, CacheTyped, EntriesAge, WorkAges, Cached, NoEntry, Busy, CacheKeys

LEMMA BeginPageKeeps ==
  ASSUME CacheInv, NEW r \in Requests, NEW key \in CacheKeys, BeginPage(r, key) PROVE CacheInv'
<1> DEFINE w == Enter(key, 1, 0)
<1>1. w \in WorkType /\ Ages(w)
  <2>1. Len(Stages(key)) # 0 BY QueryCacheAssumption DEF BeginPage, Stages, CacheKeys
  <2>2. 1 \in 1 .. Len(Stages(key)) BY <2>1, StagesTyped
  <2>3. Before(1) \in Nat BY Multiples
  <2> QED BY <2>2, <2>3, EnterAges
<1> HIDE DEF w
<1>2. working' = [working EXCEPT ![r] = w] /\ cache' = cache BY DEF BeginPage, w
<1>3. CacheTyped' BY <1>1, <1>2 DEF CacheInv, CacheTyped
<1>4. EntriesAge' BY <1>2 DEF CacheInv, EntriesAge, Cached
<1>5. WorkAges'
  <2> SUFFICES ASSUME NEW s \in Requests, Busy(s)' PROVE Ages(working'[s]) BY DEF WorkAges
  <2>1. CASE s = r BY <1>1, <1>2, <2>1 DEF CacheInv, CacheTyped
  <2>2. CASE s # r BY <1>2, <2>2 DEF CacheInv, CacheTyped, WorkAges, Busy
  <2> QED BY <2>1, <2>2
<1> QED BY <1>3, <1>4, <1>5 DEF CacheInv

\* A request changes, within its limits, and no other.
LEMMA RequestKeeps ==
  ASSUME CacheInv, NEW r \in Requests, NEW w \in {NoRequest} \cup WorkType,
         working' = [working EXCEPT ![r] = w], w # NoRequest => Ages(w)
  PROVE  /\ working' \in [Requests -> {NoRequest} \cup WorkType] /\ WorkAges'
<1>1. \A s \in Requests : working'[s] = IF s = r THEN w ELSE working[s]
      BY DEF CacheInv, CacheTyped
<1>2. WorkAges'
  <2> SUFFICES ASSUME NEW s \in Requests, Busy(s)' PROVE Ages(working'[s]) BY DEF WorkAges
  <2>1. CASE s = r BY <1>1, <2>1 DEF Busy
  <2>2. CASE s # r BY <1>1, <2>2 DEF CacheInv, WorkAges, Busy
  <2> QED BY <2>1, <2>2
<1> QED BY <1>2 DEF CacheInv, CacheTyped

\* An answer is stored that is no older than its key allows.
LEMMA StoreKeeps ==
  ASSUME CacheInv, NEW key \in CacheKeys, NEW age \in Nat, age <= Slack(key), SetCache(key, age)
  PROVE  cache' \in [CacheKeys -> [age : Nat, left : Nat]] /\ EntriesAge'
<1> DEFINE entry == [age |-> age, left |-> TTL[key]]
<1>1. entry \in [age : Nat, left : Nat] /\ entry.age = age /\ entry.left = TTL[key]
      /\ entry.age + entry.left <= TTL[key] + Slack(key)
      BY Limits
<1>2. cache' = [cache EXCEPT ![key] = entry] BY DEF SetCache
<1> HIDE DEF entry
<1>3. \A k \in CacheKeys : cache'[k] = IF k = key THEN entry ELSE cache[k]
      BY <1>2 DEF CacheInv, CacheTyped
<1>4. EntriesAge' BY <1>1, <1>3 DEF CacheInv, EntriesAge, Cached
<1> QED BY <1>1, <1>2, <1>4 DEF CacheInv, CacheTyped

LEMMA DatabaseReadsKeeps ==
  ASSUME CacheInv, NEW r \in Requests, NEW q \in CacheQueries, DatabaseReads(r, q) PROVE CacheInv'
<1>1. /\ working[r] \in WorkType /\ working[r].asked \in Nat
      /\ Flying(r) \subseteq CacheQueries /\ working[r].flying \in [Flying(r) -> Nat \cup {None}]
      /\ Ages(working[r]) /\ q \in Flying(r)
      BY BusyType DEF DatabaseReads, CacheInv, WorkAges
<1> DEFINE flying == [working[r].flying EXCEPT ![q] = 0]
           w == [working[r] EXCEPT !.flying = flying]
<1>2. flying \in Reads /\ DOMAIN flying = Flying(r)
      /\ \A x \in Flying(r) : flying[x] = IF x = q THEN 0 ELSE working[r].flying[x]
  <2>1. flying \in [Flying(r) -> Nat \cup {None}] BY <1>1
  <2> QED BY <1>1, <2>1 DEF Reads
<1>3. working' = [working EXCEPT ![r] = w] /\ cache' = cache
      BY DEF DatabaseReads, CacheInv, CacheTyped
<1> HIDE DEF flying
<1>4. /\ w \in WorkType /\ w.stage = working[r].stage /\ w.key = working[r].key
      /\ w.asked = working[r].asked /\ w.oldest = working[r].oldest /\ w.flying = flying
      BY <1>1, <1>2 DEF WorkType
<1> HIDE DEF w
<1>5. Ages(w) BY <1>1, <1>2, <1>4 DEF Ages, Flying
<1>6. working' \in [Requests -> {NoRequest} \cup WorkType] /\ WorkAges'
      BY <1>3, <1>4, <1>5, RequestKeeps
<1>7. EntriesAge' BY <1>3 DEF CacheInv, EntriesAge, Cached
<1> QED BY <1>3, <1>6, <1>7 DEF CacheInv, CacheTyped

\* A query is not awaited any more.
LEMMA LandedFewer ==
  ASSUME CacheInv, NEW r \in Requests, Busy(r), NEW q \in Flying(r)
  PROVE  /\ Landed(r, q) \in Reads /\ DOMAIN Landed(r, q) = Flying(r) \ {q}
         /\ \A x \in Flying(r) \ {q} : Landed(r, q)[x] = working[r].flying[x]
<1>1. /\ Flying(r) \subseteq CacheQueries /\ working[r].flying \in [Flying(r) -> Nat \cup {None}]
      BY BusyType DEF CacheInv
<1>2. Landed(r, q) \in [Flying(r) \ {q} -> Nat \cup {None}] BY <1>1 DEF Landed
<1>3. Flying(r) \ {q} \in SUBSET CacheQueries BY <1>1
<1> QED BY <1>2, <1>3 DEF Reads, Landed

LEMMA AnsweredKeeps ==
  ASSUME CacheInv, NEW r \in Requests, NEW q \in CacheQueries, Answered(r, q) PROVE CacheInv'
<1>1. /\ working[r] \in WorkType /\ working[r].asked \in Nat /\ working[r].oldest \in Nat
      /\ working[r].stage \in Nat \ {0}
      /\ working[r].flying[q] \in Nat /\ Ages(working[r]) /\ q \in Flying(r)
      /\ Busy(r)
      BY BusyType DEF Answered, CacheInv, WorkAges
<1> DEFINE age == working[r].flying[q]
           c == [working[r] EXCEPT !.flying = Landed(r, q)]
           w == [c EXCEPT !.oldest = OlderOf(@, age)]
<1>2. age \in Nat /\ age <= working[r].asked /\ age <= Slow /\ Slow \in Nat
      BY <1>1, QueryCacheAssumption DEF Ages, Flying, None
<1>3. working' = [working EXCEPT ![r] = w] /\ SetCache(q, age)
  <2>1. working' = [working EXCEPT ![r].flying = Landed(r, q), ![r].oldest = OlderOf(@, age)]
        /\ SetCache(q, age)
        BY DEF Answered
  <2> HIDE DEF age
  <2> QED BY <2>1, <1>1 DEF CacheInv, CacheTyped, WorkType
<1>4. Landed(r, q) \in Reads /\ DOMAIN Landed(r, q) = Flying(r) \ {q}
      /\ \A x \in Flying(r) \ {q} : Landed(r, q)[x] = working[r].flying[x]
      BY <1>1, LandedFewer
<1> HIDE DEF age
<1>5. /\ c \in WorkType /\ c.stage = working[r].stage /\ c.key = working[r].key
      /\ c.asked = working[r].asked /\ c.oldest = working[r].oldest /\ c.flying = Landed(r, q)
      BY <1>1, <1>4 DEF WorkType
<1> HIDE DEF c
<1>6. /\ w \in WorkType /\ w.stage = working[r].stage /\ w.key = working[r].key
      /\ w.asked = working[r].asked /\ w.oldest = OlderOf(working[r].oldest, age)
      /\ w.flying = Landed(r, q)
      BY <1>1, <1>2, <1>5 DEF WorkType, OlderOf
<1> HIDE DEF w
<1>7. Ages(w)
  <2>1. w.oldest <= Before(w.stage) + w.asked
    <3>1. Before(working[r].stage) \in Nat BY <1>1, Multiples
    <3>2. working[r].oldest <= Before(working[r].stage) + working[r].asked BY <1>1 DEF Ages
    <3> QED BY <1>1, <1>2, <1>6, <3>1, <3>2 DEF OlderOf
  <2> QED BY <1>1, <1>4, <1>6, <2>1 DEF Ages, Flying
<1>8. working' \in [Requests -> {NoRequest} \cup WorkType] /\ WorkAges'
      BY <1>3, <1>6, <1>7, RequestKeeps
<1>9. q \in CacheKeys /\ age <= Slack(q) BY <1>2, Limits DEF CacheKeys
<1>10. cache' \in [CacheKeys -> [age : Nat, left : Nat]] /\ EntriesAge'
       BY <1>2, <1>3, <1>9, StoreKeeps
<1> QED BY <1>8, <1>10 DEF CacheInv, CacheTyped

LEMMA FailsKeeps ==
  ASSUME CacheInv, NEW r \in Requests, NEW q \in CacheQueries, Fails(r, q) PROVE CacheInv'
<1>1. /\ working[r] \in WorkType /\ Ages(working[r]) /\ q \in Flying(r) /\ Busy(r)
      BY BusyType DEF Fails, CacheInv, WorkAges
<1> DEFINE c == [working[r] EXCEPT !.flying = Landed(r, q)]
           w == [c EXCEPT !.failed = TRUE]
<1>2. working' = [working EXCEPT ![r] = w] /\ cache' = cache
      BY <1>1 DEF Fails, CacheInv, CacheTyped, WorkType
<1>3. Landed(r, q) \in Reads /\ DOMAIN Landed(r, q) = Flying(r) \ {q}
      /\ \A x \in Flying(r) \ {q} : Landed(r, q)[x] = working[r].flying[x]
      BY <1>1, LandedFewer
<1>4. /\ c \in WorkType /\ c.stage = working[r].stage /\ c.key = working[r].key
      /\ c.asked = working[r].asked /\ c.oldest = working[r].oldest /\ c.flying = Landed(r, q)
      BY <1>1, <1>3 DEF WorkType
<1> HIDE DEF c
<1>5. /\ w \in WorkType /\ w.stage = working[r].stage /\ w.key = working[r].key
      /\ w.asked = working[r].asked /\ w.oldest = working[r].oldest /\ w.flying = Landed(r, q)
      BY <1>4 DEF WorkType
<1> HIDE DEF w
<1>6. Ages(w) BY <1>1, <1>3, <1>5 DEF Ages, Flying
<1>7. working' \in [Requests -> {NoRequest} \cup WorkType] /\ WorkAges'
      BY <1>2, <1>5, <1>6, RequestKeeps
<1>8. EntriesAge' BY <1>2 DEF CacheInv, EntriesAge, Cached
<1> QED BY <1>2, <1>7, <1>8 DEF CacheInv, CacheTyped

LEMMA ProceedKeeps == ASSUME CacheInv, NEW r \in Requests, Proceed(r) PROVE CacheInv'
<1> DEFINE w == working[r]
<1>1. /\ w \in WorkType /\ w.asked \in Nat /\ w.oldest \in Nat /\ w.stage \in Nat \ {0}
      /\ w.key \in CacheKeys /\ Ages(w)
      BY BusyType DEF Proceed, CacheInv, WorkAges
<1>2. /\ Len(Stages(w.key)) \in Nat /\ Slow \in Nat /\ Before(w.stage) \in Nat
      /\ Before(w.stage + 1) = Before(w.stage) + Slow
      BY <1>1, StagesTyped, Multiples, QueryCacheAssumption
<1>3. /\ w.stage <= Len(Stages(w.key)) /\ w.oldest <= Before(w.stage) + w.asked /\ w.asked <= Slow
      BY <1>1 DEF Ages
<1>4. CASE working' = [working EXCEPT ![r] = NoRequest] /\ UNCHANGED cache
  <2>1. working' \in [Requests -> {NoRequest} \cup WorkType] /\ WorkAges'
        BY <1>4, RequestKeeps
  <2>2. EntriesAge' BY <1>4 DEF CacheInv, EntriesAge, Cached
  <2> QED BY <1>4, <2>1, <2>2 DEF CacheInv, CacheTyped
<1>5. CASE /\ w.stage < Len(Stages(w.key)) /\ UNCHANGED cache
           /\ working' = [working EXCEPT ![r] = Enter(w.key, w.stage + 1, w.oldest)]
  <2> DEFINE e == Enter(w.key, w.stage + 1, w.oldest)
  <2>1. e \in WorkType /\ Ages(e)
    <3> HIDE DEF w
    <3>1. w.stage + 1 \in 1 .. Len(Stages(w.key))
          BY <1>1, <1>2, <1>5
    <3>2. w.oldest <= Before(w.stage) + w.asked /\ Before(w.stage) + w.asked <= Before(w.stage + 1)
          BY <1>1, <1>2, <1>3
    <3>3. w.oldest <= Before(w.stage + 1)
          BY <1>1, <1>2, <3>2
    <3> QED BY <1>1, <3>1, <3>3, EnterAges
  <2>2. working' = [working EXCEPT ![r] = e] BY <1>5
  <2> HIDE DEF e
  <2>3. working' \in [Requests -> {NoRequest} \cup WorkType] /\ WorkAges'
        BY <2>1, <2>2, RequestKeeps
  <2>4. EntriesAge' BY <1>5 DEF CacheInv, EntriesAge, Cached
  <2> QED BY <1>5, <2>3, <2>4 DEF CacheInv, CacheTyped
<1>6. CASE /\ w.stage >= Len(Stages(w.key)) /\ w.key \in Derived
           /\ working' = [working EXCEPT ![r] = NoRequest] /\ SetCache(w.key, w.oldest)
  <2>1. working' \in [Requests -> {NoRequest} \cup WorkType] /\ WorkAges'
        BY <1>6, RequestKeeps
  <2>2. w.oldest <= Slack(w.key)
    <3>1. w.key \notin CacheQueries BY <1>6, QueryCacheAssumption
    <3>2. w.stage = Len(Stages(w.key)) BY <1>1, <1>2, <1>3, <1>6
    <3>3. Slack(w.key) = Before(w.stage) + Slow BY <1>1, <3>1, <3>2, Limits
    <3> QED BY <1>1, <1>2, <1>3, <3>3
  <2>3. cache' \in [CacheKeys -> [age : Nat, left : Nat]] /\ EntriesAge'
        BY <1>1, <1>6, <2>2, StoreKeeps
  <2> QED BY <2>1, <2>3 DEF CacheInv, CacheTyped
<1>7. \/ working' = [working EXCEPT ![r] = NoRequest] /\ UNCHANGED cache
      \/ /\ w.stage < Len(Stages(w.key)) /\ UNCHANGED cache
         /\ working' = [working EXCEPT ![r] = Enter(w.key, w.stage + 1, w.oldest)]
      \/ /\ w.stage >= Len(Stages(w.key)) /\ w.key \in Derived
         /\ working' = [working EXCEPT ![r] = NoRequest] /\ SetCache(w.key, w.oldest)
  <2> QED BY <1>1, <1>2 DEF Proceed
<1> QED BY <1>4, <1>5, <1>6, <1>7

LEMMA TickKeeps == ASSUME CacheInv, Tick PROVE CacheInv'
<1>1. cache' = [k \in CacheKeys |-> Passed(cache[k])]
      /\ working' = [r \in Requests |-> Waited(working[r])]
      BY DEF Tick
<1>2. ASSUME NEW k \in CacheKeys
      PROVE  /\ Passed(cache[k]) \in [age : Nat, left : Nat]
             /\ Passed(cache[k]).left > 0 =>
                  /\ Cached(k)
                  /\ Passed(cache[k]).age + Passed(cache[k]).left = cache[k].age + cache[k].left
  <2>1. cache[k] \in [age : Nat, left : Nat] BY DEF CacheInv, CacheTyped
  <2>2. CASE cache[k].left <= 1 BY <2>2 DEF Passed, NoEntry
  <2>3. CASE cache[k].left > 1
    <3>1. Passed(cache[k]) = [age |-> cache[k].age + 1, left |-> cache[k].left - 1]
          BY <2>1, <2>3 DEF Passed
    <3> QED BY <2>1, <2>3, <3>1 DEF Cached
  <2> QED BY <2>1, <2>2, <2>3
<1>3. EntriesAge'
  <2> SUFFICES ASSUME NEW k \in CacheKeys, Cached(k)'
               PROVE  cache'[k].age + cache'[k].left <= TTL[k] + Slack(k)
      BY DEF EntriesAge
  <2>1. cache'[k] = Passed(cache[k]) /\ Passed(cache[k]).left > 0 BY <1>1 DEF Cached
  <2> QED BY <1>2, <2>1 DEF CacheInv, EntriesAge
<1>4. ASSUME NEW r \in Requests, Busy(r)
      PROVE  Waited(working[r]) \in WorkType /\ Ages(Waited(working[r]))
  <2>1. /\ working[r] \in WorkType /\ working[r].asked \in Nat /\ working[r].oldest \in Nat
        /\ working[r].stage \in Nat \ {0}
        /\ Flying(r) \subseteq CacheQueries /\ working[r].flying \in [Flying(r) -> Nat \cup {None}]
        /\ Ages(working[r]) /\ working[r].asked < Slow
        BY <1>4, BusyType DEF CacheInv, WorkAges, Tick
  <2> DEFINE flying == [q \in Flying(r) |-> IF working[r].flying[q] = None THEN None
                                            ELSE working[r].flying[q] + 1]
             c == [working[r] EXCEPT !.asked = @ + 1]
             d == [c EXCEPT !.oldest = @ + 1]
             e == [d EXCEPT !.flying = flying]
  <2>2. flying \in Reads /\ DOMAIN flying = Flying(r)
        /\ \A q \in Flying(r) : flying[q] # None => working[r].flying[q] # None
                                                    /\ flying[q] = working[r].flying[q] + 1
    <3>1. flying \in [Flying(r) -> Nat \cup {None}] BY <2>1 DEF None
    <3> QED BY <2>1, <3>1 DEF Reads
  <2>3. Waited(working[r]) = e
    <3>1. working[r] # NoRequest BY <1>4 DEF Busy
    <3> QED BY <3>1, <2>1 DEF Waited, Flying, WorkType
  <2> HIDE DEF flying
  <2>4. /\ c \in WorkType /\ c.asked = working[r].asked + 1 /\ c.oldest = working[r].oldest
        /\ c.stage = working[r].stage /\ c.key = working[r].key
        BY <2>1 DEF WorkType
  <2> HIDE DEF c
  <2>5. /\ d \in WorkType /\ d.asked = working[r].asked + 1 /\ d.oldest = working[r].oldest + 1
        /\ d.stage = working[r].stage /\ d.key = working[r].key
        BY <2>1, <2>4 DEF WorkType
  <2> HIDE DEF d
  <2>6. /\ e \in WorkType /\ e.asked = working[r].asked + 1 /\ e.oldest = working[r].oldest + 1
        /\ e.stage = working[r].stage /\ e.key = working[r].key /\ e.flying = flying
        BY <2>2, <2>5 DEF WorkType
  <2> HIDE DEF e
  <2>7. Ages(e)
    <3>1. Before(working[r].stage) \in Nat /\ Slow \in Nat BY <2>1, Multiples, QueryCacheAssumption
    <3>2. \A q \in Flying(r) : working[r].flying[q] # None =>
            working[r].flying[q] \in Nat /\ working[r].flying[q] <= working[r].asked
          BY <2>1 DEF Ages, Flying
    <3>3. \A q \in DOMAIN e.flying : e.flying[q] # None => e.flying[q] <= e.asked
          BY <2>1, <2>2, <2>6, <3>2
    <3>4. e.oldest <= Before(e.stage) + e.asked BY <2>1, <2>6, <3>1 DEF Ages
    <3>5. e.stage <= Len(Stages(e.key)) /\ e.asked <= Slow BY <2>1, <2>6, <3>1 DEF Ages
    <3> QED BY <3>3, <3>4, <3>5 DEF Ages
  <2> QED BY <2>3, <2>6, <2>7
<1>5. \A r \in Requests : ~Busy(r) => Waited(working[r]) = NoRequest
      BY DEF Busy, Waited
<1>6. CacheTyped'
  <2>1. cache' \in [CacheKeys -> [age : Nat, left : Nat]] BY <1>1, <1>2
  <2>2. working' \in [Requests -> {NoRequest} \cup WorkType] BY <1>1, <1>4, <1>5
  <2> QED BY <2>1, <2>2 DEF CacheTyped
<1>7. WorkAges'
  <2> SUFFICES ASSUME NEW r \in Requests, Busy(r)' PROVE Ages(working'[r]) BY DEF WorkAges
  <2>1. working'[r] = Waited(working[r]) /\ Waited(working[r]) # NoRequest BY <1>1 DEF Busy
  <2> QED BY <1>4, <1>5, <2>1
<1> QED BY <1>3, <1>6, <1>7 DEF CacheInv

\* What the cache serves of a key is no older than the lifetimes of what it was computed from,
\* added up, and the time of its queries: however many requests compute the same, in whatever
\* order their answers arrive and are stored, and although an older one may replace a newer one.
THEOREM AnswersRecent == CacheSpec => []AnswersAreRecent
<1>1. CacheInit => CacheInv BY CacheInitHolds
<1>2. CacheInv /\ [CacheNext]_cacheVars => CacheInv'
  <2> SUFFICES ASSUME CacheInv, [CacheNext]_cacheVars PROVE CacheInv' OBVIOUS
  <2>1. CASE UNCHANGED cacheVars
        BY <2>1 DEF cacheVars, CacheInv, CacheTyped, EntriesAge, WorkAges, Cached, Busy
  <2>2. CASE Tick BY <2>2, TickKeeps
  <2>3. ASSUME NEW r \in Requests, \E key \in CacheKeys : BeginPage(r, key) PROVE CacheInv'
        BY <2>3, BeginPageKeeps
  <2>4. ASSUME NEW r \in Requests,
               \E q \in CacheQueries : DatabaseReads(r, q) \/ Answered(r, q) \/ Fails(r, q)
        PROVE  CacheInv'
        BY <2>4, DatabaseReadsKeeps, AnsweredKeeps, FailsKeeps
  <2>5. ASSUME NEW r \in Requests, Proceed(r) PROVE CacheInv' BY <2>5, ProceedKeeps
  <2> QED BY <2>1, <2>2, <2>3, <2>4, <2>5 DEF CacheNext
<1>3. CacheInv => AnswersAreRecent
  <2> SUFFICES ASSUME CacheInv, NEW k \in CacheKeys, Cached(k)
               PROVE  cache[k].age < TTL[k] + Slack(k)
      BY DEF AnswersAreRecent, Slack
  <2>1. cache[k].age \in Nat /\ cache[k].left \in Nat /\ cache[k].left > 0
        BY DEF CacheInv, CacheTyped, Cached
  <2>2. cache[k].age + cache[k].left <= TTL[k] + Slack(k) BY DEF CacheInv, EntriesAge
  <2> QED BY <2>1, <2>2, Limits
<1> QED BY <1>1, <1>2, <1>3, PTL DEF CacheSpec
=============================================================================
