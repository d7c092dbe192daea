------------------------------- MODULE Trends -------------------------------
(***************************************************************************)
(* The weekly numbers of products and bots: the queries over the weekly     *)
(* tables of app/src/lib/clickhouse.ts and what the pages make of their     *)
(* rows.  The same total is computed per product, per bot and per week, in  *)
(* and out of a time range, with tables that are read without FINAL and so  *)
(* may hold several versions of a row.                                      *)
(*                                                                         *)
(* A week is a number, 0 the date that stands for none (1970-01-01), and a  *)
(* range the first week it includes, 0 for "all".  Percentages are in       *)
(* tenths.  All Accounts are listed here; rows of other ids are those of    *)
(* bots that are not any more.                                              *)
(***************************************************************************)
EXTENDS Listings

CONSTANTS
  Lately, Window, \* weeks: 4, and the 12 of which two are compared
  Baseline,       \* GROWTH_BASELINE_THRESHOLD: 100 reviews
  EnoughVotes,    \* 30
  EnoughPRs,      \* 10
  Retired         \* products of that status

ASSUME TrendsAssumption ==
  /\ {Lately, Window, Baseline, EnoughPRs, EnoughVotes} \subseteq Nat \ {0}
  /\ Lately <= Window

VARIABLE
  weekly  \* [now: the week that is not over yet,
          \*  activity: rows [bot, week, copy, n, repos, orgs] of review_activity,
          \*  reactions: rows [bot, week, n] of reaction_only_review_counts,
          \*  human: rows [week, n] of human_review_activity, one a week,
          \*  stats: rows [bot, week, up, down, comments, reacted, prs] of
          \*         comment_stats_weekly, prs being a set of PRs,
          \*  events: [pr, bot, week] of pr_bot_events, repos: rows of repos,
          \*  pulls: rows [pr, copy, state] of pull_requests,
          \*  view: [product, pr, state] of pr_product_characteristics, read FINAL]

Kinds == {"reviews", "comments", "pr_comments"}  \* the columns of n
Since(rows, from) == {r \in rows : r.week >= from}
BotsWith(product) == {b \in Accounts : Product[b] = product}
Of(rows, product) == {r \in rows : r.bot \in BotsWith(product)}
SumOf(rows, k) == SumFunction([r \in rows |-> r.n[k]])
Total(rows) == [k \in Kinds |-> SumOf(rows, k)]
Weeks(rows) == {r.week : r \in rows}

\* UNION ALL of both tables: a PR the bot only reacted to counts as a review.
Rows == weekly.activity \cup
  {[bot |-> r.bot, week |-> r.week, copy |-> 0, repos |-> 0, orgs |-> 0,
    n |-> [k \in Kinds |-> IF k = "reviews" THEN r.n ELSE 0]] : r \in weekly.reactions}

-----------------------------------------------------------------------------
(* Growth and rates *)

\* round(x, 1): to the even one of two neighbours that are equally near.
Round(n, d) ==
  LET q == n \div d
      rest == 2 * (n % d)
  IN IF rest > d \/ (rest = d /\ q % 2 = 1) THEN q + 1 ELSE q

Percent(n, d) == Round(1000 * n, d)

\* Mutant of RefWeek: the current week counts as soon as it has a row.
LastWeek == Max(Weeks(Rows) \cup {0})

\* The last week that is over and has a row of any bot.
RefWeek == Max({w \in Weeks(Rows) : w < weekly.now} \cup {0})

Between(rows, first, last) == {r \in rows : RefWeek - first < r.week /\ r.week <= RefWeek - last}

Recent(rows) == SumOf(Between(rows, Window, 0), "reviews")
Previous(rows) == SumOf(Between(rows, 2 * Window, Window), "reviews")

Growth(rows) ==
  IF Recent(rows) = 0 \/ Previous(rows) < Baseline THEN 0
  ELSE Min({Max({Percent(Recent(rows) - Previous(rows), Previous(rows)), -9990}), 9990})

Ups(stats) == SumFunction([s \in stats |-> s.up])
Downs(stats) == SumFunction([s \in stats |-> s.down])
Comments(stats) == SumFunction([s \in stats |-> s.comments])

\* thumbs_up_rate and reaction_rate, -1 for none.
Rates(stats) ==
  LET votes == Ups(stats) + Downs(stats) IN
  <<IF votes >= EnoughVotes THEN Percent(Ups(stats), votes) ELSE -1,
    IF Comments(stats) > 0
    THEN Percent(SumFunction([s \in stats |-> s.reacted]), Comments(stats)) ELSE -1>>

\* maxIf(repo_count) of the rows summed by week.
Peak(rows, column) ==
  Max({SumFunction([r \in {q \in rows : q.week = w} |-> r[column]]) : w \in Weeks(rows)} \cup {0})

-----------------------------------------------------------------------------
(* The queries.  What depends on the range is computed from Since(rows, from), the windows *)
(* of weeks that growth compares from all rows.                                           *)

\* Mutant of ActivityOf: the windows are cut by the range as the totals are.
ActivityOfRange(rows, from) ==
  LET shown == Since(rows, from) IN
  [total |-> Total(shown), first_seen |-> IF shown = {} THEN 0 ELSE Min(Weeks(shown)),
   weeks_active |-> Cardinality(Weeks(shown)),
   lately |-> Total(Between(shown, Lately, 0)),
   recent |-> Recent(shown), previous |-> Previous(shown), growth |-> Growth(shown)]

\* activity_agg: first_seen is 0 where the range has no row.
ActivityOf(rows, from) ==
  LET shown == Since(rows, from) IN
  [total |-> Total(shown), first_seen |-> IF shown = {} THEN 0 ELSE Min(Weeks(shown)),
   weeks_active |-> Cardinality(Weeks(shown)),
   lately |-> Total(Between(rows, Lately, 0)),
   recent |-> Recent(rows), previous |-> Previous(rows), growth |-> Growth(rows)]

\* getProductSummaries.
Summary(product, from) ==
  LET rows == Of(Rows, product)
      stats == Since(Of(weekly.stats, product), from)
      total == Total(Since(rows, from))
  IN [activity |-> ActivityOf(rows, from),
      total_repos |-> Peak(Since(rows, from), "repos"),
      total_orgs |-> Peak(Since(rows, from), "orgs"),
      per_review |-> IF total["reviews"] > 0
                     THEN Round(10 * total["comments"], total["reviews"]) ELSE 0,
      votes |-> <<Ups(stats), Downs(stats)>>, rates |-> Rates(stats)]

\* getBotSummaries: a bot's weeks are not summed before their maximum is taken.
BotSummary(b, from) ==
  LET rows == {r \in Rows : r.bot = b}
      stats == Since({s \in weekly.stats : s.bot = b}, from)
  IN [activity |-> ActivityOf(rows, from),
      total_repos |-> Max({r.repos : r \in Since(rows, from)} \cup {0}),
      votes |-> <<Ups(stats), Downs(stats)>>, rates |-> Rates(stats)]

\* getProductBots: bots with at least one review in the range.
ProductBots(product, from) ==
  LET total(b) == Total(Since({r \in Rows : r.bot = b}, from)) IN
  {[bot |-> b, total |-> total(b)] : b \in {x \in BotsWith(product) : total(x)["reviews"] > 0}}

\* getWeeklyActivityByProduct: the charts leave out the PRs that were only reacted to.
Chart(product, from) ==
  LET rows == Since(Of(weekly.activity, product), from) IN
  [w \in Weeks(rows) |-> Total({r \in rows : r.week = w})]

\* getProductComparisons, per organization and repository.
Comparison(product, from) ==
  LET s == Summary(product, from)
      per(n, d) == IF d > 0 THEN Round(n, d) ELSE 0
  IN [summary |-> s,
      comments_per_repo |-> per(s.activity.total["comments"], s.total_repos),
      reviews_per_org |-> per(s.activity.total["reviews"], s.total_orgs)]

\* getWeeklyTotalVolume: every row, also of a bot that is not listed any more.
Volume == [w \in Weeks(weekly.activity) |-> Total({r \in weekly.activity : r.week = w})]

\* getWeeklyTotals: the weeks there is a row of human activity for.
WeeklyTotals(from) ==
  [w \in Weeks(Since(weekly.human, from)) |->
     LET people == Total({h \in weekly.human : h.week = w})
         bots == IF w \in DOMAIN Volume THEN Volume[w] ELSE Total({})
     IN [bots |-> bots, people |-> people,
         share |-> [k \in Kinds |-> IF bots[k] + people[k] = 0 THEN 0
                                    ELSE Round(10000 * bots[k], bots[k] + people[k])]]]

\* getBotReactionLeaderboard.
Leaderboard(from) ==
  LET stats == {s \in Since(weekly.stats, from) : s.bot \in Accounts} IN
  [b \in {s.bot : s \in stats} |->
     LET own == {s \in stats : s.bot = b} IN <<Ups(own), Downs(own), Comments(own), Rates(own)>>]

\* getWeeklyReactionsByProduct, and getMonthlyReactionsByProduct of a month of weeks.
WeeklyReactions(product, weeks, from) ==
  LET stats == {s \in Since(Of(weekly.stats, product), from) : s.week \in weeks} IN
  [votes |-> <<Ups(stats), Downs(stats)>>, comments |-> Comments(stats),
   prs |-> Cardinality(UNION {s.prs : s \in stats})]

\* getAvgCommentsPerPR, and with several bots getAvgCommentsPerPRByProduct, null for none.
CommentsPerPR(bots, from) ==
  LET stats == {s \in Since(weekly.stats, from) : s.bot \in bots}
      prs == Cardinality(UNION {s.prs : s \in stats})
  IN [prs |-> prs, comments |-> Comments(stats),
      average |-> IF prs > 0 THEN Round(100 * Comments(stats), prs) ELSE 0]

-----------------------------------------------------------------------------
(* Pull requests and languages *)

\* getPrCharacteristics: of a range the rows of the stored PRs a product has an event on,
\* whether they are merged or not; without one what a view joined as the PRs were stored,
\* without those a product had its first event on later.
Sampled(product, from) ==
  LET touched == {e.pr : e \in Since(Of(weekly.events, product), from)}
      rows == IF from > 0 THEN {row \in weekly.pulls : row.pr \in touched}
              ELSE {row \in weekly.view : row.product = product}
  IN {row \in rows : row.state \notin {"not_found", "forbidden"}}

MergeRate(rows) ==
  Percent(Cardinality({row \in rows : row.state = "merged"}), Cardinality(rows))

\* getAllPrCharacteristics: of the products with enough of them.
AllCharacteristics(from) ==
  [p \in {q \in ProductIds : Cardinality(Sampled(q, from)) >= EnoughPRs} |->
     MergeRate(Sampled(p, from))]

\* A repository with several rows has the language of each.
PRsOfLanguage(b, l, from) ==
  {pr \in {e.pr : e \in {x \in Since(weekly.events, from) : x.bot = b}} :
     \E row \in weekly.repos : row[1] = pr[1] /\ Language[row] = l}

\* Mutant of LanguagePRs: the numbers of all repositories are merged.
LanguagePRsMerged(b, l, from) ==
  IF from > 0 THEN Cardinality(PRsOfLanguage(b, l, from))
  ELSE Cardinality({pr[2] : pr \in PRsOfLanguage(b, l, 0)})

\* getBotsByLanguage: without a range from the counts of pr_bot_event_counts, which know
\* repositories and numbers, summed over the repositories.
LanguagePRs(b, l, from) ==
  IF from > 0 THEN Cardinality(PRsOfLanguage(b, l, from))
  ELSE LET of(r) == {pr \in PRsOfLanguage(b, l, 0) : pr[1] = r} IN
       SumFunction([r \in Repositories |-> Cardinality({pr[2] : pr \in of(r)})])

-----------------------------------------------------------------------------
(* What the pages make of it *)

\* isNewProduct and isDormantProduct: the labels "New" and "Inactive".
IsNew(activity) ==
  /\ activity.growth = 0 /\ activity.previous < Baseline
  /\ activity.recent > 0 /\ activity.total["reviews"] > 0
IsDormant(activity) == activity.recent = 0 /\ activity.total["reviews"] > 0

\* checkStaleBots: what discover-bots warns of.
Stale(product) ==
  /\ product \notin Retired
  /\ Of(Rows, product) # {} /\ Max(Weeks(Of(Rows, product))) < weekly.now - Lately

\* ORDER BY growth_pct DESC, total_reviews DESC: the rank is the place in it.
Rank(product, from) ==
  LET a == Summary(product, from).activity IN <<a.growth, a.total["reviews"]>>

\* The trend chart of the compare page: a point for each week with activity or comments.
TrendData(products, from) ==
  [w \in UNION {DOMAIN Chart(p, from) \cup Weeks(Since(Of(weekly.stats, p), from)) :
                  p \in products} |->
     [p \in products |->
        [reviews |-> IF w \in DOMAIN Chart(p, from) THEN Chart(p, from)[w]["reviews"] ELSE 0,
         comments_per_pr |-> LET rx == WeeklyReactions(p, {w}, from) IN
                             IF rx.prs > 0 THEN Round(100 * rx.comments, rx.prs) ELSE 0]]]

-----------------------------------------------------------------------------
CONSTANTS
  Histories,   \* bound: the contents that are looked at
  WeekNumbers  \* bound: the ranges

HistoryOK(h) ==
  /\ IsFiniteSet(h.activity) /\ IsFiniteSet(h.reactions) /\ IsFiniteSet(h.human)
  /\ IsFiniteSet(h.stats) /\ IsFiniteSet(h.events) /\ IsFiniteSet(h.pulls)
  /\ IsFiniteSet(h.view) /\ h.repos \subseteq Repositories \X Copies
  /\ \A v, w \in h.view : <<v.product, v.pr>> = <<w.product, w.pr>> => v = w
  /\ h.now \in Nat
  /\ \A rows \in {h.activity, h.human} :
       \A r \in rows : r.week \in Nat \ {0} /\ r.n \in [Kinds -> Nat]
  /\ \A r \in h.activity : {r.repos, r.orgs} \subseteq Nat /\ r.copy \in Nat \ {0}
  /\ h.reactions \subseteq [bot: {r.bot : r \in h.reactions}, week: Nat \ {0}, n: Nat]
  /\ \A s \in h.stats : /\ s.week \in WeekNumbers /\ IsFiniteSet(s.prs)
                       /\ {s.up, s.down, s.comments, s.reacted} \subseteq Nat
  /\ \A e \in h.events : e.week \in Nat \ {0} /\ e.pr \in PullRequests

ASSUME HistoriesAssumption ==
  /\ IsFiniteSet(Repositories) /\ IsFiniteSet(WeekNumbers) /\ WeekNumbers \subseteq Nat
  /\ \A h \in Histories : HistoryOK(h)

(* Properties *)

\* Whatever the range, and whatever versions of a row are not merged yet, a product's total
\* is the sum of its bots' and of its chart's (but for PRs only reacted to), votes are
\* counted alike in rankings, weeks and leaderboards, a PR with comments of two bots or in
\* two weeks is one PR, and the languages are the same from either table.  The weekly volume
\* of all bots is that of the products and of the bots that are no longer listed.
NumbersAgree ==
  /\ \A from \in WeekNumbers : \A w \in DOMAIN WeeklyTotals(from), k \in Kinds :
       WeeklyTotals(from)[w].bots[k] =
         SumOf({r \in weekly.activity : r.week = w /\ r.bot \notin Accounts}, k)
           + SumFunction([p \in ProductIds |->
                            IF w \in DOMAIN Chart(p, 0) THEN Chart(p, 0)[w][k] ELSE 0])
  /\ \A from \in WeekNumbers, p \in ProductIds :
       LET s == Summary(p, from)
           total == s.activity.total
           bots == BotsWith(p)
           chart == Chart(p, from)
           trend == TrendData(ProductIds, from)
           leaders == Leaderboard(from)
       IN /\ \A k \in Kinds :
               /\ total[k] = SumFunction([b \in bots |-> BotSummary(b, from).activity.total[k]])
               /\ total[k] = SumFunction([w \in DOMAIN chart |-> chart[w][k]])
                    + (IF k = "reviews"
                       THEN SumFunction([r \in Since(Of(weekly.reactions, p), from) |-> r.n])
                       ELSE 0)
          /\ total["reviews"] = SumFunction([x \in ProductBots(p, from) |-> x.total["reviews"]])
          /\ SumFunction([w \in DOMAIN chart |-> chart[w]["reviews"]])
               = SumFunction([w \in DOMAIN trend |-> trend[w][p].reviews])
          /\ \A i \in 1..2 :
               /\ s.votes[i] = SumFunction([b \in bots \cap DOMAIN leaders |-> leaders[b][i]])
               /\ s.votes[i] = SumFunction([w \in WeekNumbers |->
                                               WeeklyReactions(p, {w}, from).votes[i]])
          /\ CommentsPerPR(bots, from).prs
               <= SumFunction([b \in bots |-> CommentsPerPR({b}, from).prs])
          /\ CommentsPerPR(bots, from).prs
               <= SumFunction([w \in WeekNumbers |-> WeeklyReactions(p, {w}, from).prs])
          /\ \A b \in bots, l \in Range(Language) : LanguagePRs(b, l, 0) = LanguagePRs(b, l, 1)

\* Growth compares the same weeks whatever range is chosen, and the week that is not over
\* does not matter: a product is never ranked by it, nor "New" in one range and "Inactive"
\* in another.  Without a range every product with reviews is one of new, inactive and
\* compared, and one reported as stale has had nothing lately if the weeks are up to date.
WindowsIgnoreRange ==
  \A p \in ProductIds :
    /\ \A from \in WeekNumbers :
         LET s == Summary(p, from).activity
             all == Summary(p, 0).activity
         IN /\ <<s.growth, s.recent, s.previous, s.lately>>
                 = <<all.growth, all.recent, all.previous, all.lately>>
            /\ IsNew(s) => ~IsDormant(all)
            /\ IsDormant(s) => IsDormant(all)
            /\ \A q \in ProductIds : Growth(Of(Rows, p)) > Growth(Of(Rows, q)) =>
                 Precedes(Rank(p, from), Rank(q, from))
    /\ Growth({r \in Of(Rows, p) : r.week < weekly.now}) = Growth(Of(Rows, p))
    /\ LET s == Summary(p, 0).activity IN
       s.total["reviews"] > 0 =>
         Cardinality({label \in {"new", "inactive", "compared"} :
           CASE label = "new" -> IsNew(s) [] label = "inactive" -> IsDormant(s)
             [] label = "compared" -> s.previous >= Baseline /\ s.recent > 0}) = 1
    /\ Stale(p) /\ RefWeek = weekly.now - 1 => Summary(p, 0).activity.lately = Total({})

\* "all" has the PRs of every range: the view has joined them, and none is stored twice.
InView(p) ==
  /\ \A row, other \in weekly.pulls : row.pr = other.pr => row = other
  /\ {row.pr : row \in Sampled(p, 1)} \subseteq {v.pr : v \in Sampled(p, 0)}

\* A wider range never shows less: no smaller number, no bot, week or PR fewer, and no
\* product without the thumbs it has in a narrower one, nor without the characteristics but
\* for "all" while the view lags behind or rows are not merged.  And a product is in no
\* fewer repositories than any of its bots.
WiderShowsMore ==
  \A wide, narrow \in WeekNumbers, p \in ProductIds : wide <= narrow =>
    LET w == Comparison(p, wide).summary
        n == Comparison(p, narrow).summary
    IN /\ \A k \in Kinds : n.activity.total[k] <= w.activity.total[k]
       /\ n.total_repos <= w.total_repos /\ n.total_orgs <= w.total_orgs
       /\ n.activity.weeks_active <= w.activity.weeks_active
       /\ \A b \in BotsWith(p) : BotSummary(b, narrow).total_repos <= n.total_repos
       /\ n.activity.first_seen > 0 => w.activity.first_seen \in 1 .. n.activity.first_seen
       /\ n.rates[1] >= 0 => w.rates[1] >= 0
       /\ {x.bot : x \in ProductBots(p, narrow)} \subseteq {x.bot : x \in ProductBots(p, wide)}
       /\ (wide > 0 \/ InView(p)) /\ p \in DOMAIN AllCharacteristics(narrow) =>
            p \in DOMAIN AllCharacteristics(wide)

\* A time range changes what it is about and nothing else: both of the above.
RangesBehave == WindowsIgnoreRange /\ WiderShowsMore
=============================================================================
