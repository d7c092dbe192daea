------------------------------ MODULE Listings ------------------------------
(***************************************************************************)
(* The listing and detail pages of organizations and repositories: the     *)
(* SQL of app/src/lib/clickhouse.ts, as operators on a database.  The same *)
(* number of PRs is computed from four summaries along a dozen paths, with *)
(* rows filtered, sorted and cut into pages by the database and then       *)
(* enriched and sorted again by the application.                           *)
(*                                                                         *)
(* A repository is <<owner, number>> ("owner/name"), a PR is               *)
(* <<repository, number>>, and names are ordered as these are.  A search   *)
(* is the set of owners or repositories its pattern matches.  The table    *)
(* repos is read without FINAL: a repository that was fetched again has    *)
(* several rows <<repository, copy>> until they are merged, with stars and *)
(* a language each; some paths join them by name, others list or sum them. *)
(* Some join bots, a table that migrate empties and fills again            *)
(* (db/init/002_bot_data.sql), and others count bots that are not listed.  *)
(***************************************************************************)
EXTENDS Integers, Sequences, FiniteSets, Functions, FiniteSetsExt, SequencesExt

CONSTANTS
  Repositories,   \* <<owner, number>>
  PullRequests,   \* <<repository, number>>
  Accounts,       \* ids of the bots
  Product,        \* the product of each
  Copies,         \* the rows a repository may have in repos, numbered
  Stars, Language \* of every row of a repository

ASSUME ListingsAssumption ==
  /\ Repositories \subseteq Nat \X Nat /\ PullRequests \subseteq Repositories \X Nat
  /\ IsFiniteSet(Accounts) /\ DOMAIN Product = Accounts /\ Copies \subseteq Nat \ {0}
  /\ Stars \in [Repositories \X Copies -> Nat] /\ DOMAIN Language = Repositories \X Copies

VARIABLE
  db  \* [events: pr_bot_events, ok: the rows of repos with fetch_status 'ok',
      \*  listed: the ids in bots, reactions: hoorays,
      \*  seen: the events there were at the last refresh]

Owners == {r[1] : r \in Repositories}
ProductIds == Range(Product)
BotsOf(products) == {b \in db.listed : Product[b] \in products}
OkOf(o) == {row \in db.ok : row[1][1] = o}
NamesOf(o) == {row[1] : row \in OkOf(o)}
Owned(pr) == pr[1][1]  \* splitByChar('/', repo_name)[1] of its repository

-----------------------------------------------------------------------------
(* The summaries (exact projections of pr_bot_events, see Statistics), and the table of  *)
(* reaction-only counts of the last refresh.                                            *)

EventPRs(accounts) == {e[1] : e \in {d \in db.events : d[2] \in accounts}}
PRsIn(repo, accounts) == {pr \in EventPRs(accounts) : pr[1] = repo}
EventCount(repo, accounts) == Cardinality(PRsIn(repo, accounts))

\* org_bot_pr_counts: of all repositories of an owner, whatever their fetch_status.
OrgPRs(o, accounts) == Cardinality({pr \in EventPRs(accounts) : Owned(pr) = o})

Reacted(accounts) == {r \in db.reactions \ db.seen : r[2] \in accounts}
SeenPRs == {e[1] : e \in db.seen}

\* exclusive_pr_count of a bot in a repository: PRs no bot had an event on.
Exclusive(repo, b) ==
  Cardinality({r \in Reacted({b}) : r[1][1] = repo /\ r[1] \notin SeenPRs})

\* max(exclusive_pr_count): what one bot reacted to another may have, too.
ExclusiveMax(repo, accounts) == Max({Exclusive(repo, b) : b \in accounts} \cup {0})

-----------------------------------------------------------------------------
(* The pages of an organization and of a repository *)

\* Mutant of OrgSummaryPRs: the numbers are merged without GROUP BY repo_name, although
\* two repositories may have a PR of the same number.
OrgSummaryMerged(o) ==
  Cardinality({pr[2] : pr \in {q \in EventPRs(Accounts) : q[1] \in NamesOf(o)}})
    + SumFunction([r \in NamesOf(o) |-> ExclusiveMax(r, Accounts)])

\* getOrgSummary: total_prs, of the names of the rows and of all bots.
OrgSummaryPRs(o) ==
  SumFunction([r \in NamesOf(o) |-> EventCount(r, Accounts)])
    + SumFunction([r \in NamesOf(o) |-> ExclusiveMax(r, Accounts)])

\* getOrgRepos: pr_count, an item for every row.
OrgRepos(o) ==
  [row \in OkOf(o) |-> EventCount(row[1], Accounts) + ExclusiveMax(row[1], Accounts)]

\* getOrgProducts: pr_count of a product, which bots is joined for.
OrgProductPRs(o, product) ==
  LET accounts == BotsOf({product}) IN
  SumFunction([r \in NamesOf(o) |->
                 EventCount(r, accounts) + SumFunction([b \in accounts |-> Exclusive(r, b)])])

\* getRepoDetail: total_prs.
RepoDetailPRs(repo) == EventCount(repo, Accounts)

-----------------------------------------------------------------------------
(* Filters: [products, languages, search, sort], an empty set for none.       *)

\* ORDER BY: columns descend, one after the other; a name ascends as its negative.
Precedes(a, b) == \E i \in DOMAIN a : a[i] > b[i] /\ \A j \in 1..(i - 1) : a[j] = b[j]

\* The orders a query may answer in: those its ORDER BY leaves open are any.
Orders(key) ==
  {s \in SetToSeqs(DOMAIN key) :
     \A i, j \in DOMAIN s : i < j => ~Precedes(key[s[j]], key[s[i]])}

\* LIMIT and OFFSET.
PageOf(rows, n, size) == SubSeq(rows, (n - 1) * size + 1, Min({n * size, Len(rows)}))

InLanguage(row, f) == f.languages = {} \/ Language[row] \in f.languages
StarsOf(rows) == SumFunction([row \in rows |-> Stars[row]])
SomeOk(o, f) == \E row \in OkOf(o) : InLanguage(row, f)

\* JOIN bots, WHERE product_id IN the products of a filter that has some.
Joined(f) == IF f.products = {} THEN db.listed ELSE BotsOf(f.products)

\* Whose PRs a list counts: without products, and by PRs, those of org_pr_summary and
\* repo_pr_summary, of all bots.
Tallied(f) == IF f.products = {} /\ f.sort = "prs" THEN Accounts ELSE Joined(f)

\* getOrgList, phase 1.  With products, prs are counted from the events and stars and
\* repositories from the rows of repos that pass the language filter.
OrgRows(f) ==
  LET counted == {o \in Owners : OrgPRs(o, Tallied(f)) > 0}
      listed == {o \in f.search : SomeOk(o, f)}
  IN IF f.products # {} \/ f.sort = "prs" THEN counted \cap listed ELSE listed

\* Mutant of OrgKey: no owner to break ties.
OrgKeyLoose(f, o) ==
  LET rows == {row \in OkOf(o) : f.products # {} => InLanguage(row, f)} IN
  CASE f.sort = "prs" -> <<OrgPRs(o, Tallied(f))>>
    [] f.sort = "repos" -> <<Cardinality(rows), StarsOf(rows)>>
    [] f.sort = "stars" -> <<StarsOf(rows)>>

OrgKey(f, o) ==
  LET rows == {row \in OkOf(o) : f.products # {} => InLanguage(row, f)}
      columns == CASE f.sort = "prs" -> <<OrgPRs(o, Tallied(f))>>
                   [] f.sort = "repos" -> <<Cardinality(rows), StarsOf(rows)>>
                   [] f.sort = "stars" -> <<StarsOf(rows)>>
  IN IF f.products = {} /\ f.sort # "prs" THEN columns ELSE Append(columns, -o)

OrgOrders(f) == Orders([o \in OrgRows(f) |-> OrgKey(f, o)])

\* Phase 2: what is shown of an owner.
OrgItem(f, o) ==
  [owner |-> o, total_stars |-> StarsOf(OkOf(o)), repo_count |-> Cardinality(OkOf(o)),
   total_prs |-> OrgPRs(o, Tallied(f))
                   + SumFunction([r \in NamesOf(o) |-> ExclusiveMax(r, Joined(f))])]

\* The page is sorted again by the PRs that are shown.
OrgPage(f, order, n, size) ==
  LET items == [i \in DOMAIN PageOf(order, n, size) |-> OrgItem(f, PageOf(order, n, size)[i])]
  IN IF f.sort = "prs"
     THEN CHOOSE s \in Orders([i \in Range(items) |-> <<i.total_prs, -i.owner>>]) : TRUE
     ELSE items

\* getRepoList, phase 1: by stars a row of repos each, by PRs a name each (<<name, 0>>).
RepoRows(f) ==
  LET listed == {row \in db.ok : row[1] \in f.search /\ InLanguage(row, f)}
      active == {row \in listed : EventCount(row[1], Tallied(f)) > 0}
  IN CASE f.sort = "prs" -> {<<row[1], 0>> : row \in active}
       [] f.sort # "prs" /\ f.products # {} -> active
       [] f.sort # "prs" /\ f.products = {} -> listed

RepoKey(f, row) ==
  LET columns == IF f.sort = "prs" THEN <<EventCount(row[1], Tallied(f))>> ELSE <<Stars[row]>>
  IN IF f.products = {} /\ f.sort # "prs" THEN columns ELSE columns \o <<-row[1][1], -row[1][2]>>

RepoOrders(f) == Orders([row \in RepoRows(f) |-> RepoKey(f, row)])

\* Phase 2: total_prs, of the selected products only.
RepoItemPRs(f, r) == EventCount(r, Tallied(f))

\* getTopReposByProduct: the total beside the first few.
TopReposTotal(product) ==
  Cardinality({r \in {row[1] : row \in db.ok} : EventCount(r, BotsOf({product})) > 0})

\* getOrgLanguageOptions and getRepoLanguageOptions: the counts of the filter menus.
OrgLanguageCount(language) ==
  Cardinality({row[1][1] : row \in {r \in db.ok : Language[r] = language}})

RepoLanguageCount(language) == Cardinality({row \in db.ok : Language[row] = language})

-----------------------------------------------------------------------------
CONSTANT Databases  \* bound: the contents that are looked at

DatabaseOK(d) ==
  /\ {d.events, d.reactions, d.seen} \subseteq SUBSET (PullRequests \X Accounts)
  /\ d.ok \subseteq Repositories \X Copies /\ d.listed \subseteq Accounts
  /\ IsFiniteSet(d.events) /\ IsFiniteSet(d.reactions) /\ IsFiniteSet(d.seen)
  /\ IsFiniteSet(d.ok)

ASSUME DatabasesAssumption == \A d \in Databases : DatabaseOK(d)

Sorts == {"prs", "stars", "repos"}
Filters(things) ==
  [products: SUBSET ProductIds, languages: SUBSET Range(Language), search: {things}, sort: Sorts]
OrgFilters == Filters(Owners)
RepoFilters == {f \in Filters(Repositories) : f.sort # "repos"}
With(f, sort) == [f EXCEPT !.sort = sort]

\* As after a merge: a row for a name.
Merged(rows) == \A a, b \in rows : a[1] = b[1] => a = b

\* Bots with an event or a reaction on one of these PRs.
ActiveOn(prs) == {x[2] : x \in {y \in db.events \cup db.reactions : y[1] \in prs}}

(* Properties *)

\* The total of an organization's page is the sum over the repositories listed on it, once
\* their rows are merged, and never more.  It is the total of the list of organizations,
\* and this one the same by every sort, unless bots are active there that are not listed, or
\* repositories that are not 'ok' have events; a list by stars may only show fewer.  No
\* path of the list shows more PRs of a repository than its own page, and its
\* organization's page none fewer; they are as many unless unlisted bots have events there.
\* Right after a refresh, adding reactions to events counts no PR twice: not in the totals
\* and, as getOrgProducts adds up what its bots have, not in a product with one bot.
TotalsAgree ==
  /\ \A o \in Owners :
       LET listed(sort) == OrgItem([products |-> {}, sort |-> sort], o).total_prs
           of_owner == {pr \in PullRequests : Owned(pr) = o}
       IN
       /\ OrgSummaryPRs(o) <= SumFunction(OrgRepos(o))
       /\ Merged(OkOf(o)) => OrgSummaryPRs(o) = SumFunction(OrgRepos(o))
       /\ listed("stars") <= listed("prs")
       /\ ActiveOn(of_owner) \subseteq db.listed =>
            /\ OrgSummaryPRs(o) <= listed("prs") /\ listed("stars") = listed("prs")
            /\ (\A pr \in EventPRs(Accounts) : Owned(pr) = o => pr[1] \in NamesOf(o))
                 => OrgSummaryPRs(o) = listed("prs")
  /\ \A row \in db.ok :
       LET r == row[1] IN
       /\ RepoDetailPRs(r) <= OrgRepos(r[1])[row]
       /\ \A f \in RepoFilters :
            /\ RepoItemPRs(f, r) <= RepoDetailPRs(r)
            /\ f.products = {} /\ f.sort = "prs" => RepoItemPRs(f, r) = RepoDetailPRs(r)
            /\ ActiveOn({pr \in PullRequests : pr[1] = r}) \subseteq db.listed =>
                 (f.products \in {{}, ProductIds} => RepoItemPRs(f, r) = RepoDetailPRs(r))
  /\ db.seen = db.events =>
       \A o \in Owners :
         LET active == EventPRs(Accounts) \cup {r[1] : r \in db.reactions} IN
         /\ OrgSummaryPRs(o) <= Cardinality({pr \in active : pr[1] \in NamesOf(o)})
         /\ \A row \in OkOf(o) :
              OrgRepos(o)[row] <= Cardinality({pr \in active : pr[1] = row[1]})
         /\ \A b \in Accounts : BotsOf({Product[b]}) = {b} =>
              OrgProductPRs(o, Product[b])
                <= Cardinality({x[1] : x \in {y \in db.events \cup db.reactions :
                                               y[2] = b /\ y[1][1] \in NamesOf(o)}})

\* Where the order is complete (with a product filter, or by PRs), the pages contain every
\* organization that matches exactly once, although every page is a query of its own; and
\* every repository, by stars once its rows are merged.
PagesPartition ==
  \A size \in 1..2 :
    /\ \A f \in OrgFilters : f.products # {} \/ f.sort = "prs" =>
         \A first, second \in OrgOrders(f) :
           \A n \in 1..Len(first), m \in 1..Len(first) : n # m =>
             {i.owner : i \in Range(OrgPage(f, first, n, size))}
               \cap {i.owner : i \in Range(OrgPage(f, second, m, size))} = {}
    /\ \A f \in RepoFilters :
         f.sort = "prs" \/ (f.products # {} /\ Merged(db.ok)) =>
           \A first, second \in RepoOrders(f) : first = second

\* Choosing another sort never changes which organizations and repositories a product
\* filter lists, although the paths filter events and rows in different places; by stars
\* the list announces more of them only while rows wait to be merged.  The filter menus and
\* the products' pages announce the numbers the lists have; and the pages partition a list.
ListsAgree ==
  /\ PagesPartition
  /\ \A f \in OrgFilters : f.products # {} =>
       \A sort \in Sorts : OrgRows(With(f, sort)) = OrgRows(f)
  /\ \A f \in RepoFilters : f.products # {} =>
       LET byPRs == RepoRows(With(f, "prs"))
           byStars == RepoRows(With(f, "stars"))
       IN /\ {row[1] : row \in byPRs} = {row[1] : row \in byStars}
          /\ Cardinality(byPRs) <= Cardinality(byStars)
          /\ Merged(db.ok) => Cardinality(byPRs) = Cardinality(byStars)
  /\ \A l \in Range(Language) :
       LET f(things) == [products |-> {}, languages |-> {l}, search |-> things,
                         sort |-> "stars"] IN
       /\ OrgLanguageCount(l) = Cardinality(OrgRows(f(Owners)))
       /\ RepoLanguageCount(l) = Cardinality(RepoRows(f(Repositories)))
  /\ \A product \in ProductIds :
       LET f == [products |-> {product}, languages |-> {}, search |-> Repositories,
                 sort |-> "prs"] IN
       TopReposTotal(product) = Cardinality(RepoRows(f))
=============================================================================
