----------------------------- MODULE Statistics -----------------------------
(***************************************************************************)
(* The statistics the application reads: summary tables fed by             *)
(* materialized views (app/src/lib/migrations.ts), written through the     *)
(* inserts of the pipeline (pipeline/src/clickhouse.ts), taken off and put *)
(* back by hand (pipeline/src/cli.ts), and read by the status page         *)
(* (getDataCollectionStats of app/src/lib/clickhouse.ts).                  *)
(*                                                                         *)
(* A summary of uniqExact states is the set of the keys it has seen, a     *)
(* summary of count states a number per PR: inserting a key again changes  *)
(* the second kind only.  The grouping columns are left out, since the     *)
(* repository, the owner and the bot of a key are functions of the key.    *)
(* A block of an insert is one row, and reaches the attached views in the  *)
(* same step.  An INSERT ... SELECT reads its snapshot in one step, writes *)
(* it in another, and may go on without its client.  comment_stats_weekly  *)
(* is in Migrations.                                                       *)
(***************************************************************************)
EXTENDS Integers, Sequences, FiniteSets, Functions

CONSTANTS
  PRs, Bots, Repos,
  RepoOf,      \* the repository of a PR
  ProductOf,   \* the product of a bot
  OldEvents,   \* pr_bot_events stored before the first of these migrations
  MaxWrites,   \* bound: rows inserted
  MaxRows,     \* bound: unmerged rows of a key
  OldUpkeep,   \* bound: crashes and commands of the operator, while it is migrated
  NewUpkeep    \* bound: the same for a database that is

ASSUME StatisticsAssumption ==
  /\ IsFiniteSet(PRs) /\ IsFiniteSet(Bots) /\ IsFiniteSet(Repos)
  /\ RepoOf \in [PRs -> Repos] /\ DOMAIN ProductOf = Bots
  /\ OldEvents \subseteq PRs \X Bots
  /\ MaxWrites \in Nat /\ MaxRows \in Nat \ {0}
  /\ OldUpkeep \in Nat /\ NewUpkeep \in Nat

Pairs == PRs \X Bots
Products == {ProductOf[b] : b \in Bots}

\* The uniqExact summaries, by their key and the table they read.
PairViews == {"pr_bot_event_counts", "org_bot_pr_counts", "bot_comment_discovery_summary"}
EventPRViews == {"repo_pr_summary", "org_pr_summary", "pr_discovery_global_summary"}
DistinctViews == PairViews \cup EventPRViews
                   \cup {"pr_comments_repo_bot_combos", "pr_bot_reactions_pr_summary"}
Characteristics == "pr_product_characteristics"
\* The count summaries.
CountingViews == {"pull_requests_enrichment_summary", "reaction_scan_repo_summary"}
Views == DistinctViews \cup {Characteristics} \cup CountingViews

VARIABLES
  events,    \* pr_bot_events, as a set of (PR, bot)
  pulls,     \* pull_requests: the unmerged rows of a PR, "found" or "gone", newest last
  comments,  \* pr_comments: the (PR, bot) with a row, a sentinel or comments
  scans,     \* reaction_scan_progress: the number of unmerged rows of a PR
  reactions, \* pr_bot_reactions: the hoorays, as (PR, bot)
  repos,     \* repos: the unmerged rows of a repository, "ok" or "closed", newest last
  attached,  \* the views there are
  stored,    \* the keys in a uniqExact summary, and in pr_product_characteristics
  counted,   \* the counts in a count summary
  refreshed, \* the two reaction-only tables, as (PR, bot, exclusive)
  version,   \* the migration being run
  todo,      \* the statements each client has yet to run
  fills,     \* the INSERT ... SELECT of each client, and one whose client is gone
  due,       \* history: the (PR, product) whose event came before a row of the PR
  whole,     \* history: pr_product_characteristics was filled since its view was dropped
  writes, upkeep,  \* rows inserted, and upkeep still allowed: the bounds
  answers    \* the answers of the status page's queries that an instance holds
tables == <<events, pulls, comments, scans, reactions, repos>>
summaries == <<stored, counted>>
clients == <<version, todo, fills, upkeep>>
vars == <<tables, attached, summaries, refreshed, clients, due, whole, writes, answers>>

PRsOf(pairs) == {pair[1] : pair \in pairs}
Rows(p, kind) == Cardinality({i \in DOMAIN pulls[p] : pulls[p][i] = kind})

-----------------------------------------------------------------------------
(* The queries of the views *)

\* What a uniqExact view selects from the whole of its table.
Keys(v) == CASE v \in PairViews -> events
             [] v \in EventPRViews -> PRsOf(events)
             [] v = "pr_comments_repo_bot_combos" -> comments
             [] v = "pr_bot_reactions_pr_summary" -> PRsOf(reactions)
             [] v = Characteristics ->
                  {<<e[1], ProductOf[e[2]]>> : e \in {d \in events : pulls[d[1]] # <<>>}}

\* What a count view selects: it counts rows, merged or not.
Counts(v) == CASE v = "pull_requests_enrichment_summary" -> [p \in PRs |-> Rows(p, "found")]
               [] v = "reaction_scan_repo_summary" -> scans

\* The two REFRESHABLE views: reactions of bots without an event of their own on the
\* PR, and whether no other bot has one either.
ReactionOnly == {<<r[1], r[2], r[1] \notin PRsOf(events)>> : r \in reactions \ events}

\* A block reaches the attached views of its table.
Feed(keys) ==
  stored' = [v \in DOMAIN stored |->
               IF v \in attached \cap DOMAIN keys THEN stored[v] \cup {keys[v]} ELSE stored[v]]
Count(v, p) ==
  counted' = IF v \in attached THEN [counted EXCEPT ![v][p] = @ + 1] ELSE counted

-----------------------------------------------------------------------------
(* The statements of the migrations and of the operator's commands.  CREATE TABLE   *)
(* goes with the view; the versions left out create no view of these.              *)

Create(v) == [op |-> "create", view |-> v]
Fill(v) == [op |-> "fill", view |-> v]
Truncate(v) == [op |-> "truncate", view |-> v]
Drop(v) == [op |-> "drop", view |-> v]

\* How versions 3, 10 to 13 and 16 introduce a uniqExact summary.
Refilled(v) == <<Create(v), Fill(v)>>

\* Mutant of Recounted: the view is created after the fill.
RecountedFirst(v) == <<Truncate(v), Fill(v), Create(v)>>

\* How version 16 introduces a count summary.
Recounted(v) == <<Create(v), Truncate(v), Fill(v)>>

Version3 == Refilled("pr_bot_event_counts")
Version10 == Refilled(Characteristics)
Version11 == Refilled("org_bot_pr_counts")
Version12 == Refilled("repo_pr_summary") \o Refilled("org_pr_summary")
Version13 == Refilled("bot_comment_discovery_summary")
Version16 ==
  Refilled("pr_discovery_global_summary")
    \o Recounted("pull_requests_enrichment_summary")
    \o Refilled("pr_comments_repo_bot_combos")
    \o Recounted("reaction_scan_repo_summary")
    \o Refilled("pr_bot_reactions_pr_summary")
Migrations == <<Version3, Version10, Version11, Version12, Version13, Version16>>

DetachMV == <<Drop(Characteristics)>>

\* Mutant of ReattachMV: backfilled before the view is there.
ReattachMVBackfilled == <<Fill(Characteristics), Create(Characteristics)>>

ReattachMV == <<Create(Characteristics), Fill(Characteristics)>>

Clients == {"migrator", "operator"}
NoFill == [view |-> "none"]
Migrated == version > Len(Migrations)

-----------------------------------------------------------------------------
(* The clients *)

Begin(c) == todo[c] # <<>> /\ fills[c] = NoFill
Statement(c) == Head(todo[c])
Did(c) == todo' = [todo EXCEPT ![c] = Tail(@)]

CreateView(c) ==
  /\ Begin(c) /\ Statement(c).op = "create"
  /\ attached' = attached \cup {Statement(c).view}
  /\ Did(c)
  /\ UNCHANGED <<tables, summaries, refreshed, version, fills, upkeep, due, whole, writes, answers>>

DropView(c) ==
  /\ Begin(c) /\ Statement(c).op = "drop"
  /\ attached' = attached \ {Statement(c).view}
  /\ whole' = FALSE
  /\ Did(c)
  /\ UNCHANGED <<tables, summaries, refreshed, version, fills, upkeep, due, writes, answers>>

TruncateTable(c) ==
  /\ Begin(c) /\ Statement(c).op = "truncate"
  /\ counted' = [counted EXCEPT ![Statement(c).view] = [p \in PRs |-> 0]]
  /\ Did(c)
  /\ UNCHANGED <<tables, attached, stored, refreshed, version, fills, upkeep, due, whole,
                 writes, answers>>

\* An INSERT ... SELECT has read its table.
FillReads(c) ==
  /\ Begin(c) /\ Statement(c).op = "fill"
  /\ LET v == Statement(c).view IN
     fills' = [fills EXCEPT ![c] =
       [view |-> v, rows |-> IF v \in CountingViews THEN Counts(v) ELSE Keys(v)]]
  /\ UNCHANGED <<tables, attached, summaries, refreshed, version, todo, upkeep, due, whole,
                 writes, answers>>

\* It has written what it read.
Written(fill) ==
  IF fill.view \in CountingViews
  THEN /\ counted' = [counted EXCEPT ![fill.view] = [p \in PRs |-> @[p] + fill.rows[p]]]
       /\ stored' = stored
  ELSE /\ stored' = [stored EXCEPT ![fill.view] = @ \cup fill.rows]
       /\ counted' = counted

FillWrites(c) ==
  /\ c \in Clients /\ fills[c] # NoFill
  /\ Written(fills[c])
  /\ whole' = (whole \/ fills[c].view = Characteristics)
  /\ fills' = [fills EXCEPT ![c] = NoFill]
  /\ Did(c)
  /\ UNCHANGED <<tables, attached, refreshed, version, upkeep, due, writes, answers>>

\* runMigrations records a version and goes on to the next one.
Record ==
  /\ ~Migrated /\ todo["migrator"] = <<>>
  /\ version' = version + 1
  /\ todo' = [todo EXCEPT !["migrator"] =
                IF version < Len(Migrations) THEN Migrations[version + 1] ELSE <<>>]
  /\ UNCHANGED <<tables, attached, summaries, refreshed, fills, upkeep, due, whole, writes, answers>>

\* A client stops: its INSERT ... SELECT goes on or not.  The next instance of the app
\* begins with the first statement of the version that is not recorded.
Crash(c) ==
  /\ upkeep > 0 /\ upkeep' = upkeep - 1
  /\ IF c = "migrator" THEN ~Migrated ELSE todo[c] # <<>>
  /\ todo' = [todo EXCEPT ![c] = IF c = "migrator" THEN Migrations[version] ELSE <<>>]
  /\ \E left \in IF fills["gone"] = NoFill THEN {fills[c], NoFill} ELSE {fills["gone"]} :
       fills' = [fills EXCEPT ![c] = NoFill, !["gone"] = left]
  /\ UNCHANGED <<tables, attached, summaries, refreshed, version, due, whole, writes, answers>>

GoneWrites ==
  /\ fills["gone"] # NoFill
  /\ Written(fills["gone"])
  /\ fills' = [fills EXCEPT !["gone"] = NoFill]
  /\ UNCHANGED <<tables, attached, refreshed, version, todo, upkeep, due, whole, writes, answers>>

\* pipeline detach-mv and reattach-mv, once version 10 is there.
Operate(commands) ==
  /\ upkeep > 0 /\ upkeep' = upkeep - 1
  /\ version > 2 /\ todo["operator"] = <<>>
  /\ todo' = [todo EXCEPT !["operator"] = commands]
  /\ UNCHANGED <<tables, attached, summaries, refreshed, version, fills, due, whole, writes, answers>>

Detach == Operate(DetachMV)
Reattach == Operate(ReattachMV)

-----------------------------------------------------------------------------
(* The pipeline's inserts; a repeated one (its answer was lost) makes a second row.  *)

Insert ==
  /\ writes < MaxWrites /\ writes' = writes + 1
  /\ UNCHANGED <<attached, refreshed, clients, whole, answers>>

InsertPrBotEvents(p, b) ==
  /\ <<p, b>> \notin events
  /\ events' = events \cup {<<p, b>>}
  /\ Feed([v \in PairViews \cup EventPRViews |-> IF v \in PairViews THEN <<p, b>> ELSE p])
  /\ Insert
  /\ UNCHANGED <<pulls, comments, scans, reactions, repos, counted, due>>

InsertRepos(r, status) ==
  /\ \E p \in PRsOf(events) : RepoOf[p] = r
  /\ Len(repos[r]) < MaxRows
  /\ repos[r] # <<>> => repos[r][Len(repos[r])] = "ok"  \* no closed one is fetched again
  /\ repos' = [repos EXCEPT ![r] = Append(@, status)]
  /\ Insert
  /\ UNCHANGED <<events, pulls, comments, scans, reactions, summaries, due>>

\* The joins of pr_product_characteristics_mv are with the events present now.
InsertPullRequests(p, row) ==
  /\ p \in PRsOf(events) /\ Len(pulls[p]) < MaxRows
  /\ pulls' = [pulls EXCEPT ![p] = Append(@, row)]
  /\ LET joined == {<<p, ProductOf[e[2]]>> : e \in {d \in events : d[1] = p}} IN
     /\ due' = due \cup joined
     /\ stored' = IF Characteristics \in attached
                  THEN [stored EXCEPT ![Characteristics] = @ \cup joined] ELSE stored
  /\ IF row = "found" THEN Count("pull_requests_enrichment_summary", p) ELSE UNCHANGED counted
  /\ Insert
  /\ UNCHANGED <<events, comments, scans, reactions, repos>>

\* LEFT JOIN pr_comments ... IS NULL: of the events without a row.
InsertPrComments(p, b) ==
  /\ <<p, b>> \in events \ comments
  /\ comments' = comments \cup {<<p, b>>}
  /\ Feed([v \in {"pr_comments_repo_bot_combos"} |-> <<p, b>>])
  /\ Insert
  /\ UNCHANGED <<events, pulls, scans, reactions, repos, counted, due>>

InsertReactionScanProgress(p) ==
  /\ p \in PRsOf(events) /\ scans[p] < MaxRows
  /\ scans' = [scans EXCEPT ![p] = @ + 1]
  /\ Count("reaction_scan_repo_summary", p)
  /\ Insert
  /\ UNCHANGED <<events, pulls, comments, reactions, repos, stored, due>>

InsertPrBotReactions(p, b) ==
  /\ p \in PRsOf(events) /\ <<p, b>> \notin reactions
  /\ reactions' = reactions \cup {<<p, b>>}
  /\ Feed([v \in {"pr_bot_reactions_pr_summary"} |-> p])
  /\ Insert
  /\ UNCHANGED <<events, pulls, comments, scans, repos, counted, due>>

\* ClickHouse merges the parts of a table when it likes, and on OPTIMIZE (optimizeTables,
\* whose failures are only logged): the newest row of a key is left.
Newest(rows) == IF rows = <<>> THEN rows ELSE <<rows[Len(rows)]>>
Merge(table) ==
  /\ CASE table = "pull_requests" ->
            pulls' = [p \in PRs |-> Newest(pulls[p])] /\ UNCHANGED <<scans, repos>>
       [] table = "repos" ->
            repos' = [r \in Repos |-> Newest(repos[r])] /\ UNCHANGED <<scans, pulls>>
       [] table = "reaction_scan_progress" ->
            /\ scans' = [p \in PRs |-> IF scans[p] = 0 THEN 0 ELSE 1]
            /\ UNCHANGED <<pulls, repos>>
  /\ <<pulls, repos, scans>>' # <<pulls, repos, scans>>
  /\ UNCHANGED <<events, comments, reactions, attached, summaries, refreshed, clients, due,
                 whole, writes, answers>>

\* Every 30 minutes.
Refresh ==
  /\ version > 1
  /\ refreshed' = ReactionOnly /\ refreshed' # refreshed
  /\ UNCHANGED <<tables, attached, summaries, clients, due, whole, writes, answers>>

-----------------------------------------------------------------------------
(* The status page: queries answered, and cached, each at a time of its own. *)

\* WHERE fetch_status IN ('not_found', 'forbidden'), over unmerged rows.
Closed == {r \in Repos : \E i \in DOMAIN repos[r] : repos[r][i] = "closed"}
RowsOf(status) ==
  SumFunction([r \in Repos |-> Cardinality({i \in DOMAIN repos[r] : repos[r][i] = status})])
InClosed(pairs) == {pair \in pairs : RepoOf[pair[1]] \in Closed}
PRsInClosed == {p \in stored["repo_pr_summary"] : RepoOf[p] \in Closed}

Fields == {"repos_total", "prs_discovered", "repos_ok", "repos_not_found", "prs_enriched",
           "prs_unreachable", "reactions_scanned", "reactions_unreachable"}

\* Mutant of GlobalAnswer: a PR counts once per bot.
GlobalAnswerByBot ==
  [repos_total |-> Cardinality({RepoOf[p] : p \in stored["pr_discovery_global_summary"]}),
   prs_discovered |-> Cardinality(stored["pr_bot_event_counts"])]

GlobalAnswer ==
  [repos_total |-> Cardinality({RepoOf[p] : p \in stored["pr_discovery_global_summary"]}),
   prs_discovered |-> Cardinality(stored["pr_discovery_global_summary"])]

PullsAnswer ==
  [repos_ok |-> RowsOf("ok"), repos_not_found |-> RowsOf("closed"),
   prs_enriched |-> SumFunction(counted["pull_requests_enrichment_summary"]),
   prs_unreachable |-> Cardinality(PRsInClosed)]

CommentsAnswer ==
  LET combos == stored["pr_comments_repo_bot_combos"] IN
  [comments_discovered |-> Cardinality(stored["bot_comment_discovery_summary"]),
   comments_enriched |-> Cardinality(combos \ InClosed(combos)),
   comments_unreachable |-> Cardinality(InClosed(stored["pr_bot_event_counts"]))]

ReactionsAnswer ==
  [reactions_scanned |-> SumFunctionOnSet(counted["reaction_scan_repo_summary"],
                                          {p \in PRs : RepoOf[p] \notin Closed}),
   reactions_unreachable |-> Cardinality(PRsInClosed)]

\* The queries whose answers a page combines.  The one for the comments gives all the
\* numbers of its line, and weeks and dates are left out.
Queries == {"global", "pulls", "reactions"}
Answer(query) == CASE query = "global" -> GlobalAnswer
                   [] query = "pulls" -> PullsAnswer
                   [] query = "reactions" -> ReactionsAnswer

\* What needs no more work, of the repositories, PRs and reactions.
Finished ==
  LET unreachable == {p \in PRsOf(events) : RepoOf[p] \in Closed} IN
  [repos |-> {r \in Repos : repos[r] # <<>>},
   prs |-> unreachable \cup {p \in PRs : Rows(p, "found") > 0},
   reactions |-> unreachable \cup {p \in PRs : scans[p] > 0}]

\* What pipeline enrich-status calls pending: tables are joined and counted as they are,
\* unmerged, and closed repositories that are forbidden have no column.
EnrichStatus(forbidden) ==
  LET known == {RepoOf[p] : p \in PRsOf(events)}
      enriched == {r \in known : "ok" \in Range(repos[r])}
      not_found == known \cap (Closed \ forbidden)
  IN [repos |-> Cardinality(known) - Cardinality(enriched) - Cardinality(not_found),
      prs |-> Cardinality(PRsOf(events)) - SumFunction([p \in PRs |-> Len(pulls[p])]),
      comments |-> Cardinality(events) - Cardinality(comments),
      reactions |-> Cardinality(PRsOf(events)) - SumFunction(scans)]

Kinds == {"repos", "prs", "reactions"}
Blank == [f \in Fields |-> 0]
Unread == [waiting |-> Queries, got |-> Blank, finished |-> [k \in Kinds |-> {}]]

\* The kinds of work a query tells the progress of.
Tells(query) == CASE query = "global" -> {}
                  [] query = "pulls" -> {"repos", "prs"}
                  [] query = "reactions" -> {"reactions"}

\* A query of the status page is answered: for the page, for an earlier one whose other
\* queries failed, or for another at the same time.  query() keeps the answer for its five
\* minutes, and the page combines whatever answers it meets, read in any order and as long
\* before it, and before each other, as one likes; later answers replace them one by one.
AnswerArrives(query) ==
  /\ Migrated
  /\ answers' =
       [waiting |-> answers.waiting \ {query},
        got |-> [f \in Fields |-> IF f \in DOMAIN Answer(query)
                                 THEN Answer(query)[f] ELSE answers.got[f]],
        finished |-> [k \in Kinds |-> IF k \in Tells(query)
                                      THEN Finished[k] ELSE answers.finished[k]]]
  /\ UNCHANGED <<tables, attached, summaries, refreshed, clients, due, whole, writes>>

\* Math.max(0, ...)
Difference(total, done, unreachable) ==
  IF total > done + unreachable THEN total - done - unreachable ELSE 0

Shown ==
  LET n == answers.got IN
  [repos_pending |-> Difference(n.repos_total, n.repos_ok, n.repos_not_found),
   prs_pending |-> Difference(n.prs_discovered, n.prs_enriched, n.prs_unreachable),
   reactions_pending |->
     Difference(n.prs_discovered, n.reactions_scanned, n.reactions_unreachable)]

-----------------------------------------------------------------------------
Old == PRsOf(OldEvents)
Feeding == [v \in DistinctViews \cup {Characteristics} |-> Keys(v)]

\* A database from before these migrations whose PRs have been fetched and scanned, or
\* one that has them all.
Init ==
  /\ events = OldEvents /\ comments = OldEvents /\ reactions = {}
  /\ pulls = [p \in PRs |-> IF p \in Old THEN <<"found">> ELSE <<>>]
  /\ scans = [p \in PRs |-> IF p \in Old THEN 1 ELSE 0]
  /\ repos = [r \in Repos |-> IF \E p \in Old : RepoOf[p] = r THEN <<"ok">> ELSE <<>>]
  /\ due = {<<e[1], ProductOf[e[2]]>> : e \in OldEvents}
  /\ fills = [c \in Clients \cup {"gone"} |-> NoFill]
  /\ refreshed = {} /\ writes = 0 /\ answers = Unread
  /\ \/ /\ version = 1 /\ todo = [c \in Clients |-> IF c = "migrator" THEN Version3 ELSE <<>>]
        /\ attached = {} /\ whole = FALSE /\ upkeep = OldUpkeep
        /\ stored = [v \in DistinctViews \cup {Characteristics} |-> {}]
        /\ counted = [v \in CountingViews |-> [p \in PRs |-> 0]]
     \/ /\ version = Len(Migrations) + 1 /\ todo = [c \in Clients |-> <<>>]
        /\ attached = Views /\ whole = TRUE /\ upkeep = NewUpkeep
        /\ stored = Feeding
        /\ counted = [v \in CountingViews |-> Counts(v)]

Work(c) == CreateView(c) \/ DropView(c) \/ TruncateTable(c) \/ FillReads(c) \/ FillWrites(c)
Pipeline ==
  \/ \E p \in PRs, b \in Bots :
       InsertPrBotEvents(p, b) \/ InsertPrComments(p, b) \/ InsertPrBotReactions(p, b)
  \/ \E p \in PRs : InsertReactionScanProgress(p)
  \/ \E p \in PRs, row \in {"found", "gone"} : InsertPullRequests(p, row)
  \/ \E r \in Repos, status \in {"ok", "closed"} : InsertRepos(r, status)
Next ==
  \/ \E c \in Clients : Work(c) \/ Crash(c)
  \/ Record \/ GoneWrites \/ Detach \/ Reattach
  \/ Pipeline \/ Refresh
  \/ \E table \in {"pull_requests", "repos", "reaction_scan_progress"} : Merge(table)
  \/ \E query \in Queries : AnswerArrives(query)

Spec == Init /\ [][Next]_vars

-----------------------------------------------------------------------------
(* Properties *)

\* A version has been recorded.
Introduced(v) == \E n \in 1..(version - 1) :
                   \E i \in DOMAIN Migrations[n] : Migrations[n][i].view = v

\* Once its version is recorded, a uniqExact summary holds exactly what its query would
\* select from the whole table, whatever was inserted while it was filled, however often
\* the instances crashed, and if an abandoned fill is still running.  A count summary is
\* never below the rows there are: truncating it after its view is made loses nothing that
\* is not filled in again.
SummariesTellAll ==
  /\ \A v \in DistinctViews : Introduced(v) => stored[v] = Keys(v)
  /\ \A v \in CountingViews : Introduced(v) => \A p \in PRs : counted[v][p] >= Counts(v)[p]


\* Once the view was put back and backfilled, pr_product_characteristics lacks no PR that
\* was stored after its event, not even one stored while the view was off.
CharacteristicsComplete ==
  whole /\ Characteristics \in attached => due \subseteq stored[Characteristics]

\* The numbers of pending work on the status page never exceed what is known and was not
\* finished when the answer about it was read, although each query has a cache of its own
\* and the page combines answers of different ages, over unmerged rows; and the number of
\* (PR, bot) without comments, which three summaries of two tables give in one query, is
\* what the comments stage would select.  Nor does pipeline enrich-status announce more
\* work than there is, and merged tables give the exact number of PRs and reactions.
PendingIsReal ==
  /\ answers.waiting = {} =>
       LET discovered == PRsOf(events) IN
       /\ Shown.repos_pending
            <= Cardinality({RepoOf[p] : p \in discovered} \ answers.finished.repos)
       /\ Shown.prs_pending <= Cardinality(discovered \ answers.finished.prs)
       /\ Shown.reactions_pending <= Cardinality(discovered \ answers.finished.reactions)
  /\ Migrated =>
       LET n == CommentsAnswer IN
       n.comments_discovered - n.comments_enriched - n.comments_unreachable
         = Cardinality({e \in events \ comments : RepoOf[e[1]] \notin Closed})
  /\ \A forbidden \in SUBSET Closed :
       LET status == EnrichStatus(forbidden)
           discovered == PRsOf(events)
           unmerged == {p \in PRs : Len(pulls[p]) > 1 \/ scans[p] > 1}
       IN /\ status.repos <= Cardinality({r \in {RepoOf[p] : p \in discovered} :
                                            repos[r] = <<>> \/ r \in forbidden})
          /\ status.prs <= Cardinality({p \in discovered : pulls[p] = <<>>})
          /\ status.comments = Cardinality(events \ comments)
          /\ status.reactions <= Cardinality({p \in discovered : scans[p] = 0})
          /\ unmerged = {} =>
               /\ status.prs = Cardinality({p \in discovered : pulls[p] = <<>>})
               /\ status.reactions = Cardinality({p \in discovered : scans[p] = 0})
=============================================================================
