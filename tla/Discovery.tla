------------------------------ MODULE Discovery ------------------------------
(***************************************************************************)
(* What GH Archive's events become: the queries of bigquery.ts, the row     *)
(* mappers of sync.ts, the discovery of pull requests (discover) and of     *)
(* bot accounts nobody listed yet (discover-bots).                         *)
(*                                                                         *)
(* A login is <<slug, suffixed>>: <<"a", TRUE>> is "a[bot]".  Days and      *)
(* weeks are numbers as in Sync.                                           *)
(***************************************************************************)
EXTENDS Trends

CONSTANTS
  BotOf,        \* BOT_BY_LOGIN: the bot of every listed login
  Ignored,      \* IGNORED_BOT_LOGINS
  Busy,         \* 100 events make an account worth looking at
  TopAccounts,  \* and so many of them are
  MaxCandidates \* 5 names are taken from a marketplace page

ASSUME DiscoveryAssumption ==
  /\ {Busy, TopAccounts, MaxCandidates} \subseteq Nat
  /\ Range(BotOf) \subseteq Accounts

VARIABLE
  archive  \* [events: [id, login, type, onPR, repo, pr, day], pr being 0 if the payload has none,
           \*  slugs: apps on the marketplace pages that could be read,
           \*  owners, mentions: different names on the page of a slug, as sequences; no page
           \*  if not in DOMAIN,
           \*  apps: the slugs GitHub has an app for,
           \*  errors: <<stage, slug>> whose lookup is refused or fails]

Types == {"PullRequestReviewEvent", "PullRequestReviewCommentEvent", "IssueCommentEvent"}
TypeOf == [reviews |-> "PullRequestReviewEvent", comments |-> "PullRequestReviewCommentEvent",
           pr_comments |-> "IssueCommentEvent"]
BOT_LOGINS == DOMAIN BotOf
MondayOf(day) == day - (day % 7)

\* WHERE: comments on issues count if the issue is a pull request.
Asked(from, to) ==
  {e \in archive.events : /\ e.day \in from..to
                          /\ e.type \in Types /\ (e.type = "IssueCommentEvent" => e.onPR)}

CountIf(events, k) == Cardinality({e \in events : e.type = TypeOf[k]})
Counts(events) == [k \in Kinds |-> CountIf(events, k)]
ByWeek(events, w) == {e \in events : MondayOf(e.day) = w}

-----------------------------------------------------------------------------
(* Weekly activity *)

\* queryBotReviewActivity.
BotReviewActivity(logins, from, to) ==
  LET events == {e \in Asked(from, to) : e.login \in logins}
      row(w, l) == LET own == {e \in ByWeek(events, w) : e.login = l} IN
                   [week |-> w, login |-> l, n |-> Counts(own),
                    repos |-> Cardinality({e.repo : e \in own}),
                    orgs |-> Cardinality({e.repo[1] : e \in own})]
  IN {row(MondayOf(e.day), e.login) : e \in events}

\* queryHumanReviewActivity: neither listed nor "[bot]".
HumanReviewActivity(logins, from, to) ==
  LET events == {e \in Asked(from, to) : e.login \notin logins /\ ~e.login[2]} IN
  {[week |-> w, n |-> Counts(ByWeek(events, w)),
    repos |-> Cardinality({e.repo : e \in ByWeek(events, w)})] :
     w \in {MondayOf(e.day) : e \in events}}

\* Mutant of MapBotActivity: every login gives a row; of one key the last is kept.
MapBotActivityRowwise(rows) ==
  LET known == {r \in rows : r.login \in BOT_LOGINS}
      last(w, b) == CHOOSE r \in known : r.week = w /\ BotOf[r.login] = b
  IN {[week |-> r.week, bot |-> BotOf[r.login], n |-> last(r.week, BotOf[r.login]).n,
       repos |-> r.repos, orgs |-> r.orgs] : r \in known}

\* mapBotActivityRows: one row for the logins of a bot, repositories added up.
MapBotActivity(rows) ==
  LET known == {r \in rows : r.login \in BOT_LOGINS}
      own(w, b) == {r \in known : r.week = w /\ BotOf[r.login] = b}
      row(w, b) == [week |-> w, bot |-> b, n |-> [k \in Kinds |-> SumOf(own(w, b), k)],
                    repos |-> SumFunction([r \in own(w, b) |-> r.repos]),
                    orgs |-> SumFunction([r \in own(w, b) |-> r.orgs])]
  IN {row(r.week, BotOf[r.login]) : r \in known}

-----------------------------------------------------------------------------
(* Discovery of pull requests *)

\* botPREventsQuery: grouped, and without the events whose payload has no number.
BotPREvents(logins, from, to) ==
  {[repo |-> e.repo, pr |-> e.pr, login |-> e.login, type |-> e.type, week |-> MondayOf(e.day)] :
     e \in {x \in Asked(from, to) : x.login \in logins /\ x.pr # 0}}

\* mapPrBotEventRows.
MapPrBotEvents(rows) ==
  {[repo |-> r.repo, pr |-> r.pr, bot |-> BotOf[r.login], login |-> r.login, type |-> r.type,
    week |-> r.week] : r \in {q \in rows : q.login \in BOT_LOGINS}}

\* streamBotPREvents: full batches, then the rest if there is any.
Batches(stream, size) ==
  [i \in 1 .. ((Len(stream) + size - 1) \div size) |->
     SubSeq(stream, (i - 1) * size + 1, Min({i * size, Len(stream)}))]

\* cmdDiscover: every batch is mapped and inserted.
Discovered(stream, size) ==
  UNION {MapPrBotEvents(Range(batch)) : batch \in Range(Batches(stream, size))}

-----------------------------------------------------------------------------
(* Discovery of bots *)

EventsBy(l, from, to) == Cardinality({e \in Asked(from, to) : e.login = l})

\* discoverBotReviewers; accounts with as many events are all in or all out.
BotReviewers(from, to) ==
  LET busy == {l \in {e.login : e \in Asked(from, to)} : l[2] /\ EventsBy(l, from, to) > Busy} IN
  {l \in busy :
     Cardinality({m \in busy : EventsBy(m, from, to) > EventsBy(l, from, to)}) < TopAccounts}

\* queryReviewActivityByLogins: comments on pull requests do not count here.
ActiveOf(logins, from, to) ==
  {l \in logins : \E e \in Asked(from, to) : e.login = l /\ e.type # "IssueCommentEvent"}

\* Mutant of ResolveViaApi: a request that fails means there is no such app.
ResolveViaApiOrNot(stage, slug) ==
  IF <<stage, slug>> \notin archive.errors /\ slug \in archive.apps THEN "found" ELSE "not_found"

\* resolveViaApi.
ResolveViaApi(stage, slug) ==
  IF <<stage, slug>> \in archive.errors THEN "error"
  ELSE IF slug \in archive.apps THEN "found" ELSE "not_found"

\* resolveViaMarketplacePage: the owners, and names mentioned until there are enough.
PageCandidates(slug) ==
  IF slug \notin DOMAIN archive.owners THEN <<>>
  ELSE LET other(s) == s # slug
           owners == SelectSeq(archive.owners[slug], other)
           named == SelectSeq(archive.mentions[slug],
                              LAMBDA s : s # slug /\ s \notin Range(owners))
       IN owners \o SubSeq(named, 1, Min({Len(named), Max({MaxCandidates - Len(owners), 0})}))

\* resolveApps: the slug itself, then the first candidate of its page that is an app.
Resolved(slug) ==
  IF ResolveViaApi("resolve", slug) = "found" THEN {slug}
  ELSE LET names == PageCandidates(slug)
           found == {i \in DOMAIN names : ResolveViaApi("resolve", names[i]) = "found"}
       IN {names[i] : i \in {j \in found : \A k \in found : j <= k}}

Sources == {"both", "marketplace only", "bigquery only"}

\* discoverBots: the accounts found and whether they have an app, which is looked up for
\* those of the first strategy and taken for granted for those of the second.
Results(source, from, to) ==
  LET scanned == IF source = "marketplace only" THEN {} ELSE BotReviewers(from, to)
      apps == IF source = "bigquery only" THEN {} ELSE UNION {Resolved(s) : s \in archive.slugs}
      candidates == (apps \X BOOLEAN) \ scanned
      listed == IF source = "marketplace only" THEN candidates
                ELSE ActiveOf(candidates, from, to)
  IN [l \in scanned \cup listed |->
        IF l \in listed THEN "found" ELSE ResolveViaApi("verify", l[1])]

Unlisted(results) == {l \in DOMAIN results : l \notin BOT_LOGINS \cup Ignored}
NewBots(results) == {l \in Unlisted(results) : results[l] = "found"}
SkippedBots(results) == {l \in Unlisted(results) : results[l] = "not_found"}

-----------------------------------------------------------------------------
CONSTANTS
  Archives,   \* bound: the contents that are looked at
  LastDay     \* bound: the days

ASSUME ArchivesAssumption ==
  \A a \in Archives : /\ IsFiniteSet(a.events)
                       /\ \A e \in a.events : e.login \in {e.login[1]} \X BOOLEAN

AccountsOf == {e.login : e \in archive.events}
RangesOfDays == {<<0, LastDay>>, <<7, LastDay>>, <<0, 6>>}

(* Properties *)

\* Of every event on a pull request one is counted: for the bot of its login, for people, or
\* not at all if an account called "[bot]" is not listed, however many logins a bot has.  The
\* PRs discovered are those of counted events, whatever batches they arrive in, and weekly
\* numbers never announce fewer events than PRs.
CountedForOne ==
  \A range \in RangesOfDays :
    LET from == range[1]
        to == range[2]
        bots == MapBotActivity(BotReviewActivity(BOT_LOGINS, from, to))
        people == HumanReviewActivity(BOT_LOGINS, from, to)
        stray == {e \in Asked(from, to) : e.login[2] /\ e.login \notin BOT_LOGINS}
        found == BotPREvents(BOT_LOGINS, from, to)
    IN /\ \A k \in Kinds : SumOf(bots, k) + SumOf(people, k) + CountIf(stray, k)
                             = CountIf(Asked(from, to), k)
       /\ \A r, s \in bots : r # s => <<r.week, r.bot>> # <<s.week, s.bot>>
       /\ \A stream \in {SetToSeq(found), Reverse(SetToSeq(found))}, size \in 1 .. 3 :
            Discovered(stream, size) = MapPrBotEvents(found)
       /\ \A r \in bots, k \in Kinds :
            Cardinality({d \in MapPrBotEvents(found) :
                           d.bot = r.bot /\ d.week = r.week /\ d.type = TypeOf[k]}) <= r.n[k]
       /\ \A d \in MapPrBotEvents(found) : \E r \in bots : r.bot = d.bot /\ r.week = d.week

\* An alert is sent for accounts that are not listed or ignored, whose app GitHub has, and
\* which reviewed (but for --marketplace-only); nothing is skipped because a lookup failed.
\* An account with many events, or of an app on the marketplace with one review, is alerted
\* whatever the other strategy finds, unless a lookup about it failed.
AlertsAreRight ==
  \A source \in Sources :
    LET results == Results(source, 0, LastDay)
        new == NewBots(results)
        failed(l) == \E stage \in {"resolve", "verify"} : <<stage, l[1]>> \in archive.errors
        wanted == {l \in AccountsOf \ (BOT_LOGINS \cup Ignored) :
                     l[1] \in archive.apps /\ ~failed(l)}
    IN /\ \A l \in new : l \notin BOT_LOGINS \cup Ignored /\ l[1] \in archive.apps
       /\ source # "marketplace only" => \A l \in new : EventsBy(l, 0, LastDay) > 0
       /\ \A l \in SkippedBots(results) : l[1] \notin archive.apps
       /\ \A l \in Unlisted(results) \ (new \cup SkippedBots(results)) : failed(l)
       /\ source # "marketplace only" => BotReviewers(0, LastDay) \cap wanted \subseteq new
       /\ source # "bigquery only" =>
            {l \in ActiveOf(wanted, 0, LastDay) : l[1] \in archive.slugs} \subseteq new
       /\ source # "both" =>
            ActiveOf({l \in new : ~failed(l)}, 0, LastDay)
              \subseteq NewBots(Results("both", 0, LastDay))
=============================================================================
