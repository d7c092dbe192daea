----------------------------- MODULE MCReports -----------------------------
(* Contents of the tables the pages are computed from: bot c is a second bot of the *)
(* product of a, "x" a bot that is not listed any more, as b may be; repositories   *)
(* fetched again have other stars and another language in their second row.         *)
EXTENDS Discovery, Health

MCRepositories == {<<1, 1>>, <<1, 2>>, <<2, 1>>, <<3, 1>>}
MCPullRequests == {<<<<1, 1>>, 7>>, <<<<1, 2>>, 7>>, <<<<2, 1>>, 7>>, <<<<2, 1>>, 8>>, <<<<3, 1>>, 7>>}
MCAccounts == {"a", "b", "c"}
MCProduct == [x \in MCAccounts |-> IF x = "b" THEN "Q" ELSE "P"]
MCCopies == 1 .. 2
MCStars == [row \in MCRepositories \X MCCopies |-> IF row[1] = <<2, 1>> THEN row[2] ELSE 1]
MCLanguage ==
  [row \in MCRepositories \X MCCopies |-> IF row[1] = <<3, 1>> \/ row[2] = 2 THEN "ts" ELSE "go"]

MCDatabases ==
  LET events == {e \in MCPullRequests \X MCAccounts :
                   e[2] = "a" \/ (e[2] = "b" /\ e[1] \in {<<<<1, 1>>, 7>>, <<<<2, 1>>, 8>>})}
      reactions == {<<<<<<1, 1>>, 7>>, "b">>, <<<<<<2, 1>>, 8>>, "a">>, <<<<<<2, 1>>, 8>>, "c">>,
                    <<<<<<3, 1>>, 7>>, "b">>}
      once == MCRepositories \X {1}
      again == once \cup {<<<<1, 1>>, 2>>, <<<<2, 1>>, 2>>}  \* two of them fetched again
      content(E, ok, listed, R, late) ==
        [events |-> E, ok |-> ok, listed |-> listed, reactions |-> R, seen |-> E \ late]
      few == {"a", "c"}
      tables == {<<once, MCAccounts>>, <<once, few>>, <<once, {}>>, <<again, MCAccounts>>,
                 <<again, few>>, <<once \ {<<<<1, 2>>, 1>>}, MCAccounts>>,
                 <<once \ {<<<<2, 1>>, 1>>}, few>>}
  IN {content(E, t[1], t[2], R, {}) : E \in SUBSET events, t \in tables,
                                      R \in {{}, reactions, {<<<<<<2, 1>>, 8>>, "b">>}}}
     \cup {content(E, once, few, reactions, {<<<<<<2, 1>>, 8>>, "a">>}) : E \in SUBSET events}

NoDatabase == [events |-> {}, ok |-> {}, listed |-> {}, reactions |-> {}, seen |-> {}]

MCWeekNumbers == 0 .. 7

Row(bot, week, copy, reviews, comments, repos) ==
  [bot |-> bot, week |-> week, copy |-> copy, repos |-> repos, orgs |-> 1,
   n |-> [reviews |-> reviews, comments |-> comments, pr_comments |-> 1]]

\* The week that is not over is 6; a has two versions of a row.
MCHistories ==
  LET activity == {Row("a", 1, 1, 2, 1, 1), Row("a", 3, 1, 3, 4, 2), Row("a", 5, 1, 5, 2, 3),
                   Row("a", 5, 2, 6, 2, 3), Row("b", 4, 1, 9, 0, 4), Row("c", 2, 1, 1, 7, 1),
                   Row("c", 6, 1, 30, 8, 2), Row("x", 5, 1, 11, 5, 5)}
      reactions == {[bot |-> "a", week |-> 5, n |-> 2], [bot |-> "b", week |-> 6, n |-> 40]}
      stat(bot, week, prs) == [bot |-> bot, week |-> week, up |-> 2, down |-> 1, comments |-> 3,
                               reacted |-> 2, prs |-> prs]
      stats == {stat("a", 3, {<<<<1, 1>>, 7>>}), stat("a", 5, {<<<<1, 1>>, 7>>, <<<<1, 2>>, 7>>}),
                stat("c", 5, {<<<<1, 1>>, 7>>}), stat("b", 6, {<<<<2, 1>>, 8>>})}
      event(pr, bot, week) == [pr |-> pr, bot |-> bot, week |-> week]
      events == {event(<<<<1, 1>>, 7>>, "a", 3), event(<<<<1, 1>>, 7>>, "a", 5),
                 event(<<<<2, 1>>, 7>>, "a", 4), event(<<<<1, 1>>, 7>>, "c", 2),
                 event(<<<<2, 1>>, 8>>, "b", 6), event(<<<<2, 1>>, 7>>, "b", 2)}
      human == {[week |-> w, n |-> [reviews |-> 50, comments |-> 9, pr_comments |-> 0]] : w \in 2 .. 6}
      pull(pr, copy, state) == [pr |-> pr, copy |-> copy, state |-> state]
      pulls == {pull(<<<<1, 1>>, 7>>, 1, "merged"), pull(<<<<2, 1>>, 7>>, 1, "closed"),
                pull(<<<<2, 1>>, 8>>, 1, "not_found")}
      again == pulls \cup {pull(<<<<2, 1>>, 7>>, 2, "merged")}
      joined(E) == {[product |-> MCProduct[e.bot], pr |-> e.pr,
                     state |-> (CHOOSE row \in pulls : row.pr = e.pr).state] : e \in E}
      once == MCRepositories \X {1}
      with(A, R, S, E, P, V, repos) ==
        [now |-> 6, activity |-> A, reactions |-> R, human |-> human, stats |-> S,
         events |-> E, pulls |-> P, view |-> V, repos |-> repos]
  IN {with(A, R, {}, {}, {}, {}, {}) : A \in SUBSET activity, R \in {{}, reactions}}
     \cup {with({}, {}, S, {}, {}, {}, {}) : S \in SUBSET stats}
     \cup {with({}, reactions, {}, E, t[1], joined({e \in E : e.week < t[2]}), t[3]) :
             E \in SUBSET events,
             t \in {<<pulls, 9, once>>, <<pulls, 4, once>>,
                    <<again, 9, once \cup {<<<<2, 1>>, 2>>}>>}}

NoHistory == [now |-> 6, activity |-> {}, reactions |-> {}, human |-> {}, stats |-> {},
              events |-> {}, pulls |-> {}, view |-> {}, repos |-> {}]

MCBotOf == <<"a", TRUE>> :> "a" @@ <<"assistant", FALSE>> :> "a" @@ <<"b", TRUE>> :> "b"
MCIgnored == {<<"i", TRUE>>}

\* Events of listed logins, of "n" under both of its names, of an ignored app and of a person.
MCArchives ==
  LET event(id, login, type, onPR, pr, day) ==
        [id |-> id, login |-> login, type |-> type, onPR |-> onPR, repo |-> <<1, day % 2>>,
         pr |-> pr, day |-> day]
      review == "PullRequestReviewEvent"
      comment == "PullRequestReviewCommentEvent"
      talk == "IssueCommentEvent"
      events == {event(1, <<"a", TRUE>>, review, TRUE, 7, 3),
                 event(2, <<"assistant", FALSE>>, review, TRUE, 7, 5),
                 event(3, <<"assistant", FALSE>>, talk, FALSE, 7, 6),
                 event(4, <<"b", TRUE>>, comment, TRUE, 0, 8),
                 event(5, <<"h", FALSE>>, talk, TRUE, 8, 9),
                 event(6, <<"n", TRUE>>, review, TRUE, 7, 1),
                 event(7, <<"n", TRUE>>, talk, TRUE, 7, 8),
                 event(8, <<"n", FALSE>>, comment, TRUE, 7, 8),
                 event(9, <<"i", TRUE>>, review, TRUE, 7, 8)}
      more == {event(10, <<"n", TRUE>>, talk, TRUE, 9, 8), event(11, <<"b", TRUE>>, talk, TRUE, 9, 8),
               event(12, <<"i", TRUE>>, talk, TRUE, 9, 8), event(13, <<"i", TRUE>>, talk, TRUE, 9, 8)}
      with(E, slugs, apps, errors) ==
        [events |-> E, slugs |-> slugs, apps |-> apps, errors |-> errors,
         owners |-> "m" :> <<"o">>, mentions |-> "m" :> <<"a", "n">>]
  IN {with(E, {"n"}, {"a", "n", "i"}, {}) : E \in SUBSET events}
     \cup {with(E, slugs, apps, errors) :
             E \in {{}, events, events \cup more, (events \cup more) \ {event(8, <<"n", FALSE>>, comment, TRUE, 7, 8)}},
             slugs \in {{"n"}, {"m"}, {"i", "n"}}, apps \in SUBSET {"a", "n", "i"},
             errors \in {{}, {<<"verify", "n">>}, {<<"resolve", "n">>}, {<<"resolve", "a">>}}}

NoArchive == [events |-> {}, slugs |-> {}, apps |-> {}, errors |-> {},
              owners |-> <<>>, mentions |-> <<>>]

MCNoDate == -32
MCEpoch == -1

\* Weeks stored up to some day, with gaps, and one bot in every other one of them.
MCIntakes ==
  LET rows(weeks) == {[bot |-> b, week |-> w, n |-> 1] :
                        <<b, w>> \in {x \in {"a", "b"} \X weeks : x[1] = "a" \/ x[2] % 14 = 0}}
      card(total, success, unreachable) ==
        [total |-> total, success |-> success, unreachable |-> unreachable]
      with(today, weeks, chunks, work) ==
        [today |-> today, activity |-> rows(weeks), human |-> weeks, chunks |-> chunks,
         work |-> "repos" :> work]
      mondays == {0, 7, 14, 21, 28}
  IN {with(today, weeks, {}, card(1, 0, 0)) : today \in 28 .. 45, weeks \in SUBSET mondays}
     \cup {with(28, mondays, chunks, card(total, success, unreachable)) :
             chunks \in SUBSET {[last |-> 27, at |-> 26], [last |-> 30, at |-> 28],
                               [last |-> 27, at |-> 30]},
             total \in 0 .. 2, success \in 0 .. 2, unreachable \in 0 .. 1}
     \cup {with(28, {}, {}, card(total, 0, 0)) : total \in 0 .. 1}

NoIntake == [today |-> 0, activity |-> {}, human |-> {}, chunks |-> {},
             work |-> "repos" :> [total |-> 0, success |-> 0, unreachable |-> 0]]

VARIABLE topic  \* what is looked at

Nothing == db = NoDatabase /\ weekly = NoHistory /\ archive = NoArchive /\ intake = NoIntake
ReportsInit == Nothing /\ topic \in {"listings", "trends", "discovery", "health"}

\* Look at one content of one module's tables.
ReportsNext ==
  /\ Nothing /\ UNCHANGED topic
  /\ \/ topic = "listings" /\ db' \in Databases /\ UNCHANGED <<weekly, archive, intake>>
     \/ topic = "trends" /\ weekly' \in Histories /\ UNCHANGED <<db, archive, intake>>
     \/ topic = "discovery" /\ archive' \in Archives /\ UNCHANGED <<db, weekly, intake>>
     \/ topic = "health" /\ intake' \in Intakes /\ UNCHANGED <<db, weekly, archive>>

ReportsSpec == ReportsInit /\ [][ReportsNext]_<<db, weekly, archive, intake, topic>>
=============================================================================
