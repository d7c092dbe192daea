---- MODULE Enrichment ----
(***************************************************************************)
(* The enrichment workers of the pipeline (pipeline/src/enrichment).       *)
(*                                                                         *)
(* Backfill and sync announce review events (repo, PR, bot) in             *)
(* pr_bot_events.  A worker run walks through a plan of stages; each stage *)
(* selects from ClickHouse what is still missing in its table, asks GitHub *)
(* in GraphQL batches whose size adapts to server errors, falls back to    *)
(* REST one item at a time, and inserts rows: the rows themselves are the  *)
(* only progress marker, so a row that must not be there hides an item     *)
(* from every later run.  Any call may fail, any process may die between   *)
(* two inserts, and the next scheduled run starts over from the tables.    *)
(***************************************************************************)
EXTENDS AdaptiveBatch, FiniteSets, Sequences

CONSTANTS
  TotalWorkers, \* --total-workers, the same for every worker
  Hash,         \* cityHash64 of each repository's name
  Repos,        \* repositories that appear in pr_bot_events
  PRs,          \* pull requests
  Bots,         \* bot ids that appear in pr_bot_events
  KnownBots,    \* the ones BOT_BY_ID still lists
  Combos,       \* the <<PR, bot>> pairs events may announce
  RepoOf,       \* the repository of each PR
  Options,      \* the command-line options each worker may be started with
  Limit,        \* the LIMIT of the selection queries
  Backfilled    \* the events already there at the start

\* What GitHub would answer.
CONSTANTS
  Fate,         \* what becomes of each repository: "ok" for ever, or gone one day
  GonePRs,      \* PRs that were deleted
  NoReactions,  \* PRs whose reactions field comes back missing
  Threads,      \* the bot's review comments on the PR, for each combo
  ManyThreads,  \* PRs with more review threads than one GraphQL page
  FirstPage,    \* the part of Threads on the first page
  Hoorays,      \* the tracked bots' hooray reactions on each PR
  ManyHoorays,  \* PRs with more than 20 hooray reactions
  FirstTwenty,  \* the part of Hoorays among the first 20
  ExactLogin,   \* reactions whose login GraphQL spells as bots.ts does
  Misleading    \* whether GitHub may blank a node, or refuse without headers,
                \* for something that exists (timeouts, secondary limits)
CONSTANT Recovers  \* whether the failures ever end

\* comment_id "0": the row that says "asked, nothing there"
CONSTANT Sentinel

ASSUME WorldAssumption ==
  /\ IsFiniteSet(Repos) /\ IsFiniteSet(PRs) /\ IsFiniteSet(Combos)
  /\ Combos \subseteq PRs \X Bots /\ KnownBots \subseteq Bots
  /\ RepoOf \in [PRs -> Repos]
  /\ TotalWorkers \in Nat \ {0} /\ Hash \in [Repos -> Nat] /\ Limit \in Nat \ {0}
  /\ Backfilled \subseteq Combos
  /\ Fate \in [Repos -> {"ok", "not_found", "forbidden"}]
  /\ Misleading \in BOOLEAN /\ Recovers \in BOOLEAN
ASSUME ThreadsAssumption ==
  /\ DOMAIN Threads = Combos /\ DOMAIN FirstPage = Combos
  /\ \A c \in Combos : /\ FirstPage[c] \subseteq Threads[c]
                       /\ Sentinel \notin Threads[c]
                       /\ c[1] \notin ManyThreads => FirstPage[c] = Threads[c]
ASSUME HooraysAssumption ==
  /\ DOMAIN Hoorays = PRs /\ DOMAIN FirstTwenty = PRs
  /\ \A p \in PRs : /\ FirstTwenty[p] \subseteq Hoorays[p]
                    /\ p \notin ManyHoorays => FirstTwenty[p] = Hoorays[p]

Workers == 0 .. TotalWorkers - 1

Stages == {"combined", "repos", "reactions", "comments", "prs", "refresh"}
Steps == {"repos", "reactions", "comments", "prs"}
OptionRecords == [priority : Steps \cup {"none"}, only : Steps \cup {"none"}]
ASSUME OptionsAssumption == Options \in [Workers -> SUBSET OptionRecords]

Absent == "absent"
Blocked == {"not_found", "forbidden"}
RepoStates == {Absent, "ok"} \cup Blocked
PullStates == {Absent, "found"} \cup Blocked
ScanStates == {Absent, "ok", "unavailable"} \cup Blocked
Rows == (UNION {Threads[c] : c \in Combos}) \cup {Sentinel}

VARIABLES
  access,    \* GitHub: whether each repository can be read
  calm,      \* GitHub and ClickHouse answer without errors from now on
  events,    \* pr_bot_events: the combos announced so far
  repos,     \* repos.fetch_status, Absent for no row
  pulls,     \* pull_requests.state, "found" for open, closed and merged
  comments,  \* pr_comments: the comment ids stored for each combo
  hoorays,   \* pr_bot_reactions: the reactions stored for each PR
  scan,      \* reaction_scan_progress.scan_status, Absent for no row
  plan,      \* the stages a worker has left, its current one first
  pc,        \* where the worker stands in that stage
  todo,      \* the selected items not yet handled
  batch,     \* the items of the batch being handled
  reply,     \* what GraphQL said of them
  rest,      \* the items left for REST
  adaptive   \* the stage's AdaptiveBatch

github == <<access, calm>>
tables == <<events, repos, pulls, comments, hoorays, scan>>
vars == <<access, calm, events, repos, pulls, comments, hoorays, scan,
          plan, pc, todo, batch, reply, rest, adaptive>>

Stage(w) == Head(plan[w])
NoReply == [k \in {} |-> "partial"]
PRsOf(S) == {c[1] : c \in S}

-----------------------------------------------------------------------------
(* GitHub's answers (external) *)

\* Repositories disappear or are made private while the workers run.
Vanish(r) ==
  /\ access[r] # Fate[r] /\ access' = [access EXCEPT ![r] = Fate[r]]
  /\ UNCHANGED <<calm, events, repos, pulls, comments, hoorays, scan,
                 plan, pc, todo, batch, reply, rest, adaptive>>

\* From here on nothing fails (used by the liveness properties only).
Recover ==
  /\ Recovers /\ ~calm /\ calm' = TRUE
  /\ UNCHANGED <<access, events, repos, pulls, comments, hoorays, scan,
                 plan, pc, todo, batch, reply, rest, adaptive>>

TrueAnswer(p) == IF access[RepoOf[p]] # "ok" THEN "no_repo"
                 ELSE IF p \in GonePRs THEN "no_pr"
                 ELSE IF p \in NoReactions THEN "no_reactions" ELSE "found"

PRAnswers(p) ==
  {TrueAnswer(p)} \cup
    (IF Misleading /\ ~calm THEN {"no_repo", "no_pr", "no_reactions"} ELSE {})

\* A repository that is gone comes back as null, and an error tells why.
RepoAnswers(r) ==
  {access[r]} \cup (IF Misleading /\ ~calm THEN {"not_found"} ELSE {})

\* REST tells 404 from 403, and a 403 without rate-limit headers counts as
\* a permanent refusal.
RestAnswers(p) ==
  (IF access[RepoOf[p]] # "ok" THEN {access[RepoOf[p]]}
   ELSE IF p \in GonePRs THEN {"not_found"} ELSE {"found"})
  \cup (IF Misleading /\ ~calm THEN {"forbidden"} ELSE {})

RestRepoAnswers(r) ==
  {access[r]} \cup (IF Misleading /\ ~calm THEN {"forbidden"} ELSE {})

Nodes == {"found", "no_reactions", "no_pr", "no_repo"}
Kinds == Nodes \cup {"scanned", "partial", "ok"} \cup Blocked
Visible == {"found", "no_reactions"}
Missing == {"no_pr", "no_repo", "not_found"}

-----------------------------------------------------------------------------
(* worker.ts: the plan of a run *)

PlanExecution(o) ==
  IF o.only # "none" THEN <<o.only>>
  ELSE CASE o.priority = "none" ->
              <<"combined", "repos", "reactions", "comments", "prs", "refresh">>
         [] o.priority = "repos" ->
              <<"repos", "reactions", "comments", "prs", "refresh">>
         [] o.priority = "reactions" ->
              <<"reactions", "repos", "comments", "prs", "refresh">>
         [] o.priority = "comments" ->
              <<"combined", "comments", "repos", "reactions", "prs", "refresh">>
         [] o.priority = "prs" ->
              <<"combined", "prs", "repos", "reactions", "comments", "refresh">>

\* The scheduler or an operator starts a run.
Start(w) ==
  /\ pc[w] = "idle"
  /\ \E o \in Options[w] : plan' = [plan EXCEPT ![w] = PlanExecution(o)]
  /\ pc' = [pc EXCEPT ![w] = "select"]
  /\ UNCHANGED <<access, calm, events, repos, pulls, comments, hoorays, scan,
                 todo, batch, reply, rest, adaptive>>

\* The run ends before its plan does: killed at the deadline, crashed, out of
\* rate limit (RateLimitExitError), or an error no stage catches.  Only the
\* tables survive.
Stop(w) ==
  /\ pc[w] # "idle" /\ ~calm
  /\ plan' = [plan EXCEPT ![w] = <<>>]
  /\ pc' = [pc EXCEPT ![w] = "idle"]
  /\ todo' = [todo EXCEPT ![w] = {}]
  /\ batch' = [batch EXCEPT ![w] = {}]
  /\ reply' = [reply EXCEPT ![w] = NoReply]
  /\ rest' = [rest EXCEPT ![w] = {}]
  /\ adaptive' = [adaptive EXCEPT ![w] = Fresh]
  /\ UNCHANGED <<access, calm, events, repos, pulls, comments, hoorays, scan>>

\* The while loop of a stage is through: the next stage, or the end of the run.
NextStage(w) ==
  /\ pc[w] = "batch" /\ todo[w] = {}
  /\ plan' = [plan EXCEPT ![w] = Tail(plan[w])]
  /\ pc' = [pc EXCEPT ![w] = IF Len(plan[w]) = 1 THEN "idle" ELSE "select"]
  /\ adaptive' = [adaptive EXCEPT ![w] = Fresh]
  /\ UNCHANGED <<access, calm, events, repos, pulls, comments, hoorays, scan,
                 todo, batch, reply, rest>>

-----------------------------------------------------------------------------
(* The selection queries *)

\* partitionWhereClause: cityHash64(repo_name) % totalWorkers = workerId
Partition(w) == {r \in Repos : TotalWorkers > 1 => Hash[r] % TotalWorkers = w}

\* ORDER BY ... LIMIT n: which n come first is left open.
LimitedTo(S, n) ==
  {W \in SUBSET S : Cardinality(W) = Lesser(n, Cardinality(S))}

\* Mutant of Selectable: the hash filter is left out of the query.
SelectableAnyWorker(w) == {c \in events : repos[RepoOf[c[1]]] \notin Blocked}

\* Mutant of Selectable: the fetch_status filter is left out of the query.
SelectableGone(w) == {c \in events : RepoOf[c[1]] \in Partition(w)}

\* Events of the worker's partition whose repository is not recorded as gone.
Selectable(w) ==
  {c \in events : /\ RepoOf[c[1]] \in Partition(w)
                  /\ repos[RepoOf[c[1]]] \notin Blocked}

PendingCombined(w) ==
  {c \in Selectable(w) : pulls[c[1]] = Absent /\ comments[c] = {}}

\* Mutant of PendingComments: a PR with metadata is taken for a finished one.
PendingCommentsUnpulled(w) ==
  {c \in Selectable(w) : comments[c] = {} /\ pulls[c[1]] = Absent}

PendingComments(w) == {c \in Selectable(w) : comments[c] = {}}

PendingPulls(w) == {p \in PRsOf(Selectable(w)) : pulls[p] = Absent}
PendingScans(w) == {p \in PRsOf(Selectable(w)) : scan[p] = Absent}
PendingRepos(w) ==
  {r \in Partition(w) : repos[r] = Absent /\ \E c \in events : RepoOf[c[1]] = r}

\* enrichReactions limits the number of repositories, not of PRs.
ScanWindows(w) ==
  {{p \in PendingScans(w) : RepoOf[p] \in R} :
     R \in LimitedTo({RepoOf[p] : p \in PendingScans(w)}, Limit)}

\* refreshStaleRepos: any of the repositories once fetched may be stale.
StaleWindows(w) ==
  {R \in SUBSET {r \in Partition(w) : repos[r] = "ok"} : Cardinality(R) <= Limit}

Windows(w) ==
  CASE Stage(w) = "combined" -> LimitedTo(PendingCombined(w), Limit)
    [] Stage(w) = "comments" -> LimitedTo(PendingComments(w), Limit)
    [] Stage(w) = "prs" -> LimitedTo(PendingPulls(w), Limit)
    [] Stage(w) = "reactions" -> ScanWindows(w)
    [] Stage(w) = "repos" -> LimitedTo(PendingRepos(w), Limit)
    [] Stage(w) = "refresh" -> StaleWindows(w)

Select(w) ==
  /\ pc[w] = "select"
  /\ \E W \in Windows(w) : todo' = [todo EXCEPT ![w] = W]
  /\ pc' = [pc EXCEPT ![w] = "batch"]
  /\ UNCHANGED <<access, calm, events, repos, pulls, comments, hoorays, scan,
                 plan, batch, reply, rest, adaptive>>

-----------------------------------------------------------------------------
(* One GraphQL batch *)

\* The next adaptive.size items; the combined stage counts PRs, not combos.
Groups(w) == IF Stage(w) = "combined"
             THEN {{c \in todo[w] : c[1] = p} : p \in PRsOf(todo[w])}
             ELSE {{x} : x \in todo[w]}
Batches(w) == {UNION G : G \in LimitedTo(Groups(w), adaptive[w].size)}

\* What the query asks for: unknown bots are left out of it, and in the
\* combined stage so are PRs with no other bot.
Known(b) == {c \in b : c[2] \in KnownBots}
Asked(w, b) == CASE Stage(w) = "combined" -> PRsOf(Known(b))
                 [] Stage(w) = "comments" -> Known(b)
                 [] OTHER -> b

\* buildCombinedResults: a null repository and a null PR are the same to it.
CombinedResult(node) == IF node \in Visible THEN node ELSE "not_found"

\* parseResults does not ask for reactions, and tells a null repository from a null PR.
CommentResult(node) == IF node \in Visible THEN "found" ELSE node

\* buildResults of the reactions: a null PR (deleted, or an issue) is scanned, without rows.
ReactionResult(node) == IF node = "no_pr" THEN "scanned" ELSE node

\* buildResults of the PRs
PullResult(node) == IF node \in Visible THEN "found" ELSE "not_found"

\* buildResults of the repositories: whatever is null was not found.
RepoResult(node) == IF node = "ok" THEN "ok" ELSE "not_found"

\* The catch block of fetchReposBatch reads FORBIDDEN from the errors of a thrown response.
ThrownRepoResult(node) == IF node = "forbidden" THEN "forbidden" ELSE RepoResult(node)

PRNodes(P) == {n \in [P -> Nodes] : \A p \in P : n[p] \in PRAnswers(p)}
ComboNodes(C) == {n \in [C -> Nodes] : \A c \in C : n[c] \in PRAnswers(c[1])}
RepoNodes(R) == {n \in [R -> {"ok"} \cup Blocked] : \A r \in R : n[r] \in RepoAnswers(r)}

\* What a fetch returns when it does not throw.  Errors beside data are ignored: the
\* missing nodes are null.
CombinedReplies(P) == {[p \in P |-> CombinedResult(n[p])] : n \in PRNodes(P)}
PullReplies(P) == {[p \in P |-> PullResult(n[p])] : n \in PRNodes(P)}

\* An errors-only response says nothing of any PR, and fetchCommentsBatch drops a
\* partial one whole as well.
CommentReplies(C) ==
  {[c \in C |-> CommentResult(n[c])] : n \in ComboNodes(C)}
  \cup (IF calm THEN {} ELSE {[c \in C |-> "partial"]})
ReactionReplies(P) ==
  {[p \in P |-> ReactionResult(n[p])] : n \in PRNodes(P)}
  \cup (IF calm THEN {} ELSE {[p \in P |-> "partial"]})

RepoReplies(R) ==
  {[r \in R |-> RepoResult(n[r])] : n \in RepoNodes(R)}
  \cup {[r \in R |-> ThrownRepoResult(n[r])] : n \in RepoNodes(R)}

Replies(w, b) ==
  CASE Stage(w) = "combined" -> CombinedReplies(Asked(w, b))
    [] Stage(w) = "comments" -> CommentReplies(Asked(w, b))
    [] Stage(w) = "reactions" -> ReactionReplies(Asked(w, b))
    [] Stage(w) = "prs" -> PullReplies(Asked(w, b))
    [] Stage(w) \in {"repos", "refresh"} -> RepoReplies(Asked(w, b))

FirstWrite(s) == CASE s \in {"combined", "prs"} -> "pulls"
                   [] s = "comments" -> "comments"
                   [] s = "reactions" -> "scan"
                   [] OTHER -> "repos"

Fetch(w) ==
  /\ pc[w] = "batch" /\ todo[w] # {}
  /\ \E b \in Batches(w) :
       /\ Stage(w) = "combined" => Asked(w, b) # {}
       /\ batch' = [batch EXCEPT ![w] = b]
       /\ \E f \in Replies(w, b) : reply' = [reply EXCEPT ![w] = f]
  /\ pc' = [pc EXCEPT ![w] = FirstWrite(Stage(w))]
  /\ UNCHANGED <<access, calm, events, repos, pulls, comments, hoorays, scan,
                 plan, todo, rest, adaptive>>

\* enrichCombined: a batch of unknown bots only makes no call.
SkipUnknown(w) ==
  /\ pc[w] = "batch" /\ todo[w] # {} /\ Stage(w) = "combined"
  /\ \E b \in Batches(w) :
       /\ Asked(w, b) = {}
       /\ todo' = [todo EXCEPT ![w] = @ \ b]
  /\ UNCHANGED <<access, calm, events, repos, pulls, comments, hoorays, scan,
                 plan, pc, batch, reply, rest, adaptive>>

\* Mutant of ShrinkAndRetry: retries at the smallest size too.
ShrinkForEver(w) ==
  /\ adaptive' = [adaptive EXCEPT ![w] = OnServerError(@)]
  /\ pc' = [pc EXCEPT ![w] = "batch"]
  /\ batch' = [batch EXCEPT ![w] = {}]
  /\ rest' = [rest EXCEPT ![w] = {}]
  /\ UNCHANGED todo

\* The catch blocks: a server error retries the batch at a smaller size.
ShrinkAndRetry(w) ==
  /\ adaptive[w].size > BatchMin
  /\ adaptive' = [adaptive EXCEPT ![w] = OnServerError(@)]
  /\ pc' = [pc EXCEPT ![w] = "batch"]
  /\ batch' = [batch EXCEPT ![w] = {}]
  /\ rest' = [rest EXCEPT ![w] = {}]
  /\ UNCHANGED todo

\* Any other error, or a server error at the smallest size: combined and
\* reactions skip the batch, the other stages turn to REST.
GiveUp(w, b) ==
  /\ IF Stage(w) \in {"combined", "reactions"}
     THEN /\ pc' = [pc EXCEPT ![w] = "batch"]
          /\ todo' = [todo EXCEPT ![w] = @ \ b]
          /\ batch' = [batch EXCEPT ![w] = {}]
          /\ rest' = [rest EXCEPT ![w] = {}]
     ELSE /\ pc' = [pc EXCEPT ![w] = "rest"]
          /\ batch' = [batch EXCEPT ![w] = b]
          /\ rest' = [rest EXCEPT ![w] = b]
          /\ UNCHANGED todo
  /\ UNCHANGED adaptive

Raised(w, b) ==
  /\ ~calm
  /\ ShrinkAndRetry(w) \/ GiveUp(w, b)
  /\ reply' = [reply EXCEPT ![w] = NoReply]
  /\ UNCHANGED <<access, calm, events, plan>>

FetchFails(w) ==
  /\ pc[w] = "batch" /\ todo[w] # {}
  /\ \E b \in Batches(w) : Asked(w, b) # {} /\ Raised(w, b)
  /\ UNCHANGED <<repos, pulls, comments, hoorays, scan>>

-----------------------------------------------------------------------------
(* The rows a reply turns into, and their bulk inserts *)

\* Bots of the batch whose combo the reply speaks of.
Answered(w) == IF Stage(w) = "combined" THEN Known(batch[w]) ELSE DOMAIN reply[w]
KindOf(w, c) == IF Stage(w) = "combined" THEN reply[w][c[1]] ELSE reply[w][c]

RowsOrSentinel(S) == IF S = {} THEN {Sentinel} ELSE S

\* Mutant of CommentRows: hasMore is ignored.
CommentRowsFirstPage(w, c) ==
  CASE KindOf(w, c) \in Missing -> {Sentinel}
    [] KindOf(w, c) \in Visible -> RowsOrSentinel(FirstPage[c])
    [] OTHER -> {}

\* Mutant of CommentRows: a partial response, or a full first page, is taken
\* for an empty answer.
CommentRowsAlways(w, c) ==
  IF KindOf(w, c) \in Visible /\ c[1] \notin ManyThreads
  THEN RowsOrSentinel(FirstPage[c]) ELSE {Sentinel}

\* More than one page of threads: nothing now, REST will read them all.
CommentRows(w, c) ==
  CASE KindOf(w, c) \in Missing -> {Sentinel}
    [] KindOf(w, c) \in Visible /\ c[1] \notin ManyThreads -> RowsOrSentinel(FirstPage[c])
    [] OTHER -> {}

PullRow(kind) == IF kind \in Visible THEN "found" ELSE "not_found"

HoorayRows(w, p) ==
  IF reply[w][p] # "found" THEN {}
  ELSE IF Stage(w) = "combined" THEN FirstTwenty[p]
  ELSE FirstTwenty[p] \cap ExactLogin

\* Absent: no row.  The combined stage leaves a PR with more than 20 hoorays
\* unscanned; the reactions stage takes a missing PR for a scanned one.
ScanRow(w, p) ==
  LET kind == reply[w][p] IN
  IF Stage(w) = "combined"
  THEN CASE kind \in Missing -> "not_found"
         [] kind = "no_reactions" -> "unavailable"
         [] kind = "found" /\ p \in ManyHoorays -> Absent
         [] OTHER -> "ok"
  ELSE CASE kind = "no_repo" -> "not_found"
         [] kind = "no_reactions" -> "unavailable"
         [] kind = "partial" -> Absent
         [] OTHER -> "ok"

PutPulls(w) ==
  /\ pulls' = [p \in PRs |-> IF p \in DOMAIN reply[w] THEN PullRow(reply[w][p])
                             ELSE pulls[p]]
  /\ UNCHANGED <<repos, comments, hoorays, scan>>
PutComments(w) ==
  /\ comments' = [c \in Combos |-> IF c \in Answered(w)
                                   THEN comments[c] \cup CommentRows(w, c)
                                   ELSE comments[c]]
  /\ UNCHANGED <<repos, pulls, hoorays, scan>>
PutHoorays(w) ==
  /\ hoorays' = [p \in PRs |-> IF p \in DOMAIN reply[w] THEN hoorays[p] \cup HoorayRows(w, p)
                               ELSE hoorays[p]]
  /\ UNCHANGED <<repos, pulls, comments, scan>>
PutScan(w) ==
  /\ scan' = [p \in PRs |-> IF p \in DOMAIN reply[w] /\ ScanRow(w, p) # Absent
                            THEN ScanRow(w, p) ELSE scan[p]]
  /\ UNCHANGED <<repos, pulls, comments, hoorays>>
PutRepo(r, s) ==
  /\ repos' = [repos EXCEPT ![r] = s]
  /\ UNCHANGED <<pulls, comments, hoorays, scan>>
PutNothing == UNCHANGED <<repos, pulls, comments, hoorays, scan>>

Continue(w, next) ==
  /\ pc' = [pc EXCEPT ![w] = next]
  /\ UNCHANGED <<access, calm, events, plan, todo, batch, reply, rest, adaptive>>

\* adaptive.onSuccess(); batchHandled = true
Handled(w) ==
  /\ pc' = [pc EXCEPT ![w] = "batch"]
  /\ todo' = [todo EXCEPT ![w] = @ \ batch[w]]
  /\ batch' = [batch EXCEPT ![w] = {}]
  /\ reply' = [reply EXCEPT ![w] = NoReply]
  /\ adaptive' = [adaptive EXCEPT ![w] = OnSuccess(@)]
  /\ rest' = [rest EXCEPT ![w] = {}]
  /\ UNCHANGED <<access, calm, events, plan>>

InsertPulls(w) ==
  /\ pc[w] = "pulls" /\ PutPulls(w)
  /\ IF Stage(w) = "combined" THEN Continue(w, "comments") ELSE Handled(w)

\* Combos with more threads than a page, left to REST once the insert is done.
Deferred(w) ==
  {c \in DOMAIN reply[w] : reply[w][c] \in Visible /\ c[1] \in ManyThreads}

\* Mutant of InsertComments: the combined stage goes on with the scan rows.
InsertCommentsThenScan(w) ==
  /\ pc[w] = "comments" /\ PutComments(w)
  /\ IF Stage(w) = "combined" THEN Continue(w, "scan")
     ELSE IF Deferred(w) = {} THEN Handled(w)
     ELSE /\ pc' = [pc EXCEPT ![w] = "more"]
          /\ rest' = [rest EXCEPT ![w] = Deferred(w)]
          /\ UNCHANGED <<access, calm, events, plan, todo, batch, reply, adaptive>>

InsertComments(w) ==
  /\ pc[w] = "comments" /\ PutComments(w)
  /\ IF Stage(w) = "combined" THEN Continue(w, "hoorays")
     ELSE IF Deferred(w) = {} THEN Handled(w)
     ELSE /\ pc' = [pc EXCEPT ![w] = "more"]
          /\ rest' = [rest EXCEPT ![w] = Deferred(w)]
          /\ UNCHANGED <<access, calm, events, plan, todo, batch, reply, adaptive>>

InsertHoorays(w) ==
  /\ pc[w] = "hoorays" /\ PutHoorays(w)
  /\ IF Stage(w) = "combined" THEN Continue(w, "scan") ELSE Handled(w)

InsertScan(w) ==
  /\ pc[w] = "scan" /\ PutScan(w)
  /\ IF Stage(w) = "reactions" THEN Continue(w, "hoorays") ELSE Handled(w)

\* An insert without rows returns early.
HasRows(w) ==
  CASE pc[w] = "comments" -> \E c \in Answered(w) : CommentRows(w, c) # {}
    [] pc[w] = "hoorays" -> \E p \in DOMAIN reply[w] : HoorayRows(w, p) # {}
    [] pc[w] = "scan" -> \E p \in DOMAIN reply[w] : ScanRow(w, p) # Absent
    [] OTHER -> TRUE

Put(w) == CASE pc[w] = "pulls" -> PutPulls(w)
            [] pc[w] = "comments" -> PutComments(w)
            [] pc[w] = "hoorays" -> PutHoorays(w)
            [] pc[w] = "scan" -> PutScan(w)

\* An insert that raises may have been applied all the same.
InsertFails(w) ==
  /\ pc[w] \in {"pulls", "comments", "hoorays", "scan"} /\ HasRows(w)
  /\ Put(w) \/ PutNothing
  /\ Raised(w, batch[w])

\* repos and refresh insert the results one by one.
InsertRepo(w) ==
  /\ pc[w] = "repos"
  /\ \E r \in DOMAIN reply[w] :
       /\ PutRepo(r, reply[w][r])
       /\ reply' = [reply EXCEPT ![w] = [q \in DOMAIN @ \ {r} |-> @[q]]]
  /\ UNCHANGED <<access, calm, events, plan, pc, todo, batch, rest, adaptive>>

InsertRepoFails(w) ==
  /\ pc[w] = "repos" /\ DOMAIN reply[w] # {}
  /\ (\E r \in DOMAIN reply[w] : PutRepo(r, reply[w][r])) \/ PutNothing
  /\ Raised(w, batch[w])

ReposDone(w) ==
  /\ pc[w] = "repos" /\ DOMAIN reply[w] = {} /\ PutNothing /\ Handled(w)

-----------------------------------------------------------------------------
(* The REST fallback, one item at a time: for a whole batch ("rest"), or    *)
(* inside the comments batch for the PRs with many threads ("more")         *)

RestRows(c) ==
  (IF "found" \in RestAnswers(c[1]) THEN {RowsOrSentinel(Threads[c])} ELSE {})
  \cup (IF RestAnswers(c[1]) \cap Blocked # {} THEN {{Sentinel}} ELSE {})

RestNext(w, x) ==
  /\ rest' = [rest EXCEPT ![w] = @ \ {x}]
  /\ UNCHANGED <<access, calm, events, plan, pc, todo, batch, reply, adaptive>>

\* fetchComboViaRest: all pages first, then one insert.
RestComments(w) ==
  /\ pc[w] \in {"rest", "more"} /\ Stage(w) = "comments"
  /\ \E c \in Known(rest[w]) :
       /\ \E S \in RestRows(c) : comments' = [comments EXCEPT ![c] = @ \cup S]
       /\ RestNext(w, c)
  /\ UNCHANGED <<repos, pulls, hoorays, scan>>

RestPull(w) ==
  /\ pc[w] = "rest" /\ Stage(w) = "prs"
  /\ \E p \in rest[w] :
       /\ \E s \in RestAnswers(p) : pulls' = [pulls EXCEPT ![p] = s]
       /\ RestNext(w, p)
  /\ UNCHANGED <<repos, comments, hoorays, scan>>

RestRepo(w) ==
  /\ pc[w] = "rest" /\ Stage(w) \in {"repos", "refresh"}
  /\ \E r \in rest[w] :
       /\ \E s \in RestRepoAnswers(r) : PutRepo(r, s)
       /\ RestNext(w, r)

\* No row: rate limited, an error other than 404 and 403, an insert that
\* failed.  A bot that is no longer known is never asked about.
RestSkip(w) ==
  /\ pc[w] \in {"rest", "more"}
  /\ \E x \in rest[w] :
       /\ calm => Stage(w) = "comments" /\ x[2] \notin KnownBots
       /\ RestNext(w, x)
  /\ PutNothing

\* The insert of a sentinel sits in a catch block: when it fails inside the
\* comments batch the error reaches that batch's own handler.  (In the plain
\* fallback it ends the run: RestComments or nothing, then Stop.)
RestThrows(w) ==
  /\ pc[w] = "more"
  /\ \E c \in rest[w] :
       /\ {Sentinel} \in RestRows(c)
       /\ \/ PutNothing
          \/ /\ comments' = [comments EXCEPT ![c] = @ \cup {Sentinel}]
             /\ UNCHANGED <<repos, pulls, hoorays, scan>>
  /\ Raised(w, batch[w])

MoreDone(w) == pc[w] = "more" /\ rest[w] = {} /\ PutNothing /\ Handled(w)

RestDone(w) ==
  /\ pc[w] = "rest" /\ rest[w] = {}
  /\ pc' = [pc EXCEPT ![w] = "batch"]
  /\ todo' = [todo EXCEPT ![w] = @ \ batch[w]]
  /\ batch' = [batch EXCEPT ![w] = {}]
  /\ UNCHANGED <<access, calm, events, repos, pulls, comments, hoorays, scan,
                 plan, reply, rest, adaptive>>

-----------------------------------------------------------------------------

\* Backfill or sync inserts a new event row (external to enrichment).
Discover(c) ==
  /\ c \notin events /\ events' = events \cup {c}
  /\ UNCHANGED <<access, calm, repos, pulls, comments, hoorays, scan,
                 plan, pc, todo, batch, reply, rest, adaptive>>

Init ==
  /\ access = [r \in Repos |-> "ok"] /\ calm = FALSE
  /\ events = Backfilled
  /\ repos = [r \in Repos |-> Absent]
  /\ pulls = [p \in PRs |-> Absent]
  /\ comments = [c \in Combos |-> {}]
  /\ hoorays = [p \in PRs |-> {}]
  /\ scan = [p \in PRs |-> Absent]
  /\ plan = [w \in Workers |-> <<>>]
  /\ pc = [w \in Workers |-> "idle"]
  /\ todo = [w \in Workers |-> {}]
  /\ batch = [w \in Workers |-> {}]
  /\ reply = [w \in Workers |-> NoReply]
  /\ rest = [w \in Workers |-> {}]
  /\ adaptive = [w \in Workers |-> Fresh]

\* What a running worker does next, failures of its calls included.
Work(w) ==
  \/ NextStage(w) \/ Select(w) \/ Fetch(w) \/ FetchFails(w) \/ SkipUnknown(w)
  \/ InsertPulls(w) \/ InsertComments(w) \/ InsertHoorays(w) \/ InsertScan(w)
  \/ InsertFails(w) \/ InsertRepo(w) \/ InsertRepoFails(w) \/ ReposDone(w)
  \/ RestComments(w) \/ RestPull(w) \/ RestRepo(w) \/ RestSkip(w)
  \/ RestThrows(w) \/ MoreDone(w) \/ RestDone(w)

Next ==
  \/ \E w \in Workers : Start(w) \/ Work(w) \/ Stop(w)
  \/ \E c \in Combos : Discover(c)
  \/ \E r \in Repos : Vanish(r)
  \/ Recover

Spec == Init /\ [][Next]_vars

\* A running process goes on, and the schedule starts it again every hour.
FairSpec == /\ Spec
            /\ \A w \in Workers : WF_vars(Work(w)) /\ WF_vars(Start(w))

-----------------------------------------------------------------------------
(* Properties *)

Stations == {"idle", "select", "batch", "pulls", "comments", "hoorays", "scan",
             "repos", "rest", "more"}

\* What a stage works on.
Items(s) == CASE s \in {"combined", "comments"} -> Combos
              [] s \in {"prs", "reactions"} -> PRs
              [] OTHER -> Repos
AllItems == Combos \cup PRs \cup Repos
Keys(s) == IF s = "combined" THEN PRs ELSE Items(s)

TablesOK ==
  /\ access \in [Repos -> {"ok"} \cup Blocked] /\ calm \in BOOLEAN
  /\ events \subseteq Combos
  /\ repos \in [Repos -> RepoStates] /\ pulls \in [PRs -> PullStates]
  /\ comments \in [Combos -> SUBSET Rows]
  /\ hoorays \in [PRs -> SUBSET UNION {Hoorays[p] : p \in PRs}]
  /\ scan \in [PRs -> ScanStates]

RunsOK ==
  /\ plan \in [Workers -> Seq(Stages)] /\ pc \in [Workers -> Stations]
  /\ adaptive \in [Workers -> AdaptiveBatches]
  /\ todo \in [Workers -> SUBSET AllItems] /\ batch \in [Workers -> SUBSET AllItems]
  /\ rest \in [Workers -> SUBSET AllItems] /\ DOMAIN reply = Workers

\* A worker's lists, at each station of its stage.
ListsOK(w) ==
  /\ pc[w] \in {"idle", "select"} => todo[w] = {}
  /\ pc[w] \in {"idle", "select", "batch"} => batch[w] = {} /\ rest[w] = {}
  /\ pc[w] \in {"idle", "select", "batch", "rest"} => reply[w] = NoReply
  /\ pc[w] # "idle" =>
       /\ plan[w] # <<>> /\ todo[w] \subseteq Items(Stage(w))
       /\ batch[w] \subseteq todo[w] /\ rest[w] \subseteq batch[w]
       /\ \E K \in SUBSET Keys(Stage(w)) : reply[w] \in [K -> Kinds]
  /\ pc[w] = "repos" =>
       /\ Stage(w) \in {"repos", "refresh"}
       /\ \A r \in DOMAIN reply[w] : reply[w][r] \in {"ok"} \cup Blocked
  /\ pc[w] = "comments" => \/ Stage(w) = "combined"
                           \/ Stage(w) = "comments" /\ DOMAIN reply[w] \subseteq batch[w]

\* The tables hold the values the code writes, and a worker's lists hold items
\* of the kind its current stage works on (worker.ts and the stage modules).
TypeOK == TablesOK /\ RunsOK /\ \A w \in Workers : ListsOK(w)

\* The comment rows of a combo are a sentinel, or all of its comments, never a
\* first page only: a truncated set would satisfy the LEFT JOIN of enrichComments
\* and hide the rest for good (combined-enrichment.ts and comments.ts, hasMore).
NoPartialComments ==
  \A c \in Combos : comments[c] \ {Sentinel} \in {{}, Threads[c]}

\* The repositories a running worker holds items of.
HeldRepos(w) ==
  IF pc[w] = "idle" THEN {}
  ELSE CASE Stage(w) \in {"combined", "comments"} -> {RepoOf[c[1]] : c \in todo[w]}
         [] Stage(w) \in {"prs", "reactions"} -> {RepoOf[p] : p \in todo[w]}
         [] OTHER -> todo[w]

\* Two workers never work on the same repository (partitioner.ts).
DisjointWork ==
  \A v, w \in Workers : v # w => HeldRepos(v) \cap HeldRepos(w) = {}

\* No permanent record of absence without cause: when GitHub's answers are
\* truthful, a sentinel, a not_found or a forbidden row stands only for what is
\* gone or empty, whatever failed and was retried on the way.
AbsenceIsTrue ==
  ~Misleading =>
    /\ \A r \in Repos : repos[r] \in Blocked => access[r] # "ok"
    /\ \A p \in PRs : pulls[p] \in Blocked => p \in GonePRs \/ access[RepoOf[p]] # "ok"
    /\ \A c \in Combos : Sentinel \in comments[c] =>
         Threads[c] = {} \/ c[1] \in GonePRs \/ access[RepoOf[c[1]]] # "ok"

\* The combined stage stores a PR's reactions before it declares the PR scanned,
\* so a run that stops in between leaves the PR to the reactions stage.
CombinedScanAfterReactions ==
  [][\A w \in Workers, p \in PRs :
       (/\ pc[w] = "scan" /\ Stage(w) = "combined" /\ pc'[w] # "scan"
        /\ p \in DOMAIN reply[w] /\ scan[p] = Absent /\ scan'[p] = "ok")
       => FirstTwenty[p] \subseteq hoorays[p]]_vars

\* The worker's tables, read as the ledger of answers they amount to.
AnswerOf(c) == IF comments[c] = {} THEN "pending"
               ELSE IF comments[c] \ {Sentinel} = {} THEN "empty" ELSE "full"

Ledger == INSTANCE EnrichmentLedger WITH
  known <- events,
  blocked <- {r \in Repos : repos[r] \in Blocked},
  pulled <- {p \in PRs : pulls[p] # Absent},
  scanned <- {p \in PRs : scan[p] # Absent},
  answer <- [c \in Combos |-> AnswerOf(c)]

\* Enrichment keeps the ledger: answers arrive whole and are final, and a
\* repository recorded as gone is never written about again, whichever worker,
\* retry or fallback does the writing.
KeepsLedger == Ledger!Spec

\* Work that has been announced and can be done.
Doable(c) == c \in events /\ c[2] \in KnownBots /\ repos[RepoOf[c[1]]] \notin Blocked
Done(c) == /\ comments[c] # {} /\ pulls[c[1]] # Absent
           /\ scan[c[1]] # Absent /\ repos[RepoOf[c[1]]] # Absent

\* Once GitHub and ClickHouse stop failing, everything announced is enriched in
\* the end: no leftover of a failed batch, a half-written one or a killed run is
\* forgotten by the stages' selection queries.
LeftoversGetDone == \A c \in Combos : (calm /\ Doable(c)) ~> (Done(c) \/ ~Doable(c))

\* A run ends even if calls keep failing: a retry is always of a smaller batch,
\* and at the smallest size the batch is skipped or goes to REST.
RunsEnd == \A w \in Workers : pc[w] # "idle" ~> pc[w] = "idle"

\* combined-enrichment.ts says of a PR with more than 20 hoorays that the
\* "dedicated reaction stage will do a full scan with pagination": a PR whose
\* scan is recorded as ok has none of its reactions stored, or all of them.
ScansAreComplete ==
  \A p \in PRs : scan[p] = "ok" => hoorays[p] \in {{}, Hoorays[p]}

\* pipeline/README.md says of enrichment that "all steps are idempotent - safe to
\* interrupt and resume": a PR recorded as scanned, and no longer in a worker's
\* hands, has its bot reactions stored.
ScannedIsStored ==
  \A p \in PRs :
    (scan[p] = "ok" /\ \A w \in Workers : pc[w] = "idle") =>
      FirstTwenty[p] = {} \/ hoorays[p] # {}

====
