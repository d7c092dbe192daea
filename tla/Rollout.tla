------------------------------ MODULE Rollout ------------------------------
(***************************************************************************)
(* A deploy (.github/workflows/deploy.yml): a new revision of the app, its *)
(* warm-up (pipeline/src/warmup.ts), the switch of the traffic, the images *)
(* of the jobs, and sync-bots, which writes the registry of bots.ts to the *)
(* tables products, bots and bot_logins.  Deploys come one after the other,*)
(* but each may stop anywhere and undoes nothing; a sync-bots it no longer *)
(* waits for goes on, beside scheduled jobs and an operator's sync-bots.   *)
(***************************************************************************)
EXTENDS Integers, Sequences, FiniteSets

CONSTANTS
  Releases, First, \* commits that may be deployed, in any order, and the one that is
  Registry,        \* of a release: its bots, each with its product
  LoginsOf,        \* of a release: its pairs (bot, login)
  SchemaOf,        \* of a release: EXPECTED_SCHEMA_VERSION
  Pages,           \* how many pages are warmed up
  PageRetries,     \* --retries
  TaskRetries,     \* maxRetries of a Cloud Run job
  Jobs,            \* the jobs whose images are updated, in that order, "sync" among them
  MaxDeploys       \* bound: deploys, and syncs of an operator

None == "none"
ProductsOf(r) == {Registry[r][b] : b \in DOMAIN Registry[r]}
ListedBots == UNION {DOMAIN Registry[r] : r \in Releases}

ASSUME RolloutAssumption ==
  /\ First \in Releases /\ None \notin Releases
  /\ \A r \in Releases : None \notin ProductsOf(r)
  /\ \A r \in Releases : SchemaOf[r] \in Nat /\ \A l \in LoginsOf[r] : l[1] \in DOMAIN Registry[r]
  /\ Pages \in Nat \ {0} /\ PageRetries \in Nat /\ TaskRetries \in Nat
  /\ Jobs \in Seq(STRING) /\ \E j \in DOMAIN Jobs : Jobs[j] = "sync"

VARIABLES
  products,   \* ids in the table products
  bots,       \* of every bot: the product_id of its newest row, or None
  logins,     \* the rows of bot_logins
  activity,   \* the bots with rows in the tables the jobs fill
  dbVersion,  \* the version of the schema
  serving,    \* the release that has the traffic
  images,     \* the release of every job's image
  deploy,     \* the deploy under way: [release, step, at, attempt, failed], or NoDeploy
  runs,       \* sync-bots of the deploy, and of others: [release, at, try, alone], or NoRun;
              \* alone is history: no other one was under way meanwhile
  begun,      \* deploys, and syncs of an operator, so far
  green,      \* history: releases whose last warm-up found nothing wrong
  loose,      \* history: releases that jobs have run and that no sync-bots has completed
  completed   \* history: the release of the last deploy, if it succeeded, nothing has begun
              \* since and no other sync-bots was under way, or None
registry == <<products, bots, logins>>
rolloutVars == <<products, bots, logins, activity, dbVersion, serving, images, deploy, runs,
                 begun, green, loose, completed>>

NoDeploy == [step |-> "idle"]
NoRun == [at |-> 0]
Slots == {"deploy", "other"}

\* A release's pages /compare/<a>-vs-<b>: one for every two of its products.
ComparePairs(r) == {pair \in SUBSET ProductsOf(r) : Cardinality(pair) = 2}

RolloutInit ==
  /\ products = ProductsOf(First) /\ logins = LoginsOf[First]
  /\ bots = [b \in ListedBots |-> IF b \in DOMAIN Registry[First] THEN Registry[First][b] ELSE None]
  /\ activity = {} /\ dbVersion = SchemaOf[First]
  /\ serving = First /\ images = [j \in 1 .. Len(Jobs) |-> First]
  /\ deploy = NoDeploy /\ runs = [s \in Slots |-> NoRun] /\ begun = 0
  /\ green = {} /\ loose = {} /\ completed = First

\* The workflow begins; the new revision gets no traffic.
DeployApp(r) ==
  /\ deploy = NoDeploy /\ begun < MaxDeploys
  /\ begun' = begun + 1 /\ completed' = None /\ green' = green \ {r}
  /\ deploy' = [release |-> r, step |-> "warmup", at |-> 1, attempt |-> 1, failed |-> 0]
  /\ UNCHANGED <<registry, activity, dbVersion, serving, images, runs, loose>>

At(step) == deploy.step = step
GoTo(step) == deploy' = [deploy EXCEPT !.step = step, !.at = 1]

\* What a page of a release shows: fine with the schema it expects, which it may migrate to,
\* a banner with another one, or nothing at all.
PageShows(r, look) ==
  CASE look = "fine"   -> dbVersion <= SchemaOf[r] /\ dbVersion' = SchemaOf[r]
    [] look = "banner" -> dbVersion # SchemaOf[r] /\ UNCHANGED dbVersion
    [] look = "error"  -> UNCHANGED dbVersion

\* A page is not ok, whatever its status, when it has the banner.
PageFails(look) == look # "fine"

\* fetchPage asks once more unless the page came, with or without a banner.
AskAgain(look) == look = "error" /\ deploy.attempt <= PageRetries

\* One request of the warm-up.
WarmUp(look) ==
  /\ At("warmup") /\ deploy.at <= Pages
  /\ PageShows(deploy.release, look)
  /\ deploy' = IF AskAgain(look) THEN [deploy EXCEPT !.attempt = @ + 1]
               ELSE [deploy EXCEPT !.at = @ + 1, !.attempt = 1,
                                   !.failed = IF PageFails(look) THEN @ + 1 ELSE @]
  /\ UNCHANGED <<registry, activity, serving, images, runs, begun, green, loose, completed>>

\* It exits with 1 if a page failed, which is a warning only.
WarmedUp ==
  /\ At("warmup") /\ deploy.at > Pages
  /\ GoTo("traffic")
  /\ green' = IF deploy.failed = 0 THEN green \cup {deploy.release} ELSE green
  /\ UNCHANGED <<registry, activity, dbVersion, serving, images, runs, begun, loose, completed>>

SwitchTraffic ==
  /\ At("traffic")
  /\ serving' = deploy.release /\ GoTo("images")
  /\ UNCHANGED <<registry, activity, dbVersion, images, runs, begun, green, loose, completed>>

UpdateImage ==
  /\ At("images") /\ deploy.at <= Len(Jobs)
  /\ images' = [images EXCEPT ![deploy.at] = deploy.release]
  /\ deploy' = [deploy EXCEPT !.at = @ + 1]
  /\ loose' = loose \cup {deploy.release}
  /\ UNCHANGED <<registry, activity, dbVersion, serving, runs, begun, green, completed>>

Running(slot) == runs[slot] # NoRun
StartSyncBots(slot, r) ==
  LET others == {s \in Slots : Running(s)} IN
  runs' = [s \in Slots |->
             IF s = slot THEN [release |-> r, at |-> 1, try |-> 1, alone |-> others = {}]
             ELSE IF s \in others THEN [runs[s] EXCEPT !.alone = FALSE] ELSE NoRun]

\* The job sync is executed with other arguments; the workflow waits for it.
ExecuteSyncBots ==
  /\ At("images") /\ deploy.at > Len(Jobs)
  /\ \E j \in DOMAIN Jobs : Jobs[j] = "sync" /\ StartSyncBots("deploy", images[j])
  /\ GoTo("registry")
  /\ UNCHANGED <<registry, activity, dbVersion, serving, images, begun, green, loose, completed>>

\* The operator runs sync-bots, of any commit.
OperatorSyncs(r) ==
  /\ runs["other"] = NoRun /\ begun < MaxDeploys
  /\ begun' = begun + 1 /\ completed' = None
  /\ StartSyncBots("other", r)
  /\ UNCHANGED <<registry, activity, dbVersion, serving, images, deploy, green, loose>>

\* Mutant of Inserts: the bots before the products they belong to.
InsertsBotsFirst == <<"bots", "products", "bot_logins">>

\* The inserts of cmdSyncBots: syncProducts, then syncBots.
Inserts == <<"products", "bots", "bot_logins">>

\* An insert of the rows of a release; rows of the same key replace each other, none is deleted.
Applied(table, r) ==
  /\ products' = IF table = "products" THEN products \cup ProductsOf(r) ELSE products
  /\ bots' = IF table = "bots"
             THEN [b \in ListedBots |-> IF b \in DOMAIN Registry[r] THEN Registry[r][b] ELSE bots[b]]
             ELSE bots
  /\ logins' = IF table = "bot_logins" THEN logins \cup LoginsOf[r] ELSE logins

Insert(slot) == Applied(Inserts[runs[slot].at], runs[slot].release)

\* An insert, and the next one, or the end of the execution.
InsertRows(slot) ==
  /\ Running(slot) /\ runs[slot].at <= Len(Inserts)
  /\ Insert(slot)
  /\ runs' = [runs EXCEPT ![slot].at = @ + 1]
  /\ UNCHANGED <<activity, dbVersion, serving, images, deploy, begun, green, loose, completed>>

\* An insert fails, applied or not, or what follows them, or the task dies: it begins anew
\* once, and fails then.
TaskFails(slot) ==
  /\ Running(slot)
  /\ \/ runs[slot].at <= Len(Inserts) /\ Insert(slot)
     \/ UNCHANGED registry
  /\ IF runs[slot].try <= TaskRetries
     THEN runs' = [runs EXCEPT ![slot].at = 1, ![slot].try = @ + 1] /\ UNCHANGED deploy
     ELSE /\ runs' = [runs EXCEPT ![slot] = NoRun]
          /\ deploy' = IF slot = "deploy" THEN NoDeploy ELSE deploy
  /\ UNCHANGED <<activity, dbVersion, serving, images, begun, green, loose, completed>>

\* The execution succeeds, and with it a deploy that waits for it.
Synced(slot) ==
  /\ Running(slot) /\ runs[slot].at > Len(Inserts)
  /\ runs' = [runs EXCEPT ![slot] = NoRun]
  /\ loose' = loose \ {runs[slot].release}
  /\ IF slot = "deploy"
     THEN /\ deploy' = NoDeploy
          /\ completed' = IF runs[slot].alone THEN deploy.release ELSE None
     ELSE UNCHANGED <<deploy, completed>>
  /\ UNCHANGED <<registry, activity, dbVersion, serving, images, begun, green>>

\* Any step of the workflow fails, or its time is over.
DeployFails ==
  /\ deploy # NoDeploy /\ (Running("deploy") => ~Running("other"))
  /\ deploy' = NoDeploy
  /\ runs' = [s \in Slots |-> IF s = "deploy" THEN NoRun
                               ELSE IF Running("deploy") THEN runs["deploy"] ELSE runs[s]]
  /\ UNCHANGED <<registry, activity, dbVersion, serving, images, begun, green, loose, completed>>

\* A scheduled job inserts rows of a bot its image knows.
JobInserts(j, b) ==
  /\ b \in DOMAIN Registry[images[j]]
  /\ activity' = activity \cup {b}
  /\ UNCHANGED <<registry, dbVersion, serving, images, deploy, runs, begun, green, loose, completed>>

\* A visitor's request, which may migrate too.
Visit ==
  /\ PageShows(serving, "fine")
  /\ UNCHANGED <<registry, activity, serving, images, deploy, runs, begun, green, loose, completed>>

RolloutNext ==
  \/ \E r \in Releases : DeployApp(r) \/ OperatorSyncs(r)
  \/ \E look \in {"fine", "banner", "error"} : WarmUp(look)
  \/ WarmedUp \/ SwitchTraffic \/ UpdateImage \/ ExecuteSyncBots \/ DeployFails
  \/ \E slot \in Slots : InsertRows(slot) \/ TaskFails(slot) \/ Synced(slot)
  \/ \E j \in DOMAIN Jobs, b \in ListedBots : JobInserts(j, b)
  \/ Visit

RolloutSpec == RolloutInit /\ [][RolloutNext]_rolloutVars

-----------------------------------------------------------------------------
\* The app joins bots with products: no bot is there without its product, at any time.
BotsHaveProducts == \A b \in ListedBots : bots[b] \in products \cup {None}

\* After a deploy that succeeded the app, the jobs and the registry are of one release, and
\* every page that compares two products finds both.
DeployedIsWhole ==
  completed # None =>
    /\ serving = completed /\ \A j \in DOMAIN images : images[j] = completed
    /\ \A b \in DOMAIN Registry[completed] : bots[b] = Registry[completed][b]
    /\ LoginsOf[completed] \subseteq logins
    /\ \A pair \in ComparePairs(serving) : pair \subseteq products

\* Jobs run a release before its bots are listed: rows of bots that are not are there only
\* until a sync-bots of that release succeeds.
ActivityIsListed ==
  \A b \in activity : bots[b] = None => \E r \in loose : b \in DOMAIN Registry[r]

\* A revision whose warm-up found nothing wrong has its schema.
GreenIsMigrated == serving \in green => dbVersion >= SchemaOf[serving]

\* However deploys fail and overlap with what an earlier one left running: no bot is without
\* its product, a deploy that succeeded is whole, what jobs wrote is listed, and a clean
\* warm-up vouches for the schema.
RolloutIsSound == BotsHaveProducts /\ DeployedIsWhole /\ ActivityIsListed /\ GreenIsMigrated
=============================================================================
