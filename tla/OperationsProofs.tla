-------------------------- MODULE OperationsProofs --------------------------
(***************************************************************************)
(* What holds of deploys, for any releases and registries, any number of   *)
(* jobs, pages, retries, deploys and operator's syncs; of how work is      *)
(* divided, for any number of tokens, proxies, retries and any items; and  *)
(* of the requests to GitHub, for any number of workers and tokens, any    *)
(* budget, window, timer and number of attempts.                           *)
(*                                                                         *)
(* Deploys: an execution of sync-bots that has passed an insert finds its  *)
(* rows there, since no row is ever deleted (Progress); those of bots may  *)
(* have been replaced by another execution, but not while it is alone      *)
(* (Undisturbed).                                                          *)
(*                                                                         *)
(* Work: a task that works knows a total its index is below, and a session *)
(* has at most as many workers as paths (FleetTyped); the rest is counting *)
(* of remainders.                                                          *)
(*                                                                         *)
(* Requests: a worker's belief is right of the API it heard of last, but   *)
(* for the points it has not heard of (Believes), and its reset is not     *)
(* earlier than the end of that window unless a new one has begun since,   *)
(* whose points are unheard (Dated).  The same holds of an answer under    *)
(* way, of whichever API (Carries), and of a worker that waits for the     *)
(* reset (Waits): when it wakes up, the window it knew is over.  What the  *)
(* limiter has forgotten when it heard of the other API was above the      *)
(* threshold then, or the worker would have stopped and waited (Others).   *)
(***************************************************************************)
EXTENDS Rollout, Fleet, Requests, CountingProofs, TLAPS

Steps == {"warmup", "traffic", "images", "registry"}
Indices == 1 .. Len(Jobs)

DeployType == {NoDeploy} \cup
  [release : Releases, step : Steps, at : Nat \ {0}, attempt : Nat, failed : Nat]
RunType == {NoRun} \cup
  [release : Releases, at : 1 .. 4, try : Nat, alone : BOOLEAN]

RolloutTyped ==
  /\ activity \subseteq ListedBots /\ dbVersion \in Nat /\ serving \in Releases /\ green \subseteq Releases
  /\ images \in [Indices -> Releases]
  /\ deploy \in DeployType /\ runs \in [Slots -> RunType]

\* Every bot of a release is in the table of bots.
AllListed(r) == \A b \in DOMAIN Registry[r] : bots[b] # None
\* They are there as the release has them.
AllFresh(r) == \A b \in DOMAIN Registry[r] : bots[b] = Registry[r][b]

Progress ==
  \A slot \in Slots : Running(slot) =>
    LET run == runs[slot] IN
    /\ run.at > 1 => ProductsOf(run.release) \subseteq products
    /\ run.at > 2 => AllListed(run.release)
    /\ run.at > 3 => LoginsOf[run.release] \subseteq logins

Undisturbed ==
  Running("deploy") /\ runs["deploy"].alone =>
    runs["other"] = NoRun /\ (runs["deploy"].at > 2 => AllFresh(runs["deploy"].release))

\* How far a deploy is.
Deploying ==
  /\ At("registry") <=> Running("deploy")
  /\ At("registry") => runs["deploy"].release = deploy.release
  /\ deploy.step \in {"images", "registry"} => serving = deploy.release
  /\ At("images") => \A j \in Indices : j < deploy.at => images[j] = deploy.release
  /\ At("registry") => \A j \in Indices : images[j] = deploy.release
  /\ At("warmup") /\ deploy.at > 1 /\ deploy.failed = 0 => dbVersion >= SchemaOf[deploy.release]

GreenHaveSchema == \A r \in green : dbVersion >= SchemaOf[r]

\* A release that jobs run is listed, or some sync-bots is still owed.
ImagesListed == \A j \in Indices : images[j] \in loose \/ AllListed(images[j])

\* After a deploy that succeeded nothing is under way.
AtRest ==
  completed # None =>
    /\ deploy = NoDeploy /\ \A slot \in Slots : runs[slot] = NoRun
    /\ completed \in Releases /\ ProductsOf(completed) \subseteq products

RolloutInv == /\ RolloutTyped /\ Progress /\ Undisturbed /\ Deploying
        /\ BotsHaveProducts /\ GreenHaveSchema /\ ImagesListed /\ ActivityIsListed
        /\ AtRest /\ DeployedIsWhole

-----------------------------------------------------------------------------
(* Facts about values *)

LEMMA Listed == ASSUME NEW r \in Releases, NEW b \in DOMAIN Registry[r]
                PROVE  /\ b \in ListedBots /\ Registry[r][b] # None
                       /\ Registry[r][b] \in ProductsOf(r)
BY RolloutAssumption DEF ListedBots, ProductsOf

LEMMA ThreeInserts ==
  Len(Inserts) = 3 /\ Inserts[1] = "products" /\ Inserts[2] = "bots" /\ Inserts[3] = "bot_logins"
BY DEF Inserts

\* What an execution under way is.
LEMMA RunFields ==
  ASSUME RolloutTyped, NEW slot \in Slots, Running(slot)
  PROVE  /\ runs[slot] \in [release : Releases, at : 1 .. 4, try : Nat, alone : BOOLEAN]
         /\ runs[slot].release \in Releases /\ runs[slot].at \in 1 .. 4
BY DEF RolloutTyped, RunType, Running

LEMMA NotIdle ==
  ASSUME NEW d \in DeployType, d.step \in Steps
  PROVE  /\ d \in [release : Releases, step : Steps, at : Nat \ {0}, attempt : Nat, failed : Nat]
         /\ d.release \in Releases /\ d.at \in Nat \ {0} /\ d # NoDeploy
BY DEF DeployType, NoDeploy, Steps

LEMMA NextStep ==
  ASSUME NEW d \in [release : Releases, step : Steps, at : Nat \ {0}, attempt : Nat, failed : Nat],
         NEW step \in Steps
  PROVE  LET e == [d EXCEPT !.step = step, !.at = 1] IN
         /\ e \in [release : Releases, step : Steps, at : Nat \ {0}, attempt : Nat, failed : Nat]
         /\ e.step = step /\ e.at = 1 /\ e.release = d.release
<1> DEFINE c == [d EXCEPT !.step = step]
           e == [c EXCEPT !.at = 1]
<1>1. /\ c \in [release : Releases, step : Steps, at : Nat \ {0}, attempt : Nat, failed : Nat]
      /\ c.step = step /\ c.release = d.release
      OBVIOUS
<1> HIDE DEF c
<1>2. /\ e \in [release : Releases, step : Steps, at : Nat \ {0}, attempt : Nat, failed : Nat]
      /\ e.step = step /\ e.at = 1 /\ e.release = d.release
      BY <1>1
<1>3. [d EXCEPT !.step = step, !.at = 1] = e BY DEF c
<1> QED BY <1>2, <1>3

LEMMA NoRunIsNone == \A r \in [release : Releases, at : 1 .. 4, try : Nat, alone : BOOLEAN] :
                       r # NoRun
BY DEF NoRun

-----------------------------------------------------------------------------
(* The inserts *)

LEMMA InsertGrows ==
  ASSUME RolloutInv, NEW slot \in Slots, Running(slot), runs[slot].at <= Len(Inserts), Insert(slot)
  PROVE  /\ BotsHaveProducts' /\ products \subseteq products' /\ logins \subseteq logins'
         /\ \A b \in ListedBots : bots[b] # None => bots'[b] # None
         /\ \A b \in ListedBots : bots'[b] \in {bots[b]} \cup
              (IF b \in DOMAIN Registry[runs[slot].release]
               THEN {Registry[runs[slot].release][b]} ELSE {})
         /\ runs[slot].at = 1 => ProductsOf(runs[slot].release) \subseteq products'
         /\ runs[slot].at = 2 => \A b \in DOMAIN Registry[runs[slot].release] :
                                   bots'[b] = Registry[runs[slot].release][b]
         /\ runs[slot].at = 3 => LoginsOf[runs[slot].release] \subseteq logins'
<1> DEFINE r == runs[slot].release
           at == runs[slot].at
<1>1. r \in Releases /\ at \in 1 .. 3 /\ Applied(Inserts[at], r)
      BY RunFields, ThreeInserts DEF RolloutInv, Insert
<1>2. at > 1 => ProductsOf(r) \subseteq products BY DEF RolloutInv, Progress
<1>3. BotsHaveProducts BY DEF RolloutInv
<1> HIDE DEF r, at
<1>4. CASE at = 1
      BY <1>1, <1>3, <1>4, ThreeInserts DEF Applied, BotsHaveProducts, r, at
<1>5. CASE at = 2
  <2>1. /\ products' = products /\ logins' = logins
        /\ \A b \in ListedBots : bots'[b] = IF b \in DOMAIN Registry[r] THEN Registry[r][b]
                                            ELSE bots[b]
        BY <1>1, <1>5, ThreeInserts DEF Applied
  <2>2. \A b \in DOMAIN Registry[r] : /\ b \in ListedBots /\ Registry[r][b] # None
                                      /\ Registry[r][b] \in products
        BY <1>1, <1>2, <1>5, Listed
  <2>3. BotsHaveProducts' BY <2>1, <2>2, <1>3 DEF BotsHaveProducts
  <2> QED BY <1>5, <2>1, <2>2, <2>3 DEF r, at
<1>6. CASE at = 3
      BY <1>1, <1>3, <1>6, ThreeInserts DEF Applied, BotsHaveProducts, r, at
<1> QED BY <1>1, <1>4, <1>5, <1>6

\* The steps of an execution of sync-bots.
LEMMA InsertRowsKeeps == ASSUME RolloutInv, NEW slot \in Slots, InsertRows(slot) PROVE RolloutInv'
<1>1. /\ Running(slot) /\ runs[slot].at <= Len(Inserts) /\ Insert(slot)
      /\ runs' = [runs EXCEPT ![slot].at = @ + 1]
      /\ UNCHANGED <<activity, dbVersion, serving, images, deploy, begun, green, loose, completed>>
      BY DEF InsertRows
<1>2. /\ runs[slot] \in [release : Releases, at : 1 .. 4, try : Nat, alone : BOOLEAN]
      /\ runs[slot].at \in 1 .. 3 /\ runs \in [Slots -> RunType]
      BY <1>1, RunFields, ThreeInserts DEF RolloutInv, RolloutTyped
<1> PICK r \in Releases, at \in 1 .. 3 : r = runs[slot].release /\ at = runs[slot].at
    BY <1>2
<1>3. /\ BotsHaveProducts' /\ products \subseteq products' /\ logins \subseteq logins'
      /\ \A b \in ListedBots : bots[b] # None => bots'[b] # None
      /\ at = 1 => ProductsOf(r) \subseteq products'
      /\ at = 2 => \A b \in DOMAIN Registry[r] : bots'[b] = Registry[r][b]
      /\ at = 3 => LoginsOf[r] \subseteq logins'
      BY <1>1, InsertGrows
<1>4. \A q \in Releases : AllListed(q) => AllListed(q)'
      BY <1>3, Listed DEF AllListed
<1>5. /\ runs'[slot] = [runs[slot] EXCEPT !.at = @ + 1]
      /\ \A s \in Slots : s # slot => runs'[s] = runs[s]
      BY <1>1, <1>2
<1>6. /\ runs'[slot].release = r /\ runs'[slot].at = at + 1
      /\ runs'[slot].alone = runs[slot].alone
      /\ runs'[slot] \in [release : Releases, at : 1 .. 4, try : Nat, alone : BOOLEAN]
      BY <1>2, <1>5
<1>7. \A s \in Slots : Running(s)' <=> Running(s)
      BY <1>1, <1>5, <1>6, NoRunIsNone DEF Running
<1>8. RolloutTyped'
  <2>1. runs' \in [Slots -> RunType] BY <1>1, <1>2, <1>6 DEF RunType
  <2> QED BY <1>1, <2>1 DEF RolloutInv, RolloutTyped
<1>9. Progress'
  <2> SUFFICES ASSUME NEW s \in Slots, Running(s)'
               PROVE  (/\ runs[s].at > 1 => ProductsOf(runs[s].release) \subseteq products
                       /\ runs[s].at > 2 => AllListed(runs[s].release)
                       /\ runs[s].at > 3 => LoginsOf[runs[s].release] \subseteq logins)'
      BY DEF Progress
  <2>1. CASE s # slot
    <3> PICK q \in Releases : runs'[s] = runs[s] /\ Running(s) /\ runs[s].release = q
          BY <1>5, <1>7, <2>1, RunFields DEF RolloutInv
    <3>1. /\ runs[s].at > 1 => ProductsOf(q) \subseteq products
          /\ runs[s].at > 2 => AllListed(q)
          /\ runs[s].at > 3 => LoginsOf[q] \subseteq logins
          BY DEF RolloutInv, Progress
    <3>2. AllListed(q)' <=> AllListed(runs[s].release)' BY DEF AllListed
    <3> QED BY <3>1, <3>2, <1>3, <1>4
  <2>2. CASE s = slot
    <3>1. /\ at > 1 => ProductsOf(r) \subseteq products
          /\ at > 2 => AllListed(r)
          /\ at > 3 => LoginsOf[r] \subseteq logins
          BY <1>1 DEF RolloutInv, Progress
    <3>2. at = 2 => AllListed(r)' BY <1>3, Listed DEF AllListed
    <3>3. AllListed(r)' <=> AllListed(runs[s].release)' BY <1>6, <2>2 DEF AllListed
    <3>4. at + 1 > 2 => AllListed(r)' BY <1>4, <3>1, <3>2
    <3>5. at + 1 > 1 => ProductsOf(r) \subseteq products' BY <1>3, <3>1
    <3> QED BY <2>2, <3>3, <3>4, <3>5, <1>3, <1>6
  <2> QED BY <2>1, <2>2
<1>10. Undisturbed'
  <2> SUFFICES ASSUME Running("deploy")', runs'["deploy"].alone
               PROVE  (runs["other"] = NoRun
                        /\ (runs["deploy"].at > 2 => AllFresh(runs["deploy"].release)))'
      BY DEF Undisturbed
  <2>1. Running("deploy") /\ runs["deploy"].alone
        BY <1>5, <1>6, <1>7 DEF Slots
  <2>2. runs["other"] = NoRun BY <2>1 DEF RolloutInv, Undisturbed
  <2>3. slot = "deploy" BY <1>1, <2>2 DEF Slots, Running
  <2>4. at = 2 => AllFresh(r)' BY <1>3 DEF AllFresh
  <2>5. ASSUME at = 3 PROVE AllFresh(r)'
    <3>1. bots' = bots BY <1>1, <2>5, ThreeInserts DEF Insert, Applied
    <3>2. AllFresh(r) BY <2>1, <2>3, <2>5 DEF RolloutInv, Undisturbed
    <3> QED BY <3>1, <3>2 DEF AllFresh
  <2>6. AllFresh(r)' <=> AllFresh(runs["deploy"].release)' BY <1>6, <2>3 DEF AllFresh
  <2>7. runs'["other"] = NoRun BY <2>2, <2>3, <1>5 DEF Slots
  <2> QED BY <1>6, <2>3, <2>4, <2>5, <2>6, <2>7
<1>11. Deploying'
      BY <1>1, <1>5, <1>6, <1>7 DEF RolloutInv, Deploying, At, Slots
<1>12. GreenHaveSchema' BY <1>1 DEF RolloutInv, GreenHaveSchema
<1>13. ImagesListed'
      BY <1>1, <1>4 DEF RolloutInv, ImagesListed, RolloutTyped
<1>14. ActivityIsListed'
      BY <1>1, <1>3 DEF RolloutInv, ActivityIsListed, RolloutTyped
<1>15. completed = None
      BY <1>1 DEF RolloutInv, AtRest, Running
<1> QED BY <1>1, <1>3, <1>8, <1>9, <1>10, <1>11, <1>12, <1>13, <1>14, <1>15
        DEF RolloutInv, AtRest, DeployedIsWhole

-----------------------------------------------------------------------------
(* The other steps *)

LEMMA InitHolds == RolloutInit => RolloutInv
<1> SUFFICES ASSUME RolloutInit PROVE RolloutInv OBVIOUS
<1> USE DEF RolloutInit
<1>1. RolloutTyped
  <2>1. serving \in Releases /\ dbVersion \in Nat BY RolloutAssumption
  <2>2. images \in [Indices -> Releases] BY RolloutAssumption DEF Indices
  <2> QED BY <2>1, <2>2 DEF RolloutTyped, DeployType, RunType
<1>2. \A slot \in Slots : ~Running(slot) BY DEF Running
<1>3. AllListed(First) /\ AllFresh(First)
      BY RolloutAssumption, Listed DEF AllListed, AllFresh
<1>4. BotsHaveProducts BY RolloutAssumption, Listed DEF BotsHaveProducts
<1>5. ImagesListed BY <1>3 DEF ImagesListed, Indices
<1>6. Progress /\ Undisturbed /\ GreenHaveSchema /\ ActivityIsListed
      BY <1>2 DEF Progress, Undisturbed, GreenHaveSchema, ActivityIsListed, Slots
<1>7. Deploying BY <1>2 DEF Deploying, At, NoDeploy, Slots
<1>8. AtRest BY RolloutAssumption DEF AtRest
<1>9. DeployedIsWhole
      BY <1>3, RolloutAssumption DEF DeployedIsWhole, AllFresh, ComparePairs
<1> QED BY <1>1, <1>4, <1>5, <1>6, <1>7, <1>8, <1>9 DEF RolloutInv

\* As long as the registry and the executions of sync-bots stay, so do the facts about them.
LEMMA RegistryStays ==
  ASSUME RolloutInv, UNCHANGED <<registry, runs>>
  PROVE  Progress' /\ Undisturbed' /\ BotsHaveProducts'
BY DEF RolloutInv, registry, Progress, Undisturbed, BotsHaveProducts, Running, AllListed, AllFresh

\* A deploy has an execution of its own in its last step only.
LEMMA OwnRun == ASSUME RolloutInv, deploy.step # "registry" PROVE runs["deploy"] = NoRun
BY DEF RolloutInv, Deploying, At, Running

LEMMA DeployAppKeeps == ASSUME RolloutInv, NEW r \in Releases, DeployApp(r) PROVE RolloutInv'
<1> USE DEF DeployApp
<1>1. runs["deploy"] = NoRun BY OwnRun DEF NoDeploy
<1>2. RolloutTyped' BY DEF RolloutInv, RolloutTyped, DeployType, Steps
<1>3. deploy'.step = "warmup" /\ deploy'.at = 1 OBVIOUS
<1>4. Deploying' BY <1>1, <1>3 DEF Deploying, At, Running
<1>5. GreenHaveSchema' BY DEF RolloutInv, GreenHaveSchema
<1>6. ImagesListed' /\ ActivityIsListed'
      BY DEF RolloutInv, ImagesListed, ActivityIsListed, AllListed, registry
<1>7. AtRest' /\ DeployedIsWhole' BY DEF AtRest, DeployedIsWhole
<1> QED BY <1>2, <1>4, <1>5, <1>6, <1>7, RegistryStays DEF RolloutInv

\* While a deploy is under way nothing counts as completed.
LEMMA NotCompleted == ASSUME RolloutInv, deploy # NoDeploy \/ \E s \in Slots : Running(s)
                      PROVE  completed = None
BY DEF RolloutInv, AtRest, Running

LEMMA WarmUpKeeps ==
  ASSUME RolloutInv, NEW look \in {"fine", "banner", "error"}, WarmUp(look) PROVE RolloutInv'
<1> USE DEF WarmUp
<1>1. /\ deploy \in [release : Releases, step : Steps, at : Nat \ {0}, attempt : Nat, failed : Nat]
      /\ deploy.step = "warmup" /\ deploy # NoDeploy
      BY NotIdle DEF At, RolloutInv, RolloutTyped, Steps
<1>2. dbVersion' \in Nat /\ dbVersion' >= dbVersion
  <2>1. deploy.release \in Releases /\ SchemaOf[deploy.release] \in Nat /\ dbVersion \in Nat
        BY <1>1, RolloutAssumption DEF RolloutInv, RolloutTyped
  <2>2. CASE look = "fine" BY <2>1, <2>2 DEF PageShows
  <2>3. CASE look = "banner" BY <2>1, <2>3 DEF PageShows
  <2>4. CASE look = "error" BY <2>1, <2>4 DEF PageShows
  <2> QED BY <2>2, <2>3, <2>4
<1>3. look = "fine" => dbVersion' = SchemaOf[deploy.release] BY DEF PageShows
<1>4. /\ deploy'.step = "warmup" /\ deploy'.release = deploy.release
      /\ deploy' \in [release : Releases, step : Steps, at : Nat \ {0}, attempt : Nat, failed : Nat]
      /\ deploy'.failed = 0 => deploy.failed = 0
      /\ deploy'.at # deploy.at /\ deploy'.failed = 0 => look = "fine"
  <2>1. CASE AskAgain(look)
        BY <1>1, <2>1
  <2>2. CASE ~AskAgain(look)
    <3> DEFINE c == [deploy EXCEPT !.at = @ + 1]
               d == [c EXCEPT !.attempt = 1]
               e == [d EXCEPT !.failed = IF PageFails(look) THEN @ + 1 ELSE @]
    <3>1. /\ c \in [release : Releases, step : Steps, at : Nat \ {0}, attempt : Nat, failed : Nat]
          /\ c.step = "warmup" /\ c.release = deploy.release /\ c.failed = deploy.failed
          BY <1>1
    <3>2. deploy' = e BY <2>2 DEF c
    <3> HIDE DEF c
    <3>3. /\ d \in [release : Releases, step : Steps, at : Nat \ {0}, attempt : Nat, failed : Nat]
          /\ d.step = "warmup" /\ d.release = deploy.release /\ d.failed = deploy.failed
          BY <3>1
    <3> HIDE DEF d
    <3>4. CASE look = "fine"
          BY <3>2, <3>3, <3>4 DEF PageFails
    <3>5. CASE look # "fine"
      <4>1. e = [d EXCEPT !.failed = @ + 1] BY <3>5 DEF PageFails
      <4>2. deploy.failed + 1 # 0 /\ deploy.failed + 1 \in Nat BY <1>1
      <4> HIDE DEF e
      <4> QED BY <3>2, <3>3, <4>1, <4>2
    <3> QED BY <3>4, <3>5
  <2> QED BY <2>1, <2>2
<1>5. RolloutTyped' BY <1>2, <1>4 DEF RolloutInv, RolloutTyped, DeployType
<1>6. Deploying'
  <2>1. \A s \in Slots : Running(s)' <=> Running(s) BY DEF Running
  <2>2. ~Running("deploy") BY <1>1, OwnRun DEF Running
  <2>3. deploy'.at > 1 /\ deploy'.failed = 0 => dbVersion' >= SchemaOf[deploy'.release]
    <3>1. SchemaOf[deploy.release] \in Nat /\ dbVersion \in Nat
          BY <1>1, RolloutAssumption DEF RolloutInv, RolloutTyped
    <3>2. deploy.at > 1 /\ deploy.failed = 0 => dbVersion >= SchemaOf[deploy.release]
          BY <1>1 DEF RolloutInv, Deploying, At
    <3> QED BY <3>1, <3>2, <1>2, <1>3, <1>4
  <2> QED BY <1>4, <2>1, <2>2, <2>3 DEF Deploying, At, Slots
<1>7. GreenHaveSchema'
  <2>1. \A q \in green : SchemaOf[q] \in Nat BY RolloutAssumption DEF RolloutInv, RolloutTyped
  <2> QED BY <2>1, <1>2 DEF RolloutInv, RolloutTyped, GreenHaveSchema
<1>8. ImagesListed' /\ ActivityIsListed'
      BY DEF RolloutInv, ImagesListed, ActivityIsListed, AllListed, registry
<1>9. AtRest' /\ DeployedIsWhole' BY <1>1, NotCompleted DEF AtRest, DeployedIsWhole
<1> QED BY <1>5, <1>6, <1>7, <1>8, <1>9, RegistryStays DEF RolloutInv

LEMMA WarmedUpKeeps == ASSUME RolloutInv, WarmedUp PROVE RolloutInv'
<1> USE DEF WarmedUp, GoTo
<1>1. /\ deploy \in [release : Releases, step : Steps, at : Nat \ {0}, attempt : Nat, failed : Nat]
      /\ deploy.step = "warmup" /\ deploy # NoDeploy /\ deploy.at > 1
      BY NotIdle, RolloutAssumption DEF At, RolloutInv, RolloutTyped, Steps
<1>2. /\ deploy'.step = "traffic"
      /\ deploy' \in [release : Releases, step : Steps, at : Nat \ {0}, attempt : Nat, failed : Nat]
      BY <1>1, NextStep DEF Steps
<1>3. RolloutTyped' BY <1>1, <1>2 DEF RolloutInv, RolloutTyped, DeployType
<1>4. Deploying' BY <1>1, <1>2, OwnRun DEF Deploying, At, Running
<1>5. GreenHaveSchema' BY <1>1 DEF RolloutInv, GreenHaveSchema, Deploying, At
<1>6. ImagesListed' /\ ActivityIsListed'
      BY DEF RolloutInv, ImagesListed, ActivityIsListed, AllListed, registry
<1>7. AtRest' /\ DeployedIsWhole' BY <1>1, NotCompleted DEF AtRest, DeployedIsWhole
<1> QED BY <1>3, <1>4, <1>5, <1>6, <1>7, RegistryStays DEF RolloutInv

LEMMA SwitchTrafficKeeps == ASSUME RolloutInv, SwitchTraffic PROVE RolloutInv'
<1> USE DEF SwitchTraffic, GoTo
<1>1. /\ deploy \in [release : Releases, step : Steps, at : Nat \ {0}, attempt : Nat, failed : Nat]
      /\ deploy.step = "traffic" /\ deploy # NoDeploy
      BY NotIdle DEF At, RolloutInv, RolloutTyped, Steps
<1>2. /\ deploy'.step = "images" /\ deploy'.at = 1 /\ deploy'.release = deploy.release
      /\ deploy' \in [release : Releases, step : Steps, at : Nat \ {0}, attempt : Nat, failed : Nat]
      BY <1>1, NextStep DEF Steps
<1>3. RolloutTyped' BY <1>1, <1>2 DEF RolloutInv, RolloutTyped, DeployType
<1>4. Deploying' BY <1>1, <1>2, OwnRun DEF Deploying, At, Running, Indices
<1>5. GreenHaveSchema' BY DEF RolloutInv, GreenHaveSchema
<1>6. ImagesListed' /\ ActivityIsListed'
      BY DEF RolloutInv, ImagesListed, ActivityIsListed, AllListed, registry
<1>7. AtRest' /\ DeployedIsWhole' BY <1>1, NotCompleted DEF AtRest, DeployedIsWhole
<1> QED BY <1>3, <1>4, <1>5, <1>6, <1>7, RegistryStays DEF RolloutInv

LEMMA UpdateImageKeeps == ASSUME RolloutInv, UpdateImage PROVE RolloutInv'
<1> USE DEF UpdateImage
<1>1. /\ deploy \in [release : Releases, step : Steps, at : Nat \ {0}, attempt : Nat, failed : Nat]
      /\ deploy.step = "images" /\ deploy # NoDeploy
      BY NotIdle DEF At, RolloutInv, RolloutTyped, Steps
<1>2. /\ deploy'.step = "images" /\ deploy'.release = deploy.release /\ deploy'.at = deploy.at + 1
      /\ deploy' \in [release : Releases, step : Steps, at : Nat \ {0}, attempt : Nat, failed : Nat]
      BY <1>1 DEF Steps
<1>3. /\ images' \in [Indices -> Releases]
      /\ \A j \in Indices : images'[j] = IF j = deploy.at THEN deploy.release ELSE images[j]
      BY <1>1 DEF RolloutInv, RolloutTyped
<1>4. RolloutTyped' BY <1>2, <1>3 DEF RolloutInv, RolloutTyped, DeployType
<1>5. Deploying'
  <2>1. serving = deploy.release /\ \A j \in Indices : j < deploy.at => images[j] = deploy.release
        BY <1>1 DEF RolloutInv, Deploying, At
  <2>2. \A j \in Indices : j < deploy.at + 1 => images'[j] = deploy.release
        BY <1>1, <1>3, <2>1 DEF Indices
  <2> QED BY <1>1, <1>2, <2>1, <2>2, OwnRun DEF Deploying, At, Running
<1>6. GreenHaveSchema' BY DEF RolloutInv, GreenHaveSchema
<1>7. ImagesListed' BY <1>3 DEF RolloutInv, ImagesListed, AllListed, registry
<1>8. ActivityIsListed' BY DEF RolloutInv, ActivityIsListed, registry
<1>9. AtRest' /\ DeployedIsWhole' BY <1>1, NotCompleted DEF AtRest, DeployedIsWhole
<1> QED BY <1>4, <1>5, <1>6, <1>7, <1>8, <1>9, RegistryStays DEF RolloutInv

-----------------------------------------------------------------------------
(* The executions of sync-bots *)

\* An execution that begins, beside the others.
LEMMA Started ==
  ASSUME RolloutInv, NEW slot \in Slots, runs[slot] = NoRun, NEW r \in Releases, StartSyncBots(slot, r),
         UNCHANGED <<registry, activity, dbVersion, serving, images, green, loose>>
  PROVE  /\ runs' \in [Slots -> RunType] /\ Progress' /\ Undisturbed' /\ BotsHaveProducts'
         /\ \A s \in Slots : Running(s)' <=> (s = slot \/ Running(s))
         /\ \A s \in Slots : Running(s) => runs'[s].release = runs[s].release
         /\ runs'[slot].release = r
<1> DEFINE others == {s \in Slots : Running(s)}
           begins == [release |-> r, at |-> 1, try |-> 1, alone |-> others = {}]
<1>1. /\ runs'[slot] = begins
      /\ \A s \in others : runs'[s] = [runs[s] EXCEPT !.alone = FALSE]
      /\ \A s \in Slots \ (others \cup {slot}) : runs'[s] = NoRun
      /\ DOMAIN runs' = Slots /\ runs' = [s \in Slots |-> runs'[s]]
      BY DEF StartSyncBots, Running
<1>2. /\ begins \in [release : Releases, at : 1 .. 4, try : Nat, alone : BOOLEAN]
      /\ begins.release = r /\ begins.at = 1 /\ (begins.alone <=> others = {})
  <2> DEFINE with(alone) == [release |-> r, at |-> 1, try |-> 1, alone |-> alone]
  <2>1. \A alone \in BOOLEAN :
          /\ with(alone) \in [release : Releases, at : 1 .. 4, try : Nat, alone : BOOLEAN]
          /\ with(alone).release = r /\ with(alone).at = 1 /\ with(alone).alone = alone
        OBVIOUS
  <2>2. begins = with(others = {}) /\ (others = {}) \in BOOLEAN OBVIOUS
  <2> HIDE DEF with, others, begins
  <2> QED BY <2>1, <2>2
<1> HIDE DEF begins
<1>3. ASSUME NEW s \in others
      PROVE  /\ runs'[s] \in [release : Releases, at : 1 .. 4, try : Nat, alone : BOOLEAN]
             /\ runs'[s].release = runs[s].release /\ runs'[s].at = runs[s].at
             /\ runs'[s].alone = FALSE /\ runs[s].release \in Releases /\ runs[s].at \in 1 .. 4
      BY <1>1, RunFields DEF RolloutInv
<1>4. runs' \in [Slots -> RunType]
      BY <1>1, <1>2, <1>3 DEF RunType
<1>5. \A s \in Slots : Running(s)' <=> (s = slot \/ Running(s))
  <2> SUFFICES ASSUME NEW s \in Slots PROVE Running(s)' <=> (s = slot \/ Running(s)) OBVIOUS
  <2>1. CASE s = slot BY <2>1, <1>1, <1>2, NoRunIsNone DEF Running
  <2>2. CASE s \in others BY <2>2, <1>3, NoRunIsNone DEF Running
  <2>3. CASE s \notin others /\ s # slot BY <2>3, <1>1 DEF Running
  <2> QED BY <2>1, <2>2, <2>3
<1>6. Progress'
  <2> SUFFICES ASSUME NEW s \in Slots, Running(s)'
               PROVE  (/\ runs[s].at > 1 => ProductsOf(runs[s].release) \subseteq products
                       /\ runs[s].at > 2 => AllListed(runs[s].release)
                       /\ runs[s].at > 3 => LoginsOf[runs[s].release] \subseteq logins)'
      BY DEF Progress
  <2>1. CASE s = slot BY <2>1, <1>1, <1>2
  <2>2. CASE s # slot
    <3>1. s \in others BY <1>5, <2>2
    <3>2. PICK q \in Releases : runs[s].release = q /\ runs'[s].release = q
          BY <3>1, <1>3
    <3>3. /\ runs[s].at > 1 => ProductsOf(q) \subseteq products
          /\ runs[s].at > 2 => AllListed(q)
          /\ runs[s].at > 3 => LoginsOf[q] \subseteq logins
          BY <3>1, <3>2 DEF RolloutInv, Progress
    <3>4. AllListed(q) <=> AllListed(runs[s].release)' BY <3>2 DEF AllListed, registry
    <3> QED BY <3>1, <3>2, <3>3, <3>4, <1>3 DEF registry
  <2> QED BY <2>1, <2>2
<1>7. Undisturbed'
  <2> SUFFICES ASSUME Running("deploy")', runs'["deploy"].alone
               PROVE  (runs["other"] = NoRun
                        /\ (runs["deploy"].at > 2 => AllFresh(runs["deploy"].release)))'
      BY DEF Undisturbed
  <2>1. slot = "deploy" /\ others = {} BY <1>1, <1>2, <1>3, <1>5 DEF Slots
  <2>2. runs'["other"] = NoRun BY <2>1, <1>1 DEF Slots
  <2>3. runs'["deploy"].at = 1 BY <2>1, <1>1, <1>2
  <2> QED BY <2>2, <2>3
<1>8. BotsHaveProducts' BY DEF RolloutInv, BotsHaveProducts, registry
<1> QED BY <1>1, <1>2, <1>3, <1>4, <1>5, <1>6, <1>7, <1>8

LEMMA ExecuteSyncBotsKeeps == ASSUME RolloutInv, ExecuteSyncBots PROVE RolloutInv'
<1> USE DEF ExecuteSyncBots, GoTo
<1>1. /\ deploy \in [release : Releases, step : Steps, at : Nat \ {0}, attempt : Nat, failed : Nat]
      /\ deploy.step = "images" /\ deploy # NoDeploy
      BY NotIdle DEF At, RolloutInv, RolloutTyped, Steps
<1>2. /\ deploy'.step = "registry" /\ deploy'.release = deploy.release
      /\ deploy' \in [release : Releases, step : Steps, at : Nat \ {0}, attempt : Nat, failed : Nat]
      BY <1>1, NextStep DEF Steps
<1>3. \A j \in Indices : images[j] = deploy.release
      BY <1>1, RolloutAssumption DEF RolloutInv, Deploying, At, Indices
<1>4. PICK j \in DOMAIN Jobs : StartSyncBots("deploy", images[j])
      OBVIOUS
<1>5. StartSyncBots("deploy", deploy.release) /\ deploy.release \in Releases
      BY <1>1, <1>3, <1>4, RolloutAssumption DEF Indices
<1>6. runs["deploy"] = NoRun BY <1>1, OwnRun
<1>7. /\ runs' \in [Slots -> RunType] /\ Progress' /\ Undisturbed' /\ BotsHaveProducts'
      /\ Running("deploy")' /\ runs'["deploy"].release = deploy.release
      BY <1>5, <1>6, Started DEF Slots
<1>8. RolloutTyped' BY <1>2, <1>7 DEF RolloutInv, RolloutTyped, DeployType
<1>9. Deploying' BY <1>1, <1>2, <1>3, <1>7 DEF RolloutInv, Deploying, At
<1>10. GreenHaveSchema' BY DEF RolloutInv, GreenHaveSchema
<1>11. ImagesListed' /\ ActivityIsListed'
       BY DEF RolloutInv, ImagesListed, ActivityIsListed, AllListed, registry
<1>12. AtRest' /\ DeployedIsWhole' BY <1>1, NotCompleted DEF AtRest, DeployedIsWhole
<1> QED BY <1>7, <1>8, <1>9, <1>10, <1>11, <1>12 DEF RolloutInv

LEMMA OperatorSyncsKeeps == ASSUME RolloutInv, NEW r \in Releases, OperatorSyncs(r) PROVE RolloutInv'
<1> USE DEF OperatorSyncs
<1>1. /\ runs' \in [Slots -> RunType] /\ Progress' /\ Undisturbed' /\ BotsHaveProducts'
      /\ Running("deploy")' <=> Running("deploy")
      /\ Running("deploy") => runs'["deploy"].release = runs["deploy"].release
      BY Started DEF Slots
<1>2. RolloutTyped' BY <1>1 DEF RolloutInv, RolloutTyped
<1>3. Deploying' BY <1>1 DEF RolloutInv, Deploying, At
<1>4. GreenHaveSchema' BY DEF RolloutInv, GreenHaveSchema
<1>5. ImagesListed' /\ ActivityIsListed'
      BY DEF RolloutInv, ImagesListed, ActivityIsListed, AllListed, registry
<1>6. AtRest' /\ DeployedIsWhole' BY DEF AtRest, DeployedIsWhole
<1> QED BY <1>1, <1>2, <1>3, <1>4, <1>5, <1>6 DEF RolloutInv

\* The registry, as far as the rest depends on it.
LEMMA RegistryGrows ==
  ASSUME RolloutInv, UNCHANGED <<activity, dbVersion, images, green, loose>>,
         \A b \in ListedBots : bots[b] # None => bots'[b] # None
  PROVE  ImagesListed' /\ ActivityIsListed' /\ GreenHaveSchema'
<1>1. \A q \in Releases : AllListed(q) => AllListed(q)'
      BY Listed DEF AllListed
<1>2. ImagesListed' BY <1>1 DEF RolloutInv, ImagesListed, RolloutTyped
<1>3. ActivityIsListed' BY DEF RolloutInv, ActivityIsListed, RolloutTyped
<1>4. GreenHaveSchema' BY DEF RolloutInv, GreenHaveSchema
<1> QED BY <1>2, <1>3, <1>4

\* An execution fails, with or without its insert; it begins anew, or there is none.
LEMMA TaskFailsKeeps == ASSUME RolloutInv, NEW slot \in Slots, TaskFails(slot) PROVE RolloutInv'
<1>1. /\ Running(slot)
      /\ UNCHANGED <<activity, dbVersion, serving, images, begun, green, loose, completed>>
      BY DEF TaskFails
<1>2. /\ runs[slot] \in [release : Releases, at : 1 .. 4, try : Nat, alone : BOOLEAN]
      /\ runs \in [Slots -> RunType] /\ deploy \in DeployType
      BY <1>1, RunFields DEF RolloutInv, RolloutTyped
<1>3. /\ BotsHaveProducts' /\ products \subseteq products' /\ logins \subseteq logins'
      /\ \A b \in ListedBots : bots[b] # None => bots'[b] # None
  <2>1. CASE runs[slot].at <= Len(Inserts) /\ Insert(slot)
        BY <1>1, <2>1, InsertGrows
  <2>2. CASE UNCHANGED registry
        BY <2>2 DEF RolloutInv, BotsHaveProducts, registry
  <2> QED BY <2>1, <2>2 DEF TaskFails
<1>4. \A q \in Releases : AllListed(q) => AllListed(q)'
      BY <1>3, Listed DEF AllListed
<1>5. \A s \in Slots : s # slot => runs'[s] = runs[s]
      BY <1>2 DEF TaskFails
\* Of the others, only one that is not alone is there.
<1>6. \A s \in Slots : s # slot /\ Running(s) => s = "other" \/ ~runs[s].alone
      BY <1>1 DEF RolloutInv, Undisturbed, Running, Slots
<1>7. \/ /\ runs'[slot].release = runs[slot].release /\ runs'[slot].at = 1
         /\ runs'[slot].alone = runs[slot].alone
         /\ runs'[slot] \in [release : Releases, at : 1 .. 4, try : Nat, alone : BOOLEAN]
         /\ deploy' = deploy
      \/ runs'[slot] = NoRun /\ deploy' = IF slot = "deploy" THEN NoDeploy ELSE deploy
  <2>1. CASE runs[slot].try <= TaskRetries
    <3> DEFINE c == [runs[slot] EXCEPT !.at = 1]
               d == [c EXCEPT !.try = @ + 1]
    <3>1. /\ c \in [release : Releases, at : 1 .. 4, try : Nat, alone : BOOLEAN]
          /\ c.at = 1 /\ c.release = runs[slot].release /\ c.alone = runs[slot].alone
          BY <1>2
    <3>2. runs'[slot] = d /\ deploy' = deploy
          BY <1>2, <2>1 DEF TaskFails
    <3> HIDE DEF c
    <3> QED BY <3>1, <3>2
  <2>2. CASE ~(runs[slot].try <= TaskRetries)
        BY <1>2, <2>2 DEF TaskFails
  <2> QED BY <2>1, <2>2
<1>8. \A s \in Slots : Running(s)' => Running(s)
      BY <1>1, <1>5 DEF Running
<1>9. RolloutTyped'
  <2>1. runs' \in [Slots -> RunType]
    <3>1. DOMAIN runs' = Slots /\ runs' = [s \in Slots |-> runs'[s]] BY <1>2 DEF TaskFails
    <3>2. \A s \in Slots : runs'[s] \in RunType BY <1>2, <1>5, <1>7 DEF RunType
    <3> QED BY <3>1, <3>2
  <2>2. deploy' \in DeployType BY <1>2, <1>7 DEF DeployType
  <2> QED BY <1>1, <2>1, <2>2 DEF RolloutInv, RolloutTyped
<1>10. Progress'
  <2> SUFFICES ASSUME NEW s \in Slots, Running(s)'
               PROVE  (/\ runs[s].at > 1 => ProductsOf(runs[s].release) \subseteq products
                       /\ runs[s].at > 2 => AllListed(runs[s].release)
                       /\ runs[s].at > 3 => LoginsOf[runs[s].release] \subseteq logins)'
      BY DEF Progress
  <2>1. CASE s = slot BY <2>1, <1>7 DEF Running
  <2>2. CASE s # slot
    <3> PICK q \in Releases : runs'[s] = runs[s] /\ Running(s) /\ runs[s].release = q
          BY <1>5, <1>8, <2>2, RunFields DEF RolloutInv
    <3>1. /\ runs[s].at > 1 => ProductsOf(q) \subseteq products
          /\ runs[s].at > 2 => AllListed(q)
          /\ runs[s].at > 3 => LoginsOf[q] \subseteq logins
          BY DEF RolloutInv, Progress
    <3>2. AllListed(q)' <=> AllListed(runs[s].release)' BY DEF AllListed
    <3> QED BY <3>1, <3>2, <1>3, <1>4
  <2> QED BY <2>1, <2>2
<1>11. Undisturbed'
  <2> SUFFICES ASSUME Running("deploy")', runs'["deploy"].alone
               PROVE  (runs["other"] = NoRun
                        /\ (runs["deploy"].at > 2 => AllFresh(runs["deploy"].release)))'
      BY DEF Undisturbed
  <2>1. slot = "deploy"
        BY <1>5, <1>6, <1>8 DEF Slots
  <2>2. runs'["deploy"].at = 1 /\ runs["deploy"].alone BY <2>1, <1>7 DEF Running
  <2>3. runs["other"] = NoRun BY <2>1, <2>2, <1>1 DEF RolloutInv, Undisturbed
  <2>4. runs'["other"] = NoRun BY <2>1, <2>3, <1>5 DEF Slots
  <2> QED BY <2>2, <2>4
<1>12. Deploying'
  <2>1. CASE slot = "deploy"
    <3>1. At("registry") /\ runs["deploy"].release = deploy.release
          BY <1>1, <2>1 DEF RolloutInv, Deploying
    <3>2. CASE runs'[slot] = NoRun
      <4>1. deploy' = NoDeploy BY <1>7, <2>1, <3>2, NoRunIsNone
      <4> QED BY <2>1, <3>2, <4>1 DEF Deploying, At, NoDeploy, Running
    <3>3. CASE runs'[slot] # NoRun
          BY <1>1, <1>7, <2>1, <3>1, <3>3 DEF RolloutInv, Deploying, At, Running
    <3> QED BY <3>2, <3>3
  <2>2. CASE slot = "other"
    <3>1. deploy' = deploy /\ runs'["deploy"] = runs["deploy"]
          BY <1>5, <1>7, <2>2 DEF Slots
    <3> QED BY <1>1, <3>1 DEF RolloutInv, Deploying, At, Running
  <2> QED BY <2>1, <2>2 DEF Slots
<1>13. completed' = None BY <1>1, NotCompleted
<1> QED BY <1>1, <1>3, <1>9, <1>10, <1>11, <1>12, <1>13, RegistryGrows
        DEF RolloutInv, AtRest, DeployedIsWhole

\* An execution succeeds: what its release lists is there.
LEMMA SyncedKeeps == ASSUME RolloutInv, NEW slot \in Slots, Synced(slot) PROVE RolloutInv'
<1>1. /\ Running(slot) /\ runs[slot].at = 4 /\ runs[slot].release \in Releases
      /\ runs \in [Slots -> RunType]
      /\ loose' = loose \ {runs[slot].release}
      /\ UNCHANGED <<registry, activity, dbVersion, serving, images, begun, green>>
      BY RunFields, ThreeInserts DEF RolloutInv, RolloutTyped, Synced
<1> PICK r \in Releases : r = runs[slot].release
    BY <1>1
<1>2. /\ ProductsOf(r) \subseteq products /\ AllListed(r) /\ LoginsOf[r] \subseteq logins
      BY <1>1 DEF RolloutInv, Progress
<1>3. /\ runs'[slot] = NoRun /\ \A s \in Slots : s # slot => runs'[s] = runs[s]
      /\ runs' \in [Slots -> RunType]
      BY <1>1 DEF Synced, RunType
<1>4. /\ UNCHANGED <<products, bots, logins>>
      /\ \A q \in Releases : AllListed(q)' <=> AllListed(q)
      BY <1>1 DEF registry, AllListed
<1>5. \A s \in Slots : Running(s)' <=> s # slot /\ Running(s)
      BY <1>3 DEF Running
<1>6. RolloutTyped'
  <2>1. deploy' \in DeployType BY DEF RolloutInv, RolloutTyped, Synced, DeployType
  <2> QED BY <1>1, <1>3, <2>1 DEF RolloutInv, RolloutTyped
<1>7. Progress'
  <2> SUFFICES ASSUME NEW s \in Slots, Running(s)'
               PROVE  (/\ runs[s].at > 1 => ProductsOf(runs[s].release) \subseteq products
                       /\ runs[s].at > 2 => AllListed(runs[s].release)
                       /\ runs[s].at > 3 => LoginsOf[runs[s].release] \subseteq logins)'
      BY DEF Progress
  <2> PICK q \in Releases : runs'[s] = runs[s] /\ Running(s) /\ runs[s].release = q
      BY <1>3, <1>5, RunFields DEF RolloutInv
  <2>1. /\ runs[s].at > 1 => ProductsOf(q) \subseteq products
        /\ runs[s].at > 2 => AllListed(q)
        /\ runs[s].at > 3 => LoginsOf[q] \subseteq logins
        BY DEF RolloutInv, Progress
  <2>2. AllListed(q)' <=> AllListed(runs[s].release)' BY DEF AllListed
  <2> QED BY <2>1, <2>2, <1>4
<1>8. Undisturbed'
  <2> SUFFICES ASSUME Running("deploy")', runs'["deploy"].alone
               PROVE  (runs["other"] = NoRun
                        /\ (runs["deploy"].at > 2 => AllFresh(runs["deploy"].release)))'
      BY DEF Undisturbed
  <2>1. slot = "other" /\ Running("deploy") /\ runs["deploy"].alone
        BY <1>3, <1>5 DEF Slots
  <2> QED BY <2>1, <1>1 DEF RolloutInv, Undisturbed, Running
<1>9. Deploying'
  <2>1. CASE slot = "deploy"
    <3>1. deploy' = NoDeploy BY <2>1 DEF Synced
    <3> QED BY <1>5, <2>1, <3>1 DEF Deploying, At, NoDeploy, Slots
  <2>2. CASE slot = "other"
    <3>1. deploy' = deploy /\ runs'["deploy"] = runs["deploy"]
          BY <1>3, <2>2 DEF Synced, Slots
    <3> QED BY <1>1, <3>1 DEF RolloutInv, Deploying, At, Running
  <2> QED BY <2>1, <2>2 DEF Slots
<1>10. GreenHaveSchema' /\ BotsHaveProducts'
       BY <1>1, <1>4 DEF RolloutInv, GreenHaveSchema, BotsHaveProducts
<1>11. ImagesListed'
  <2> SUFFICES ASSUME NEW j \in Indices PROVE (images[j] \in loose \/ AllListed(images[j]))'
      BY DEF ImagesListed
  <2> PICK q \in Releases : q = images[j] /\ q = images'[j] BY <1>1 DEF RolloutInv, RolloutTyped
  <2>1. q \in loose \/ AllListed(q) BY DEF RolloutInv, ImagesListed
  <2>2. q \in loose' \/ AllListed(q)' BY <1>1, <1>2, <1>4, <2>1
  <2>3. AllListed(q)' <=> AllListed(images[j])' BY DEF AllListed
  <2> QED BY <2>2, <2>3
<1>12. ActivityIsListed'
  <2> SUFFICES ASSUME NEW b \in activity, bots[b] = None
               PROVE  \E q \in loose' : b \in DOMAIN Registry[q]
      BY <1>1, <1>4 DEF ActivityIsListed
  <2> PICK q \in loose : b \in DOMAIN Registry[q] BY DEF RolloutInv, ActivityIsListed
  <2>1. q # r BY <1>2 DEF AllListed
  <2> QED BY <1>1, <2>1
<1>13. AtRest' /\ DeployedIsWhole'
  <2>1. CASE slot = "other"
    <3>1. completed' = None BY <1>1, <2>1, NotCompleted DEF Synced
    <3> QED BY <3>1 DEF AtRest, DeployedIsWhole
  <2>2. CASE slot = "deploy" /\ ~runs["deploy"].alone
    <3>1. completed' = None BY <2>2 DEF Synced
    <3> QED BY <3>1 DEF AtRest, DeployedIsWhole
  <2>3. CASE slot = "deploy" /\ runs["deploy"].alone
    <3>1. completed' = r /\ deploy' = NoDeploy /\ At("registry") /\ deploy.release = r
          BY <1>1, <2>3 DEF Synced, RolloutInv, Deploying
    <3>2. runs["other"] = NoRun /\ AllFresh(r)
          BY <1>1, <2>3 DEF RolloutInv, Undisturbed
    <3>3. serving = r /\ \A j \in Indices : images[j] = r
          BY <3>1 DEF RolloutInv, Deploying, At
    <3>4. \A s \in Slots : runs'[s] = NoRun
          BY <1>3, <2>3, <3>2 DEF Slots
    <3>5. AtRest' BY <3>1, <3>4, <1>2, <1>4 DEF AtRest
    <3>6. serving' = r /\ \A j \in DOMAIN images' : images'[j] = r
          BY <1>1, <3>3 DEF RolloutInv, RolloutTyped
    <3>7. \A pair \in ComparePairs(r) : pair \subseteq products'
          BY <1>2, <1>4 DEF ComparePairs
    <3>8. DeployedIsWhole'
      <4>1. (ComparePairs(serving))' = ComparePairs(r) BY <3>6 DEF ComparePairs, ProductsOf
      <4>2. /\ \A b \in DOMAIN Registry[r] : bots'[b] = Registry[r][b]
            /\ LoginsOf[r] \subseteq logins'
            BY <1>2, <1>4, <3>2 DEF AllFresh
      <4> QED BY <3>1, <3>6, <3>7, <4>1, <4>2 DEF DeployedIsWhole
    <3> QED BY <3>5, <3>8
  <2> QED BY <2>1, <2>2, <2>3 DEF Slots
<1> QED BY <1>6, <1>7, <1>8, <1>9, <1>10, <1>11, <1>12, <1>13 DEF RolloutInv

-----------------------------------------------------------------------------
(* The rest *)

LEMMA DeployFailsKeeps == ASSUME RolloutInv, DeployFails PROVE RolloutInv'
<1> USE DEF DeployFails
<1>1. /\ runs' \in [Slots -> RunType] /\ runs'["deploy"] = NoRun
      /\ runs'["other"] = IF Running("deploy") THEN runs["deploy"] ELSE runs["other"]
      BY DEF RolloutInv, RolloutTyped, Slots, RunType
<1>2. PICK s \in Slots : runs'["other"] = runs[s]
      BY <1>1 DEF Slots
<1>3. RolloutTyped' BY <1>1 DEF RolloutInv, RolloutTyped, DeployType
<1>4. Progress'
  <2> SUFFICES ASSUME NEW t \in Slots, Running(t)'
               PROVE  (/\ runs[t].at > 1 => ProductsOf(runs[t].release) \subseteq products
                       /\ runs[t].at > 2 => AllListed(runs[t].release)
                       /\ runs[t].at > 3 => LoginsOf[runs[t].release] \subseteq logins)'
      BY DEF Progress
  <2>1. runs'[t] = runs[s] /\ Running(s) BY <1>1, <1>2 DEF Running, Slots
  <2> PICK q \in Releases : runs[s].release = q
      BY <2>1, RunFields DEF RolloutInv
  <2>2. /\ runs[s].at > 1 => ProductsOf(q) \subseteq products
        /\ runs[s].at > 2 => AllListed(q)
        /\ runs[s].at > 3 => LoginsOf[q] \subseteq logins
        BY <2>1 DEF RolloutInv, Progress
  <2>3. AllListed(q) <=> AllListed(runs[t].release)' BY <2>1 DEF AllListed, registry
  <2> QED BY <2>1, <2>2, <2>3 DEF registry
<1>5. Undisturbed' BY <1>1 DEF Undisturbed, Running
<1>6. Deploying' BY <1>1 DEF Deploying, At, NoDeploy, Running
<1>7. BotsHaveProducts' BY DEF RolloutInv, BotsHaveProducts, registry
<1>8. ImagesListed' /\ ActivityIsListed' /\ GreenHaveSchema'
      BY RegistryGrows DEF registry
<1>9. AtRest' /\ DeployedIsWhole' BY NotCompleted DEF AtRest, DeployedIsWhole
<1> QED BY <1>3, <1>4, <1>5, <1>6, <1>7, <1>8, <1>9 DEF RolloutInv

LEMMA JobInsertsKeeps ==
  ASSUME RolloutInv, NEW j \in DOMAIN Jobs, NEW b \in ListedBots, JobInserts(j, b) PROVE RolloutInv'
<1> USE DEF JobInserts
<1>1. images[j] \in Releases /\ j \in Indices
      BY RolloutAssumption DEF RolloutInv, RolloutTyped, Indices
<1>2. RolloutTyped' BY DEF RolloutInv, RolloutTyped
<1>3. Deploying' BY DEF RolloutInv, Deploying, At, Running
<1>4. ImagesListed' /\ GreenHaveSchema'
      BY DEF RolloutInv, ImagesListed, GreenHaveSchema, AllListed, registry
<1>5. ActivityIsListed'
  <2>1. bots[b] = None => images[j] \in loose
        BY <1>1 DEF RolloutInv, ImagesListed, AllListed
  <2> QED BY <2>1 DEF RolloutInv, ActivityIsListed, registry
<1>6. AtRest' BY DEF RolloutInv, AtRest, registry
<1>7. DeployedIsWhole' BY DEF RolloutInv, DeployedIsWhole, registry, ComparePairs
<1> QED BY <1>2, <1>3, <1>4, <1>5, <1>6, <1>7, RegistryStays DEF RolloutInv

LEMMA VisitKeeps == ASSUME RolloutInv, Visit PROVE RolloutInv'
<1> USE DEF Visit, PageShows
<1>1. dbVersion' \in Nat /\ dbVersion' >= dbVersion /\ dbVersion \in Nat
      BY RolloutAssumption DEF RolloutInv, RolloutTyped
<1>2. RolloutTyped' BY <1>1 DEF RolloutInv, RolloutTyped
<1>3. Deploying'
  <2>1. At("warmup") => SchemaOf[deploy.release] \in Nat
        BY NotIdle, RolloutAssumption DEF RolloutInv, RolloutTyped, At, Steps
  <2> QED BY <1>1, <2>1 DEF RolloutInv, Deploying, At, Running
<1>4. GreenHaveSchema'
  <2>1. \A q \in green : SchemaOf[q] \in Nat BY RolloutAssumption DEF RolloutInv, RolloutTyped
  <2> QED BY <2>1, <1>1 DEF RolloutInv, GreenHaveSchema
<1>5. ImagesListed' /\ ActivityIsListed'
      BY DEF RolloutInv, ImagesListed, ActivityIsListed, AllListed, registry
<1>6. AtRest' BY DEF RolloutInv, AtRest, registry
<1>7. DeployedIsWhole' BY DEF RolloutInv, DeployedIsWhole, registry, ComparePairs
<1> QED BY <1>2, <1>3, <1>4, <1>5, <1>6, <1>7, RegistryStays DEF RolloutInv

LEMMA StutterKeeps == ASSUME RolloutInv, UNCHANGED rolloutVars PROVE RolloutInv'
<1> USE DEF rolloutVars
<1>1. RolloutTyped' /\ Deploying' /\ AtRest'
      BY DEF RolloutInv, RolloutTyped, Deploying, At, Running, AtRest, registry
<1>2. ImagesListed' /\ ActivityIsListed' /\ GreenHaveSchema' /\ DeployedIsWhole'
      BY DEF RolloutInv, ImagesListed, ActivityIsListed, GreenHaveSchema, DeployedIsWhole,
             AllListed, ComparePairs, registry
<1>3. Progress' /\ Undisturbed' /\ BotsHaveProducts' BY RegistryStays DEF registry
<1> QED BY <1>1, <1>2, <1>3 DEF RolloutInv

\* However deploys fail, and whatever executions of sync-bots they leave behind: no bot is in
\* the registry without its product, a deploy that succeeded left app, jobs and registry of one
\* release, what jobs wrote is listed once a sync-bots succeeds, and a clean warm-up vouches
\* for the schema.
THEOREM RolloutSound == RolloutSpec => []RolloutIsSound
<1>1. RolloutInit => RolloutInv BY InitHolds
<1>2. RolloutInv /\ [RolloutNext]_rolloutVars => RolloutInv'
  <2> SUFFICES ASSUME RolloutInv, [RolloutNext]_rolloutVars PROVE RolloutInv' OBVIOUS
  <2>1. CASE UNCHANGED rolloutVars BY <2>1, StutterKeeps
  <2>2. CASE \E r \in Releases : DeployApp(r) \/ OperatorSyncs(r)
        BY <2>2, DeployAppKeeps, OperatorSyncsKeeps
  <2>3. CASE \E look \in {"fine", "banner", "error"} : WarmUp(look)
        BY <2>3, WarmUpKeeps
  <2>4. CASE WarmedUp \/ SwitchTraffic \/ UpdateImage \/ ExecuteSyncBots \/ DeployFails
        BY <2>4, WarmedUpKeeps, SwitchTrafficKeeps, UpdateImageKeeps, ExecuteSyncBotsKeeps,
           DeployFailsKeeps
  <2>5. CASE \E slot \in Slots : InsertRows(slot) \/ TaskFails(slot) \/ Synced(slot)
        BY <2>5, InsertRowsKeeps, TaskFailsKeeps, SyncedKeeps
  <2>6. CASE \E j \in DOMAIN Jobs, b \in ListedBots : JobInserts(j, b)
        BY <2>6, JobInsertsKeeps
  <2>7. CASE Visit BY <2>7, VisitKeeps
  <2> QED BY <2>1, <2>2, <2>3, <2>4, <2>5, <2>6, <2>7 DEF RolloutNext
<1>3. RolloutInv => RolloutIsSound
      BY DEF RolloutInv, RolloutIsSound, GreenIsMigrated, GreenHaveSchema
<1> QED BY <1>1, <1>2, <1>3, PTL DEF RolloutSpec
-----------------------------------------------------------------------------
(* The lists of proxies *)

\* Of a list of entries as many are kept as are not blank.
LEMMA KeptEntries ==
  ASSUME NEW Entry, NEW entries \in Seq(Entry)
  PROVE  /\ ParseProxyUrls(entries) \in Seq(Entry)
         /\ Len(ParseProxyUrls(entries)) = Cardinality({i \in DOMAIN entries : entries[i] # Blank})
<1> DEFINE L == Len(entries)
           After(f, n) == IF n = 0 THEN <<>>
                          ELSE IF entries[n] # Blank THEN Append(f[n - 1], entries[n])
                          ELSE f[n - 1]
           Counts(n) == {i \in 1 .. n : entries[i] # Blank}
<1>1. L \in Nat /\ DOMAIN entries = 1 .. L
  OBVIOUS
<1>2. \E f : f = [n \in 0 .. L |-> After(f, n)]
  <2> DEFINE G == {m \in 0 .. L : \E f : f = [n \in 0 .. m |-> After(f, n)]}
  <2>1. 0 \in G
    <3> DEFINE f == [n \in 0 .. 0 |-> <<>>]
    <3>1. f = [n \in 0 .. 0 |-> After(f, n)]
      OBVIOUS
    <3> HIDE DEF f, After
    <3> QED BY <1>1, <3>1
  <2>2. ASSUME NEW k \in 1 .. L, k - 1 \in G PROVE k \in G
    <3>1. PICK g : g = [n \in 0 .. (k - 1) |-> After(g, n)]
      BY <2>2
    <3> DEFINE f == [n \in 0 .. k |-> IF n = k THEN After(g, k) ELSE g[n]]
    <3>2. \A n \in 0 .. (k - 1) : n \in 0 .. k /\ n # k /\ f[n] = g[n]
      BY <1>1
    <3>3. ASSUME NEW n \in 0 .. k PROVE f[n] = After(f, n)
      <4>1. n # 0 => n - 1 \in 0 .. (k - 1)
        BY <1>1
      <4>2. n # 0 => f[n - 1] = g[n - 1]
        BY <3>2, <4>1
      <4>3. f[n] = IF n = k THEN After(g, k) ELSE g[n]
        OBVIOUS
      <4>4. n # k => n \in 0 .. (k - 1)
        BY <1>1
      <4> HIDE DEF f
      <4>5. After(f, n) = After(g, n)
        BY <4>2
      <4> HIDE DEF After
      <4> QED BY <3>1, <4>3, <4>4, <4>5
    <3>4. f = [n \in 0 .. k |-> After(f, n)]
      <4>1. f = [n \in 0 .. k |-> f[n]]
        OBVIOUS
      <4> HIDE DEF f, After
      <4> QED BY <3>3, <4>1
    <3>5. k \in 0 .. L
      BY <1>1
    <3> HIDE DEF f, After
    <3> QED BY <3>4, <3>5
  <2>3. 0 .. L \subseteq G
    <3> HIDE DEF G
    <3> QED BY <1>1, <2>1, <2>2, UpTo
  <2>4. L \in G
    <3> HIDE DEF G
    <3> QED BY <1>1, <2>3
  <2> QED BY <2>4
<1> DEFINE kept == CHOOSE f : f = [n \in 0 .. L |-> After(f, n)]
<1>3. kept = [n \in 0 .. L |-> After(kept, n)]
  BY <1>2
<1>4. ParseProxyUrls(entries) = kept[L]
  BY DEF ParseProxyUrls
<1> HIDE DEF kept
<1> DEFINE G == {m \in 0 .. L : /\ kept[m] \in Seq(Entry) /\ IsFiniteSet(Counts(m))
                                /\ Len(kept[m]) = Cardinality(Counts(m))}
<1>5. 0 \in G
  <2>1. kept[0] = <<>>
    BY <1>1, <1>3
  <2>2. Counts(0) = {}
    OBVIOUS
  <2> HIDE DEF Counts
  <2>3. kept[0] \in Seq(Entry) /\ Len(kept[0]) = 0
    BY <2>1
  <2>4. IsFiniteSet(Counts(0)) /\ Cardinality(Counts(0)) = 0
    BY <2>2, FS_EmptySet
  <2> QED BY <1>1, <2>3, <2>4
<1>6. ASSUME NEW k \in 1 .. L, k - 1 \in G PROVE k \in G
  <2>1. k - 1 \in 0 .. L /\ k \in 0 .. L /\ k # 0
    BY <1>1
  <2>2. kept[k] = IF entries[k] # Blank THEN Append(kept[k - 1], entries[k]) ELSE kept[k - 1]
    BY <1>3, <2>1
  <2>3. Counts(k) = IF entries[k] # Blank THEN Counts(k - 1) \cup {k} ELSE Counts(k - 1)
    BY <1>1
  <2>4. k \notin Counts(k - 1)
    BY <1>1
  <2> HIDE DEF Counts
  <2>5. /\ kept[k - 1] \in Seq(Entry) /\ IsFiniteSet(Counts(k - 1))
        /\ Len(kept[k - 1]) = Cardinality(Counts(k - 1))
    BY <1>6
  <2>6. CASE entries[k] # Blank
    <3>1. /\ IsFiniteSet(Counts(k)) /\ Cardinality(Counts(k)) = Cardinality(Counts(k - 1)) + 1
      <4>1. Counts(k) = Counts(k - 1) \cup {k}
        BY <2>3, <2>6
      <4> QED BY <2>4, <2>5, <4>1, FS_AddElement
    <3>2. kept[k] \in Seq(Entry) /\ Len(kept[k]) = Len(kept[k - 1]) + 1
      <4>1. entries[k] \in Entry
        BY <1>1
      <4> QED BY <2>2, <2>5, <2>6, <4>1
    <3> QED BY <2>1, <2>5, <3>1, <3>2
  <2>7. CASE entries[k] = Blank
    BY <2>1, <2>2, <2>3, <2>5, <2>7
  <2> QED BY <2>6, <2>7
<1>7. 0 .. L \subseteq G
  <2> HIDE DEF G
  <2> QED BY <1>1, <1>5, <1>6, UpTo
<1>8. L \in G
  <2> HIDE DEF G
  <2> QED BY <1>1, <1>7
<1>9. {i \in DOMAIN entries : entries[i] # Blank} = Counts(L)
  BY <1>1
<1> QED BY <1>4, <1>8, <1>9

-----------------------------------------------------------------------------
(* Remainders *)

\* The division of k by m up to twice m.
LEMMA SmallRemainders ==
  ASSUME NEW m \in Nat \ {0}, NEW k \in Nat
  PROVE  /\ k < m => k % m = k
         /\ m <= k /\ k < 2 * m => k % m = k - m
         /\ k = 2 * m => k % m = 0
OBVIOUS

\* How many of the numbers from 0 to n, which is at most twice m, leave the remainder p.
LEMMA RemainderCount ==
  ASSUME NEW m \in Nat \ {0}, NEW n \in 0 .. 2 * m, NEW p \in 0 .. m - 1
  PROVE  Cardinality({k \in 0 .. n : k % m = p}) =
           IF n < p THEN 0 ELSE IF n < p + m THEN 1 ELSE IF n < p + 2 * m THEN 2 ELSE 3
<1> DEFINE S == {k \in 0 .. n : k % m = p}
<1>1. ASSUME NEW k \in 0 .. n PROVE k \in S <=> k = p \/ k = p + m \/ k = p + 2 * m
  <2>1. k \in Nat
    OBVIOUS
  <2>2. CASE k < m
    <3>1. k % m = k
      BY <2>1, <2>2, SmallRemainders
    <3> QED BY <2>2, <3>1
  <2>3. CASE m <= k /\ k < 2 * m
    <3>1. k % m = k - m
      BY <2>1, <2>3, SmallRemainders
    <3> QED BY <2>3, <3>1
  <2>4. CASE k = 2 * m
    <3>1. k % m = 0
      BY <2>1, <2>4, SmallRemainders
    <3> QED BY <2>4, <3>1
  <2> QED BY <2>1, <2>2, <2>3, <2>4
<1>2. S \subseteq 0 .. n
  OBVIOUS
<1>3. p \in Nat /\ n \in Nat /\ p < m
  OBVIOUS
<1> HIDE DEF S
<1> SUFFICES Cardinality(S) =
               IF n < p THEN 0 ELSE IF n < p + m THEN 1 ELSE IF n < p + 2 * m THEN 2 ELSE 3
  BY DEF S
<1>4. CASE n < p
  <2>1. \A k \in 0 .. n : k \notin S
    BY <1>1, <1>3, <1>4
  <2>2. S = {}
    BY <1>2, <2>1
  <2>3. Cardinality(S) = 0
    BY <2>2, FS_EmptySet
  <2> QED BY <1>4, <2>3
<1>5. CASE p <= n /\ n < p + m
  <2>1. p \in 0 .. n /\ \A k \in 0 .. n : k \in S <=> k = p
    BY <1>1, <1>3, <1>5
  <2>2. S = {p}
    BY <1>2, <2>1
  <2>3. Cardinality(S) = 1
    BY <2>2, FS_Singleton
  <2> QED BY <1>3, <1>5, <2>3
<1> DEFINE Two == {p} \cup {p + m}
<1>6. IsFiniteSet(Two) /\ Cardinality(Two) = 2
  <2>1. p + m \notin {p}
    OBVIOUS
  <2>2. IsFiniteSet({p}) /\ Cardinality({p}) = 1
    BY FS_Singleton
  <2> QED BY <2>1, <2>2, FS_AddElement
<1>7. CASE p + m <= n /\ n < p + 2 * m
  <2>1. p \in 0 .. n /\ p + m \in 0 .. n /\ \A k \in 0 .. n : k \in S <=> k = p \/ k = p + m
    BY <1>1, <1>3, <1>7
  <2>2. S = Two
    BY <1>2, <2>1
  <2> HIDE DEF Two
  <2>3. Cardinality(S) = 2
    BY <1>6, <2>2
  <2> QED BY <1>3, <1>7, <2>3
<1>8. CASE p + 2 * m <= n
  <2>1. p \in 0 .. n /\ p + m \in 0 .. n /\ p + 2 * m \in 0 .. n
    BY <1>3, <1>8
  <2>2. S = Two \cup {p + 2 * m}
    BY <1>1, <1>2, <2>1
  <2>3. p + 2 * m \notin Two
    OBVIOUS
  <2> HIDE DEF Two
  <2>4. Cardinality(S) = 3
    BY <1>6, <2>2, <2>3, FS_AddElement
  <2> QED BY <1>3, <1>8, <2>4
<1> QED BY <1>3, <1>4, <1>5, <1>7, <1>8
-----------------------------------------------------------------------------
(* Tasks and sessions *)

TaskType ==
  [state : {"waiting", "working", "done", "failed"}, tries : Nat, total : Nat]

\* A task that has started knows how many tokens it found, and works only below that number.
TaskOK(i, task) ==
  /\ task \in TaskType
  /\ task.tries > 0 => task.total > 0
  /\ task.state \in {"working", "done"} => task.tries > 0 /\ i < task.total

\* A session has a worker, and with proxies no more workers than paths.
SessionOK ==
  session # NoSession =>
    /\ session.workers \in Nat \ {0}
    /\ Len(session.urls) \in Nat
    /\ session.urls # <<>> => session.workers <= Len(session.urls) + 1

FleetTyped ==
  /\ configured \in Nat \ {0} /\ secret \in Nat \ {0} /\ taskCount \in Nat \ {0}
  /\ proxies \in ProxyLists
  /\ tasks = <<>> \/ \E n \in Nat \ {0} : tasks \in [0 .. n - 1 -> TaskType]
  /\ \A i \in DOMAIN tasks : TaskOK(i, tasks[i])
  /\ SessionOK

\* workers.sh starts at most as many workers as there are paths, which the pinned fetch of each
\* counts in its own way.
LEMMA SessionStarts ==
  ASSUME FleetTyped, CmdStart
  PROVE  SessionOK'
<1> DEFINE urls == ParseProxyUrls(proxies)
           count == Cardinality({i \in DOMAIN proxies : proxies[i] # Blank})
           pathways == PathwayCount(proxies)
           workers == IF pathways > 0 /\ secret > pathways THEN pathways ELSE secret
<1>1. urls \in Seq(STRING) /\ Len(urls) = count
  <2>1. proxies \in Seq(STRING)
    BY FleetAssumption DEF FleetTyped
  <2> QED BY <2>1, KeptEntries
<1>2. Len(urls) \in Nat /\ (urls # <<>> => Len(urls) > 0)
  BY <1>1
<1>3. pathways = IF count > 0 THEN count + 1 ELSE 0
  BY DEF PathwayCount
<1>4. session' = [workers |-> workers, urls |-> urls]
  BY DEF CmdStart
<1>5. session'.workers = workers /\ session'.urls = urls
  BY <1>4
<1>6. secret \in Nat \ {0}
  BY DEF FleetTyped
<1> HIDE DEF urls, count, pathways
<1>7. workers \in Nat \ {0} /\ (urls # <<>> => workers <= Len(urls) + 1)
  BY <1>1, <1>2, <1>3, <1>6
<1> QED BY <1>2, <1>5, <1>7 DEF SessionOK, NoSession

\* A task changes what it is in one of these ways.
LEMMA TaskSet ==
  ASSUME FleetTyped, NEW i \in DOMAIN tasks, NEW task, SetTask(i, task), TaskOK(i, task)
  PROVE  FleetTyped'
<1>1. PICK n \in Nat \ {0} : tasks \in [0 .. n - 1 -> TaskType]
  <2>1. tasks # <<>>
    OBVIOUS
  <2> QED BY <2>1 DEF FleetTyped
<1>2. tasks' = [tasks EXCEPT ![i] = task] /\ task \in TaskType
  BY DEF SetTask, TaskOK
<1>3. tasks' \in [0 .. n - 1 -> TaskType] /\ DOMAIN tasks' = DOMAIN tasks
  BY <1>1, <1>2
<1>4. ASSUME NEW j \in DOMAIN tasks' PROVE TaskOK(j, tasks'[j])
  <2>1. CASE j = i
    <3>1. tasks'[j] = task
      BY <1>1, <1>2, <2>1
    <3> QED BY <2>1, <3>1
  <2>2. CASE j # i
    <3>1. j \in DOMAIN tasks /\ tasks'[j] = tasks[j]
      BY <1>1, <1>2, <1>3, <2>2
    <3> QED BY <3>1 DEF FleetTyped
  <2> QED BY <2>1, <2>2
<1>5. SessionOK'
  BY DEF SetTask, SessionOK, FleetTyped
<1>6. \A j \in DOMAIN tasks' : TaskOK(j, tasks'[j])
  BY <1>4
<1>7. tasks' = <<>> \/ \E k \in Nat \ {0} : tasks' \in [0 .. k - 1 -> TaskType]
  BY <1>3
<1> QED BY <1>5, <1>6, <1>7 DEF SetTask, FleetTyped, TaskOK

LEMMA RetriedOK ==
  ASSUME NEW i, NEW task \in TaskType, task.tries > 0 => task.total > 0
  PROVE  TaskOK(i, Retried(task))
<1> DEFINE waiting == [task EXCEPT !.state = "waiting"]
           failed == [task EXCEPT !.state = "failed"]
<1>1. Retried(task) \in {waiting, failed}
  BY DEF Retried
<1>2. TaskOK(i, waiting)
  BY DEF TaskOK, TaskType
<1>3. TaskOK(i, failed)
  BY DEF TaskOK, TaskType
<1> HIDE DEF waiting, failed
<1> QED BY <1>1, <1>2, <1>3

LEMMA FleetStep == FleetTyped /\ [FleetNext]_fleetVars => FleetTyped'
<1> SUFFICES ASSUME FleetTyped, [FleetNext]_fleetVars PROVE FleetTyped'
  OBVIOUS
<1>1. ASSUME NEW n \in 1 .. MaxTokens, Configure(n) PROVE FleetTyped'
  <2>1. n \in Nat \ {0}
    BY FleetAssumption
  <2> QED BY <1>1, <2>1 DEF Configure, FleetTyped, TaskOK, SessionOK
<1>2. CASE UpdateSecret \/ UpdateJob
  BY <1>2 DEF UpdateSecret, UpdateJob, FleetTyped, TaskOK, SessionOK
<1>3. CASE ExecuteJob
  <2>1. tasks' = [i \in 0 .. taskCount - 1 |-> Waiting] /\ taskCount \in Nat \ {0}
    BY <1>3 DEF ExecuteJob, FleetTyped
  <2>2. Waiting \in TaskType /\ \A i : TaskOK(i, Waiting)
    BY DEF Waiting, TaskOK, TaskType
  <2>3. tasks' \in [0 .. taskCount - 1 -> TaskType]
    BY <2>1, <2>2
  <2>4. \A i \in DOMAIN tasks' : TaskOK(i, tasks'[i])
    BY <2>1, <2>2
  <2>5. SessionOK'
    BY <1>3 DEF ExecuteJob, SessionOK, FleetTyped
  <2>6. \E n \in Nat \ {0} : tasks' \in [0 .. n - 1 -> TaskType]
    BY <2>1, <2>3
  <2> QED BY <1>3, <2>4, <2>5, <2>6 DEF ExecuteJob, FleetTyped, TaskOK
<1>4. CASE ExecutionEnds
  <2>1. tasks' = <<>> /\ DOMAIN tasks' = {}
    BY <1>4 DEF ExecutionEnds
  <2> QED BY <1>4, <2>1 DEF ExecutionEnds, FleetTyped, SessionOK
<1>5. CASE CmdStart
  <2>1. SessionOK'
    BY <1>5, SessionStarts
  <2> QED BY <1>5, <2>1 DEF CmdStart, FleetTyped, TaskOK
<1>6. CASE CmdStop
  BY <1>6 DEF CmdStop, FleetTyped, TaskOK, SessionOK
<1>7. ASSUME NEW entries \in ProxyLists, SetProxies(entries) PROVE FleetTyped'
  BY <1>7 DEF SetProxies, FleetTyped, TaskOK, SessionOK
<1>8. ASSUME NEW i \in DOMAIN tasks, TaskStarts(i) PROVE FleetTyped'
  <2> DEFINE task == [tasks[i] EXCEPT !.tries = @ + 1, !.total = secret]
             working == [task EXCEPT !.state = "working"]
  <2>1. tasks[i] \in TaskType /\ secret \in Nat \ {0}
    BY DEF FleetTyped, TaskOK
  <2>2. task \in TaskType /\ task.tries > 0 /\ task.total = secret
    <3>1. tasks[i].tries \in Nat
      BY <2>1 DEF TaskType
    <3> DEFINE counted == [tasks[i] EXCEPT !.tries = tasks[i].tries + 1]
    <3>2. task = [counted EXCEPT !.total = secret]
      OBVIOUS
    <3>3. counted \in TaskType /\ counted.tries > 0
      BY <2>1, <3>1 DEF TaskType
    <3> HIDE DEF task, counted
    <3> QED BY <2>1, <3>2, <3>3 DEF TaskType
  <2> HIDE DEF task
  <2>3. CASE i < secret
    <3>1. SetTask(i, working)
      BY <1>8, <2>3 DEF TaskStarts, task
    <3>2. TaskOK(i, working)
      BY <2>1, <2>2, <2>3 DEF TaskOK, TaskType
    <3> QED BY <3>1, <3>2, TaskSet
  <2>4. CASE ~(i < secret)
    <3>1. SetTask(i, Retried(task))
      BY <1>8, <2>4 DEF TaskStarts, task
    <3>2. TaskOK(i, Retried(task))
      BY <2>1, <2>2, RetriedOK
    <3> QED BY <3>1, <3>2, TaskSet
  <2> QED BY <2>3, <2>4
<1>9. ASSUME NEW i \in DOMAIN tasks, TaskDies(i) \/ TaskEnds(i) PROVE FleetTyped'
  <2>1. TaskOK(i, tasks[i]) /\ tasks[i].state = "working" /\ tasks[i] \in TaskType
    BY <1>9 DEF FleetTyped, TaskOK, TaskDies, TaskEnds
  <2>2. CASE TaskDies(i)
    <3>1. TaskOK(i, Retried(tasks[i]))
      BY <2>1, RetriedOK DEF TaskOK
    <3> QED BY <2>2, <3>1, TaskSet DEF TaskDies
  <2>3. CASE TaskEnds(i)
    <3> DEFINE done == [tasks[i] EXCEPT !.state = "done"]
    <3>1. TaskOK(i, done)
      BY <2>1 DEF TaskOK, TaskType
    <3>2. SetTask(i, done)
      BY <2>3 DEF TaskEnds
    <3> HIDE DEF done
    <3> QED BY <3>1, <3>2, TaskSet
  <2> QED BY <1>9, <2>2, <2>3
<1>10. CASE UNCHANGED fleetVars
  BY <1>10 DEF fleetVars, FleetTyped, TaskOK, SessionOK
<1> QED BY <1>1, <1>2, <1>3, <1>4, <1>5, <1>6, <1>7, <1>8, <1>9, <1>10 DEF FleetNext

-----------------------------------------------------------------------------
(* Everything has one who does it *)

\* Of the tasks that found the same number of tokens, the one whose index is the remainder has
\* the item.
LEMMA TasksCovered == FleetTyped => TasksCover
<1> SUFFICES ASSUME FleetTyped PROVE TasksCover
  OBVIOUS
<1>2. \A i \in DOMAIN tasks : TaskOK(i, tasks[i])
  BY DEF FleetTyped
<1>3. PICK m \in Nat : DOMAIN tasks = 0 .. m - 1
  <2>1. CASE tasks = <<>>
    <3>1. DOMAIN tasks = 0 .. 0 - 1
      BY <2>1
    <3> QED BY <3>1
  <2>2. ASSUME NEW n \in Nat \ {0}, tasks \in [0 .. n - 1 -> TaskType]
        PROVE  \E m \in Nat : DOMAIN tasks = 0 .. m - 1
    BY <2>2
  <2>3. tasks = <<>> \/ \E n \in Nat \ {0} : tasks \in [0 .. n - 1 -> TaskType]
    BY DEF FleetTyped
  <2> QED BY <2>1, <2>2, <2>3
<1> DEFINE looked == {i \in DOMAIN tasks : tasks[i].tries > 0}
           totals == {tasks[i].total : i \in looked}
<1>1. SUFFICES ASSUME Cardinality(totals) = 1, NEW total, total = CHOOSE n \in totals : TRUE
      PROVE  /\ \A i \in looked : tasks[i].state \in {"working", "done"} => i < total
             /\ \A h \in ItemHashes : Cardinality({i \in looked : Claims(i, h)}) <= 1
             /\ (\A i \in DOMAIN tasks : tasks[i].state = "done" \/ i >= total)
                  /\ Cardinality(DOMAIN tasks) >= total
                  => \A h \in ItemHashes : \E i \in looked : Claims(i, h)
  BY DEF TasksCover
<1>4. IsFiniteSet(looked)
  <2>1. IsFiniteSet(0 .. m - 1)
    BY FS_Interval
  <2> QED BY <1>3, <2>1, FS_Subset
<1>5. IsFiniteSet(totals)
  <2> DEFINE f == [i \in looked |-> tasks[i].total]
  <2>1. totals = {f[i] : i \in looked}
    OBVIOUS
  <2> HIDE DEF f, looked, totals
  <2> QED BY <1>4, <2>1, FiniteRange
<1>6. totals = {total}
  <2> HIDE DEF totals
  <2>1. PICK x : totals = {x}
    BY <1>1, <1>5, FS_Singleton
  <2> QED BY <1>1, <2>1
<1>7. \A i \in looked : tasks[i].total = total
  BY <1>6
<1>8. total \in Nat \ {0}
  <2>1. PICK i \in looked : TRUE
    BY <1>6
  <2>2. tasks[i].total \in Nat /\ tasks[i].tries > 0 => tasks[i].total > 0
    BY <1>2, <2>1 DEF TaskOK, TaskType
  <2>3. tasks[i] \in TaskType
    BY <1>2, <2>1 DEF TaskOK
  <2> QED BY <1>7, <2>1, <2>2, <2>3 DEF TaskType
<1>9. \A h \in ItemHashes : h \in Nat /\ h % total \in 0 .. total - 1
  BY <1>8, FleetAssumption
<1>10. ASSUME NEW h \in ItemHashes PROVE Cardinality({i \in looked : Claims(i, h)}) <= 1
  <2>1. {i \in looked : Claims(i, h)} \subseteq {h % total}
    BY <1>7 DEF Claims
  <2> QED BY <2>1, OneOrNone
<1>11. ASSUME \A i \in DOMAIN tasks : tasks[i].state = "done" \/ i >= total,
              Cardinality(DOMAIN tasks) >= total, NEW h \in ItemHashes
       PROVE  \E i \in looked : Claims(i, h)
  <2>1. Cardinality(DOMAIN tasks) = m
    BY <1>3, FS_Interval
  <2>2. h % total \in DOMAIN tasks /\ ~(h % total >= total)
    BY <1>3, <1>8, <1>9, <1>11, <2>1
  <2>3. tasks[h % total].state = "done"
    BY <1>11, <2>2
  <2>4. h % total \in looked
    BY <1>2, <2>2, <2>3 DEF TaskOK
  <2> QED BY <1>7, <2>3, <2>4 DEF Claims
<1>12. ASSUME NEW i \in looked, tasks[i].state \in {"working", "done"} PROVE i < total
  BY <1>2, <1>7, <1>12 DEF TaskOK
<1> QED BY <1>10, <1>11, <1>12

\* The same of the workers of a session, and of the paths they are pinned to or rotate over.
LEMMA WorkersCovered == FleetTyped => WorkersCover
<1> SUFFICES ASSUME FleetTyped, session # NoSession
             PROVE  LET workers == 0 .. session.workers - 1
                        paths == 0 .. Len(session.urls)
                    IN /\ \A h \in ItemHashes :
                            Cardinality({w \in workers : h % session.workers = w}) = 1
                       /\ session.urls # <<>> =>
                            \A p \in paths :
                              Cardinality({w \in workers : PinnedIndex(session.urls, w) = p}) <= 1
                       /\ \A p, q \in paths, n \in 0 .. 2 * Len(session.urls) + 2 :
                            LET uses(path) == Cardinality({k \in 0 .. n :
                                                RotatedIndex(session.urls, k) = path})
                            IN uses(p) - uses(q) \in {-1, 0, 1}
  BY DEF WorkersCover
<1> DEFINE W == session.workers
           L == Len(session.urls)
<1>1. W \in Nat \ {0} /\ L \in Nat /\ (session.urls # <<>> => W <= L + 1)
  BY DEF FleetTyped, SessionOK
<1>2. ASSUME NEW h \in ItemHashes PROVE Cardinality({w \in 0 .. W - 1 : h % W = w}) = 1
  <2>1. h \in Nat
    BY FleetAssumption
  <2> HIDE DEF W
  <2>2. h % W \in 0 .. W - 1
    BY <1>1, <2>1
  <2> DEFINE S == {w \in 0 .. W - 1 : h % W = w}
  <2>3. S \subseteq {h % W} /\ h % W \in S
    BY <2>2
  <2> HIDE DEF S
  <2>4. Cardinality(S) = 1
    BY <2>3, OneOrNone
  <2> QED BY <2>4 DEF S
<1>3. ASSUME session.urls # <<>>, NEW p \in 0 .. L
      PROVE  Cardinality({w \in 0 .. W - 1 : PinnedIndex(session.urls, w) = p}) <= 1
  <2> DEFINE S == {w \in 0 .. W - 1 : PinnedIndex(session.urls, w) = p}
  <2>1. ASSUME NEW w \in S PROVE w = p
    <3>1. w \in 0 .. W - 1 /\ w % (L + 1) = p
      BY <1>3, <2>1 DEF PinnedIndex
    <3> HIDE DEF S, W, L
    <3>2. w \in Nat /\ w < L + 1 /\ L + 1 \in Nat \ {0}
      BY <1>1, <1>3, <3>1
    <3>3. w % (L + 1) = w
      BY <3>2, SmallRemainders
    <3> QED BY <3>1, <3>3
  <2>2. S \subseteq {p}
    BY <2>1
  <2> QED BY <2>2, OneOrNone
<1>4. ASSUME NEW p \in 0 .. L, NEW q \in 0 .. L, NEW n \in 0 .. 2 * L + 2
      PROVE  Cardinality({k \in 0 .. n : RotatedIndex(session.urls, k) = p})
               - Cardinality({k \in 0 .. n : RotatedIndex(session.urls, k) = q}) \in {-1, 0, 1}
  <2> DEFINE uses(path) == Cardinality({k \in 0 .. n : k % (L + 1) = path})
             many(path) == IF n < path THEN 0 ELSE IF n < path + (L + 1) THEN 1
                           ELSE IF n < path + 2 * (L + 1) THEN 2 ELSE 3
  <2>1. uses(p) = many(p) /\ uses(q) = many(q)
    <3> HIDE DEF L
    <3>1. L + 1 \in Nat \ {0} /\ n \in 0 .. 2 * (L + 1) /\ p \in 0 .. (L + 1) - 1
          /\ q \in 0 .. (L + 1) - 1
      BY <1>1
    <3> DEFINE M == L + 1
    <3>2. M \in Nat \ {0} /\ n \in 0 .. 2 * M /\ p \in 0 .. M - 1 /\ q \in 0 .. M - 1
      BY <3>1
    <3> HIDE DEF M
    <3>3. /\ Cardinality({k \in 0 .. n : k % M = p}) =
               IF n < p THEN 0 ELSE IF n < p + M THEN 1 ELSE IF n < p + 2 * M THEN 2 ELSE 3
          /\ Cardinality({k \in 0 .. n : k % M = q}) =
               IF n < q THEN 0 ELSE IF n < q + M THEN 1 ELSE IF n < q + 2 * M THEN 2 ELSE 3
      BY <3>2, RemainderCount
    <3> QED BY <3>3 DEF M
  <2>2. many(p) - many(q) \in {-1, 0, 1}
    <3> HIDE DEF L
    <3> QED BY <1>1
  <2>3. uses(p) - uses(q) \in {-1, 0, 1}
    <3> HIDE DEF uses, many
    <3> QED BY <2>1, <2>2
  <2> QED BY <2>3 DEF RotatedIndex
<1> QED BY <1>2, <1>3, <1>4

\* Every item is somebody's and nobody else's: whatever tokens and proxies the operator
\* configures between the updates of the secret and the job, however often tasks are started
\* again, and however many workers a VM is given.
THEOREM DividedWithoutGaps == FleetSpec => []WorkIsDivided
<1>1. FleetInit => FleetTyped
  <2> SUFFICES ASSUME FleetInit PROVE FleetTyped
    OBVIOUS
  <2>1. tasks = <<>> /\ DOMAIN tasks = {}
    BY DEF FleetInit
  <2> QED BY <2>1 DEF FleetInit, FleetTyped, SessionOK
<1>2. FleetTyped => WorkIsDivided
  BY TasksCovered, WorkersCovered DEF WorkIsDivided
<1> QED BY <1>1, <1>2, FleetStep, PTL DEF FleetSpec
-----------------------------------------------------------------------------
(* Requests to GitHub *)

\* What is left of the budget a worker heard of last, when its window ends, and what has been
\* charged since.
Rest(w) == Left(Of(w, heard[w]))
End(w) == ends[Of(w, heard[w])]
Missed(w) == unheard[w][heard[w]]

Believes(w) == remaining[w] <= Rest(w) + Missed(w)

Dated(w) == End(w) <= resetAt[w] \/ Rest(w) + Missed(w) >= Budget

Waits(w) == pc[w] = "throttled" => End(w) < wait[w] \/ Rest(w) + Missed(w) >= Budget

Carries(w) ==
  reply[w].kind \in WithHeaders =>
    /\ pc[w] = "sent"
    /\ reply[w].remaining <= Left(Of(w, api[w])) + reply[w].unheard
    /\ \/ ends[Of(w, api[w])] <= reply[w].resets
       \/ Left(Of(w, api[w])) + reply[w].unheard >= Budget

\* Whoever has passed waitIfNeeded is above the threshold until it hears otherwise.
Passed(w) == pc[w] \in {"paced", "sent", "backoff"} => remaining[w] >= MinRemaining

\* The other budget, which the limiter has forgotten, was above the threshold when it did.
Others(w) ==
  \A a \in Apis \ {heard[w]} : Left(Of(w, a)) + unheard[w][a] >= MinRemaining

Informed(w) ==
  Believes(w) /\ Dated(w) /\ Waits(w) /\ Carries(w) /\ Passed(w) /\ Others(w)

RequestsInv == TypeOK /\ \A w \in Workers : Informed(w)

\* The answer that carries nothing is one.
LEMMA BareReply ==
  ASSUME NEW kind \in {"none", "lost", "error"}
  PROVE  Bare(kind) \in ReplyType /\ Bare(kind).kind = kind /\ kind \notin WithHeaders
BY RequestsAssumption DEF Bare, ReplyType, WithHeaders

\* A worker's two budgets are budgets, and they are two.
LEMMA BudgetsOf ==
  ASSUME NEW w \in Workers
  PROVE  /\ \A a \in Apis : Of(w, a) \in Budgets
         /\ \A a, c \in Apis : Of(w, a) = Of(w, c) => a = c
BY RequestsAssumption DEF Of, Budgets

LEMMA LeftTyped ==
  ASSUME RequestsInv, NEW b \in Budgets
  PROVE  /\ Left(b) \in 0..Budget /\ ends[b] \in 0..Window /\ ends[b] \in Nat
         /\ (ends[b] = 0 => Left(b) = Budget)
<1>1. /\ left[b] \in 0..Budget /\ ends[b] \in 0..Window /\ Budget \in Nat /\ Window \in Nat
      BY RequestsAssumption DEF RequestsInv, TypeOK
<1> QED BY <1>1 DEF Left

LEMMA InitInformed == Init => RequestsInv
<1> SUFFICES ASSUME Init PROVE RequestsInv OBVIOUS
<1>1. TypeOK BY RequestsAssumption, BareReply DEF Init, TypeOK, Phases, Apis
<1>2. ASSUME NEW w \in Workers PROVE Informed(w)
  <2>1. /\ heard[w] \in Apis /\ unheard[w] = [a \in Apis |-> Budget] /\ pc[w] = "idle"
        /\ remaining[w] = Budget /\ reply[w] = Bare("none")
        BY <1>2 DEF Init, Apis
  <2>2. \A a \in Apis : Left(Of(w, a)) = Budget /\ ends[Of(w, a)] = 0 /\ unheard[w][a] = Budget
        BY <1>2, <2>1, BudgetsOf DEF Init, Left
  <2>3. Budget \in Nat /\ MinRemaining \in 1..Budget BY RequestsAssumption
  <2>4. Believes(w) /\ Dated(w) /\ Waits(w) /\ Passed(w) /\ Others(w)
        BY <2>1, <2>2, <2>3 DEF Believes, Dated, Waits, Passed, Others, Rest, End, Missed
  <2>5. Carries(w) BY <2>1, BareReply DEF Carries
  <2> QED BY <2>4, <2>5 DEF Informed
<1> QED BY <1>1, <1>2 DEF RequestsInv

\* The types of what a worker looks at.
LEMMA Typed ==
  ASSUME RequestsInv, NEW w \in Workers
  PROVE  /\ heard[w] \in Apis /\ api[w] \in Apis /\ pc[w] \in Phases
         /\ \A a \in Apis : Of(w, a) \in Budgets /\ unheard[w][a] \in 0..Budget
         /\ Rest(w) \in 0..Budget /\ End(w) \in Nat /\ Missed(w) \in 0..Budget
         /\ remaining[w] \in 0..Budget /\ resetAt[w] \in 0..Window /\ wait[w] \in Nat
         /\ reply[w] \in ReplyType
         /\ reply[w].remaining \in 0..Budget /\ reply[w].resets \in 0..Window
         /\ reply[w].unheard \in 0..Budget
         /\ MinRemaining \in 0..Budget /\ MinRemaining >= 1 /\ Budget \in Nat /\ Window \in Nat
<1>1. /\ heard[w] \in Apis /\ api[w] \in Apis /\ pc[w] \in Phases /\ reply[w] \in ReplyType
      /\ unheard[w] \in [Apis -> 0..Budget]
      /\ remaining[w] \in 0..Budget /\ resetAt[w] \in 0..Window /\ wait[w] \in Nat
      BY DEF RequestsInv, TypeOK
<1>2. \A a \in Apis : Of(w, a) \in Budgets BY BudgetsOf
<1>3. Rest(w) \in 0..Budget /\ End(w) \in Nat /\ Missed(w) \in 0..Budget
      BY <1>1, <1>2, LeftTyped DEF Rest, End, Missed
<1>4. MinRemaining \in 0..Budget /\ MinRemaining >= 1 /\ Budget \in Nat /\ Window \in Nat
      BY RequestsAssumption
<1>5. /\ reply[w].remaining \in 0..Budget /\ reply[w].resets \in 0..Window
      /\ reply[w].unheard \in 0..Budget
      BY <1>1 DEF ReplyType
<1> QED BY <1>1, <1>2, <1>3, <1>4, <1>5

\* What only depends on the limiter, GitHub and the history.
LEMMA UntouchedKeeps ==
  ASSUME RequestsInv, NEW w \in Workers, UNCHANGED <<left, ends>>,
         remaining'[w] = remaining[w], resetAt'[w] = resetAt[w],
         heard'[w] = heard[w], unheard'[w] = unheard[w]
  PROVE  /\ Believes(w)' /\ Dated(w)' /\ Others(w)'
         /\ Rest(w)' = Rest(w) /\ End(w)' = End(w) /\ Missed(w)' = Missed(w)
<1>1. \A a \in Apis : Left(Of(w, a))' = Left(Of(w, a)) /\ Of(w, a)' = Of(w, a)
      BY DEF Left, Of
<1>2. /\ Rest(w)' = Rest(w) /\ End(w)' = End(w) /\ Missed(w)' = Missed(w)
      BY DEF Rest, End, Missed, Left, Of
<1>3. Informed(w) BY DEF RequestsInv
<1>4. Believes(w)' /\ Dated(w)' BY <1>2, <1>3 DEF Informed, Believes, Dated
<1>5. Others(w)' BY <1>1, <1>3 DEF Informed, Others
<1> QED BY <1>2, <1>4, <1>5

\* A worker changes its phase and learns nothing: what must hold of the phase it enters.
LEMMA MovesKeep ==
  ASSUME RequestsInv, NEW w \in Workers, NEW phase \in Phases, NEW ticks \in Nat,
         NEW answer \in {reply[w], Bare("none")}, answer.kind \notin WithHeaders,
         Enter(w, phase, ticks), reply' = [reply EXCEPT ![w] = answer],
         UNCHANGED <<left, ends, limiter, known>>,
         NEW a \in Apis, api' = [api EXCEPT ![w] = a],
         attempt' \in [Workers -> 0..(MaxRetries - 1)],
         phase = "throttled" => End(w) < ticks \/ Rest(w) + Missed(w) >= Budget,
         phase \in {"paced", "sent", "backoff"} => remaining[w] >= MinRemaining
  PROVE  RequestsInv'
<1>1. answer \in ReplyType BY BareReply DEF RequestsInv, TypeOK
<1>2. TypeOK' BY <1>1 DEF RequestsInv, TypeOK, Enter, limiter, known
<1>3. ASSUME NEW v \in Workers PROVE Informed(v)'
  <2>1. /\ Believes(v)' /\ Dated(v)' /\ Others(v)'
        /\ Rest(v)' = Rest(v) /\ End(v)' = End(v) /\ Missed(v)' = Missed(v)
        BY <1>3, UntouchedKeeps DEF limiter, known
  <2>2. CASE v = w
    <3>1. /\ reply'[w] = answer /\ pc'[w] = phase /\ wait'[w] = ticks
          /\ remaining'[w] = remaining[w]
          BY DEF RequestsInv, TypeOK, Enter, limiter
    <3>2. Waits(w)' /\ Passed(w)' BY <2>1, <2>2, <3>1 DEF Waits, Passed
    <3>3. Carries(w)' BY <3>1 DEF Carries
    <3> QED BY <2>1, <2>2, <3>2, <3>3 DEF Informed
  <2>3. CASE v # w
    <3>1. /\ reply'[v] = reply[v] /\ pc'[v] = pc[v] /\ wait'[v] = wait[v] /\ api'[v] = api[v]
          /\ remaining'[v] = remaining[v]
          BY <1>3, <2>3 DEF RequestsInv, TypeOK, Enter, limiter
    <3>2. Informed(v) BY <1>3 DEF RequestsInv
    <3>3. Waits(v)' /\ Passed(v)' BY <2>1, <3>1, <3>2 DEF Informed, Waits, Passed
    <3>4. Left(Of(v, api[v]))' = Left(Of(v, api[v])) /\ Of(v, api[v])' = Of(v, api'[v])
          BY <3>1 DEF Left, Of
    <3>5. Carries(v)' BY <3>1, <3>2, <3>4 DEF Informed, Carries, Left, Of
    <3> QED BY <2>1, <3>3, <3>5 DEF Informed
  <2> QED BY <2>2, <2>3
<1> QED BY <1>2, <1>3 DEF RequestsInv

\* A worker reads its answer and enters a phase that claims nothing.
LEMMA UpdateKeeps ==
  ASSUME RequestsInv, NEW w \in Workers, NEW phase \in {"idle", "told"}, NEW ticks \in Nat,
         pc[w] = "sent", api' = api,
         Enter(w, phase, ticks), reply' = [reply EXCEPT ![w] = Bare("none")],
         UpdateFrom(w, reply[w]), UNCHANGED <<left, ends>>,
         attempt' \in [Workers -> 0..(MaxRetries - 1)]
  PROVE  RequestsInv'
<1> DEFINE b == Of(w, api[w])
<1>1. /\ reply[w] \in ReplyType /\ phase \in Phases /\ b \in Budgets
      /\ reply[w].remaining \in 0..Budget /\ reply[w].resets \in 0..Window
      /\ reply[w].unheard \in 0..Budget /\ api[w] \in Apis
      BY Typed DEF Phases
<1>2. TypeOK'
  <2>1. /\ exits' = exits /\ heard' \in [Workers -> Apis]
        /\ remaining' \in [Workers -> 0..Budget] /\ resetAt' \in [Workers -> 0..Window]
        BY <1>1 DEF RequestsInv, TypeOK, UpdateFrom, Hear
  <2>2. unheard' \in [Workers -> [Apis -> 0..Budget]]
        BY <1>1 DEF RequestsInv, TypeOK, UpdateFrom, Hear
  <2> QED BY <1>1, <2>1, <2>2, BareReply DEF RequestsInv, TypeOK, Enter
<1>3. ASSUME NEW v \in Workers PROVE Informed(v)'
  <2>1. CASE v = w
    <3>1. /\ reply'[w] = Bare("none") /\ pc'[w] = phase
          BY DEF RequestsInv, TypeOK, Enter
    <3>2. Carries(w)' BY <3>1, BareReply DEF Carries
    <3>3. Waits(w)' /\ Passed(w)' BY <3>1 DEF Waits, Passed
    <3>4. Believes(w)' /\ Dated(w)' /\ Others(w)'
      <4>1. CASE reply[w].kind \notin WithHeaders
        <5>1. /\ remaining'[w] = remaining[w] /\ resetAt'[w] = resetAt[w]
              /\ heard'[w] = heard[w]
              BY <4>1 DEF RequestsInv, TypeOK, UpdateFrom, Hear
        <5>2. unheard' = unheard
              BY <1>1, <4>1 DEF RequestsInv, TypeOK, UpdateFrom, Hear
        <5> QED BY <5>1, <5>2, UntouchedKeeps
      <4>2. CASE reply[w].kind \in WithHeaders
        <5>1. /\ remaining'[w] = reply[w].remaining /\ resetAt'[w] = reply[w].resets
              /\ heard'[w] = api[w]
              BY <4>2 DEF RequestsInv, TypeOK, UpdateFrom, Hear
        <5>2. /\ unheard'[w][api[w]] = reply[w].unheard
              /\ \A a \in Apis \ {api[w]} : unheard'[w][a] = unheard[w][a]
              BY <1>1, <4>2 DEF RequestsInv, TypeOK, UpdateFrom, Hear
        <5>3. /\ Rest(w)' = Left(b) /\ End(w)' = ends[b] /\ Missed(w)' = reply[w].unheard
              BY <5>1, <5>2 DEF Rest, End, Missed, Left, Of
        <5>4. Informed(w) BY DEF RequestsInv
        <5>5. Believes(w)' /\ Dated(w)'
              BY <4>2, <5>1, <5>3, <5>4 DEF Informed, Carries, Believes, Dated
        <5>6. ASSUME NEW a \in Apis \ {api[w]}
              PROVE  Left(Of(w, a)) + unheard[w][a] >= MinRemaining
          <6>1. CASE a = heard[w]
            <7>1. remaining[w] >= MinRemaining /\ remaining[w] <= Rest(w) + Missed(w)
                  BY <5>4 DEF Informed, Believes, Passed
            <7>2. Rest(w) = Left(Of(w, a)) /\ Missed(w) = unheard[w][a]
                  BY <6>1 DEF Rest, Missed
            <7>3. /\ remaining[w] \in Int /\ MinRemaining \in Int
                  /\ Rest(w) \in Int /\ Missed(w) \in Int
                  BY Typed
            <7> QED BY <7>1, <7>2, <7>3
          <6>2. CASE a # heard[w] BY <5>4, <5>6, <6>2 DEF Informed, Others
          <6> QED BY <6>1, <6>2
        <5>7. \A a \in Apis : Left(Of(w, a))' = Left(Of(w, a)) BY DEF Left, Of
        <5>8. Others(w)' BY <5>1, <5>2, <5>6, <5>7 DEF Others
        <5> QED BY <5>5, <5>8
      <4> QED BY <4>1, <4>2
    <3> QED BY <2>1, <3>2, <3>3, <3>4 DEF Informed
  <2>2. CASE v # w
    <3>1. /\ remaining'[v] = remaining[v] /\ resetAt'[v] = resetAt[v] /\ heard'[v] = heard[v]
          /\ unheard'[v] = unheard[v] /\ reply'[v] = reply[v] /\ pc'[v] = pc[v]
          /\ wait'[v] = wait[v] /\ api'[v] = api[v]
          BY <1>3, <2>2 DEF RequestsInv, TypeOK, UpdateFrom, Hear, Enter
    <3>2. /\ Believes(v)' /\ Dated(v)' /\ Others(v)'
          /\ Rest(v)' = Rest(v) /\ End(v)' = End(v) /\ Missed(v)' = Missed(v)
          BY <1>3, <3>1, UntouchedKeeps
    <3>3. Informed(v) BY <1>3 DEF RequestsInv
    <3>4. Waits(v)' /\ Passed(v)' BY <3>1, <3>2, <3>3 DEF Informed, Waits, Passed
    <3>5. Carries(v)' BY <3>1, <3>3 DEF Informed, Carries, Left, Of
    <3> QED BY <3>2, <3>4, <3>5 DEF Informed
  <2> QED BY <2>1, <2>2
<1> QED BY <1>2, <1>3 DEF RequestsInv

-----------------------------------------------------------------------------
(* The steps of a worker *)

\* What Submit does, an attempt of a worker above the threshold.
LEMMA SubmitKeeps ==
  ASSUME RequestsInv, NEW w \in Workers, Submit(w), remaining[w] >= MinRemaining,
         UNCHANGED <<left, ends, limiter, attempt, known>>,
         NEW a \in Apis, api' = [api EXCEPT ![w] = a]
  PROVE  RequestsInv'
<1>1. /\ Enter(w, "sent", Timeout) /\ reply' = [reply EXCEPT ![w] = Bare("none")]
      /\ Timeout \in Nat /\ Bare("none").kind \notin WithHeaders
      /\ attempt' \in [Workers -> 0..(MaxRetries - 1)]
      BY RequestsAssumption, BareReply DEF Submit, RequestsInv, TypeOK
<1>2. "sent" \in Phases BY DEF Phases
<1> QED BY <1>1, <1>2, MovesKeep

\* Nothing that tells of a budget is under way to a worker that has sent nothing.
LEMMA SilentBefore ==
  ASSUME RequestsInv, NEW w \in Workers, pc[w] # "sent"
  PROVE  reply[w].kind \notin WithHeaders
BY DEF RequestsInv, Informed, Carries

\* Exit, wait for the reset, pace or send.
LEMMA AskKeeps == ASSUME RequestsInv, NEW w \in Workers, Ask(w) PROVE RequestsInv'
<1>1. /\ UNCHANGED <<left, ends, limiter, attempt, known>> /\ pc[w] = "idle"
      BY DEF Ask, github
<1>2. attempt' \in [Workers -> 0..(MaxRetries - 1)]
      BY <1>1 DEF RequestsInv, TypeOK
<1>3. /\ reply = [reply EXCEPT ![w] = reply[w]] /\ reply[w].kind \notin WithHeaders
      /\ remaining[w] \in Int /\ MinRemaining \in Int /\ resetAt[w] \in Nat
  <2>1. reply = [reply EXCEPT ![w] = reply[w]] BY DEF RequestsInv, TypeOK
  <2>2. reply[w].kind \notin WithHeaders BY <1>1, SilentBefore
  <2>3. remaining[w] \in Int /\ MinRemaining \in Int /\ resetAt[w] \in Nat BY Typed
  <2> QED BY <2>1, <2>2, <2>3
<1>4. PICK a \in Apis : api' = [api EXCEPT ![w] = a] BY DEF Ask
<1>5. {"exited", "throttled", "paced"} \subseteq Phases BY DEF Phases
<1>6. CASE HardStop(w) /\ Enter(w, "exited", 0)
  <2>1. reply' = [reply EXCEPT ![w] = reply[w]] BY <1>3, <1>6 DEF HardStop
  <2> QED BY <1>1, <1>2, <1>3, <1>4, <1>5, <1>6, <2>1, MovesKeep
<1>7. CASE HardStop(w) /\ Enter(w, "throttled", resetAt[w] + 1)
  <2>1. End(w) < resetAt[w] + 1 \/ Rest(w) + Missed(w) >= Budget
    <3>1. Dated(w) BY DEF RequestsInv, Informed
    <3>2. End(w) \in Nat BY Typed
    <3> QED BY <1>3, <3>1, <3>2 DEF Dated
  <2>2. resetAt[w] + 1 \in Nat BY <1>3
  <2>3. reply' = [reply EXCEPT ![w] = reply[w]] BY <1>3, <1>7 DEF HardStop
  <2> QED BY <1>1, <1>2, <1>3, <1>4, <1>5, <1>7, <2>1, <2>2, <2>3, MovesKeep
<1>8. CASE Pace(w)
  <2>1. remaining[w] >= MinRemaining BY <1>8 DEF Pace
  <2>2. PICK delay \in IF exits[w] THEN {0} ELSE PacingDelays(w) :
          \/ delay = 0 /\ Submit(w)
          \/ delay > 0 /\ Enter(w, "paced", delay) /\ UNCHANGED reply
        BY <1>8 DEF Pace
  <2>3. delay \in Int
    <3>1. CASE delay = 0 BY <3>1
    <3>2. CASE delay # 0
      <4>1. delay \in 0..((resetAt[w] + (remaining[w] - MinRemaining) - 1)
                             \div (remaining[w] - MinRemaining))
            BY <2>2, <3>2 DEF PacingDelays
      <4> QED BY <4>1
    <3> QED BY <3>1, <3>2
  <2>4. CASE Submit(w) BY <1>1, <1>4, <2>1, <2>4, SubmitKeeps
  <2>5. CASE delay > 0 /\ Enter(w, "paced", delay) /\ UNCHANGED reply
    <3>1. delay \in Nat BY <2>3, <2>5
    <3>2. reply' = [reply EXCEPT ![w] = reply[w]] BY <1>3, <2>5
    <3> QED BY <1>1, <1>2, <1>3, <1>4, <1>5, <2>1, <2>5, <3>1, <3>2, MovesKeep
  <2> QED BY <2>2, <2>4, <2>5
<1> QED BY <1>6, <1>7, <1>8 DEF Ask, HardStop

\* Whoever wakes up from a throttled wait has outlived the window it knew.
LEMMA ResumeKeeps == ASSUME RequestsInv, NEW w \in Workers, Resume(w) PROVE RequestsInv'
<1>1. /\ left' = left /\ ends' = ends /\ exits' = exits /\ resetAt' = resetAt
      /\ attempt' = attempt /\ heard' = heard /\ unheard' = unheard /\ api' = api
      /\ remaining' = [remaining EXCEPT ![w] = MinRemaining]
      /\ pc' = [pc EXCEPT ![w] = "sent"] /\ wait' = [wait EXCEPT ![w] = Timeout]
      /\ reply' = [reply EXCEPT ![w] = Bare("none")]
      /\ pc[w] = "throttled" /\ wait[w] = 0
      BY DEF Resume, github, known, Submit, Enter
<1>2. TypeOK'
  <2>1. Timeout \in Nat /\ MinRemaining \in 0..Budget BY RequestsAssumption
  <2>2. Bare("none") \in ReplyType BY BareReply
  <2> QED BY <1>1, <2>1, <2>2 DEF RequestsInv, TypeOK, Phases
<1>3. Rest(w) + Missed(w) >= Budget
  <2>1. ~(End(w) < 0) BY Typed
  <2> QED BY <1>1, <2>1 DEF RequestsInv, Informed, Waits
<1>4. ASSUME NEW v \in Workers PROVE Informed(v)'
  <2>1. /\ Rest(v)' = Rest(v) /\ End(v)' = End(v) /\ Missed(v)' = Missed(v)
        BY <1>1 DEF Rest, End, Missed, Left, Of
  <2>2. Informed(v) BY <1>4 DEF RequestsInv
  <2>3. \A a \in Apis : Left(Of(v, a))' = Left(Of(v, a)) /\ unheard'[v][a] = unheard[v][a]
        BY <1>1 DEF Left, Of
  <2>4. Others(v)' BY <1>1, <2>2, <2>3 DEF Informed, Others
  <2>5. CASE v = w
    <3>1. /\ remaining'[w] = MinRemaining /\ pc'[w] = "sent" /\ reply'[w] = Bare("none")
          BY <1>1 DEF RequestsInv, TypeOK
    <3>2. /\ MinRemaining \in 0..Budget /\ Rest(w) \in 0..Budget /\ Missed(w) \in 0..Budget
          /\ Budget \in Nat
          BY Typed
    <3>3. Believes(w)' /\ Dated(w)' /\ Waits(w)' /\ Passed(w)'
          BY <1>3, <2>1, <2>5, <3>1, <3>2 DEF Believes, Dated, Waits, Passed
    <3>4. Carries(w)' BY <3>1, BareReply DEF Carries
    <3> QED BY <2>4, <2>5, <3>3, <3>4 DEF Informed
  <2>6. CASE v # w
    <3>1. /\ remaining'[v] = remaining[v] /\ pc'[v] = pc[v] /\ wait'[v] = wait[v]
          /\ reply'[v] = reply[v]
          BY <1>1, <1>4, <2>6 DEF RequestsInv, TypeOK
    <3>2. Believes(v)' /\ Dated(v)' /\ Waits(v)' /\ Passed(v)'
          BY <1>1, <2>1, <2>2, <3>1 DEF Informed, Believes, Dated, Waits, Passed
    <3>3. Carries(v)' BY <1>1, <2>2, <3>1 DEF Informed, Carries, Left, Of
    <3> QED BY <2>4, <3>2, <3>3 DEF Informed
  <2> QED BY <2>5, <2>6
<1> QED BY <1>2, <1>4 DEF RequestsInv

\* The API of a request stays what it is.
LEMMA SameApi ==
  ASSUME RequestsInv, NEW w \in Workers, api' = api
  PROVE  api' = [api EXCEPT ![w] = api[w]] /\ api[w] \in Apis
BY DEF RequestsInv, TypeOK

LEMMA ProceedKeeps == ASSUME RequestsInv, NEW w \in Workers, Proceed(w) PROVE RequestsInv'
<1>1. remaining[w] >= MinRemaining BY DEF Proceed, RequestsInv, Informed, Passed
<1>2. api' = [api EXCEPT ![w] = api[w]] /\ api[w] \in Apis BY SameApi DEF Proceed
<1>3. UNCHANGED <<left, ends, limiter, attempt, known>> /\ Submit(w) BY DEF Proceed, github
<1> QED BY <1>1, <1>2, <1>3, SubmitKeeps

\* The pause before another attempt.
LEMMA BackoffKeeps ==
  ASSUME RequestsInv, NEW w \in Workers, NEW ticks \in Nat, Enter(w, "backoff", ticks),
         reply' = [reply EXCEPT ![w] = Bare("none")], remaining[w] >= MinRemaining,
         UNCHANGED <<left, ends, limiter, known>>,
         NEW a \in Apis, api' = [api EXCEPT ![w] = a],
         attempt' \in [Workers -> 0..(MaxRetries - 1)]
  PROVE  RequestsInv'
<1>1. "backoff" \in Phases /\ Bare("none").kind \notin WithHeaders
      BY BareReply DEF Phases
<1> QED BY <1>1, MovesKeep

\* A failed attempt: another one, or the limiter hears of it.
LEMMA FailKeeps ==
  ASSUME RequestsInv, NEW w \in Workers, pc[w] = "sent", Fail(w), UNCHANGED <<left, ends, api>>
  PROVE  RequestsInv'
<1>1. /\ attempt \in [Workers -> 0..(MaxRetries - 1)] /\ MaxRetries \in Nat \ {0}
      /\ Backoffs \in [0..(MaxRetries - 1) -> Nat]
      BY RequestsAssumption DEF RequestsInv, TypeOK
<1>2. remaining[w] >= MinRemaining BY DEF RequestsInv, Informed, Passed
<1>3. CASE /\ attempt' = [attempt EXCEPT ![w] = (@ + 1) % MaxRetries]
           /\ Enter(w, "backoff", Backoffs[attempt[w]])
           /\ reply' = [reply EXCEPT ![w] = Bare("none")]
           /\ UNCHANGED <<limiter, known>>
  <2>1. (attempt[w] + 1) % MaxRetries \in 0..(MaxRetries - 1) BY <1>1
  <2>2. attempt' \in [Workers -> 0..(MaxRetries - 1)] BY <1>1, <1>3, <2>1
  <2>3. Backoffs[attempt[w]] \in Nat BY <1>1
  <2>4. api' = [api EXCEPT ![w] = api[w]] /\ api[w] \in Apis BY SameApi
  <2>6. PICK ticks \in Nat : ticks = Backoffs[attempt[w]] BY <2>3
  <2>7. /\ Enter(w, "backoff", ticks) /\ reply' = [reply EXCEPT ![w] = Bare("none")]
        /\ UNCHANGED <<left, ends, limiter, known>>
        BY <1>3, <2>6
  <2> QED BY <1>2, <2>2, <2>4, <2>7, BackoffKeeps
<1>4. CASE Return(w) /\ UpdateFrom(w, reply[w])
  <2>1. attempt' \in [Workers -> 0..(MaxRetries - 1)] BY <1>1, <1>4 DEF Return
  <2> QED BY <1>4, <2>1, UpdateKeeps DEF Return
<1> QED BY <1>3, <1>4 DEF Fail

LEMMA ReceiveKeeps ==
  ASSUME RequestsInv, NEW w \in Workers,
         ReceiveAnswer(w) \/ ReceiveError(w) \/ ReceiveSecondary(w)
  PROVE  RequestsInv'
<1>1. UNCHANGED <<left, ends, api>> /\ pc[w] = "sent"
      BY DEF ReceiveAnswer, ReceiveError, ReceiveSecondary, github
<1>2. CASE ReceiveAnswer(w)
  <2>1. attempt' \in [Workers -> 0..(MaxRetries - 1)]
        BY <1>2, RequestsAssumption DEF ReceiveAnswer, Return, RequestsInv, TypeOK
  <2> QED BY <1>1, <1>2, <2>1, UpdateKeeps DEF ReceiveAnswer, Return
<1>3. CASE ReceiveError(w) BY <1>1, <1>3, FailKeeps DEF ReceiveError
<1>4. CASE ReceiveSecondary(w)
  <2>1. attempt' \in [Workers -> 0..(MaxRetries - 1)] /\ RetryAfter + 1 \in Nat
        BY <1>4, RequestsAssumption DEF ReceiveSecondary, RequestsInv, TypeOK
  <2> QED BY <1>1, <1>4, <2>1, UpdateKeeps DEF ReceiveSecondary
<1> QED BY <1>2, <1>3, <1>4

LEMMA ToldKeeps == ASSUME RequestsInv, NEW w \in Workers, Told(w) PROVE RequestsInv'
<1>1. /\ attempt' \in [Workers -> 0..(MaxRetries - 1)]
      /\ UNCHANGED <<left, ends, limiter, known>>
      BY RequestsAssumption DEF RequestsInv, TypeOK, Told, Return, github
<1>2. /\ Enter(w, "idle", 0) /\ reply' = [reply EXCEPT ![w] = Bare("none")]
      BY DEF Told, Return
<1>3. api' = [api EXCEPT ![w] = api[w]] /\ api[w] \in Apis BY SameApi DEF Told
<1>4. "idle" \in Phases /\ Bare("none").kind \notin WithHeaders BY BareReply DEF Phases
<1> QED BY <1>1, <1>2, <1>3, <1>4, MovesKeep

LEMMA AbortKeeps == ASSUME RequestsInv, NEW w \in Workers, Abort(w) PROVE RequestsInv'
BY FailKeeps DEF Abort, github

LEMMA RestartKeeps == ASSUME RequestsInv, NEW w \in Workers, Restart(w) PROVE RequestsInv'
<1>1. /\ left' = left /\ ends' = ends /\ attempt' = attempt /\ api' = api
      /\ reply' = reply /\ pc' = [pc EXCEPT ![w] = "idle"] /\ wait' = [wait EXCEPT ![w] = 0]
      /\ remaining' = [remaining EXCEPT ![w] = Budget]
      /\ resetAt' = [resetAt EXCEPT ![w] = 0] /\ heard' = [heard EXCEPT ![w] = "graphql"]
      /\ unheard' = [unheard EXCEPT ![w] = [a \in Apis |-> Budget]]
      /\ \E choice \in BOOLEAN : exits' = [exits EXCEPT ![w] = choice]
      /\ pc[w] # "sent"
      BY DEF Restart, Enter, github
<1>2. TypeOK'
  <2>1. Budget \in 0..Budget /\ 0 \in 0..Window BY RequestsAssumption
  <2> QED BY <1>1, <2>1 DEF RequestsInv, TypeOK, Phases, Apis
<1>3. ASSUME NEW v \in Workers PROVE Informed(v)'
  <2>1. \A a \in Apis : Left(Of(v, a))' = Left(Of(v, a)) /\ Left(Of(v, a)) \in 0..Budget
        BY <1>1, <1>3, Typed, LeftTyped DEF Left, Of
  <2>2. CASE v = w
    <3>1. /\ remaining'[w] = Budget /\ heard'[w] = "graphql" /\ pc'[w] = "idle"
          /\ reply'[w] = reply[w]
          /\ \A a \in Apis : unheard'[w][a] = Budget
          BY <1>1 DEF RequestsInv, TypeOK
    <3>2. Carries(w)' BY <1>1, <3>1, SilentBefore DEF Carries
    <3>3. "graphql" \in Apis BY DEF Apis
    <3>4. Rest(w)' \in 0..Budget /\ Missed(w)' = Budget
          BY <2>1, <2>2, <3>1, <3>3 DEF Rest, Missed, Of
    <3>5. Budget \in Nat /\ MinRemaining \in 0..Budget BY Typed
    <3>6. Believes(w)' /\ Dated(w)' /\ Waits(w)' /\ Passed(w)'
          BY <3>1, <3>4, <3>5 DEF Believes, Dated, Waits, Passed
    <3>7. Others(w)' BY <2>1, <2>2, <3>1, <3>5 DEF Others
    <3> QED BY <2>2, <3>2, <3>6, <3>7 DEF Informed
  <2>3. CASE v # w
    <3>1. /\ remaining'[v] = remaining[v] /\ resetAt'[v] = resetAt[v] /\ heard'[v] = heard[v]
          /\ unheard'[v] = unheard[v] /\ pc'[v] = pc[v] /\ wait'[v] = wait[v]
          BY <1>1, <1>3, <2>3 DEF RequestsInv, TypeOK
    <3>2. /\ Believes(v)' /\ Dated(v)' /\ Others(v)'
          /\ Rest(v)' = Rest(v) /\ End(v)' = End(v) /\ Missed(v)' = Missed(v)
          BY <1>1, <1>3, <3>1, UntouchedKeeps
    <3>3. Informed(v) BY <1>3 DEF RequestsInv
    <3>4. Waits(v)' /\ Passed(v)' BY <3>1, <3>2, <3>3 DEF Informed, Waits, Passed
    <3>5. Carries(v)' BY <1>1, <3>1, <3>3 DEF Informed, Carries, Left, Of
    <3> QED BY <3>2, <3>4, <3>5 DEF Informed
  <2> QED BY <2>2, <2>3
<1> QED BY <1>2, <1>3 DEF RequestsInv

-----------------------------------------------------------------------------
(* The steps of GitHub and of time *)

\* A charge takes from what is left what the history gains.
LEMMA ChargeKeeps ==
  ASSUME NEW l \in 1..Budget, NEW u \in 0..Budget, NEW c \in Nat \ {0}, NEW m \in 0..Budget
  PROVE  /\ l - Least(c, l) \in 0..Budget
         /\ Least(u + Least(c, l), Budget) \in 0..Budget
         /\ m <= l + u => m <= (l - Least(c, l)) + Least(u + Least(c, l), Budget)
         /\ l = Budget => (l - Least(c, l)) + Least(u + Least(c, l), Budget) >= Budget
BY RequestsAssumption DEF Least

LEMMA CostTyped == ASSUME NEW a \in Apis, NEW cost \in Costs(a) PROVE cost \in Nat \ {0}
BY RequestsAssumption DEF Apis, Costs

\* What a request does to its budget and to another one.
LEMMA Executed ==
  ASSUME RequestsInv, NEW b \in Budgets, NEW cost \in Nat \ {0}, Left(b) > 0, Execute(b, cost)
  PROVE  /\ left' \in [Budgets -> 0..Budget] /\ ends' \in [Budgets -> 0..Window]
         /\ unheard' \in [Workers -> [Apis -> 0..Budget]]
         /\ Left(b) \in 1..Budget /\ Left(b)' = Left(b) - Least(cost, Left(b))
         /\ ends'[b] = (IF ends[b] = 0 THEN Window ELSE ends[b]) /\ ends'[b] # 0
         /\ \A c \in Budgets \ {b} : Left(c)' = Left(c) /\ ends'[c] = ends[c]
<1>1. /\ Window \in Nat \ {0} /\ Budget \in Nat
      /\ left \in [Budgets -> 0..Budget] /\ ends \in [Budgets -> 0..Window]
      /\ unheard \in [Workers -> [Apis -> 0..Budget]]
      BY RequestsAssumption DEF RequestsInv, TypeOK
<1>2. Left(b) \in 1..Budget
  <2>1. Left(b) \in 0..Budget /\ Left(b) > 0 BY LeftTyped
  <2> QED BY <1>1, <2>1
<1>3. Left(b) - Least(cost, Left(b)) \in 0..Budget
  <2>1. 0 \in 0..Budget BY <1>1
  <2> QED BY <1>2, <2>1, ChargeKeeps
<1>4. left' \in [Budgets -> 0..Budget] /\ ends' \in [Budgets -> 0..Window]
      BY <1>1, <1>3 DEF Execute
<1>5. ASSUME NEW w \in Workers, NEW a \in Apis
      PROVE  Least(unheard[w][a] + Least(cost, Left(b)), Budget) \in 0..Budget
  <2>1. unheard[w][a] \in 0..Budget BY <1>1
  <2> QED BY <1>2, <2>1, ChargeKeeps
<1>6. unheard' \in [Workers -> [Apis -> 0..Budget]]
  <2>1. unheard' = [w \in Workers |-> [a \in Apis |->
          IF b = Of(w, a) THEN Least(unheard[w][a] + Least(cost, Left(b)), Budget)
                          ELSE unheard[w][a]]]
        BY DEF Execute
  <2>2. ASSUME NEW w \in Workers, NEW a \in Apis
        PROVE  (IF b = Of(w, a) THEN Least(unheard[w][a] + Least(cost, Left(b)), Budget)
                                ELSE unheard[w][a]) \in 0..Budget
        BY <1>1, <1>5, <2>2
  <2> QED BY <2>1, <2>2
<1>7. /\ left'[b] = Left(b) - Least(cost, Left(b))
      /\ ends'[b] = IF ends[b] = 0 THEN Window ELSE ends[b]
      BY <1>1 DEF Execute
<1>8. ends'[b] # 0 BY <1>1, <1>7
<1>9. Left(b)' = Left(b) - Least(cost, Left(b)) BY <1>7, <1>8 DEF Left
<1>10. ASSUME NEW c \in Budgets \ {b} PROVE Left(c)' = Left(c) /\ ends'[c] = ends[c]
  <2>1. left'[c] = left[c] /\ ends'[c] = ends[c] BY <1>1, <1>10 DEF Execute
  <2> QED BY <2>1 DEF Left
<1> QED BY <1>2, <1>4, <1>6, <1>7, <1>8, <1>9, <1>10

\* A request is executed: whoever knows its budget has not heard of what it cost.
LEMMA ExecuteKeeps ==
  ASSUME RequestsInv, NEW b \in Budgets, NEW cost \in Nat \ {0}, Left(b) > 0, Execute(b, cost),
         NEW w \in Workers,
         UNCHANGED <<remaining, resetAt, pc, wait, api, heard>>
  PROVE  /\ Believes(w)' /\ Dated(w)' /\ Waits(w)' /\ Passed(w)' /\ Others(w)'
         /\ reply'[w] = Aged(w, b, cost) => Carries(w)' /\ reply'[w] \in ReplyType
<1> DEFINE charged == Least(cost, Left(b))
<1>1. Informed(w) BY DEF RequestsInv
<1>2. /\ Left(b) \in 1..Budget /\ Left(b)' = Left(b) - charged
      /\ ends'[b] = (IF ends[b] = 0 THEN Window ELSE ends[b])
      /\ \A c \in Budgets \ {b} : Left(c)' = Left(c) /\ ends'[c] = ends[c]
      /\ ends[b] = 0 => Left(b) = Budget
      BY Executed, LeftTyped
<1>3. /\ Budget \in Nat /\ MinRemaining \in 0..Budget /\ heard[w] \in Apis /\ api[w] \in Apis
      /\ \A a \in Apis : Of(w, a) \in Budgets /\ unheard[w][a] \in 0..Budget
      /\ Rest(w) \in 0..Budget /\ Missed(w) \in 0..Budget /\ remaining[w] \in 0..Budget
      BY Typed
<1>4. ASSUME NEW a \in Apis
      PROVE  /\ Of(w, a) # b => /\ Left(Of(w, a))' = Left(Of(w, a))
                                /\ ends'[Of(w, a)] = ends[Of(w, a)]
                                /\ unheard'[w][a] = unheard[w][a]
             /\ Of(w, a) = b => unheard'[w][a] = Least(unheard[w][a] + charged, Budget)
             /\ Of(w, a)' = Of(w, a)
  <2>1. unheard'[w] = [c \in Apis |-> IF b = Of(w, c) THEN Least(unheard[w][c] + charged, Budget)
                                                     ELSE unheard[w][c]]
        BY DEF Execute
  <2>2. Of(w, a)' = Of(w, a) BY DEF Of
  <2> HIDE DEF charged
  <2> QED BY <1>2, <1>3, <2>1, <2>2
<1> HIDE DEF charged
<1>5. ASSUME Of(w, heard[w]) # b PROVE Believes(w)' /\ Dated(w)' /\ Waits(w)' /\ Passed(w)'
  <2>1. Rest(w)' = Rest(w) /\ End(w)' = End(w) /\ Missed(w)' = Missed(w)
        BY <1>3, <1>4, <1>5 DEF Rest, End, Missed, Left, Of
  <2> QED BY <1>1, <2>1 DEF Informed, Believes, Dated, Waits, Passed
<1>6. ASSUME Of(w, heard[w]) = b PROVE Believes(w)' /\ Dated(w)' /\ Waits(w)' /\ Passed(w)'
  <2>1. /\ Rest(w)' = Rest(w) - charged /\ Missed(w)' = Least(Missed(w) + charged, Budget)
        /\ Rest(w) = Left(b) /\ Rest(w) \in 1..Budget
        /\ End(w) = 0 => Rest(w) = Budget
        /\ End(w) # 0 => End(w)' = End(w)
        BY <1>2, <1>3, <1>4, <1>6 DEF Rest, End, Missed, Left, Of
  <2>2. /\ \A m \in 0..Budget :
             m <= Rest(w) + Missed(w) => m <= Rest(w)' + Missed(w)'
        /\ Rest(w) = Budget => Rest(w)' + Missed(w)' >= Budget
    <3>1. charged = Least(cost, Rest(w)) BY <2>1 DEF charged
    <3>2. ASSUME NEW m \in 0..Budget
          PROVE  m <= Rest(w) + Missed(w) => m <= Rest(w)' + Missed(w)'
          BY <1>3, <2>1, <3>1, ChargeKeeps
    <3>3. Rest(w) = Budget => Rest(w)' + Missed(w)' >= Budget
      <4>1. 0 \in 0..Budget BY <1>3
      <4> QED BY <1>3, <2>1, <3>1, <4>1, ChargeKeeps
    <3> QED BY <3>2, <3>3
  <2>3. Rest(w) + Missed(w) >= Budget => Rest(w)' + Missed(w)' >= Budget
        BY <1>3, <2>2
  <2>4. Believes(w)' BY <1>1, <1>3, <2>2 DEF Informed, Believes
  <2>5. Dated(w)' /\ Waits(w)' /\ Passed(w)'
        BY <1>1, <2>1, <2>2, <2>3 DEF Informed, Dated, Waits, Passed
  <2> QED BY <2>4, <2>5
<1>7. Others(w)'
  <2>1. ASSUME NEW a \in Apis \ {heard[w]}
        PROVE  (Left(Of(w, a)))' + unheard'[w][a] >= MinRemaining
    <3>1. Left(Of(w, a)) + unheard[w][a] >= MinRemaining BY <1>1 DEF Informed, Others
    <3>2. CASE Of(w, a) # b BY <1>4, <3>1, <3>2
    <3>3. CASE Of(w, a) = b
      <4>1. /\ (Left(Of(w, a)))' = Left(b) - charged
            /\ unheard'[w][a] = Least(unheard[w][a] + charged, Budget)
            BY <1>2, <1>4, <3>3 DEF Left, Of
      <4>2. MinRemaining <= (Left(b) - charged) + Least(unheard[w][a] + charged, Budget)
        <5>1. unheard[w][a] \in 0..Budget BY <1>3
        <5>2. MinRemaining <= Left(b) + unheard[w][a] BY <1>2, <1>3, <3>1, <3>3
        <5> QED BY <1>2, <1>3, <5>1, <5>2, ChargeKeeps DEF charged
      <4>3. /\ Least(unheard[w][a] + charged, Budget) \in Int /\ Left(b) - charged \in Int
            /\ MinRemaining \in Int
        <5>1. unheard[w][a] \in 0..Budget BY <1>3
        <5> QED BY <1>2, <1>3, <5>1, ChargeKeeps DEF charged
      <4> QED BY <4>1, <4>2, <4>3
    <3> QED BY <3>2, <3>3
  <2> QED BY <2>1 DEF Others
<1>8. ASSUME reply'[w] = Aged(w, b, cost) PROVE Carries(w)' /\ reply'[w] \in ReplyType
  <2> DEFINE r == reply[w]
  <2>1. r \in ReplyType /\ r.unheard \in 0..Budget /\ r.remaining \in 0..Budget BY Typed
  <2>2. CASE r.kind \notin WithHeaders
    <3>1. reply'[w] = r BY <1>8, <2>2 DEF Aged
    <3> QED BY <2>1, <2>2, <3>1 DEF Carries
  <2>3. CASE r.kind \in WithHeaders /\ Of(w, api[w]) # b
    <3>1. reply'[w] = r BY <1>8, <2>3 DEF Aged
    <3>2. /\ (Left(Of(w, api[w])))' = Left(Of(w, api[w]))
          /\ ends'[Of(w, api[w])] = ends[Of(w, api[w])]
          BY <1>3, <1>4, <2>3 DEF Left, Of
    <3>3. api'[w] = api[w] /\ pc'[w] = pc[w] OBVIOUS
    <3> QED BY <1>1, <2>1, <3>1, <3>2, <3>3 DEF Informed, Carries, Left, Of
  <2>4. CASE r.kind \in WithHeaders /\ Of(w, api[w]) = b
    <3>1. reply'[w] = [r EXCEPT !.unheard = Least(@ + charged, Budget)]
          BY <1>8, <2>4 DEF Aged, charged
    <3>2. /\ Least(r.unheard + charged, Budget) \in 0..Budget
          /\ r.remaining <= Left(b) + r.unheard
               => r.remaining <= (Left(b) - charged) + Least(r.unheard + charged, Budget)
          /\ Budget <= Left(b) + r.unheard
               => Budget <= (Left(b) - charged) + Least(r.unheard + charged, Budget)
          /\ Left(b) = Budget
               => (Left(b) - charged) + Least(r.unheard + charged, Budget) >= Budget
      <4>1. Budget \in 0..Budget BY <1>3
      <4> HIDE DEF r
      <4> QED BY <1>2, <2>1, <4>1, ChargeKeeps DEF charged
    <3>3. /\ reply'[w] \in ReplyType /\ reply'[w].unheard = Least(r.unheard + charged, Budget)
          /\ reply'[w].remaining = r.remaining /\ reply'[w].resets = r.resets
          BY <2>1, <3>1, <3>2 DEF ReplyType
    <3>4. /\ pc[w] = "sent" /\ r.remaining <= Left(b) + r.unheard
          /\ ends[b] <= r.resets \/ Left(b) + r.unheard >= Budget
          BY <1>1, <2>4 DEF Informed, Carries
    <3>5. api'[w] = api[w] /\ pc'[w] = pc[w] /\ (Of(w, api[w]))' = b BY <2>4 DEF Of
    <3>6. (Left(Of(w, api[w])))' = Left(b) - charged /\ ends'[(Of(w, api[w]))'] = ends'[b]
          BY <1>2, <3>5 DEF Left, charged
    <3>7. r.remaining <= (Left(b) - charged) + Least(r.unheard + charged, Budget)
          BY <3>2, <3>4
    <3>8. \/ ends'[b] <= r.resets
          \/ (Left(b) - charged) + Least(r.unheard + charged, Budget) >= Budget
      <4>1. CASE ends[b] = 0 BY <1>2, <3>2, <4>1
      <4>2. CASE ends[b] # 0 /\ ends[b] <= r.resets BY <1>2, <4>2
      <4>3. CASE Left(b) + r.unheard >= Budget
        <5>1. Left(b) \in Int /\ r.unheard \in Int /\ Budget \in Int BY <1>2, <1>3, <2>1
        <5>2. Budget <= Left(b) + r.unheard BY <4>3, <5>1
        <5>3. Left(b) - charged \in Int /\ Least(r.unheard + charged, Budget) \in Int
          <6>1. 0 \in 0..Budget BY <1>3
          <6> HIDE DEF r
          <6> QED BY <1>2, <2>1, <6>1, ChargeKeeps DEF charged
        <5> QED BY <3>2, <5>1, <5>2, <5>3
      <4> QED BY <3>4, <4>1, <4>2, <4>3
    <3> HIDE DEF r
    <3> QED BY <3>3, <3>4, <3>5, <3>6, <3>7, <3>8 DEF Carries
  <2> QED BY <2>2, <2>3, <2>4
<1> QED BY <1>5, <1>6, <1>7, <1>8

\* What GitHub says of an answer with headers is right when it says it.
LEMMA ServeExecutedKeeps == ASSUME RequestsInv, NEW w \in Workers, ServeExecuted(w) PROVE RequestsInv'
<1>0. PICK b \in Budgets : b = Of(w, api[w]) BY Typed
<1>1. /\ Left(b) > 0 /\ pc[w] = "sent" /\ exits' = exits
      /\ UNCHANGED <<remaining, resetAt, pc, wait, api, attempt, heard>>
      BY <1>0 DEF ServeExecuted, limiter
<1>2. PICK cost \in Costs(api[w]), kind \in {"answer", "error", "lost"} :
        /\ Execute(b, cost)
        /\ reply' = [v \in Workers |-> IF v = w THEN Fate(b, kind, Left(b) - Least(cost, Left(b)))
                                                ELSE Aged(v, b, cost)]
      BY <1>0 DEF ServeExecuted
<1>3. cost \in Nat \ {0} BY Typed, CostTyped
<1>4. /\ left' \in [Budgets -> 0..Budget] /\ ends' \in [Budgets -> 0..Window]
      /\ unheard' \in [Workers -> [Apis -> 0..Budget]]
      /\ Left(b) \in 1..Budget /\ Left(b)' = Left(b) - Least(cost, Left(b))
      /\ ends'[b] = (IF ends[b] = 0 THEN Window ELSE ends[b]) /\ ends'[b] \in 0..Window
      BY <1>1, <1>2, <1>3, Executed
<1>5. Left(b) - Least(cost, Left(b)) \in 0..Budget
  <2>1. 0 \in 0..Budget BY RequestsAssumption
  <2> QED BY <1>3, <1>4, <2>1, ChargeKeeps
<1>6. reply'[w] = Fate(b, kind, Left(b)') BY <1>2, <1>4
<1>7. reply'[w] \in ReplyType /\ Carries(w)'
  <2>1. CASE kind = "answer"
    <3>1. reply'[w] = [kind |-> "answer", remaining |-> Left(b)', resets |-> ends'[b],
                       unheard |-> 0]
          BY <1>4, <1>6, <2>1 DEF Fate, WithHeaders
    <3>2. reply'[w] \in ReplyType
          BY <1>4, <1>5, <3>1, RequestsAssumption DEF ReplyType, WithHeaders
    <3>3. api'[w] = api[w] /\ pc'[w] = "sent" /\ (Of(w, api[w]))' = b BY <1>0, <1>1 DEF Of
    <3>4. (Left(Of(w, api[w])))' = Left(b)' BY <3>3 DEF Left
    <3>5. Left(b)' \in Int /\ ends'[b] \in Int BY <1>4, <1>5
    <3> QED BY <3>1, <3>2, <3>3, <3>4, <3>5 DEF Carries
  <2>2. CASE kind # "answer"
    <3>1. kind \in {"error", "lost"} /\ reply'[w] = Bare(kind)
          BY <1>2, <1>6, <2>2 DEF Fate, WithHeaders
    <3> QED BY <3>1, BareReply DEF Carries
  <2> QED BY <2>1, <2>2
<1>8. ASSUME NEW v \in Workers PROVE Informed(v)' /\ reply'[v] \in ReplyType
  <2>1. /\ Believes(v)' /\ Dated(v)' /\ Waits(v)' /\ Passed(v)' /\ Others(v)'
        /\ reply'[v] = Aged(v, b, cost) => Carries(v)' /\ reply'[v] \in ReplyType
        BY <1>1, <1>2, <1>3, <1>8, ExecuteKeeps
  <2>2. CASE v = w BY <1>7, <2>1, <2>2 DEF Informed
  <2>3. CASE v # w
    <3>1. reply'[v] = Aged(v, b, cost) BY <1>2, <1>8, <2>3
    <3> QED BY <2>1, <3>1 DEF Informed
  <2> QED BY <2>2, <2>3
<1>9. TypeOK'
  <2>1. reply' \in [Workers -> ReplyType] BY <1>2, <1>8
  <2> QED BY <1>1, <1>4, <2>1 DEF RequestsInv, TypeOK
<1> QED BY <1>8, <1>9 DEF RequestsInv

LEMMA ServeRefusedKeeps == ASSUME RequestsInv, NEW w \in Workers, ServeRefused(w) PROVE RequestsInv'
<1>0. PICK b \in Budgets : b = Of(w, api[w]) BY Typed
<1>1. /\ UNCHANGED <<left, ends, exits, remaining, resetAt, pc, wait, api, attempt, heard, unheard>>
      /\ pc[w] = "sent"
      BY DEF ServeRefused, github, limiter, known
<1>2. PICK kind \in {"error", "refused", "secondary"} :
        reply' = [reply EXCEPT ![w] = Fate(b, kind, Left(b))]
      BY <1>0 DEF ServeRefused
<1>3. Left(b) \in 0..Budget /\ ends[b] \in 0..Window /\ Budget \in Nat
      BY Typed, LeftTyped
<1>4. reply'[w] = Fate(b, kind, Left(b)) BY <1>2 DEF RequestsInv, TypeOK
<1>5. reply'[w] \in ReplyType /\ Carries(w)'
  <2>1. CASE kind = "error"
    <3>1. reply'[w] = Bare(kind) BY <1>4, <2>1 DEF Fate, WithHeaders
    <3> QED BY <2>1, <3>1, BareReply DEF Carries
  <2>2. CASE kind # "error"
    <3>1. reply'[w] = [kind |-> kind, remaining |-> Left(b), resets |-> ends[b], unheard |-> 0]
          BY <1>2, <1>4, <2>2 DEF Fate, WithHeaders
    <3>2. reply'[w] \in ReplyType
          BY <1>2, <1>3, <2>2, <3>1, RequestsAssumption DEF ReplyType, WithHeaders
    <3>3. /\ pc'[w] = "sent" /\ (Of(w, api[w]))' = b /\ (Left(Of(w, api[w])))' = Left(b)
          /\ ends'[b] = ends[b] /\ api'[w] = api[w]
          BY <1>0, <1>1 DEF Of, Left
    <3>4. Left(b) \in Int /\ ends[b] \in Int BY <1>3
    <3> QED BY <3>1, <3>2, <3>3, <3>4 DEF Carries
  <2> QED BY <2>1, <2>2
<1>6. TypeOK' BY <1>1, <1>2, <1>4, <1>5 DEF RequestsInv, TypeOK
<1>7. ASSUME NEW v \in Workers PROVE Informed(v)'
  <2>1. Informed(v) BY <1>7 DEF RequestsInv
  <2>2. /\ Believes(v)' /\ Dated(v)' /\ Others(v)'
        /\ Rest(v)' = Rest(v) /\ End(v)' = End(v) /\ Missed(v)' = Missed(v)
        BY <1>1, <1>7, UntouchedKeeps
  <2>3. Waits(v)' /\ Passed(v)' BY <1>1, <2>1, <2>2 DEF Informed, Waits, Passed
  <2>4. Carries(v)'
    <3>1. CASE v = w BY <1>5, <3>1
    <3>2. CASE v # w
      <4>1. reply'[v] = reply[v] BY <1>2, <1>7, <3>2 DEF RequestsInv, TypeOK
      <4> QED BY <1>1, <2>1, <4>1 DEF Informed, Carries, Left, Of
    <3> QED BY <3>1, <3>2
  <2> QED BY <2>2, <2>3, <2>4 DEF Informed
<1> QED BY <1>6, <1>7 DEF RequestsInv

LEMMA ServeElsewhereKeeps ==
  ASSUME RequestsInv, NEW b \in Budgets, ServeElsewhere(b) PROVE RequestsInv'
<1>1. /\ UNCHANGED <<exits, remaining, resetAt, pc, wait, api, attempt, heard>> /\ Left(b) > 0
      BY DEF ServeElsewhere, limiter
<1>2. PICK cost \in Costs(b[2]) :
        Execute(b, cost) /\ reply' = [w \in Workers |-> Aged(w, b, cost)]
      BY DEF ServeElsewhere
<1>3. cost \in Nat \ {0}
  <2>1. b[2] \in Apis BY DEF Budgets
  <2> QED BY <1>2, <2>1, CostTyped
<1>4. ASSUME NEW v \in Workers PROVE Informed(v)' /\ reply'[v] \in ReplyType
  <2>1. reply'[v] = Aged(v, b, cost) BY <1>2, <1>4
  <2> QED BY <1>1, <1>2, <1>3, <1>4, <2>1, ExecuteKeeps DEF Informed
<1>5. /\ left' \in [Budgets -> 0..Budget] /\ ends' \in [Budgets -> 0..Window]
      /\ unheard' \in [Workers -> [Apis -> 0..Budget]]
      BY <1>1, <1>2, <1>3, Executed
<1>6. reply' \in [Workers -> ReplyType] BY <1>2, <1>4
<1>7. TypeOK' BY <1>1, <1>5, <1>6 DEF RequestsInv, TypeOK
<1> QED BY <1>4, <1>7 DEF RequestsInv

\* Every deadline comes nearer by one; when a window ends nothing known of it matters.
LEMMA TickKeeps == ASSUME RequestsInv, Tick PROVE RequestsInv'
<1>1. UNCHANGED <<left, exits, remaining, pc, api, attempt, heard, unheard>>
      BY DEF Tick, known
<1>2. ASSUME NEW n \in Nat
      PROVE  Down(n) \in Nat /\ Down(n) <= n /\ (n > 0 => Down(n) = n - 1) /\ (n = 0 => Down(n) = 0)
      BY <1>2 DEF Down, Most
<1>3. ASSUME NEW b \in Budgets
      PROVE  /\ ends'[b] = Down(ends[b]) /\ ends[b] \in 0..Window /\ ends'[b] \in 0..Window
             /\ Left(b) \in 0..Budget /\ Left(b) <= Left(b)' /\ (ends'[b] = 0 => Left(b)' = Budget)
             /\ Left(b)' \in 0..Budget
      BY <1>1, <1>2, <1>3, RequestsAssumption DEF Tick, RequestsInv, TypeOK, Left
<1>4. ASSUME NEW v \in Workers
      PROVE  Informed(v)' /\ reply'[v] \in ReplyType /\ resetAt'[v] \in 0..Window
             /\ wait'[v] \in Nat
  <2> DEFINE r == reply[v] h == Of(v, heard[v]) q == Of(v, api[v])
  <2>1. /\ h \in Budgets /\ q \in Budgets /\ resetAt[v] \in 0..Window /\ wait[v] \in Nat
        /\ Missed(v) \in 0..Budget
        /\ remaining[v] \in 0..Budget /\ r \in ReplyType
        /\ r.resets \in 0..Window /\ r.remaining \in 0..Budget /\ r.unheard \in 0..Budget
        /\ Budget \in Nat /\ Window \in Nat /\ MinRemaining \in 0..Budget
        /\ \A a \in Apis : Of(v, a) \in Budgets /\ unheard[v][a] \in 0..Budget
        BY <1>4, Typed
  <2>2. resetAt'[v] = Down(resetAt[v]) /\ wait'[v] = Down(wait[v])
        BY <1>4 DEF Tick
  <2>3. reply'[v] = [r EXCEPT !.resets = Down(@)] BY <1>4 DEF Tick
  <2>4. Down(r.resets) \in 0..Window /\ Down(resetAt[v]) \in 0..Window
        BY <1>2, <2>1
  <2>5. /\ reply'[v] \in ReplyType /\ reply'[v].kind = r.kind
        /\ reply'[v].remaining = r.remaining /\ reply'[v].unheard = r.unheard
        /\ reply'[v].resets = Down(r.resets)
        BY <2>1, <2>3, <2>4 DEF ReplyType
  <2>6. Informed(v) BY <1>4 DEF RequestsInv
  <2>7. /\ End(v)' = Down(End(v)) /\ End(v) \in 0..Window
        /\ Rest(v) \in 0..Budget /\ Rest(v)' \in 0..Budget /\ Missed(v)' = Missed(v)
        /\ Rest(v) <= Rest(v)' /\ (End(v)' = 0 => Rest(v)' = Budget)
    <3>1. PICK b \in Budgets : b = h BY <2>1
    <3>2. /\ Rest(v) = Left(b) /\ Rest(v)' = Left(b)' /\ End(v) = ends[b] /\ End(v)' = ends'[b]
          /\ Missed(v)' = Missed(v)
          BY <1>1, <3>1 DEF Rest, End, Missed, Left, Of
    <3> HIDE DEF h
    <3> QED BY <1>3, <3>2
  <2>8. Believes(v)' BY <1>1, <2>1, <2>6, <2>7 DEF Informed, Believes
  <2>9. Dated(v)'
        BY <1>1, <1>2, <2>1, <2>2, <2>6, <2>7 DEF Informed, Dated
  <2>10. Waits(v)'
        BY <1>1, <1>2, <2>1, <2>2, <2>6, <2>7 DEF Informed, Waits
  <2>11. Carries(v)'
    <3>0. PICK b \in Budgets : b = q BY <2>1
    <3>1. (Left(Of(v, api[v])))' = Left(b)' /\ ends'[(Of(v, api[v]))'] = ends'[b]
          BY <1>1, <3>0 DEF Left, Of
    <3>2. /\ ends'[b] = Down(ends[b]) /\ ends[b] \in 0..Window
          /\ Left(b) \in 0..Budget /\ Left(b)' \in 0..Budget
          /\ Left(b) <= Left(b)' /\ (ends'[b] = 0 => Left(b)' = Budget)
          BY <1>3
    <3>3. CASE r.kind \notin WithHeaders BY <2>5, <3>3 DEF Carries
    <3>4. CASE r.kind \in WithHeaders
      <4>1. /\ pc[v] = "sent" /\ r.remaining <= Left(b) + r.unheard
            /\ ends[b] <= r.resets \/ Left(b) + r.unheard >= Budget
            BY <2>6, <3>0, <3>4 DEF Informed, Carries
      <4>2. r.remaining <= Left(b)' + r.unheard BY <2>1, <3>2, <4>1
      <4>3. ends'[b] <= Down(r.resets) \/ Left(b)' + r.unheard >= Budget
            BY <1>2, <2>1, <3>2, <4>1
      <4>4. pc'[v] = "sent" BY <1>1, <4>1
      <4> HIDE DEF q, r
      <4> QED BY <2>5, <3>1, <4>2, <4>3, <4>4 DEF Carries
    <3> QED BY <3>3, <3>4
  <2>12. Passed(v)' BY <1>1, <2>6 DEF Informed, Passed
  <2>13. Others(v)'
    <3>1. ASSUME NEW a \in Apis \ {heard[v]}
          PROVE  (Left(Of(v, a)))' + unheard'[v][a] >= MinRemaining
      <4>1. Left(Of(v, a)) + unheard[v][a] >= MinRemaining BY <2>6 DEF Informed, Others
      <4>2. (Left(Of(v, a)))' >= Left(Of(v, a)) /\ (Left(Of(v, a)))' \in Int /\ Left(Of(v, a)) \in Int
        <5>1. PICK b \in Budgets : b = Of(v, a) BY <2>1
        <5>2. Left(b) <= Left(b)' /\ Left(b)' \in Int /\ Left(b) \in Int BY <1>3
        <5>3. (Left(Of(v, a)))' = Left(b)' BY <5>1 DEF Left, Of
        <5> QED BY <5>1, <5>2, <5>3
      <4>3. unheard'[v][a] = unheard[v][a] /\ unheard[v][a] \in Int /\ MinRemaining \in Int
            BY <1>1, <2>1
      <4> QED BY <4>1, <4>2, <4>3
    <3> QED BY <1>1, <3>1 DEF Others
  <2> QED BY <1>2, <2>1, <2>2, <2>4, <2>5, <2>8, <2>9, <2>10, <2>11, <2>12, <2>13 DEF Informed
<1>5. TypeOK'
  <2>1. ends' \in [Budgets -> 0..Window] BY <1>3 DEF Tick
  <2>2. /\ reply' \in [Workers -> ReplyType] /\ resetAt' \in [Workers -> 0..Window]
        /\ wait' \in [Workers -> Nat]
        BY <1>4 DEF Tick
  <2> QED BY <1>1, <2>1, <2>2 DEF RequestsInv, TypeOK
<1> QED BY <1>4, <1>5 DEF RequestsInv

-----------------------------------------------------------------------------
(* The theorems *)

LEMMA RequestsKeep == RequestsInv /\ [Next]_vars => RequestsInv'
<1> SUFFICES ASSUME RequestsInv, [Next]_vars PROVE RequestsInv' OBVIOUS
<1>1. ASSUME NEW w \in Workers, Step(w) PROVE RequestsInv'
      BY <1>1, ResumeKeeps, ProceedKeeps, ToldKeeps, AbortKeeps, ReceiveKeeps DEF Step
<1>2. CASE UNCHANGED vars
  <2>1. TypeOK' BY <1>2 DEF RequestsInv, TypeOK, vars, github, limiter, known
  <2>2. ASSUME NEW v \in Workers PROVE Informed(v)'
        BY <1>2, <2>2 DEF RequestsInv, Informed, Believes, Dated, Waits, Carries, Passed, Others,
                          Rest, End, Missed, Left, Of, vars, github, limiter, known
  <2> QED BY <2>1, <2>2 DEF RequestsInv
<1> QED BY <1>1, <1>2, AskKeeps, RestartKeeps, ServeExecutedKeeps, ServeRefusedKeeps,
           ServeElsewhereKeeps, TickKeeps DEF Next

LEMMA RequestsInductive == Spec => []RequestsInv
<1> QED BY InitInformed, RequestsKeep, PTL DEF Spec

\* Every worker's limiter, timer and attempt counter stay within their bounds, whatever
\* GitHub answers.
THEOREM RequestsTypeCorrect == Spec => []TypeOK
<1>1. RequestsInv => TypeOK BY DEF RequestsInv
<1> QED BY <1>1, RequestsInductive, PTL

\* RateLimiter: what a worker believes is what its token has left of the API it heard of
\* last, but for the points charged since that it has not heard of, also after the reset it
\* has waited for without an answer.
THEOREM EnoughKnown == Spec => []KnowsEnough
<1>1. RequestsInv => KnowsEnough
      BY DEF RequestsInv, Informed, Believes, KnowsEnough, Rest, Missed
<1> QED BY <1>1, RequestsInductive, PTL

\* waitIfNeeded: no request meets a used-up budget unless MinRemaining points of that very
\* budget went unheard, whatever a query costs and although the limiter of both APIs is one.
THEOREM RefusalsUnheard == Spec => []RefusalsAreUnheard
<1>1. ASSUME RequestsInv, NEW w \in Workers, pc[w] = "sent", Left(Of(w, api[w])) = 0
      PROVE  unheard[w][api[w]] >= MinRemaining
  <2>1. Informed(w) BY <1>1 DEF RequestsInv
  <2>2. /\ api[w] \in Apis /\ unheard[w][api[w]] \in 0..Budget /\ MinRemaining \in 0..Budget
        /\ remaining[w] \in 0..Budget /\ Budget \in Nat
    <3>1. /\ api[w] \in Apis /\ \A a \in Apis : unheard[w][a] \in 0..Budget
          /\ MinRemaining \in 0..Budget /\ remaining[w] \in 0..Budget /\ Budget \in Nat
          BY <1>1, Typed
    <3> QED BY <3>1
  <2>3. CASE api[w] = heard[w]
    <3>1. remaining[w] <= Left(Of(w, api[w])) + unheard[w][api[w]] /\ remaining[w] >= MinRemaining
          BY <1>1, <2>1, <2>3 DEF Informed, Believes, Passed, Rest, Missed
    <3> QED BY <1>1, <2>2, <3>1
  <2>4. CASE api[w] # heard[w]
    <3>1. Left(Of(w, api[w])) + unheard[w][api[w]] >= MinRemaining
          BY <2>1, <2>2, <2>4 DEF Informed, Others
    <3> QED BY <1>1, <2>2, <3>1
  <2> QED BY <2>3, <2>4
<1>2. RequestsInv => RefusalsAreUnheard BY <1>1 DEF RefusalsAreUnheard
<1> QED BY <1>2, RequestsInductive, PTL
=============================================================================
