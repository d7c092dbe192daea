------------------------------- MODULE Fleet -------------------------------
(***************************************************************************)
(* Who runs "enrich", with which token, which part of the items and from   *)
(* which IP: the tasks of the scheduled job (infra/cloud-run-jobs.ts,      *)
(* cmdEnrich of pipeline/src/cli.ts), and the loops that workers.sh starts *)
(* on a VM, each pinned to a proxy (enrichment/proxy-pool.ts).  The list of *)
(* tokens is a secret and the number of tasks a setting of the job, and     *)
(* both come from one configuration but change one after the other.        *)
(***************************************************************************)
EXTENDS Integers, Sequences, FiniteSets

CONSTANTS
  MaxTokens,    \* bound: the tokens in the secret; a longer list continues a shorter one
  ProxyLists,   \* what the secret of proxies may hold: its entries, trimmed
  ItemHashes,   \* the hashes of the items
  TaskTries     \* a task is started that often at most

ASSUME FleetAssumption ==
  /\ MaxTokens \in Nat \ {0} /\ TaskTries \in Nat \ {0} /\ ItemHashes \subseteq Nat
  /\ ProxyLists \subseteq Seq(STRING)

VARIABLES
  configured, \* githubTokens of the Pulumi stack: how many
  secret,     \* how many the secret holds
  taskCount,  \* of the job
  proxies,    \* the entries of the secret of proxies
  tasks,      \* of an execution: [state, tries, total], the total being what cmdEnrich saw
  session     \* the tmux session: [workers, urls], no workers when there is none
fleetVars == <<configured, secret, taskCount, proxies, tasks, session>>

NoSession == [workers |-> 0, urls |-> <<>>]
Waiting == [state |-> "waiting", tries |-> 0, total |-> 0]

FleetInit ==
  /\ configured = 1 /\ secret = 1 /\ taskCount = 1
  /\ proxies \in ProxyLists /\ tasks = <<>> /\ session = NoSession

Blank == ""  \* what is left of an entry without a URL

\* parseProxyUrls: the entries that are not blank, one after the other.
ParseProxyUrls(entries) ==
  LET kept[n \in 0 .. Len(entries)] ==
        IF n = 0 THEN <<>>
        ELSE IF entries[n] # Blank THEN Append(kept[n - 1], entries[n]) ELSE kept[n - 1]
  IN kept[Len(entries)]

\* PATHWAY_COUNT, counted by awk: 0 without proxies.
PathwayCount(entries) ==
  LET count == Cardinality({i \in DOMAIN entries : entries[i] # Blank}) IN
  IF count > 0 THEN count + 1 ELSE 0

\* Mutant of PinnedIndex: the direct path is forgotten.
PinnedIndexProxies(urls, workerId) ==
  IF urls = <<>> THEN 0 ELSE 1 + (workerId % Len(urls))

\* createPinnedFetch: 0 is the direct path.
PinnedIndex(urls, workerId) == IF urls = <<>> THEN 0 ELSE workerId % (Len(urls) + 1)

\* createRotatingFetch: the path of a request.
RotatedIndex(urls, request) == request % (Len(urls) + 1)

\* The operator sets another list of tokens; pulumi up updates the secret and the job.
Configure(n) ==
  /\ n # configured /\ configured' = n
  /\ UNCHANGED <<secret, taskCount, proxies, tasks, session>>
UpdateSecret ==
  /\ secret' = configured
  /\ UNCHANGED <<configured, taskCount, proxies, tasks, session>>
UpdateJob ==
  /\ taskCount' = configured
  /\ UNCHANGED <<configured, secret, proxies, tasks, session>>

\* The schedule executes the job: its tasks are numbered from 0.
ExecuteJob ==
  /\ tasks = <<>>
  /\ tasks' = [i \in 0 .. taskCount - 1 |-> Waiting]
  /\ UNCHANGED <<configured, secret, taskCount, proxies, session>>

SetTask(i, task) ==
  /\ tasks' = [tasks EXCEPT ![i] = task]
  /\ UNCHANGED <<configured, secret, taskCount, proxies, session>>

\* A task that failed is started again, or has failed for good.
Retried(task) ==
  IF task.tries < TaskTries THEN [task EXCEPT !.state = "waiting"]
  ELSE [task EXCEPT !.state = "failed"]

\* It starts: cmdEnrich takes the token of its index, out of as many as it finds now.
TaskStarts(i) ==
  /\ tasks[i].state = "waiting"
  /\ LET task == [tasks[i] EXCEPT !.tries = @ + 1, !.total = secret] IN
     SetTask(i, IF i < secret THEN [task EXCEPT !.state = "working"] ELSE Retried(task))

TaskDies(i) == tasks[i].state = "working" /\ SetTask(i, Retried(tasks[i]))
TaskEnds(i) == tasks[i].state = "working" /\ SetTask(i, [tasks[i] EXCEPT !.state = "done"])

\* The execution is over.
ExecutionEnds ==
  /\ tasks # <<>> /\ \A i \in DOMAIN tasks : tasks[i].state \in {"done", "failed"}
  /\ tasks' = <<>>
  /\ UNCHANGED <<configured, secret, taskCount, proxies, session>>

\* cmd_start replaces the session: a worker per token, at most as many as there are paths.
CmdStart ==
  /\ LET pathways == PathwayCount(proxies)
         workers == IF pathways > 0 /\ secret > pathways THEN pathways ELSE secret
     IN session' = [workers |-> workers, urls |-> ParseProxyUrls(proxies)]
  /\ UNCHANGED <<configured, secret, taskCount, proxies, tasks>>

CmdStop ==
  /\ session # NoSession /\ session' = NoSession
  /\ UNCHANGED <<configured, secret, taskCount, proxies, tasks>>

SetProxies(entries) ==
  /\ proxies # entries /\ proxies' = entries
  /\ UNCHANGED <<configured, secret, taskCount, tasks, session>>

FleetNext ==
  \/ \E n \in 1 .. MaxTokens : Configure(n)
  \/ UpdateSecret \/ UpdateJob \/ ExecuteJob \/ ExecutionEnds \/ CmdStart \/ CmdStop
  \/ \E i \in DOMAIN tasks : TaskStarts(i) \/ TaskDies(i) \/ TaskEnds(i)
  \/ \E entries \in ProxyLists : SetProxies(entries)

FleetSpec == FleetInit /\ [][FleetNext]_fleetVars

-----------------------------------------------------------------------------
\* The task that has an item, by the filter of partitioner.ts.
Claims(i, h) == tasks[i].state \in {"working", "done"} /\ h % tasks[i].total = i

\* As long as the tasks of an execution found the same tokens, no item is of two of them,
\* none works with an index beyond, and at the end every item was somebody's, unless a task
\* gave up or the job has fewer tasks than tokens, between the two updates.
TasksCover ==
  LET looked == {i \in DOMAIN tasks : tasks[i].tries > 0}
      totals == {tasks[i].total : i \in looked}
  IN Cardinality(totals) = 1 =>
       LET total == CHOOSE n \in totals : TRUE IN
       /\ \A i \in looked : tasks[i].state \in {"working", "done"} => i < total
       /\ \A h \in ItemHashes : Cardinality({i \in looked : Claims(i, h)}) <= 1
       /\ (\A i \in DOMAIN tasks : tasks[i].state = "done" \/ i >= total)
            /\ Cardinality(DOMAIN tasks) >= total
            => \A h \in ItemHashes : \E i \in looked : Claims(i, h)

\* Workers of a VM: every item has one of them, and with proxies each has an IP of its own;
\* requests that rotate use every path equally often.
WorkersCover ==
  LET workers == 0 .. session.workers - 1
      paths == 0 .. Len(session.urls)
  IN session # NoSession =>
       /\ \A h \in ItemHashes : Cardinality({w \in workers : h % session.workers = w}) = 1
       /\ session.urls # <<>> =>
            \A p \in paths : Cardinality({w \in workers : PinnedIndex(session.urls, w) = p}) <= 1
       /\ \A p, q \in paths, n \in 0 .. 2 * Len(session.urls) + 2 :
            LET uses(path) == Cardinality({k \in 0 .. n : RotatedIndex(session.urls, k) = path})
            IN uses(p) - uses(q) \in {-1, 0, 1}

\* The work is divided without gaps and overlaps, whoever divides it.
WorkIsDivided == TasksCover /\ WorkersCover
=============================================================================
