----------------------------- MODULE QueryCache -----------------------------
(***************************************************************************)
(* The in-memory cache of an instance of the app (getCached, setCache and  *)
(* query of app/src/lib/clickhouse.ts): answers of queries are cached, and *)
(* some functions cache once more what they compute from several answers,  *)
(* which may come from the cache themselves.  Nothing keeps two requests   *)
(* from asking the same, and an answer is stored when it arrives, by the   *)
(* clock of then.                                                          *)
(*                                                                         *)
(* Of what is cached only its age matters: how long ago the oldest part of  *)
(* it was read from the database.  Times are relative to the clock.        *)
(***************************************************************************)
EXTENDS Integers, Sequences

CONSTANTS
  CacheQueries,   \* keys of query(): the SQL and its parameters
  Derived,   \* keys of getOrgSummary, getDataCollectionStats and getPrCommentSyncPct
  Awaits,    \* of a derived key: the sets of queries it awaits one after the other
  TTL,       \* how long a key is kept
  Slow,      \* the longest a query takes
  Requests   \* what an instance works at

CacheKeys == CacheQueries \cup Derived
None == -1
NoEntry == [age |-> 0, left |-> 0]
NoRequest == [key |-> "none"]

ASSUME QueryCacheAssumption ==
  /\ CacheQueries \cap Derived = {} /\ "none" \notin CacheKeys
  /\ Awaits \in [Derived -> Seq(SUBSET CacheQueries)]
  /\ TTL \in [CacheKeys -> Nat \ {0}] /\ Slow \in Nat \ {0}

VARIABLES
  cache,   \* the entries: their age, and how long they will still be served
  working  \* of every request: [key, stage, asked, flying, oldest, failed], or NoRequest:
           \* the answers of a stage were asked for so long ago, those of flying are still
           \* awaited, with the time since the database has read them, or None
cacheVars == <<cache, working>>

\* The queries a key awaits: itself, if it is one.
Stages(key) == IF key \in CacheQueries THEN <<{key}>> ELSE Awaits[key]

\* getCached finds something.
Cached(key) == cache[key].left > 0

\* Mutant of SetCache: every answer is kept as long as the reference data.
SetCacheLongest(key, age) ==
  cache' = [cache EXCEPT ![key] =
    [age |-> age, left |-> CHOOSE t \in {TTL[k] : k \in CacheKeys} : \A k \in CacheKeys : t >= TTL[k]]]

\* setCache.
SetCache(key, age) == cache' = [cache EXCEPT ![key] = [age |-> age, left |-> TTL[key]]]

OlderOf(a, b) == IF a > b THEN a ELSE b

\* The age of the oldest of some answers that are cached, and of what is there already.
OldestOf(keys, age) ==
  CHOOSE a \in {age} \cup {cache[k].age : k \in keys} :
    a >= age /\ \A k \in keys : a >= cache[k].age

\* A stage begins: what is not cached is asked for.
Enter(key, stage, oldest) ==
  LET cached == {q \in Stages(key)[stage] : Cached(q)} IN
  [key |-> key, stage |-> stage, asked |-> 0, failed |-> FALSE,
   flying |-> [q \in Stages(key)[stage] \ cached |-> None],
   oldest |-> OldestOf(cached, oldest)]

\* A page needs a key.
BeginPage(r, key) ==
  /\ working[r] = NoRequest /\ ~Cached(key) /\ Stages(key) # <<>>
  /\ working' = [working EXCEPT ![r] = Enter(key, 1, 0)]
  /\ UNCHANGED cache

Busy(r) == working[r] # NoRequest
Flying(r) == DOMAIN working[r].flying
Landed(r, q) == [x \in Flying(r) \ {q} |-> working[r].flying[x]]

\* The database has read what a query asks for.
DatabaseReads(r, q) ==
  /\ Busy(r) /\ q \in Flying(r) /\ working[r].flying[q] = None
  /\ working' = [working EXCEPT ![r].flying[q] = 0]
  /\ UNCHANGED cache

\* query() stores the answer when it arrives.
Answered(r, q) ==
  /\ Busy(r) /\ q \in Flying(r) /\ working[r].flying[q] # None
  /\ SetCache(q, working[r].flying[q])
  /\ working' = [working EXCEPT ![r].flying = Landed(r, q),
                                ![r].oldest = OlderOf(@, working[r].flying[q])]

\* It fails: the page is an error, the other queries of Promise.all go on.
Fails(r, q) ==
  /\ Busy(r) /\ q \in Flying(r)
  /\ working' = [working EXCEPT ![r].flying = Landed(r, q), ![r].failed = TRUE]
  /\ UNCHANGED cache

\* All answers of a stage are there: the next one, or the result, which is cached again.
Proceed(r) ==
  /\ Busy(r) /\ Flying(r) = {}
  /\ LET w == working[r] IN
     IF w.failed THEN working' = [working EXCEPT ![r] = NoRequest] /\ UNCHANGED cache
     ELSE IF w.stage < Len(Stages(w.key))
     THEN /\ working' = [working EXCEPT ![r] = Enter(w.key, w.stage + 1, w.oldest)]
          /\ UNCHANGED cache
     ELSE /\ working' = [working EXCEPT ![r] = NoRequest]
          /\ IF w.key \in Derived THEN SetCache(w.key, w.oldest) ELSE UNCHANGED cache

\* An entry a moment later.
Passed(entry) ==
  IF entry.left <= 1 THEN NoEntry ELSE [age |-> entry.age + 1, left |-> entry.left - 1]

\* A request a moment later.
Waited(w) ==
  IF w = NoRequest THEN w
  ELSE [w EXCEPT !.asked = @ + 1, !.oldest = @ + 1,
                 !.flying = [q \in DOMAIN @ |-> IF @[q] = None THEN None ELSE @[q] + 1]]

\* A query takes Slow at most (max_execution_time, request_timeout), the rest no time.
Tick ==
  /\ \A r \in Requests : Busy(r) => working[r].asked < Slow
  /\ cache' = [k \in CacheKeys |-> Passed(cache[k])]
  /\ working' = [r \in Requests |-> Waited(working[r])]

CacheInit == cache = [k \in CacheKeys |-> NoEntry] /\ working = [r \in Requests |-> NoRequest]

CacheNext ==
  \/ \E r \in Requests :
       \/ \E key \in CacheKeys : BeginPage(r, key)
       \/ \E q \in CacheQueries : DatabaseReads(r, q) \/ Answered(r, q) \/ Fails(r, q)
       \/ Proceed(r)
  \/ Tick

CacheSpec == CacheInit /\ [][CacheNext]_cacheVars

-----------------------------------------------------------------------------
CONSTANT Longest  \* the longest a query is kept

ASSUME LongestAssumption == Longest \in Nat /\ \A q \in CacheQueries : TTL[q] <= Longest

\* What is served of a key was read from the database no longer ago than it is kept, and,
\* if it was computed from cached answers, than these are kept, added up: not longer
\* than that for the time the queries took, whatever order the answers of several requests
\* arrive in, and although an old answer may replace a newer one.
AnswersAreRecent ==
  \A k \in CacheKeys : Cached(k) =>
    cache[k].age < TTL[k] + (IF k \in CacheQueries THEN Slow
                             ELSE Longest + (Len(Stages(k)) + 1) * Slow)
=============================================================================
