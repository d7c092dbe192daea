---------------------------- MODULE MCStatistics ----------------------------
(* Two PRs of two repositories and two bots of two products; and the cache of an   *)
(* instance with two queries and the statistics computed from both.                *)
EXTENDS Statistics, QueryCache, TLC

MCRepoOf == [p \in PRs |-> IF p = "p1" THEN "r1" ELSE "r2"]
MCProductOf == [b \in Bots |-> b]
MCOldEvents == {<<"p1", "b1">>}

MCAwaits == "stats" :> <<{"counts"}, {"state"}>>
MCTTL == "counts" :> 1 @@ "state" :> 2 @@ "stats" :> 3

VARIABLE topic  \* what is looked at

StatusInit == Init /\ CacheInit /\ topic \in {"tables", "cache"} /\ (topic = "cache" => version = 1)
StatusNext ==
  /\ UNCHANGED topic
  /\ \/ topic = "tables" /\ Next /\ UNCHANGED cacheVars
     \/ topic = "cache" /\ CacheNext /\ UNCHANGED vars
StatusSpec == StatusInit /\ [][StatusNext]_<<vars, cacheVars, topic>>
=============================================================================
