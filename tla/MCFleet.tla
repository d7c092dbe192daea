------------------------------ MODULE MCFleet ------------------------------
(* Two workers of the pipeline; who starts them; and the deploys of what they run. *)
EXTENDS MCEnrichment, Fleet, Rollout, TLC

\* The second release renames the product of a and adds a bot.
MCRegistry == "one" :> ("a" :> "P") @@ "two" :> ("a" :> "Q" @@ "b" :> "R")
MCLoginsOf == "one" :> {<<"a", "l">>} @@ "two" :> {<<"a", "l">>, <<"a", "m">>, <<"b", "n">>}
MCSchemaOf == "one" :> 1 @@ "two" :> 2
MCJobs == <<"sync", "discover">>

MCProxyLists == {<<>>, <<"">>, <<"u", "">>, <<"u", "v">>}

\* The job and the VM share nothing but the secret of tokens, which each reads once: they are
\* looked at one after the other.
VARIABLE topic  \* what is looked at

FleetRunInit ==
  Init /\ FleetInit /\ RolloutInit /\ topic \in {"workers", "fleet", "rollout"}
  /\ (topic # "fleet" => proxies = <<>>)
FleetRunNext ==
  /\ UNCHANGED topic
  /\ \/ topic = "workers" /\ Next /\ UNCHANGED <<fleetVars, rolloutVars>>
     \/ /\ topic = "fleet" /\ FleetNext /\ UNCHANGED <<vars, rolloutVars>>
        /\ tasks' # <<>> => session' = NoSession /\ proxies' = <<>>
     \/ topic = "rollout" /\ RolloutNext /\ UNCHANGED <<vars, fleetVars>>
FleetRunSpec == FleetRunInit /\ [][FleetRunNext]_<<vars, fleetVars, rolloutVars, topic>>
=============================================================================
