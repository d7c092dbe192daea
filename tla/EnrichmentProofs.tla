---- MODULE EnrichmentProofs ----
(***************************************************************************)
(* Theorems about the enrichment workers, for every number of workers,     *)
(* repositories and pull requests and every behaviour of GitHub.           *)
(***************************************************************************)
EXTENDS Enrichment, SequenceTheorems, TLAPS

-----------------------------------------------------------------------------
(* The operators the steps are built from *)

\* The batch size stays between its bounds (adaptive-batch.ts).
LEMMA AdaptiveType ==
  /\ Fresh \in AdaptiveBatches
  /\ \A b \in AdaptiveBatches : /\ OnSuccess(b) \in AdaptiveBatches
                                /\ OnServerError(b) \in AdaptiveBatches
<1>1. Fresh \in AdaptiveBatches
  BY BatchAssumption DEF Fresh, AdaptiveBatches
<1>2. ASSUME NEW b \in AdaptiveBatches PROVE OnServerError(b) \in AdaptiveBatches
  BY <1>2, BatchAssumption DEF AdaptiveBatches, OnServerError, Greater
<1>3. ASSUME NEW b \in AdaptiveBatches PROVE OnSuccess(b) \in AdaptiveBatches
  <2>1. GrowthStep \in Nat
    BY BatchAssumption DEF GrowthStep, Greater
  <2>2. /\ b = [size |-> b.size, streak |-> b.streak]
        /\ b.size \in BatchMin .. BatchMax /\ b.streak \in 0 .. RecoveryThreshold - 1
    BY <1>3 DEF AdaptiveBatches
  <2>3. CASE b.size >= BatchMax
    BY <2>2, <2>3, BatchAssumption DEF AdaptiveBatches, OnSuccess
  <2>4. CASE b.size < BatchMax /\ b.streak + 1 >= RecoveryThreshold
    <3>1. Lesser(BatchMax, b.size + GrowthStep) \in BatchMin .. BatchMax
      BY <2>1, <2>2, <2>4, BatchAssumption DEF Lesser
    <3> QED BY <2>2, <2>4, <3>1, BatchAssumption DEF AdaptiveBatches, OnSuccess
  <2>5. CASE b.size < BatchMax /\ b.streak + 1 < RecoveryThreshold
    BY <2>2, <2>5, BatchAssumption DEF AdaptiveBatches, OnSuccess
  <2> QED BY <2>2, <2>3, <2>4, <2>5, BatchAssumption
<1> QED BY <1>1, <1>2, <1>3

\* Every plan is a non-empty sequence of stages (worker.ts, planExecution).
LEMMA PlanType ==
  ASSUME NEW o \in OptionRecords
  PROVE  PlanExecution(o) \in Seq(Stages) /\ PlanExecution(o) # <<>>
<1>1. CASE o.only # "none"
  <2>1. o.only \in Stages
    BY <1>1 DEF OptionRecords, Stages, Steps
  <2>2. PlanExecution(o) = <<o.only>>
    BY <1>1 DEF PlanExecution
  <2> QED BY <2>1, <2>2
<1>2. CASE o.only = "none"
  <2>1. o.priority \in {"none", "repos", "reactions", "comments", "prs"}
    BY DEF OptionRecords, Steps
  <2>2. CASE o.priority = "none"
    <3>1. PlanExecution(o) =
            <<"combined", "repos", "reactions", "comments", "prs", "refresh">>
      BY <1>2, <2>2 DEF PlanExecution
    <3> QED BY <3>1 DEF Stages
  <2>3. CASE o.priority = "repos"
    <3>1. PlanExecution(o) = <<"repos", "reactions", "comments", "prs", "refresh">>
      BY <1>2, <2>3 DEF PlanExecution
    <3> QED BY <3>1 DEF Stages
  <2>4. CASE o.priority = "reactions"
    <3>1. PlanExecution(o) = <<"reactions", "repos", "comments", "prs", "refresh">>
      BY <1>2, <2>4 DEF PlanExecution
    <3> QED BY <3>1 DEF Stages
  <2>5. CASE o.priority = "comments"
    <3>1. PlanExecution(o) =
            <<"combined", "comments", "repos", "reactions", "prs", "refresh">>
      BY <1>2, <2>5 DEF PlanExecution
    <3> QED BY <3>1 DEF Stages
  <2>6. CASE o.priority = "prs"
    <3>1. PlanExecution(o) =
            <<"combined", "prs", "repos", "reactions", "comments", "refresh">>
      BY <1>2, <2>6 DEF PlanExecution
    <3> QED BY <3>1 DEF Stages
  <2> QED BY <2>1, <2>2, <2>3, <2>4, <2>5, <2>6
<1> QED BY <1>1, <1>2

\* The head and the tail of a plan.
LEMMA PlanStep ==
  ASSUME NEW p \in Seq(Stages), p # <<>>
  PROVE  Head(p) \in Stages /\ Tail(p) \in Seq(Stages) /\ (Len(p) # 1 => Tail(p) # <<>>)
<1>1. Head(p) \in Stages /\ Tail(p) \in Seq(Stages) /\ Len(Tail(p)) = Len(p) - 1
  BY HeadTailProperties
<1>2. Len(p) \in Nat
  OBVIOUS
<1>3. Len(<<>>) = 0
  OBVIOUS
<1>4. ASSUME Tail(p) = <<>> PROVE Len(p) = 1
  <2>1. Len(p) - 1 = 0
    BY <1>1, <1>3, <1>4
  <2> QED BY <1>2, <2>1
<1> QED BY <1>1, <1>4

\* A selection query returns items of the kind the stage works on.
LEMMA WindowType ==
  ASSUME TablesOK, RunsOK, NEW w \in Workers, Stage(w) \in Stages, NEW W \in Windows(w)
  PROVE  W \subseteq Items(Stage(w))
<1>1. Selectable(w) \subseteq Combos
  BY DEF Selectable, TablesOK
<1>2. PRsOf(Selectable(w)) \subseteq PRs
  BY <1>1, WorldAssumption DEF PRsOf
<1>3. CASE Stage(w) = "combined"
  BY <1>1, <1>3 DEF Windows, LimitedTo, PendingCombined, Items
<1>4. CASE Stage(w) = "comments"
  BY <1>1, <1>4 DEF Windows, LimitedTo, PendingComments, Items
<1>5. CASE Stage(w) = "prs"
  BY <1>2, <1>5 DEF Windows, LimitedTo, PendingPulls, Items
<1>6. CASE Stage(w) = "reactions"
  BY <1>2, <1>6 DEF Windows, ScanWindows, PendingScans, Items
<1>7. CASE Stage(w) = "repos"
  BY <1>7 DEF Partition, Windows, LimitedTo, PendingRepos, Items
<1>8. CASE Stage(w) = "refresh"
  BY <1>8 DEF Partition, Windows, StaleWindows, Items
<1> QED BY <1>3, <1>4, <1>5, <1>6, <1>7, <1>8 DEF Stages

\* A batch is a part of what is left to do.
LEMMA BatchType ==
  ASSUME NEW w \in Workers, NEW b \in Batches(w)
  PROVE  b \subseteq todo[w]
<1>1. PICK G \in LimitedTo(Groups(w), adaptive[w].size) : b = UNION G
  BY DEF Batches
<1>2. \A g \in G : g \subseteq todo[w]
  BY <1>1 DEF LimitedTo, Groups
<1> QED BY <1>1, <1>2

\* A reply speaks of what was asked, in words the stage understands.
LEMMA ReplyType ==
  ASSUME TablesOK, NEW w \in Workers, Stage(w) \in Stages,
         NEW b \in SUBSET Items(Stage(w)), NEW f \in Replies(w, b)
  PROVE  /\ \E K \in SUBSET Keys(Stage(w)) : f \in [K -> Kinds]
         /\ Stage(w) \in {"repos", "refresh"} =>
              \A r \in DOMAIN f : f[r] \in {"ok"} \cup Blocked
         /\ Stage(w) = "comments" => DOMAIN f \subseteq b
<1> DEFINE A == Asked(w, b)
<1>1. f \in [A -> Kinds] /\ (Stage(w) \in {"repos", "refresh"} => f \in [A -> {"ok"} \cup Blocked])
  <2>1. CASE Stage(w) = "combined"
    <3>1. PICK n \in PRNodes(A) : f = [p \in A |-> CombinedResult(n[p])]
      BY <2>1 DEF Replies, CombinedReplies
    <3> QED BY <2>1, <3>1 DEF CombinedResult, Visible, Kinds, Nodes, Blocked
  <2>2. CASE Stage(w) = "comments"
    <3>1. CASE f = [c \in A |-> "partial"]
      BY <2>2, <3>1 DEF Kinds
    <3>2. CASE \E n \in ComboNodes(A) : f = [c \in A |-> CommentResult(n[c])]
      <4>1. PICK n \in ComboNodes(A) : f = [c \in A |-> CommentResult(n[c])]
        BY <3>2
      <4>2. n \in [A -> Nodes]
        BY DEF ComboNodes
      <4> QED BY <2>2, <4>1, <4>2 DEF CommentResult, Kinds, Nodes
    <3> QED BY <2>2, <3>1, <3>2 DEF Replies, CommentReplies
  <2>3. CASE Stage(w) = "reactions"
    <3>1. CASE f = [p \in A |-> "partial"]
      BY <2>3, <3>1 DEF Kinds
    <3>2. CASE \E n \in PRNodes(A) : f = [p \in A |-> ReactionResult(n[p])]
      <4>1. PICK n \in PRNodes(A) : f = [p \in A |-> ReactionResult(n[p])]
        BY <3>2
      <4>2. n \in [A -> Nodes]
        BY DEF PRNodes
      <4> QED BY <2>3, <4>1, <4>2 DEF ReactionResult, Kinds, Nodes
    <3> QED BY <2>3, <3>1, <3>2 DEF Replies, ReactionReplies
  <2>4. CASE Stage(w) = "prs"
    <3>1. PICK n \in PRNodes(A) : f = [p \in A |-> PullResult(n[p])]
      BY <2>4 DEF Replies, PullReplies
    <3> QED BY <2>4, <3>1 DEF PullResult, Kinds, Nodes, Blocked
  <2>5. CASE Stage(w) \in {"repos", "refresh"}
    <3>1. f \in RepoReplies(A)
      BY <2>5 DEF Replies
    <3>2. f \in [A -> {"ok"} \cup Blocked]
      BY <3>1 DEF RepoReplies, RepoResult, ThrownRepoResult, Blocked
    <3> QED BY <3>2 DEF Kinds
  <2> QED BY <2>1, <2>2, <2>3, <2>4, <2>5 DEF Stages
<1>2. A \subseteq Keys(Stage(w))
  <2>1. CASE Stage(w) = "combined"
    BY <2>1, WorldAssumption DEF Asked, Known, PRsOf, Keys, Items
  <2>2. CASE Stage(w) = "comments"
    BY <2>2 DEF Asked, Known, Keys, Items
  <2>3. CASE Stage(w) \notin {"combined", "comments"}
    BY <2>3 DEF Asked, Keys
  <2> QED BY <2>1, <2>2, <2>3
<1>3. Stage(w) = "comments" => A \subseteq b
  BY DEF Asked, Known
<1> QED BY <1>1, <1>2, <1>3

-----------------------------------------------------------------------------
(* TypeOK is inductive *)

\* A worker whose lists a step leaves alone keeps them in order.
LEMMA OthersKeep ==
  ASSUME NEW v \in Workers, ListsOK(v),
         plan'[v] = plan[v], pc'[v] = pc[v], todo'[v] = todo[v],
         batch'[v] = batch[v], rest'[v] = rest[v], reply'[v] = reply[v]
  PROVE  ListsOK(v)'
BY DEF ListsOK, Stage

\* No reply is a reply to no question.
LEMMA NoReplyType ==
  ASSUME NEW s PROVE \E K \in SUBSET Keys(s) : NoReply \in [K -> Kinds]
BY DEF NoReply

\* The states between two stages, and between two batches of one.
LEMMA InitType == Init => TypeOK
<1> SUFFICES ASSUME Init PROVE TypeOK
  OBVIOUS
<1>1. TablesOK
  BY WorldAssumption DEF Init, TablesOK, RepoStates, PullStates, ScanStates, Rows
<1>2. RunsOK
  BY AdaptiveType DEF Init, RunsOK, Stations
<1>3. ASSUME NEW w \in Workers PROVE ListsOK(w)
  BY DEF Init, ListsOK
<1> QED BY <1>1, <1>2, <1>3 DEF TypeOK

\* A failed call: retry smaller, skip the batch, or turn to REST.
LEMMA RaisedType ==
  ASSUME TypeOK, NEW w \in Workers, pc[w] # "idle",
         NEW b \in SUBSET todo[w], Raised(w, b)
  PROVE  RunsOK' /\ \A v \in Workers : ListsOK(v)'
<1> USE DEF Raised
<1>1. /\ RunsOK /\ ListsOK(w) /\ plan' = plan /\ Stage(w) \in Stages
      /\ todo[w] \subseteq Items(Stage(w)) /\ plan[w] # <<>> /\ plan[w] \in Seq(Stages)
  <2>1. plan[w] \in Seq(Stages) /\ plan[w] # <<>>
    BY DEF TypeOK, RunsOK, ListsOK
  <2> QED BY <2>1, PlanStep DEF TypeOK, ListsOK, Stage
<1>2. \E K \in SUBSET Keys(Stage(w)) : NoReply \in [K -> Kinds]
  BY NoReplyType
<1>3. reply' = [reply EXCEPT ![w] = NoReply]
  OBVIOUS
<1>4. CASE ShrinkAndRetry(w)
  <2>1. RunsOK'
    <3>1. OnServerError(adaptive[w]) \in AdaptiveBatches
      BY <1>1, AdaptiveType DEF RunsOK
    <3> QED BY <1>1, <1>3, <1>4, <3>1 DEF ShrinkAndRetry, RunsOK, Stations
  <2>2. ListsOK(w)'
    BY <1>1, <1>2, <1>3, <1>4 DEF ShrinkAndRetry, ListsOK, RunsOK, Stage
  <2>3. ASSUME NEW v \in Workers, v # w PROVE ListsOK(v)'
    BY <1>1, <1>3, <1>4, <2>3, OthersKeep DEF ShrinkAndRetry, TypeOK, RunsOK
  <2> QED BY <2>1, <2>2, <2>3
<1>5. CASE GiveUp(w, b)
  <2>1. RunsOK'
    <3>1. b \in SUBSET AllItems /\ todo[w] \ b \in SUBSET AllItems
      BY <1>1 DEF RunsOK
    <3>2. /\ pc' \in [Workers -> Stations] /\ todo' \in [Workers -> SUBSET AllItems]
          /\ batch' \in [Workers -> SUBSET AllItems]
          /\ rest' \in [Workers -> SUBSET AllItems] /\ adaptive' = adaptive
      <4>1. CASE Stage(w) \in {"combined", "reactions"}
        <5>1. /\ pc' = [pc EXCEPT ![w] = "batch"]
              /\ todo' = [todo EXCEPT ![w] = todo[w] \ b]
              /\ batch' = [batch EXCEPT ![w] = {}] /\ rest' = [rest EXCEPT ![w] = {}]
              /\ adaptive' = adaptive
          BY <1>5, <4>1 DEF GiveUp
        <5> QED BY <1>1, <3>1, <5>1 DEF RunsOK, Stations
      <4>2. CASE Stage(w) \notin {"combined", "reactions"}
        <5>1. /\ pc' = [pc EXCEPT ![w] = "rest"] /\ todo' = todo
              /\ batch' = [batch EXCEPT ![w] = b] /\ rest' = [rest EXCEPT ![w] = b]
              /\ adaptive' = adaptive
          BY <1>5, <4>2 DEF GiveUp
        <5> QED BY <1>1, <3>1, <5>1 DEF RunsOK, Stations
      <4> QED BY <4>1, <4>2
    <3> QED BY <1>1, <1>3, <3>2 DEF RunsOK
  <2>2. ListsOK(w)'
    <3>1. CASE Stage(w) \in {"combined", "reactions"}
      BY <1>1, <1>2, <1>3, <1>5, <3>1 DEF GiveUp, ListsOK, RunsOK, Stage
    <3>2. CASE Stage(w) \notin {"combined", "reactions"}
      BY <1>1, <1>2, <1>3, <1>5, <3>2 DEF GiveUp, ListsOK, RunsOK, Stage
    <3> QED BY <3>1, <3>2
  <2>3. ASSUME NEW v \in Workers, v # w PROVE ListsOK(v)'
    BY <1>1, <1>3, <1>5, <2>3, OthersKeep DEF GiveUp, TypeOK, RunsOK
  <2> QED BY <2>1, <2>2, <2>3
<1> QED BY <1>4, <1>5

\* A batch that went through.
LEMMA HandledType ==
  ASSUME TypeOK, NEW w \in Workers, pc[w] # "idle", Handled(w)
  PROVE  RunsOK' /\ \A v \in Workers : ListsOK(v)'
<1> USE DEF Handled
<1>1. OnSuccess(adaptive[w]) \in AdaptiveBatches
  BY AdaptiveType DEF TypeOK, RunsOK
<1>2. RunsOK'
  BY <1>1 DEF TypeOK, RunsOK, Stations
<1>3. \E K \in SUBSET Keys(Stage(w)) : NoReply \in [K -> Kinds]
  BY NoReplyType
<1>4. ListsOK(w)'
  BY <1>3 DEF TypeOK, RunsOK, ListsOK, Stage
<1>5. ASSUME NEW v \in Workers, v # w PROVE ListsOK(v)'
  BY <1>5, OthersKeep DEF TypeOK, RunsOK
<1> QED BY <1>2, <1>4, <1>5

\* What TypeOK says of a worker in the middle of a stage.
LEMMA Running ==
  ASSUME TypeOK, NEW w \in Workers, pc[w] # "idle"
  PROVE  /\ TablesOK /\ RunsOK /\ ListsOK(w) /\ Stage(w) \in Stages
         /\ plan[w] \in Seq(Stages) /\ plan[w] # <<>>
         /\ todo[w] \subseteq Items(Stage(w))
<1>1. TablesOK /\ RunsOK /\ ListsOK(w)
  BY DEF TypeOK
<1>2. plan[w] \in Seq(Stages) /\ plan[w] # <<>> /\ todo[w] \subseteq Items(Stage(w))
  BY <1>1 DEF RunsOK, ListsOK
<1> QED BY <1>1, <1>2, PlanStep DEF Stage

\* Everything a stage works on is an item.
LEMMA ItemsType == ASSUME NEW s PROVE Items(s) \subseteq AllItems
BY DEF Items, AllItems

LEMMA StartType ==
  ASSUME TypeOK, NEW w \in Workers, Start(w) PROVE TypeOK'
<1> USE DEF Start
<1>1. PICK o \in Options[w] : plan' = [plan EXCEPT ![w] = PlanExecution(o)]
  OBVIOUS
<1>2. PlanExecution(o) \in Seq(Stages) /\ PlanExecution(o) # <<>>
  BY PlanType, OptionsAssumption
<1>3. TablesOK'
  BY DEF TypeOK, TablesOK
<1>4. RunsOK'
  BY <1>1, <1>2 DEF TypeOK, RunsOK, Stations
<1>5. ListsOK(w)'
  <2>1. plan'[w] # <<>> /\ pc'[w] = "select"
    BY <1>1, <1>2 DEF TypeOK, RunsOK
  <2>2. /\ todo'[w] = {} /\ batch'[w] = {} /\ rest'[w] = {} /\ reply'[w] = NoReply
    BY DEF TypeOK, ListsOK
  <2>3. \E K \in SUBSET Keys(Stage(w)') : NoReply \in [K -> Kinds]
    BY NoReplyType
  <2> QED BY <2>1, <2>2, <2>3 DEF ListsOK, Stage
<1>6. ASSUME NEW v \in Workers, v # w PROVE ListsOK(v)'
  BY <1>1, <1>6, OthersKeep DEF TypeOK, RunsOK
<1> QED BY <1>3, <1>4, <1>5, <1>6 DEF TypeOK

LEMMA StopType ==
  ASSUME TypeOK, NEW w \in Workers, Stop(w) PROVE TypeOK'
<1> USE DEF Stop
<1>1. TablesOK'
  BY DEF TypeOK, TablesOK
<1>2. RunsOK'
  BY AdaptiveType DEF TypeOK, RunsOK, Stations
<1>3. ListsOK(w)'
  BY DEF TypeOK, RunsOK, ListsOK
<1>4. ASSUME NEW v \in Workers, v # w PROVE ListsOK(v)'
  BY <1>4, OthersKeep DEF TypeOK, RunsOK
<1> QED BY <1>1, <1>2, <1>3, <1>4 DEF TypeOK

LEMMA NextStageType ==
  ASSUME TypeOK, NEW w \in Workers, NextStage(w) PROVE TypeOK'
<1> USE DEF NextStage
<1>1. plan[w] \in Seq(Stages) /\ plan[w] # <<>> /\ ListsOK(w)
  BY Running
<1>2. Tail(plan[w]) \in Seq(Stages) /\ (Len(plan[w]) # 1 => Tail(plan[w]) # <<>>)
  BY <1>1, PlanStep
<1>3. TablesOK'
  BY DEF TypeOK, TablesOK
<1>4. RunsOK'
  BY <1>2, AdaptiveType DEF TypeOK, RunsOK, Stations
<1>5. ListsOK(w)'
  <2>1. plan'[w] = Tail(plan[w]) /\ pc'[w] = IF Len(plan[w]) = 1 THEN "idle" ELSE "select"
    BY DEF TypeOK, RunsOK
  <2>2. /\ todo'[w] = {} /\ batch'[w] = {} /\ rest'[w] = {} /\ reply'[w] = NoReply
    BY <1>1 DEF ListsOK
  <2>3. \E K \in SUBSET Keys(Stage(w)') : NoReply \in [K -> Kinds]
    BY NoReplyType
  <2> QED BY <1>2, <2>1, <2>2, <2>3 DEF ListsOK, Stage
<1>6. ASSUME NEW v \in Workers, v # w PROVE ListsOK(v)'
  BY <1>6, OthersKeep DEF TypeOK, RunsOK
<1> QED BY <1>3, <1>4, <1>5, <1>6 DEF TypeOK

LEMMA SelectType ==
  ASSUME TypeOK, NEW w \in Workers, Select(w) PROVE TypeOK'
<1> USE DEF Select
<1>1. PICK W \in Windows(w) : todo' = [todo EXCEPT ![w] = W]
  OBVIOUS
<1>2. ListsOK(w) /\ plan[w] # <<>> /\ W \subseteq Items(Stage(w))
  BY Running, WindowType
<1>3. TablesOK'
  BY DEF TypeOK, TablesOK
<1>4. RunsOK'
  BY <1>1, <1>2, ItemsType DEF TypeOK, RunsOK, Stations
<1>5. ListsOK(w)'
  BY <1>1, <1>2 DEF TypeOK, RunsOK, ListsOK, Stage
<1>6. ASSUME NEW v \in Workers, v # w PROVE ListsOK(v)'
  BY <1>1, <1>6, OthersKeep DEF TypeOK, RunsOK
<1> QED BY <1>3, <1>4, <1>5, <1>6 DEF TypeOK

LEMMA FetchType ==
  ASSUME TypeOK, NEW w \in Workers, Fetch(w) PROVE TypeOK'
<1> USE DEF Fetch
<1>b. PICK b \in Batches(w) :
        /\ batch' = [batch EXCEPT ![w] = b]
        /\ \E f \in Replies(w, b) : reply' = [reply EXCEPT ![w] = f]
  OBVIOUS
<1>f. PICK f \in Replies(w, b) : reply' = [reply EXCEPT ![w] = f]
  BY <1>b
<1>1. batch' = [batch EXCEPT ![w] = b] /\ reply' = [reply EXCEPT ![w] = f]
  BY <1>b, <1>f
<1>2. /\ ListsOK(w) /\ plan[w] # <<>> /\ b \subseteq todo[w] /\ b \subseteq Items(Stage(w))
      /\ Stage(w) \in Stages /\ todo[w] \subseteq Items(Stage(w))
  BY Running, BatchType
<1>3. /\ \E K \in SUBSET Keys(Stage(w)) : f \in [K -> Kinds]
      /\ Stage(w) \in {"repos", "refresh"} =>
           \A r \in DOMAIN f : f[r] \in {"ok"} \cup Blocked
      /\ Stage(w) = "comments" => DOMAIN f \subseteq b
  BY <1>2, ReplyType DEF TypeOK
<1>4. TablesOK'
  BY DEF TypeOK, TablesOK
<1>5. RunsOK'
  BY <1>1, <1>2, ItemsType DEF TypeOK, RunsOK, Stations, FirstWrite
<1>6. ListsOK(w)'
  <2>1. pc'[w] = FirstWrite(Stage(w)) /\ batch'[w] = b /\ reply'[w] = f
    BY <1>1 DEF TypeOK, RunsOK
  <2>2. /\ FirstWrite(Stage(w)) \in {"pulls", "comments", "scan", "repos"}
        /\ FirstWrite(Stage(w)) = "repos" => Stage(w) \in {"repos", "refresh"}
        /\ FirstWrite(Stage(w)) = "comments" => Stage(w) = "comments"
    BY <1>2 DEF FirstWrite, Stages
  <2>3. rest'[w] = {} /\ todo'[w] = todo[w] /\ Stage(w)' = Stage(w) /\ plan'[w] = plan[w]
    BY <1>2 DEF ListsOK, Stage
  <2> QED BY <1>2, <1>3, <2>1, <2>2, <2>3 DEF ListsOK
<1>7. ASSUME NEW v \in Workers, v # w PROVE ListsOK(v)'
  BY <1>1, <1>7, OthersKeep DEF TypeOK, RunsOK
<1> QED BY <1>4, <1>5, <1>6, <1>7 DEF TypeOK

LEMMA SkipUnknownType ==
  ASSUME TypeOK, NEW w \in Workers, SkipUnknown(w) PROVE TypeOK'
<1> USE DEF SkipUnknown
<1>1. TablesOK'
  BY DEF TypeOK, TablesOK
<1>2. RunsOK'
  BY DEF TypeOK, RunsOK
<1>3. ListsOK(w)'
  BY DEF TypeOK, RunsOK, ListsOK, Stage
<1>4. ASSUME NEW v \in Workers, v # w PROVE ListsOK(v)'
  BY <1>4, OthersKeep DEF TypeOK, RunsOK
<1> QED BY <1>1, <1>2, <1>3, <1>4 DEF TypeOK

LEMMA FetchFailsType ==
  ASSUME TypeOK, NEW w \in Workers, FetchFails(w) PROVE TypeOK'
<1>1. PICK b \in Batches(w) : Raised(w, b)
  BY DEF FetchFails
<1>2. RunsOK' /\ \A v \in Workers : ListsOK(v)'
  BY <1>1, BatchType, RaisedType DEF FetchFails
<1>3. TablesOK'
  BY <1>1 DEF FetchFails, Raised, TypeOK, TablesOK
<1> QED BY <1>2, <1>3 DEF TypeOK

\* The rows of a reply are rows of the tables.
LEMMA CommentRowsType ==
  ASSUME NEW w \in Workers, NEW c \in Combos
  PROVE  CommentRows(w, c) \in {{}, {Sentinel}, Threads[c]}
<1>1. CASE KindOf(w, c) \in Missing
  BY <1>1 DEF CommentRows, Missing, Visible
<1>2. CASE KindOf(w, c) \notin Missing /\ KindOf(w, c) \in Visible /\ c[1] \notin ManyThreads
  <2>1. CommentRows(w, c) = RowsOrSentinel(FirstPage[c])
    BY <1>2 DEF CommentRows
  <2>2. FirstPage[c] = Threads[c]
    BY <1>2, ThreadsAssumption
  <2>3. RowsOrSentinel(Threads[c]) \in {{}, {Sentinel}, Threads[c]}
    BY DEF RowsOrSentinel
  <2> QED BY <2>1, <2>2, <2>3
<1>3. CASE KindOf(w, c) \notin Missing
           /\ ~(KindOf(w, c) \in Visible /\ c[1] \notin ManyThreads)
  BY <1>3 DEF CommentRows
<1> QED BY <1>1, <1>2, <1>3

LEMMA RowsType ==
  ASSUME NEW c \in Combos PROVE Threads[c] \subseteq Rows /\ {Sentinel} \subseteq Rows
<1>1. Threads[c] \in {Threads[d] : d \in Combos}
  OBVIOUS
<1>2. \A x \in Threads[c] : x \in UNION {Threads[d] : d \in Combos}
  BY <1>1, Zenon
<1>3. \A x \in Threads[c] : x \in Rows
  BY <1>2, Zenon DEF Rows
<1>4. Sentinel \in Rows
  BY Zenon DEF Rows
<1> QED BY <1>3, <1>4

LEMMA RestRowsType ==
  ASSUME NEW c \in Combos, NEW S \in RestRows(c)
  PROVE  S \in {{Sentinel}, Threads[c]}
<1>1. S = RowsOrSentinel(Threads[c]) \/ S = {Sentinel}
  BY DEF RestRows
<1>2. RowsOrSentinel(Threads[c]) \in {{Sentinel}, Threads[c]}
  BY DEF RowsOrSentinel
<1> QED BY <1>1, <1>2

LEMMA PutType ==
  ASSUME TypeOK, NEW w \in Workers, UNCHANGED <<access, calm, events>>,
         PutPulls(w) \/ PutComments(w) \/ PutHoorays(w) \/ PutScan(w) \/ PutNothing
  PROVE  TablesOK'
<1>1. TablesOK
  BY DEF TypeOK
<1>2. CASE PutPulls(w)
  <2>1. \A kind : PullRow(kind) \in PullStates
    BY DEF PullRow, PullStates, Blocked
  <2> QED BY <1>1, <1>2, <2>1 DEF PutPulls, TablesOK
<1>3. CASE PutComments(w)
  <2>1. \A c \in Combos : CommentRows(w, c) \subseteq Rows
    BY CommentRowsType, RowsType
  <2>2. comments' \in [Combos -> SUBSET Rows]
    BY <1>1, <1>3, <2>1 DEF PutComments, TablesOK
  <2> QED BY <1>1, <1>3, <2>2 DEF PutComments, TablesOK
<1>4. CASE PutHoorays(w)
  <2>1. ASSUME NEW p \in PRs
        PROVE  HoorayRows(w, p) \subseteq UNION {Hoorays[q] : q \in PRs}
    <3>1. HoorayRows(w, p) \subseteq FirstTwenty[p]
      BY DEF HoorayRows
    <3>2. FirstTwenty[p] \subseteq Hoorays[p]
      BY HooraysAssumption
    <3> QED BY <3>1, <3>2
  <2>2. hoorays' \in [PRs -> SUBSET UNION {Hoorays[q] : q \in PRs}]
    BY <1>1, <1>4, <2>1 DEF PutHoorays, TablesOK
  <2> QED BY <1>1, <1>4, <2>2 DEF PutHoorays, TablesOK
<1>5. CASE PutScan(w)
  <2>1. \A p \in PRs : ScanRow(w, p) \in ScanStates
    BY DEF ScanRow, ScanStates, Blocked
  <2> QED BY <1>1, <1>5, <2>1 DEF PutScan, TablesOK
<1>6. CASE PutNothing
  BY <1>1, <1>6 DEF PutNothing, TablesOK
<1> QED BY <1>2, <1>3, <1>4, <1>5, <1>6

\* A worker that only goes on to the next insert, or to the REST calls, of the
\* same batch.
LEMMA ContinueType ==
  ASSUME TypeOK, NEW w \in Workers, pc[w] # "idle",
         NEW next \in {"comments", "hoorays", "scan"}, Continue(w, next),
         next = "comments" => Stage(w) = "combined"
  PROVE  RunsOK' /\ \A v \in Workers : ListsOK(v)'
<1> USE DEF Continue
<1>1. RunsOK'
  BY DEF TypeOK, RunsOK, Stations
<1>2. ListsOK(w)'
  BY DEF TypeOK, RunsOK, ListsOK, Stage
<1>3. ASSUME NEW v \in Workers, v # w PROVE ListsOK(v)'
  BY <1>3, OthersKeep DEF TypeOK, RunsOK
<1> QED BY <1>1, <1>2, <1>3

LEMMA InsertType ==
  ASSUME TypeOK, NEW w \in Workers,
         InsertPulls(w) \/ InsertHoorays(w) \/ InsertScan(w)
  PROVE  TypeOK'
<1>1. CASE InsertPulls(w)
  <2>1. RunsOK' /\ \A v \in Workers : ListsOK(v)'
    BY <1>1, ContinueType, HandledType DEF InsertPulls
  <2>2. TablesOK'
    BY <1>1, PutType DEF InsertPulls, Continue, Handled
  <2> QED BY <2>1, <2>2 DEF TypeOK
<1>2. CASE InsertHoorays(w)
  <2>1. RunsOK' /\ \A v \in Workers : ListsOK(v)'
    BY <1>2, ContinueType, HandledType DEF InsertHoorays
  <2>2. TablesOK'
    BY <1>2, PutType DEF InsertHoorays, Continue, Handled
  <2> QED BY <2>1, <2>2 DEF TypeOK
<1>3. CASE InsertScan(w)
  <2>1. RunsOK' /\ \A v \in Workers : ListsOK(v)'
    BY <1>3, ContinueType, HandledType DEF InsertScan
  <2>2. TablesOK'
    BY <1>3, PutType DEF InsertScan, Continue, Handled
  <2> QED BY <2>1, <2>2 DEF TypeOK
<1> QED BY <1>1, <1>2, <1>3

LEMMA InsertCommentsType ==
  ASSUME TypeOK, NEW w \in Workers, InsertComments(w) PROVE TypeOK'
<1> USE DEF InsertComments
<1>1. TablesOK'
  BY PutType DEF Continue, Handled
<1>2. CASE Stage(w) = "combined"
  BY <1>1, <1>2, ContinueType DEF TypeOK
<1>3. CASE Stage(w) # "combined" /\ Deferred(w) = {}
  BY <1>1, <1>3, HandledType DEF TypeOK
<1>4. CASE Stage(w) # "combined" /\ Deferred(w) # {}
  <2>1. /\ pc' = [pc EXCEPT ![w] = "more"] /\ rest' = [rest EXCEPT ![w] = Deferred(w)]
        /\ plan' = plan /\ todo' = todo /\ batch' = batch /\ reply' = reply
        /\ adaptive' = adaptive
    BY <1>4
  <2>2. /\ ListsOK(w) /\ RunsOK /\ Stage(w) \in Stages
    BY Running
  <2>3. Deferred(w) \subseteq batch[w]
    BY <1>4, <2>2 DEF ListsOK, Deferred
  <2>4. RunsOK'
    BY <2>1, <2>2, <2>3 DEF RunsOK, Stations
  <2>5. ListsOK(w)'
    BY <2>1, <2>2, <2>3 DEF RunsOK, ListsOK, Stage
  <2>6. ASSUME NEW v \in Workers, v # w PROVE ListsOK(v)'
    BY <2>1, <2>2, <2>6, OthersKeep DEF TypeOK, RunsOK
  <2> QED BY <1>1, <2>4, <2>5, <2>6 DEF TypeOK
<1> QED BY <1>2, <1>3, <1>4

LEMMA InsertFailsType ==
  ASSUME TypeOK, NEW w \in Workers, InsertFails(w) PROVE TypeOK'
<1> USE DEF InsertFails
<1>1. RunsOK' /\ \A v \in Workers : ListsOK(v)'
  <2>1. batch[w] \subseteq todo[w]
    BY DEF TypeOK, ListsOK
  <2> QED BY <2>1, RaisedType
<1>2. PutPulls(w) \/ PutComments(w) \/ PutHoorays(w) \/ PutScan(w) \/ PutNothing
  BY DEF Put
<1>3. TablesOK'
  BY <1>2, PutType DEF Raised
<1> QED BY <1>1, <1>3 DEF TypeOK

\* The one-by-one inserts of the repository stages.
LEMMA PutRepoType ==
  ASSUME TypeOK, NEW r, NEW s \in {"ok"} \cup Blocked, PutRepo(r, s),
         UNCHANGED <<access, calm, events>>
  PROVE  TablesOK'
BY DEF PutRepo, TypeOK, TablesOK, RepoStates

LEMMA InsertRepoType ==
  ASSUME TypeOK, NEW w \in Workers, InsertRepo(w) PROVE TypeOK'
<1> USE DEF InsertRepo
<1>1. PICK r \in DOMAIN reply[w] :
        /\ PutRepo(r, reply[w][r])
        /\ reply' = [reply EXCEPT ![w] = [q \in DOMAIN reply[w] \ {r} |-> reply[w][q]]]
  OBVIOUS
<1>2. /\ ListsOK(w) /\ RunsOK
      /\ \A q \in DOMAIN reply[w] : reply[w][q] \in {"ok"} \cup Blocked
  BY DEF TypeOK, ListsOK
<1>3. TablesOK'
  BY <1>1, <1>2, PutRepoType
<1>4. RunsOK'
  BY <1>1, <1>2 DEF RunsOK
<1>5. ListsOK(w)'
  <2> DEFINE f == [q \in DOMAIN reply[w] \ {r} |-> reply[w][q]]
  <2>1. reply'[w] = f
    BY <1>1, <1>2 DEF RunsOK
  <2>2. PICK K \in SUBSET Keys(Stage(w)) : reply[w] \in [K -> Kinds]
    BY <1>2 DEF ListsOK
  <2>3. f \in [K \ {r} -> Kinds] /\ K \ {r} \in SUBSET Keys(Stage(w))
    BY <2>2
  <2>4. \A q \in DOMAIN f : f[q] \in {"ok"} \cup Blocked
    BY <1>2
  <2>5. Stage(w)' = Stage(w) /\ pc'[w] = "repos"
    BY DEF Stage
  <2>6. \E J \in SUBSET Keys(Stage(w)) : f \in [J -> Kinds]
    BY <2>3
  <2> HIDE DEF f
  <2> QED BY <1>2, <2>1, <2>4, <2>5, <2>6 DEF ListsOK
<1>6. ASSUME NEW v \in Workers, v # w PROVE ListsOK(v)'
  BY <1>1, <1>6, OthersKeep DEF TypeOK, RunsOK
<1> QED BY <1>3, <1>4, <1>5, <1>6 DEF TypeOK

LEMMA InsertRepoFailsType ==
  ASSUME TypeOK, NEW w \in Workers, InsertRepoFails(w) PROVE TypeOK'
<1> USE DEF InsertRepoFails
<1>1. RunsOK' /\ \A v \in Workers : ListsOK(v)'
  <2>1. batch[w] \subseteq todo[w]
    BY DEF TypeOK, ListsOK
  <2> QED BY <2>1, RaisedType
<1>2. \A r \in DOMAIN reply[w] : reply[w][r] \in {"ok"} \cup Blocked
  BY DEF TypeOK, ListsOK
<1>3. TablesOK'
  <2>1. CASE \E r \in DOMAIN reply[w] : PutRepo(r, reply[w][r])
    BY <1>2, <2>1, PutRepoType DEF Raised
  <2>2. CASE PutNothing
    BY <2>2, PutType DEF Raised
  <2> QED BY <2>1, <2>2
<1> QED BY <1>1, <1>3 DEF TypeOK

LEMMA DoneType ==
  ASSUME TypeOK, NEW w \in Workers, ReposDone(w) \/ MoreDone(w) PROVE TypeOK'
<1>1. pc[w] # "idle" /\ PutNothing /\ Handled(w)
  BY DEF ReposDone, MoreDone
<1>2. RunsOK' /\ \A v \in Workers : ListsOK(v)'
  BY <1>1, HandledType
<1>3. TablesOK'
  BY <1>1, PutType DEF Handled
<1> QED BY <1>2, <1>3 DEF TypeOK

\* One REST item is through, with or without a row.
LEMMA RestNextType ==
  ASSUME TypeOK, NEW w \in Workers, pc[w] \in {"rest", "more"}, NEW x, RestNext(w, x)
  PROVE  RunsOK' /\ \A v \in Workers : ListsOK(v)'
<1> USE DEF RestNext
<1>1. RunsOK'
  BY DEF TypeOK, RunsOK
<1>2. ListsOK(w)'
  BY DEF TypeOK, RunsOK, ListsOK, Stage
<1>3. ASSUME NEW v \in Workers, v # w PROVE ListsOK(v)'
  BY <1>3, OthersKeep DEF TypeOK, RunsOK
<1> QED BY <1>1, <1>2, <1>3

LEMMA RestCommentsType ==
  ASSUME TypeOK, NEW w \in Workers, RestComments(w) PROVE TypeOK'
<1> USE DEF RestComments
<1>1. PICK c \in Known(rest[w]) :
        /\ \E S \in RestRows(c) : comments' = [comments EXCEPT ![c] = @ \cup S]
        /\ RestNext(w, c)
  OBVIOUS
<1>2. PICK S \in RestRows(c) : comments' = [comments EXCEPT ![c] = @ \cup S]
  BY <1>1
<1>3. c \in Combos
  BY DEF TypeOK, ListsOK, Items, Known
<1>4. S \subseteq Rows
  BY <1>3, RestRowsType, RowsType
<1>5. TablesOK'
  BY <1>1, <1>2, <1>3, <1>4 DEF RestNext, TypeOK, TablesOK
<1>6. RunsOK' /\ \A v \in Workers : ListsOK(v)'
  BY <1>1, RestNextType
<1> QED BY <1>5, <1>6 DEF TypeOK

LEMMA RestPullType ==
  ASSUME TypeOK, NEW w \in Workers, RestPull(w) PROVE TypeOK'
<1> USE DEF RestPull
<1>1. PICK p \in rest[w] :
        /\ \E s \in RestAnswers(p) : pulls' = [pulls EXCEPT ![p] = s]
        /\ RestNext(w, p)
  OBVIOUS
<1>2. PICK s \in RestAnswers(p) : pulls' = [pulls EXCEPT ![p] = s]
  BY <1>1
<1>3. p \in PRs
  BY DEF TypeOK, ListsOK, Items
<1>4. s \in PullStates
  <2>1. access[RepoOf[p]] \in {"ok"} \cup Blocked
    BY <1>3, WorldAssumption DEF TypeOK, TablesOK
  <2> QED BY <2>1 DEF RestAnswers, PullStates, Blocked
<1>5. TablesOK'
  BY <1>1, <1>2, <1>4 DEF RestNext, TypeOK, TablesOK
<1>6. RunsOK' /\ \A v \in Workers : ListsOK(v)'
  BY <1>1, RestNextType
<1> QED BY <1>5, <1>6 DEF TypeOK

LEMMA RestRepoType ==
  ASSUME TypeOK, NEW w \in Workers, RestRepo(w) PROVE TypeOK'
<1> USE DEF RestRepo
<1>1. PICK r \in rest[w] :
        (\E s \in RestRepoAnswers(r) : PutRepo(r, s)) /\ RestNext(w, r)
  OBVIOUS
<1>2. PICK s \in RestRepoAnswers(r) : PutRepo(r, s)
  BY <1>1
<1>3. r \in Repos
  BY DEF TypeOK, ListsOK, Items
<1>4. s \in {"ok"} \cup Blocked
  BY <1>3 DEF RestRepoAnswers, Blocked, TypeOK, TablesOK
<1>5. TablesOK'
  BY <1>1, <1>2, <1>4, PutRepoType DEF RestNext
<1>6. RunsOK' /\ \A v \in Workers : ListsOK(v)'
  BY <1>1, RestNextType
<1> QED BY <1>5, <1>6 DEF TypeOK

LEMMA RestSkipType ==
  ASSUME TypeOK, NEW w \in Workers, RestSkip(w) PROVE TypeOK'
<1> USE DEF RestSkip
<1>1. PICK x \in rest[w] : RestNext(w, x)
  OBVIOUS
<1>2. TablesOK'
  BY <1>1, PutType DEF RestNext
<1>3. RunsOK' /\ \A v \in Workers : ListsOK(v)'
  BY <1>1, RestNextType
<1> QED BY <1>2, <1>3 DEF TypeOK

LEMMA RestThrowsType ==
  ASSUME TypeOK, NEW w \in Workers, RestThrows(w) PROVE TypeOK'
<1> USE DEF RestThrows
<1>1. RunsOK' /\ \A v \in Workers : ListsOK(v)'
  <2>1. batch[w] \subseteq todo[w]
    BY DEF TypeOK, ListsOK
  <2> QED BY <2>1, RaisedType
<1>2. TablesOK'
  <2>1. CASE PutNothing
    BY <2>1, PutType DEF Raised
  <2>2. CASE \E c \in rest[w] : /\ comments' = [comments EXCEPT ![c] = @ \cup {Sentinel}]
                               /\ UNCHANGED <<repos, pulls, hoorays, scan>>
    <3>1. PICK c \in rest[w] : comments' = [comments EXCEPT ![c] = @ \cup {Sentinel}]
      BY <2>2
    <3>2. \A d \in Combos : comments[d] \cup {Sentinel} \subseteq Rows
      BY RowsType DEF TypeOK, TablesOK
    <3>3. comments' \in [Combos -> SUBSET Rows]
      BY <3>1, <3>2 DEF TypeOK, TablesOK
    <3> QED BY <2>2, <3>3 DEF Raised, TypeOK, TablesOK
  <2> QED BY <2>1, <2>2
<1> QED BY <1>1, <1>2 DEF TypeOK

LEMMA RestDoneType ==
  ASSUME TypeOK, NEW w \in Workers, RestDone(w) PROVE TypeOK'
<1> USE DEF RestDone
<1>1. TablesOK'
  BY DEF TypeOK, TablesOK
<1>2. RunsOK'
  <2>1. RunsOK
    BY DEF TypeOK
  <2>2. /\ plan' = plan /\ pc' = [pc EXCEPT ![w] = "batch"]
        /\ todo' = [todo EXCEPT ![w] = todo[w] \ batch[w]]
        /\ batch' = [batch EXCEPT ![w] = {}]
        /\ reply' = reply /\ rest' = rest /\ adaptive' = adaptive
    OBVIOUS
  <2>3. todo[w] \ batch[w] \in SUBSET AllItems
    BY <2>1 DEF RunsOK
  <2> HIDE DEF RestDone
  <2> QED BY <2>1, <2>2, <2>3 DEF RunsOK, Stations
<1>3. ListsOK(w)'
  BY DEF TypeOK, RunsOK, ListsOK, Stage
<1>4. ASSUME NEW v \in Workers, v # w PROVE ListsOK(v)'
  BY <1>4, OthersKeep DEF TypeOK, RunsOK
<1> QED BY <1>1, <1>2, <1>3, <1>4 DEF TypeOK

\* What happens outside the workers leaves their lists alone: an event arrives,
\* a repository vanishes, the failures end.
LEMMA OutsideType ==
  ASSUME TypeOK,
         \/ \E c \in Combos : Discover(c)
         \/ \E r \in Repos : Vanish(r)
         \/ Recover
         \/ UNCHANGED vars
  PROVE  TypeOK'
<1>1. UNCHANGED <<plan, pc, todo, batch, reply, rest, adaptive>>
  BY DEF Discover, Vanish, Recover, vars
<1>2. RunsOK'
  BY <1>1 DEF TypeOK, RunsOK
<1>3. \A w \in Workers : ListsOK(w)'
  BY <1>1 DEF TypeOK, ListsOK, Stage
<1>4. TablesOK'
  <2>1. CASE \E c \in Combos : Discover(c)
    BY <2>1 DEF Discover, TypeOK, TablesOK
  <2>2. CASE \E r \in Repos : Vanish(r)
    <3>1. Fate \in [Repos -> {"ok"} \cup Blocked]
      BY WorldAssumption DEF Blocked
    <3> QED BY <2>2, <3>1 DEF Vanish, TypeOK, TablesOK
  <2>3. CASE Recover
    BY <2>3 DEF Recover, TypeOK, TablesOK
  <2>4. CASE UNCHANGED vars
    BY <2>4 DEF vars, TypeOK, TablesOK
  <2> QED BY <2>1, <2>2, <2>3, <2>4
<1> QED BY <1>2, <1>3, <1>4 DEF TypeOK

-----------------------------------------------------------------------------

\* Every step of every worker, and of the world around it, keeps the tables and
\* the workers' lists well-formed.
LEMMA StepType == TypeOK /\ [Next]_vars => TypeOK'
<1> SUFFICES ASSUME TypeOK, [Next]_vars PROVE TypeOK'
  OBVIOUS
<1>1. ASSUME NEW w \in Workers, Work(w) PROVE TypeOK'
  BY <1>1, NextStageType, SelectType, FetchType, FetchFailsType, SkipUnknownType,
     InsertType, InsertCommentsType, InsertFailsType, InsertRepoType,
     InsertRepoFailsType, DoneType, RestCommentsType, RestPullType, RestRepoType,
     RestSkipType, RestThrowsType, RestDoneType
  DEF Work
<1>2. ASSUME NEW w \in Workers, Start(w) \/ Stop(w) PROVE TypeOK'
  BY <1>2, StartType, StopType
<1> QED BY <1>1, <1>2, OutsideType DEF Next

\* Type correctness of the enrichment workers (worker.ts and the stages).
THEOREM TypeCorrect == Spec => []TypeOK
<1>1. Init => TypeOK
  BY InitType
<1>2. TypeOK /\ [Next]_vars => TypeOK'
  BY StepType
<1> QED BY <1>1, <1>2, PTL DEF Spec

-----------------------------------------------------------------------------
(* No partial comments *)

\* Adding a sentinel or all of a combo's comments to a whole set keeps it whole.
LEMMA WholeUnion ==
  ASSUME NEW c \in Combos, NEW S, S \ {Sentinel} \in {{}, Threads[c]},
         NEW T \in {{}, {Sentinel}, Threads[c]}
  PROVE  (S \cup T) \ {Sentinel} \in {{}, Threads[c]}
<1>1. Sentinel \notin Threads[c]
  BY ThreadsAssumption
<1>2. CASE T = {} \/ T = {Sentinel}
  BY <1>2
<1>3. CASE T = Threads[c]
  <2>1. (S \cup T) \ {Sentinel} = Threads[c]
    BY <1>1, <1>3
  <2> QED BY <2>1
<1> QED BY <1>2, <1>3

\* A bulk insert of comments, whichever stage makes it (comments.ts and
\* combined-enrichment.ts).
LEMMA PutCommentsWhole ==
  ASSUME NoPartialComments, NEW w \in Workers, PutComments(w)
  PROVE  NoPartialComments'
<1> SUFFICES ASSUME NEW c \in Combos
             PROVE  comments'[c] \ {Sentinel} \in {{}, Threads[c]}
  BY DEF NoPartialComments
<1>1. comments[c] \ {Sentinel} \in {{}, Threads[c]}
  BY DEF NoPartialComments
<1>2. CASE c \in Answered(w)
  <2>1. comments'[c] = comments[c] \cup CommentRows(w, c)
    BY <1>2 DEF PutComments
  <2>2. CommentRows(w, c) \in {{}, {Sentinel}, Threads[c]}
    BY CommentRowsType
  <2> QED BY <1>1, <2>1, <2>2, WholeUnion
<1>3. CASE c \notin Answered(w)
  BY <1>1, <1>3 DEF PutComments
<1> QED BY <1>2, <1>3

\* The rows of one combo gain a sentinel or everything (fetchComboViaRest).
LEMMA PutOneWhole ==
  ASSUME TypeOK, NoPartialComments, NEW c \in Combos,
         NEW T \in {{}, {Sentinel}, Threads[c]},
         comments' = [comments EXCEPT ![c] = @ \cup T]
  PROVE  NoPartialComments'
<1>1. comments \in [Combos -> SUBSET Rows]
  BY DEF TypeOK, TablesOK
<1> SUFFICES ASSUME NEW d \in Combos
             PROVE  comments'[d] \ {Sentinel} \in {{}, Threads[d]}
  BY DEF NoPartialComments
<1>2. comments[d] \ {Sentinel} \in {{}, Threads[d]}
  BY DEF NoPartialComments
<1>3. CASE d = c
  <2>1. comments'[d] = comments[d] \cup T
    BY <1>1, <1>3
  <2> QED BY <1>2, <1>3, <2>1, WholeUnion
<1>4. CASE d # c
  BY <1>1, <1>2, <1>4
<1> QED BY <1>3, <1>4

LEMMA StepWhole == TypeOK /\ NoPartialComments /\ [Next]_vars => NoPartialComments'
<1> SUFFICES ASSUME TypeOK, NoPartialComments, [Next]_vars PROVE NoPartialComments'
  OBVIOUS
<1>1. CASE UNCHANGED comments
  BY <1>1 DEF NoPartialComments
<1>2. ASSUME NEW w \in Workers, InsertComments(w) PROVE NoPartialComments'
  BY <1>2, PutCommentsWhole DEF InsertComments
<1>3. ASSUME NEW w \in Workers, InsertFails(w) PROVE NoPartialComments'
  <2>1. PutComments(w) \/ UNCHANGED comments
    BY <1>3 DEF InsertFails, Put, PutPulls, PutHoorays, PutScan, PutNothing
  <2> QED BY <1>1, <2>1, PutCommentsWhole
<1>4. ASSUME NEW w \in Workers, RestComments(w) PROVE NoPartialComments'
  <2>1. PICK c \in Known(rest[w]) :
          \E S \in RestRows(c) : comments' = [comments EXCEPT ![c] = @ \cup S]
    BY <1>4 DEF RestComments
  <2>2. c \in Combos
    BY <1>4 DEF RestComments, TypeOK, ListsOK, Items, Known
  <2> QED BY <2>1, <2>2, RestRowsType, PutOneWhole
<1>5. ASSUME NEW w \in Workers, RestThrows(w) PROVE NoPartialComments'
  <2>1. CASE PutNothing
    BY <1>1, <2>1 DEF PutNothing
  <2>2. CASE ~PutNothing
    <3>1. PICK c \in rest[w] : comments' = [comments EXCEPT ![c] = @ \cup {Sentinel}]
      BY <1>5, <2>2 DEF RestThrows
    <3>2. comments \in [Combos -> SUBSET Rows]
      BY DEF TypeOK, TablesOK
    <3>3. CASE c \in Combos
      BY <3>1, <3>3, PutOneWhole
    <3>4. CASE c \notin Combos
      BY <1>1, <3>1, <3>2, <3>4
    <3> QED BY <3>3, <3>4
  <2> QED BY <2>1, <2>2
<1>6. ASSUME NEW w \in Workers, Work(w) PROVE NoPartialComments'
  <2>1. CASE NextStage(w) \/ Select(w) \/ Fetch(w) \/ FetchFails(w) \/ SkipUnknown(w)
    BY <1>1, <2>1 DEF NextStage, Select, Fetch, FetchFails, SkipUnknown
  <2>2. CASE InsertPulls(w) \/ InsertHoorays(w) \/ InsertScan(w)
    BY <1>1, <2>2 DEF InsertPulls, InsertHoorays, InsertScan, PutPulls, PutHoorays,
       PutScan
  <2>3. CASE InsertRepo(w) \/ InsertRepoFails(w) \/ ReposDone(w)
    BY <1>1, <2>3 DEF InsertRepo, InsertRepoFails, ReposDone, PutRepo, PutNothing
  <2>4. CASE RestPull(w) \/ RestRepo(w) \/ RestSkip(w) \/ MoreDone(w) \/ RestDone(w)
    BY <1>1, <2>4 DEF RestPull, RestRepo, RestSkip, MoreDone, RestDone, PutRepo,
       PutNothing
  <2> QED BY <1>2, <1>3, <1>4, <1>5, <1>6, <2>1, <2>2, <2>3, <2>4 DEF Work
<1>7. ASSUME NEW w \in Workers, Start(w) \/ Stop(w) PROVE NoPartialComments'
  BY <1>1, <1>7 DEF Start, Stop
<1>8. CASE \/ \E c \in Combos : Discover(c)
           \/ \E r \in Repos : Vanish(r)
           \/ Recover
           \/ UNCHANGED vars
  BY <1>1, <1>8 DEF Discover, Vanish, Recover, vars
<1> QED BY <1>6, <1>7, <1>8 DEF Next

\* The comment rows of a combo are never a part of its comments, for any number
\* of workers, however their partitions overlap and whatever fails.
THEOREM CommentsWhole == Spec => []NoPartialComments
<1>1. Init => NoPartialComments
  BY DEF Init, NoPartialComments
<1>2. TypeOK /\ NoPartialComments /\ [Next]_vars => NoPartialComments'
  BY StepWhole
<1> QED BY <1>1, <1>2, TypeCorrect, PTL DEF Spec

-----------------------------------------------------------------------------
(* Disjoint work *)

\* A repository's hash gives it to one worker (partitioner.ts).
LEMMA PartitionIsDisjoint ==
  \A v, w \in Workers : v # w => Partition(v) \cap Partition(w) = {}
<1>1. ASSUME NEW v \in Workers, NEW w \in Workers, NEW r \in Partition(v) \cap Partition(w)
      PROVE  v = w
  <2>1. CASE TotalWorkers > 1
    BY <2>1 DEF Partition
  <2>2. CASE ~(TotalWorkers > 1)
    <3>1. v = 0 /\ w = 0
      BY <2>2, WorldAssumption DEF Workers
    <3> QED BY <3>1
  <2> QED BY <2>1, <2>2
<1> QED BY <1>1

\* The strengthening that is inductive: a worker holds items of its own
\* partition only.
OwnWork == \A w \in Workers : HeldRepos(w) \subseteq Partition(w)

\* A worker that drops items, or keeps the ones it has, at the same stage.
LEMMA FewerItems ==
  ASSUME NEW v \in Workers, HeldRepos(v) \subseteq Partition(v), pc[v] # "idle",
         plan'[v] = plan[v], todo'[v] \subseteq todo[v]
  PROVE  HeldRepos(v)' \subseteq Partition(v)
<1>1. Stage(v)' = Stage(v)
  BY DEF Stage
<1>2. CASE pc'[v] = "idle"
  BY <1>2 DEF HeldRepos
<1>3. CASE pc'[v] # "idle"
  BY <1>1, <1>3 DEF HeldRepos
<1> QED BY <1>2, <1>3

\* The other workers of a step.
LEMMA SameItems ==
  ASSUME NEW v \in Workers, HeldRepos(v) \subseteq Partition(v),
         pc'[v] = pc[v], plan'[v] = plan[v], todo'[v] = todo[v]
  PROVE  HeldRepos(v)' \subseteq Partition(v)
BY DEF HeldRepos, Stage

\* Every selection query filters by the worker's partition.
LEMMA SelectOwn ==
  ASSUME TypeOK, NEW w \in Workers, Select(w)
  PROVE  HeldRepos(w)' \subseteq Partition(w)
<1>1. PICK W \in Windows(w) : todo' = [todo EXCEPT ![w] = W]
  BY DEF Select
<1>2. Stage(w) \in Stages /\ Stage(w)' = Stage(w) /\ todo'[w] = W
  BY <1>1, Running DEF Select, Stage, RunsOK
<1>3. \A c \in Selectable(w) : RepoOf[c[1]] \in Partition(w)
  BY DEF Selectable
<1>4. \A S, n : \A X \in LimitedTo(S, n) : X \subseteq S
  BY DEF LimitedTo
<1>5. CASE Stage(w) \in {"combined", "comments"}
  <2>1. W \subseteq PendingCombined(w) \/ W \subseteq PendingComments(w)
    BY <1>1, <1>4, <1>5 DEF Windows
  <2>2. W \subseteq Selectable(w)
    BY <2>1 DEF PendingCombined, PendingComments
  <2>3. HeldRepos(w)' = {RepoOf[c[1]] : c \in W} \/ HeldRepos(w)' = {}
    BY <1>2, <1>5 DEF HeldRepos
  <2> QED BY <1>3, <2>2, <2>3
<1>6. CASE Stage(w) \in {"prs", "reactions"}
  <2>1. W \subseteq PendingPulls(w) \/ W \subseteq PendingScans(w)
    BY <1>1, <1>4, <1>6 DEF Windows, ScanWindows
  <2>2. W \subseteq PRsOf(Selectable(w))
    BY <2>1 DEF PendingPulls, PendingScans
  <2>3. \A p \in W : RepoOf[p] \in Partition(w)
    BY <1>3, <2>2 DEF PRsOf
  <2>4. HeldRepos(w)' = {RepoOf[p] : p \in W} \/ HeldRepos(w)' = {}
    BY <1>2, <1>6 DEF HeldRepos
  <2> QED BY <2>3, <2>4
<1>7. CASE Stage(w) \in {"repos", "refresh"}
  <2>1. W \subseteq PendingRepos(w) \/ W \subseteq {r \in Partition(w) : repos[r] = "ok"}
    BY <1>1, <1>4, <1>7 DEF Windows, StaleWindows
  <2>2. W \subseteq Partition(w)
    BY <2>1 DEF PendingRepos
  <2>3. HeldRepos(w)' = W \/ HeldRepos(w)' = {}
    BY <1>2, <1>7 DEF HeldRepos
  <2> QED BY <2>2, <2>3
<1> QED BY <1>2, <1>5, <1>6, <1>7 DEF Stages

\* Raised, Handled and Continue drop items at most.
LEMMA DropsItems ==
  ASSUME TypeOK, NEW w \in Workers, NEW b,
         Raised(w, b) \/ Handled(w) \/ \E next : Continue(w, next)
  PROVE  /\ plan' = plan /\ todo'[w] \subseteq todo[w]
         /\ \A v \in Workers : v # w => pc'[v] = pc[v] /\ todo'[v] = todo[v]
BY DEF TypeOK, RunsOK, Raised, ShrinkAndRetry, GiveUp, Handled, Continue

LEMMA WorkOwn ==
  ASSUME TypeOK, OwnWork, NEW w \in Workers, Work(w) PROVE OwnWork'
<1>1. \A v \in Workers : HeldRepos(v) \subseteq Partition(v)
  BY DEF OwnWork
<1>2. pc \in [Workers -> Stations] /\ DOMAIN todo = Workers /\ DOMAIN plan = Workers
  BY DEF TypeOK, RunsOK
<1>3. pc[w] # "idle"
  BY DEF Work, NextStage, Select, Fetch, FetchFails, SkipUnknown, InsertPulls,
     InsertComments, InsertHoorays, InsertScan, InsertFails, InsertRepo,
     InsertRepoFails, ReposDone, RestComments, RestPull, RestRepo, RestSkip,
     RestThrows, MoreDone, RestDone
<1>4. ASSUME /\ plan' = plan /\ todo'[w] \subseteq todo[w]
             /\ \A v \in Workers : v # w => pc'[v] = pc[v] /\ todo'[v] = todo[v]
      PROVE  OwnWork'
  BY <1>1, <1>3, <1>4, FewerItems, SameItems DEF OwnWork
<1>5. CASE NextStage(w)
  <2>1. /\ todo' = todo /\ todo[w] = {} /\ plan' = [plan EXCEPT ![w] = Tail(plan[w])]
        /\ \A v \in Workers : v # w => pc'[v] = pc[v] /\ plan'[v] = plan[v]
    BY <1>2, <1>5 DEF NextStage
  <2>2. HeldRepos(w)' = {}
    BY <2>1 DEF HeldRepos
  <2> QED BY <1>1, <2>1, <2>2, SameItems DEF OwnWork
<1>6. CASE Select(w)
  <2>1. \A v \in Workers : v # w =>
          pc'[v] = pc[v] /\ plan'[v] = plan[v] /\ todo'[v] = todo[v]
    BY <1>2, <1>6 DEF Select
  <2> QED BY <1>1, <1>6, <2>1, SelectOwn, SameItems DEF OwnWork
<1>7. CASE Fetch(w)
  BY <1>2, <1>4, <1>7 DEF Fetch
<1>8. CASE SkipUnknown(w)
  BY <1>2, <1>4, <1>8 DEF SkipUnknown
<1>9. CASE FetchFails(w) \/ InsertFails(w) \/ InsertRepoFails(w) \/ RestThrows(w)
  BY <1>4, <1>9, DropsItems DEF FetchFails, InsertFails, InsertRepoFails, RestThrows
<1>10. CASE InsertPulls(w) \/ InsertHoorays(w) \/ InsertScan(w) \/ ReposDone(w) \/ MoreDone(w)
  BY <1>4, <1>10, DropsItems DEF InsertPulls, InsertHoorays, InsertScan, ReposDone,
     MoreDone
<1>11. CASE InsertComments(w)
  <2>1. CASE Continue(w, "hoorays") \/ Handled(w)
    BY <1>4, <2>1, DropsItems
  <2>2. CASE pc' = [pc EXCEPT ![w] = "more"] /\ plan' = plan /\ todo' = todo
    BY <1>2, <1>4, <2>2
  <2> QED BY <1>11, <2>1, <2>2 DEF InsertComments
<1>12. CASE InsertRepo(w)
  BY <1>4, <1>12 DEF InsertRepo
<1>13. CASE RestComments(w) \/ RestPull(w) \/ RestRepo(w) \/ RestSkip(w)
  BY <1>4, <1>13 DEF RestComments, RestPull, RestRepo, RestSkip, RestNext
<1>14. CASE RestDone(w)
  BY <1>2, <1>4, <1>14 DEF RestDone
<1> QED BY <1>5, <1>6, <1>7, <1>8, <1>9, <1>10, <1>11, <1>12, <1>13, <1>14 DEF Work

LEMMA StepOwn == TypeOK /\ OwnWork /\ [Next]_vars => OwnWork'
<1> SUFFICES ASSUME TypeOK, OwnWork, [Next]_vars PROVE OwnWork'
  OBVIOUS
<1>1. \A v \in Workers : HeldRepos(v) \subseteq Partition(v)
  BY DEF OwnWork
<1>2. pc \in [Workers -> Stations] /\ DOMAIN todo = Workers /\ DOMAIN plan = Workers
  BY DEF TypeOK, RunsOK
<1>3. ASSUME NEW w \in Workers, Start(w) \/ Stop(w) PROVE OwnWork'
  <2>1. \A v \in Workers : v # w =>
          pc'[v] = pc[v] /\ plan'[v] = plan[v] /\ todo'[v] = todo[v]
    BY <1>2, <1>3 DEF Start, Stop
  <2>2. todo'[w] = {}
    BY <1>2, <1>3 DEF Start, Stop, TypeOK, ListsOK
  <2>3. HeldRepos(w)' = {}
    BY <2>2 DEF HeldRepos
  <2> QED BY <1>1, <2>1, <2>3, SameItems DEF OwnWork
<1>4. CASE \/ \E c \in Combos : Discover(c)
           \/ \E r \in Repos : Vanish(r)
           \/ Recover
           \/ UNCHANGED vars
  <2>1. UNCHANGED <<pc, plan, todo>>
    BY <1>4 DEF Discover, Vanish, Recover, vars
  <2> QED BY <1>1, <2>1, SameItems DEF OwnWork
<1> QED BY <1>3, <1>4, WorkOwn DEF Next

\* pipeline/README.md: "Workers partition work by hash modulo, so they never
\* overlap", for any number of workers started with the same total.
THEOREM WorkIsDisjoint == Spec => []DisjointWork
<1>1. Init => OwnWork
  BY DEF Init, OwnWork, HeldRepos
<1>2. TypeOK /\ OwnWork /\ [Next]_vars => OwnWork'
  BY StepOwn
<1>3. OwnWork => DisjointWork
  BY PartitionIsDisjoint DEF OwnWork, DisjointWork
<1> QED BY <1>1, <1>2, <1>3, TypeCorrect, PTL DEF Spec

-----------------------------------------------------------------------------
(* Absence is true *)

\* What GitHub no longer shows.
Lost(p) == p \in GonePRs \/ access[RepoOf[p]] # "ok"

\* The three parts of AbsenceIsTrue, one per table.
ReposTrue == \A r \in Repos : repos[r] \in Blocked => access[r] # "ok"
PullsTrue == \A p \in PRs : pulls[p] \in Blocked => Lost(p)
CommentsTrue ==
  \A c \in Combos : Sentinel \in comments[c] => Threads[c] = {} \/ Lost(c[1])

\* The strengthening that is inductive: a repository that is gone stays gone, so
\* what a reply says is missing is still missing when the rows of it are written,
\* and the combined stage writes about no PR it did not ask for.
AccessFated == \A r \in Repos : access[r] \in {"ok", Fate[r]}

PRReplyTrue(w) ==
  (pc[w] \in {"pulls", "comments"} /\ Stage(w) \in {"combined", "prs"}) =>
    \A p \in DOMAIN reply[w] : reply[w][p] \notin Visible => Lost(p)
CombinedAsked(w) ==
  (pc[w] \in {"pulls", "comments"} /\ Stage(w) = "combined") =>
    PRsOf(Known(batch[w])) \subseteq DOMAIN reply[w]
PullStation(w) == pc[w] = "pulls" => Stage(w) \in {"combined", "prs"}
ComboReplyTrue(w) ==
  (pc[w] = "comments" /\ Stage(w) = "comments") =>
    \A c \in DOMAIN reply[w] : reply[w][c] \in Missing => Lost(c[1])
RepoReplyTrue(w) ==
  pc[w] = "repos" => \A r \in DOMAIN reply[w] : reply[w][r] \in Blocked => access[r] # "ok"

ReplyTrue(w) == /\ PRReplyTrue(w) /\ CombinedAsked(w) /\ PullStation(w)
                /\ ComboReplyTrue(w) /\ RepoReplyTrue(w)

AbsenceInv == /\ AccessFated /\ ReposTrue /\ PullsTrue /\ CommentsTrue
              /\ \A w \in Workers : ReplyTrue(w)

\* What a truthful GraphQL node says is missing is lost.
LEMMA NodeTrue ==
  ASSUME ~Misleading, NEW p, NEW node \in PRAnswers(p), node \notin Visible
  PROVE  Lost(p)
BY DEF PRAnswers, TrueAnswer, Visible, Lost

\* A reply that was read truthfully, at the station the worker goes to with it.
LEMMA RepliesTrue ==
  ASSUME ~Misleading, NEW w \in Workers, NEW b, NEW f \in Replies(w, b)
  PROVE  /\ Stage(w) \in {"combined", "prs"} =>
              \A p \in DOMAIN f : f[p] \notin Visible => Lost(p)
         /\ Stage(w) = "combined" => PRsOf(Known(b)) = DOMAIN f
         /\ Stage(w) = "comments" => \A c \in DOMAIN f : f[c] \in Missing => Lost(c[1])
         /\ Stage(w) \in {"repos", "refresh"} =>
              \A r \in DOMAIN f : f[r] \in Blocked => access[r] # "ok"
<1> DEFINE A == Asked(w, b)
<1>1. CASE Stage(w) = "combined"
  <2>1. PICK n \in PRNodes(A) : f = [p \in A |-> CombinedResult(n[p])]
    BY <1>1 DEF Replies, CombinedReplies
  <2>2. A = PRsOf(Known(b))
    BY <1>1 DEF Asked
  <2>3. ASSUME NEW p \in A, f[p] \notin Visible PROVE Lost(p)
    <3>1. n[p] \in PRAnswers(p) /\ f[p] = CombinedResult(n[p])
      BY <2>1 DEF PRNodes
    <3>2. n[p] \notin Visible
      BY <2>3, <3>1 DEF CombinedResult
    <3> QED BY <3>1, <3>2, NodeTrue
  <2>4. DOMAIN f = A
    BY <2>1
  <2> QED BY <1>1, <2>2, <2>3, <2>4
<1>2. CASE Stage(w) = "prs"
  <2>1. PICK n \in PRNodes(A) : f = [p \in A |-> PullResult(n[p])]
    BY <1>2 DEF Replies, PullReplies
  <2>2. ASSUME NEW p \in A, f[p] \notin Visible PROVE Lost(p)
    <3>1. n[p] \in PRAnswers(p) /\ f[p] = PullResult(n[p])
      BY <2>1 DEF PRNodes
    <3>2. n[p] \notin Visible
      BY <2>2, <3>1 DEF PullResult, Visible
    <3> QED BY <3>1, <3>2, NodeTrue
  <2>3. DOMAIN f = A
    BY <2>1
  <2> QED BY <1>2, <2>2, <2>3
<1>3. CASE Stage(w) = "comments"
  <2>1. CASE f = [c \in A |-> "partial"]
    BY <1>3, <2>1 DEF Missing
  <2>2. CASE \E n \in ComboNodes(A) : f = [c \in A |-> CommentResult(n[c])]
    <3>1. PICK n \in ComboNodes(A) : f = [c \in A |-> CommentResult(n[c])]
      BY <2>2
    <3>2. ASSUME NEW c \in A, f[c] \in Missing PROVE Lost(c[1])
      <4>1. n[c] \in PRAnswers(c[1]) /\ f[c] = CommentResult(n[c])
        BY <3>1 DEF ComboNodes
      <4>2. n[c] \notin Visible
        BY <3>2, <4>1 DEF CommentResult, Visible, Missing
      <4> QED BY <4>1, <4>2, NodeTrue
    <3>3. DOMAIN f = A
      BY <3>1
    <3> QED BY <1>3, <3>2, <3>3
  <2> QED BY <1>3, <2>1, <2>2 DEF Replies, CommentReplies
<1>4. CASE Stage(w) \in {"repos", "refresh"}
  <2>1. f \in RepoReplies(A)
    BY <1>4 DEF Replies
  <2>2. PICK n \in RepoNodes(A) : \/ f = [r \in A |-> RepoResult(n[r])]
                                  \/ f = [r \in A |-> ThrownRepoResult(n[r])]
    BY <2>1 DEF RepoReplies
  <2>3. ASSUME NEW r \in A, f[r] \in Blocked PROVE access[r] # "ok"
    <3>1. n[r] = access[r] /\ f[r] \in {RepoResult(n[r]), ThrownRepoResult(n[r])}
      BY <2>2 DEF RepoNodes, RepoAnswers
    <3> QED BY <2>3, <3>1 DEF RepoResult, ThrownRepoResult, Blocked
  <2>4. DOMAIN f = A
    BY <2>2
  <2> QED BY <1>4, <2>3, <2>4
<1> QED BY <1>1, <1>2, <1>3, <1>4

\* A worker that holds the same reply at the same station, while GitHub stays as
\* it is, and one that is at a station where no reply decides on absence.
LEMMA SameReply ==
  ASSUME NEW v \in Workers, ReplyTrue(v), access' = access, pc'[v] = pc[v],
         plan'[v] = plan[v], batch'[v] = batch[v], reply'[v] = reply[v]
  PROVE  ReplyTrue(v)'
BY DEF ReplyTrue, PRReplyTrue, CombinedAsked, PullStation, ComboReplyTrue,
   RepoReplyTrue, Stage, Lost

LEMMA NoReplyTrue ==
  ASSUME NEW v \in Workers, pc'[v] \notin {"pulls", "comments", "repos"}
  PROVE  ReplyTrue(v)'
BY DEF ReplyTrue, PRReplyTrue, CombinedAsked, PullStation, ComboReplyTrue, RepoReplyTrue

\* A worker's step leaves GitHub and the other workers alone.
LEMMA WorkAlone ==
  ASSUME TypeOK, NEW w \in Workers, Work(w)
  PROVE  /\ access' = access
         /\ \A v \in Workers : v # w =>
              /\ pc'[v] = pc[v] /\ plan'[v] = plan[v]
              /\ batch'[v] = batch[v] /\ reply'[v] = reply[v] /\ todo'[v] = todo[v]
<1> DEFINE Alone == /\ access' = access
                    /\ \A v \in Workers : v # w =>
                         /\ pc'[v] = pc[v] /\ plan'[v] = plan[v]
                         /\ batch'[v] = batch[v] /\ reply'[v] = reply[v] /\ todo'[v] = todo[v]
<1>1. /\ DOMAIN pc = Workers /\ DOMAIN plan = Workers
      /\ DOMAIN batch = Workers /\ DOMAIN reply = Workers /\ DOMAIN todo = Workers
  BY DEF TypeOK, RunsOK
<1>2. ASSUME NEW b, Raised(w, b) PROVE Alone
  BY <1>1, <1>2 DEF Raised, ShrinkAndRetry, GiveUp
<1>3. ASSUME Handled(w) PROVE Alone
  BY <1>1, <1>3 DEF Handled
<1>4. ASSUME NEW next, Continue(w, next) PROVE Alone
  BY <1>1, <1>4 DEF Continue
<1>5. ASSUME NEW x, RestNext(w, x) PROVE Alone
  BY <1>1, <1>5 DEF RestNext
<1>6. CASE NextStage(w) \/ Select(w) \/ SkipUnknown(w)
  BY <1>1, <1>6 DEF NextStage, Select, SkipUnknown
<1>7. CASE Fetch(w)
  BY <1>1, <1>7 DEF Fetch
<1>8. CASE FetchFails(w) \/ InsertFails(w) \/ InsertRepoFails(w) \/ RestThrows(w)
  BY <1>2, <1>8 DEF FetchFails, InsertFails, InsertRepoFails, RestThrows
<1>9. CASE InsertPulls(w) \/ InsertHoorays(w) \/ InsertScan(w) \/ ReposDone(w) \/ MoreDone(w)
  BY <1>3, <1>4, <1>9 DEF InsertPulls, InsertHoorays, InsertScan, ReposDone, MoreDone
<1>10. CASE InsertComments(w)
  <2>1. CASE Continue(w, "hoorays") \/ Handled(w)
    BY <1>3, <1>4, <2>1
  <2>2. CASE /\ pc' = [pc EXCEPT ![w] = "more"]
             /\ UNCHANGED <<access, plan, todo, batch, reply>>
    BY <1>1, <2>2
  <2> QED BY <1>10, <2>1, <2>2 DEF InsertComments
<1>11. CASE InsertRepo(w)
  BY <1>1, <1>11 DEF InsertRepo
<1>12. CASE RestComments(w) \/ RestPull(w) \/ RestRepo(w) \/ RestSkip(w)
  BY <1>5, <1>12 DEF RestComments, RestPull, RestRepo, RestSkip
<1>13. CASE RestDone(w)
  BY <1>1, <1>13 DEF RestDone
<1> QED BY <1>6, <1>7, <1>8, <1>9, <1>10, <1>11, <1>12, <1>13 DEF Work

\* Only a fetch, the insert of pull requests and that of one repository leave a
\* worker at a station where a reply decides on absence.
LEMMA WorkQuiet ==
  ASSUME TypeOK, NEW w \in Workers, Work(w),
         ~Fetch(w), ~InsertPulls(w), ~InsertRepo(w)
  PROVE  pc'[w] \notin {"pulls", "comments", "repos"}
<1> DEFINE Quiet == pc'[w] \notin {"pulls", "comments", "repos"}
<1>1. pc \in [Workers -> Stations]
  BY DEF TypeOK, RunsOK
<1>2. ASSUME NEW b, Raised(w, b) PROVE Quiet
  BY <1>1, <1>2 DEF Raised, ShrinkAndRetry, GiveUp
<1>3. ASSUME Handled(w) PROVE Quiet
  BY <1>1, <1>3 DEF Handled
<1>4. CASE NextStage(w) \/ Select(w) \/ SkipUnknown(w)
  BY <1>1, <1>4 DEF NextStage, Select, SkipUnknown
<1>5. CASE FetchFails(w) \/ InsertFails(w) \/ InsertRepoFails(w) \/ RestThrows(w)
  BY <1>2, <1>5 DEF FetchFails, InsertFails, InsertRepoFails, RestThrows
<1>6. CASE ReposDone(w) \/ MoreDone(w)
  BY <1>3, <1>6 DEF ReposDone, MoreDone
<1>7. CASE InsertHoorays(w) \/ InsertScan(w)
  BY <1>1, <1>3, <1>7 DEF InsertHoorays, InsertScan, Continue
<1>8. CASE InsertComments(w)
  BY <1>1, <1>3, <1>8 DEF InsertComments, Continue
<1>9. CASE RestComments(w) \/ RestPull(w) \/ RestRepo(w) \/ RestSkip(w)
  BY <1>1, <1>9 DEF RestComments, RestPull, RestRepo, RestSkip, RestNext
<1>10. CASE RestDone(w)
  BY <1>1, <1>10 DEF RestDone
<1> QED BY <1>4, <1>5, <1>6, <1>7, <1>8, <1>9, <1>10 DEF Work

LEMMA FetchTrue ==
  ASSUME ~Misleading, TypeOK, NEW w \in Workers, Fetch(w) PROVE ReplyTrue(w)'
<1>1. PICK b \in Batches(w) :
        /\ batch' = [batch EXCEPT ![w] = b]
        /\ \E f \in Replies(w, b) : reply' = [reply EXCEPT ![w] = f]
  BY DEF Fetch
<1>2. PICK f \in Replies(w, b) : reply' = [reply EXCEPT ![w] = f]
  BY <1>1
<1>3. /\ batch'[w] = b /\ reply'[w] = f /\ pc'[w] = FirstWrite(Stage(w))
      /\ Stage(w)' = Stage(w) /\ access' = access
  BY <1>1, <1>2 DEF Fetch, TypeOK, RunsOK, Stage
<1>4. Stage(w) \in Stages
  BY Running DEF Fetch
<1>5. /\ FirstWrite(Stage(w)) = "pulls" => Stage(w) \in {"combined", "prs"}
      /\ FirstWrite(Stage(w)) = "comments" => Stage(w) = "comments"
      /\ FirstWrite(Stage(w)) = "repos" => Stage(w) \in {"repos", "refresh"}
  BY <1>4 DEF FirstWrite, Stages
<1>6. /\ Stage(w) \in {"combined", "prs"} =>
           \A p \in DOMAIN f : f[p] \notin Visible => Lost(p)
      /\ Stage(w) = "combined" => PRsOf(Known(b)) = DOMAIN f
      /\ Stage(w) = "comments" => \A c \in DOMAIN f : f[c] \in Missing => Lost(c[1])
      /\ Stage(w) \in {"repos", "refresh"} =>
           \A r \in DOMAIN f : f[r] \in Blocked => access[r] # "ok"
  BY RepliesTrue
<1>7. \A p : Lost(p) => Lost(p)'
  BY <1>3 DEF Lost
<1>8. PRsOf(Known(batch[w]))' = PRsOf(Known(b))
  BY <1>3 DEF PRsOf, Known
<1>9. PRReplyTrue(w)' /\ ComboReplyTrue(w)'
  BY <1>3, <1>5, <1>6, <1>7 DEF PRReplyTrue, ComboReplyTrue
<1>10. CombinedAsked(w)' /\ PullStation(w)' /\ RepoReplyTrue(w)'
  BY <1>3, <1>5, <1>6, <1>8 DEF CombinedAsked, PullStation, RepoReplyTrue
<1> QED BY <1>9, <1>10 DEF ReplyTrue

LEMMA InsertPullsTrue ==
  ASSUME TypeOK, NEW w \in Workers, ReplyTrue(w), InsertPulls(w) PROVE ReplyTrue(w)'
<1>1. CASE Stage(w) # "combined"
  <2>1. pc'[w] = "batch"
    BY <1>1 DEF InsertPulls, Handled, TypeOK, RunsOK
  <2> QED BY <2>1, NoReplyTrue
<1>2. CASE Stage(w) = "combined"
  <2>1. /\ pc[w] = "pulls" /\ pc'[w] = "comments"
        /\ UNCHANGED <<access, plan, batch, reply>>
    BY <1>2 DEF InsertPulls, Continue, TypeOK, RunsOK
  <2>2. Stage(w)' = "combined"
    BY <1>2, <2>1 DEF Stage
  <2>3. PRReplyTrue(w)'
    BY <1>2, <2>1, <2>2 DEF ReplyTrue, PRReplyTrue, Lost
  <2>4. CombinedAsked(w)'
    BY <1>2, <2>1, <2>2 DEF ReplyTrue, CombinedAsked
  <2> QED BY <2>1, <2>2, <2>3, <2>4 DEF ReplyTrue, PullStation, ComboReplyTrue,
          RepoReplyTrue
<1> QED BY <1>1, <1>2

LEMMA InsertRepoTrue ==
  ASSUME TypeOK, NEW w \in Workers, ReplyTrue(w), InsertRepo(w) PROVE ReplyTrue(w)'
<1>1. PICK r \in DOMAIN reply[w] :
        reply' = [reply EXCEPT ![w] = [q \in DOMAIN reply[w] \ {r} |-> reply[w][q]]]
  BY DEF InsertRepo
<1>2. reply'[w] = [q \in DOMAIN reply[w] \ {r} |-> reply[w][q]]
  BY <1>1 DEF TypeOK, RunsOK
<1>3. pc'[w] = "repos" /\ access' = access /\ pc[w] = "repos"
  BY DEF InsertRepo
<1>4. RepoReplyTrue(w)'
  BY <1>2, <1>3 DEF ReplyTrue, RepoReplyTrue
<1> QED BY <1>3, <1>4 DEF ReplyTrue, PRReplyTrue, CombinedAsked, PullStation,
        ComboReplyTrue

\* The rows of the comments table are read off replies, or off REST answers.
LEMMA CommentRowsTrue ==
  ASSUME NEW w \in Workers, pc[w] = "comments", ReplyTrue(w), ListsOK(w),
         NEW c \in Combos, c \in Answered(w), Sentinel \in CommentRows(w, c)
  PROVE  Threads[c] = {} \/ Lost(c[1])
<1>1. Stage(w) \in {"combined", "comments"}
  BY DEF ListsOK
<1>2. CASE KindOf(w, c) \in Missing
  <2>1. CASE Stage(w) = "combined"
    <3>1. c[1] \in DOMAIN reply[w]
      BY <2>1 DEF ReplyTrue, CombinedAsked, Answered, PRsOf
    <3>2. reply[w][c[1]] \notin Visible
      BY <1>2, <2>1 DEF KindOf, Missing, Visible
    <3> QED BY <2>1, <3>1, <3>2 DEF ReplyTrue, PRReplyTrue
  <2>2. CASE Stage(w) = "comments"
    BY <1>2, <2>2 DEF KindOf, Answered, ReplyTrue, ComboReplyTrue
  <2> QED BY <1>1, <2>1, <2>2
<1>3. CASE KindOf(w, c) \notin Missing /\ KindOf(w, c) \in Visible /\ c[1] \notin ManyThreads
  <2>1. CommentRows(w, c) = RowsOrSentinel(FirstPage[c])
    BY <1>3 DEF CommentRows
  <2>2. FirstPage[c] = Threads[c] /\ Sentinel \notin Threads[c]
    BY <1>3, ThreadsAssumption
  <2> QED BY <2>1, <2>2 DEF RowsOrSentinel
<1>4. CASE KindOf(w, c) \notin Missing
           /\ ~(KindOf(w, c) \in Visible /\ c[1] \notin ManyThreads)
  BY <1>4 DEF CommentRows
<1> QED BY <1>2, <1>3, <1>4

LEMMA RestRowsTrue ==
  ASSUME ~Misleading, TypeOK, NEW c \in Combos, NEW S \in RestRows(c), Sentinel \in S
  PROVE  Threads[c] = {} \/ Lost(c[1])
<1>1. CASE RestAnswers(c[1]) \cap Blocked # {}
  BY <1>1 DEF RestAnswers, Blocked, Lost
<1>2. CASE S = RowsOrSentinel(Threads[c])
  BY <1>2, ThreadsAssumption DEF RowsOrSentinel
<1> QED BY <1>1, <1>2 DEF RestRows

\* The tables after a bulk insert.
LEMMA PutTrue ==
  ASSUME TypeOK, NEW w \in Workers, ReplyTrue(w), access' = access,
         ReposTrue, PullsTrue, CommentsTrue,
         \/ pc[w] = "pulls" /\ PutPulls(w)
         \/ pc[w] = "comments" /\ PutComments(w)
         \/ PutHoorays(w) \/ PutScan(w) \/ PutNothing
  PROVE  ReposTrue' /\ PullsTrue' /\ CommentsTrue'
<1>1. \A p : Lost(p)' <=> Lost(p)
  BY DEF Lost
<1>2. CASE pc[w] = "pulls" /\ PutPulls(w)
  <2>1. ASSUME NEW p \in PRs, pulls'[p] \in Blocked PROVE Lost(p)
    <3>1. CASE p \notin DOMAIN reply[w]
      BY <1>2, <2>1, <3>1 DEF PutPulls, PullsTrue
    <3>2. CASE p \in DOMAIN reply[w]
      <4>1. PullRow(reply[w][p]) \in Blocked
        BY <1>2, <2>1, <3>2 DEF PutPulls
      <4>2. reply[w][p] \notin Visible
        BY <4>1 DEF PullRow, Blocked
      <4> QED BY <1>2, <3>2, <4>2 DEF ReplyTrue, PullStation, PRReplyTrue
    <3> QED BY <3>1, <3>2
  <2> QED BY <1>1, <1>2, <2>1 DEF PutPulls, PullsTrue, ReposTrue, CommentsTrue
<1>3. CASE pc[w] = "comments" /\ PutComments(w)
  <2>1. ASSUME NEW c \in Combos, Sentinel \in comments'[c]
        PROVE  Threads[c] = {} \/ Lost(c[1])
    <3>1. CASE Sentinel \in comments[c]
      BY <3>1 DEF CommentsTrue
    <3>2. CASE Sentinel \notin comments[c]
      <4>1. c \in Answered(w) /\ Sentinel \in CommentRows(w, c)
        BY <1>3, <2>1, <3>2 DEF PutComments
      <4> QED BY <1>3, <4>1, CommentRowsTrue DEF TypeOK
    <3> QED BY <3>1, <3>2
  <2> QED BY <1>1, <1>3, <2>1 DEF PutComments, PullsTrue, ReposTrue, CommentsTrue
<1>4. CASE PutHoorays(w) \/ PutScan(w) \/ PutNothing
  <2>1. UNCHANGED <<repos, pulls, comments>>
    BY <1>4 DEF PutHoorays, PutScan, PutNothing
  <2> QED BY <1>1, <2>1 DEF PullsTrue, ReposTrue, CommentsTrue
<1> QED BY <1>2, <1>3, <1>4

\* The tables after the insert of one row.
LEMMA PutRepoTrue ==
  ASSUME TypeOK, access' = access, ReposTrue, PullsTrue, CommentsTrue,
         NEW r, NEW s, s \in Blocked => access[r] # "ok", PutRepo(r, s)
  PROVE  ReposTrue' /\ PullsTrue' /\ CommentsTrue'
<1>1. \A p : Lost(p)' <=> Lost(p)
  BY DEF Lost
<1>2. ReposTrue'
  BY DEF PutRepo, ReposTrue, TypeOK, TablesOK
<1> QED BY <1>1, <1>2 DEF PutRepo, PullsTrue, CommentsTrue

LEMMA PutSentinelTrue ==
  ASSUME TypeOK, access' = access, CommentsTrue, NEW c, NEW S,
         c \in Combos => (Sentinel \in S => Threads[c] = {} \/ Lost(c[1])),
         comments' = [comments EXCEPT ![c] = @ \cup S]
  PROVE  CommentsTrue'
<1>1. \A p : Lost(p)' <=> Lost(p)
  BY DEF Lost
<1>2. \A d \in Combos : Sentinel \in comments'[d] =>
        Sentinel \in comments[d] \/ (d = c /\ Sentinel \in S)
  BY DEF TypeOK, TablesOK
<1> QED BY <1>1, <1>2 DEF CommentsTrue

LEMMA RestTrue ==
  ASSUME ~Misleading, TypeOK, ReposTrue, PullsTrue, CommentsTrue, access' = access,
         NEW w \in Workers,
         RestComments(w) \/ RestPull(w) \/ RestRepo(w) \/ RestThrows(w)
  PROVE  ReposTrue' /\ PullsTrue' /\ CommentsTrue'
<1>1. \A p : Lost(p)' <=> Lost(p)
  BY DEF Lost
<1>2. CASE RestComments(w)
  <2>1. PICK c \in Known(rest[w]) :
          \E S \in RestRows(c) : comments' = [comments EXCEPT ![c] = @ \cup S]
    BY <1>2 DEF RestComments
  <2>2. PICK S \in RestRows(c) : comments' = [comments EXCEPT ![c] = @ \cup S]
    BY <2>1
  <2>3. CommentsTrue'
    BY <2>2, RestRowsTrue, PutSentinelTrue
  <2> QED BY <1>1, <1>2, <2>3 DEF RestComments, ReposTrue, PullsTrue
<1>3. CASE RestPull(w)
  <2>1. PICK p \in rest[w] : \E s \in RestAnswers(p) : pulls' = [pulls EXCEPT ![p] = s]
    BY <1>3 DEF RestPull
  <2>2. PICK s \in RestAnswers(p) : pulls' = [pulls EXCEPT ![p] = s]
    BY <2>1
  <2>3. s \in Blocked => Lost(p)
    BY DEF RestAnswers, Blocked, Lost
  <2>4. \A q \in PRs : pulls'[q] = pulls[q] \/ (q = p /\ pulls'[q] = s)
    BY <2>2 DEF TypeOK, TablesOK
  <2>5. PullsTrue'
    BY <1>1, <2>3, <2>4 DEF PullsTrue
  <2> QED BY <1>1, <1>3, <2>5 DEF RestPull, ReposTrue, CommentsTrue
<1>4. CASE RestRepo(w)
  <2>1. PICK r \in rest[w] : \E s \in RestRepoAnswers(r) : PutRepo(r, s)
    BY <1>4 DEF RestRepo
  <2>2. PICK s \in RestRepoAnswers(r) : PutRepo(r, s)
    BY <2>1
  <2>3. s \in Blocked => access[r] # "ok"
    BY DEF RestRepoAnswers, Blocked
  <2> QED BY <2>2, <2>3, PutRepoTrue
<1>5. CASE RestThrows(w)
  <2>1. CASE PutNothing
    BY <1>1, <2>1 DEF PutNothing, ReposTrue, PullsTrue, CommentsTrue
  <2>2. CASE ~PutNothing
    <3>1. PICK c \in rest[w] : /\ {Sentinel} \in RestRows(c)
                               /\ comments' = [comments EXCEPT ![c] = @ \cup {Sentinel}]
                               /\ UNCHANGED <<repos, pulls>>
      BY <1>5, <2>2 DEF RestThrows
    <3>2. CommentsTrue'
      BY <3>1, RestRowsTrue, PutSentinelTrue
    <3> QED BY <1>1, <3>1, <3>2 DEF ReposTrue, PullsTrue
  <2> QED BY <2>1, <2>2
<1> QED BY <1>2, <1>3, <1>4, <1>5

LEMMA WorkTrue ==
  ASSUME ~Misleading, TypeOK, AbsenceInv, NEW w \in Workers, Work(w)
  PROVE  AbsenceInv'
<1>1. access' = access
  BY WorkAlone
<1>2. AccessFated' /\ ReplyTrue(w) /\ ReposTrue /\ PullsTrue /\ CommentsTrue
  BY <1>1 DEF AbsenceInv, AccessFated
<1>3. \A v \in Workers : ReplyTrue(v)'
  <2>1. ASSUME NEW v \in Workers, v # w PROVE ReplyTrue(v)'
    BY <2>1, WorkAlone, SameReply DEF AbsenceInv
  <2>2. ReplyTrue(w)'
    BY <1>2, FetchTrue, InsertPullsTrue, InsertRepoTrue, WorkQuiet, NoReplyTrue
  <2> QED BY <2>1, <2>2
<1>4. ReposTrue' /\ PullsTrue' /\ CommentsTrue'
  <2>1. CASE UNCHANGED <<repos, pulls, comments, hoorays, scan>>
    BY <1>1, <1>2, <2>1, PutTrue DEF PutNothing
  <2>2. CASE NextStage(w) \/ Select(w) \/ Fetch(w) \/ FetchFails(w) \/ SkipUnknown(w)
    BY <2>1, <2>2 DEF NextStage, Select, Fetch, FetchFails, SkipUnknown
  <2>3. CASE InsertPulls(w) \/ InsertComments(w) \/ InsertHoorays(w) \/ InsertScan(w)
    BY <1>1, <1>2, <2>3, PutTrue DEF InsertPulls, InsertComments, InsertHoorays,
       InsertScan
  <2>4. CASE InsertFails(w)
    <3>1. \/ pc[w] = "pulls" /\ PutPulls(w)
          \/ pc[w] = "comments" /\ PutComments(w)
          \/ PutHoorays(w) \/ PutScan(w) \/ PutNothing
      BY <2>4 DEF InsertFails, Put
    <3> QED BY <1>1, <1>2, <3>1, PutTrue
  <2>5. CASE InsertRepo(w)
    <3>1. PICK r \in DOMAIN reply[w] : PutRepo(r, reply[w][r])
      BY <2>5 DEF InsertRepo
    <3>2. reply[w][r] \in Blocked => access[r] # "ok"
      BY <1>2, <2>5, <3>1 DEF InsertRepo, ReplyTrue, RepoReplyTrue
    <3> QED BY <1>1, <1>2, <3>1, <3>2, PutRepoTrue
  <2>6. CASE InsertRepoFails(w)
    <3>1. CASE PutNothing
      BY <2>1, <3>1 DEF PutNothing
    <3>2. CASE ~PutNothing
      <4>1. PICK r \in DOMAIN reply[w] : PutRepo(r, reply[w][r])
        BY <2>6, <3>2 DEF InsertRepoFails
      <4>2. reply[w][r] \in Blocked => access[r] # "ok"
        BY <1>2, <2>6, <4>1 DEF InsertRepoFails, ReplyTrue, RepoReplyTrue
      <4> QED BY <1>1, <1>2, <4>1, <4>2, PutRepoTrue
    <3> QED BY <3>1, <3>2
  <2>7. CASE RestComments(w) \/ RestPull(w) \/ RestRepo(w) \/ RestThrows(w)
    BY <1>1, <1>2, <2>7, RestTrue
  <2>8. CASE ReposDone(w) \/ RestSkip(w) \/ MoreDone(w) \/ RestDone(w)
    BY <2>1, <2>8 DEF ReposDone, RestSkip, MoreDone, RestDone, PutNothing
  <2> QED BY <2>2, <2>3, <2>4, <2>5, <2>6, <2>7, <2>8 DEF Work
<1> QED BY <1>2, <1>3, <1>4 DEF AbsenceInv

\* A repository that vanishes makes more things lost, never fewer.
LEMMA VanishTrue ==
  ASSUME TypeOK, AbsenceInv, NEW r \in Repos, Vanish(r) PROVE AbsenceInv'
<1>1. /\ access \in [Repos -> {"ok"} \cup Blocked] /\ access[r] \in {"ok", Fate[r]}
      /\ access[r] # Fate[r] /\ access' = [access EXCEPT ![r] = Fate[r]]
  BY DEF AbsenceInv, AccessFated, Vanish, TypeOK, TablesOK
<1>2. \A q \in Repos : access[q] # "ok" => access'[q] # "ok"
  BY <1>1
<1>3. \A p \in PRs : Lost(p) => Lost(p)'
  <2>1. \A p \in PRs : RepoOf[p] \in Repos
    BY WorldAssumption
  <2> QED BY <1>2, <2>1 DEF Lost
<1>4. UNCHANGED <<repos, pulls, comments, plan, pc, batch, reply>>
  BY DEF Vanish
<1>5. ReposTrue' /\ PullsTrue' /\ AccessFated'
  BY <1>1, <1>2, <1>3, <1>4 DEF AbsenceInv, ReposTrue, PullsTrue, AccessFated
<1>6. \A c \in Combos : c[1] \in PRs
  BY WorldAssumption
<1>7. CommentsTrue'
  BY <1>3, <1>4, <1>6 DEF AbsenceInv, CommentsTrue
<1>8. ASSUME NEW v \in Workers PROVE ReplyTrue(v)'
  <2>1. ReplyTrue(v) /\ Stage(v)' = Stage(v)
    BY <1>4 DEF AbsenceInv, Stage
  <2>2. pc[v] # "idle" => DOMAIN reply[v] \subseteq Keys(Stage(v))
    BY DEF TypeOK, ListsOK
  <2>3. PRReplyTrue(v)'
    BY <1>3, <1>4, <2>1, <2>2 DEF ReplyTrue, PRReplyTrue, Keys, Items
  <2>4. ComboReplyTrue(v)'
    BY <1>3, <1>4, <1>6, <2>1, <2>2 DEF ReplyTrue, ComboReplyTrue, Keys, Items
  <2>5. RepoReplyTrue(v)'
    <3>1. pc[v] = "repos" => DOMAIN reply[v] \subseteq Repos
      BY <2>2 DEF TypeOK, ListsOK, Keys, Items
    <3> QED BY <1>2, <1>4, <2>1, <3>1 DEF ReplyTrue, RepoReplyTrue
  <2>6. CombinedAsked(v)' /\ PullStation(v)'
    BY <1>4, <2>1 DEF ReplyTrue, CombinedAsked, PullStation
  <2> QED BY <2>3, <2>4, <2>5, <2>6 DEF ReplyTrue
<1> QED BY <1>5, <1>7, <1>8 DEF AbsenceInv

LEMMA StepTrue == ~Misleading /\ TypeOK /\ AbsenceInv /\ [Next]_vars => AbsenceInv'
<1> SUFFICES ASSUME ~Misleading, TypeOK, AbsenceInv, [Next]_vars PROVE AbsenceInv'
  OBVIOUS
<1>1. ASSUME UNCHANGED <<access, repos, pulls, comments>>,
             \A v \in Workers : ReplyTrue(v)'
      PROVE  AbsenceInv'
  BY <1>1 DEF AbsenceInv, AccessFated, ReposTrue, PullsTrue, CommentsTrue, Lost
<1>2. ASSUME NEW w \in Workers, Start(w) \/ Stop(w) PROVE AbsenceInv'
  <2>1. /\ UNCHANGED <<access, repos, pulls, comments>>
        /\ pc'[w] \notin {"pulls", "comments", "repos"}
        /\ \A v \in Workers : v # w =>
             /\ pc'[v] = pc[v] /\ plan'[v] = plan[v]
             /\ batch'[v] = batch[v] /\ reply'[v] = reply[v]
    BY <1>2 DEF Start, Stop, TypeOK, RunsOK
  <2>2. ASSUME NEW v \in Workers PROVE ReplyTrue(v)'
    BY <2>1, SameReply, NoReplyTrue DEF AbsenceInv
  <2> QED BY <1>1, <2>1, <2>2
<1>3. CASE (\E c \in Combos : Discover(c)) \/ Recover \/ UNCHANGED vars
  <2>1. UNCHANGED <<access, repos, pulls, comments, plan, pc, batch, reply>>
    BY <1>3 DEF Discover, Recover, vars
  <2>2. ASSUME NEW v \in Workers PROVE ReplyTrue(v)'
    BY <2>1, SameReply DEF AbsenceInv
  <2> QED BY <1>1, <2>1, <2>2
<1> QED BY <1>2, <1>3, WorkTrue, VanishTrue DEF Next

\* Whatever fails, is retried or is killed, a sentinel, a not_found or a forbidden
\* row stands only for what is gone or empty, as long as GitHub's answers are true
\* (combined-enrichment.ts, comments.ts, pull-requests.ts and repos.ts).
THEOREM AbsenceIsNeverMadeUp == Spec => []AbsenceIsTrue
<1>1. Init => AbsenceInv
  BY DEF Init, AbsenceInv, AccessFated, ReposTrue, PullsTrue, CommentsTrue, ReplyTrue,
     PRReplyTrue, CombinedAsked, PullStation, ComboReplyTrue, RepoReplyTrue, Absent,
     Blocked
<1>2. ~Misleading /\ AbsenceInv => AbsenceIsTrue
  BY DEF AbsenceInv, AbsenceIsTrue, ReposTrue, PullsTrue, CommentsTrue, Lost
<1>3. CASE ~Misleading
  <2>1. TypeOK /\ AbsenceInv /\ [Next]_vars => AbsenceInv'
    BY <1>3, StepTrue
  <2>2. AbsenceInv => AbsenceIsTrue
    BY <1>2, <1>3
  <2> QED BY <1>1, <2>1, <2>2, TypeCorrect, PTL DEF Spec
<1>4. CASE Misleading
  <2>1. TypeOK => AbsenceIsTrue
    BY <1>4 DEF AbsenceIsTrue
  <2> QED BY <2>1, TypeCorrect, PTL
<1> QED BY <1>3, <1>4

-----------------------------------------------------------------------------
(***************************************************************************)
(* The enrichment workers implement EnrichmentLedger when GitHub tells the *)
(* truth, for every number of workers, repositories and pull requests:     *)
(* whoever writes, retries or falls back to REST, answers arrive whole,    *)
(* are final, and are never about a repository recorded as gone.           *)
(*                                                                         *)
(* The argument rests on the partition of the repositories: what a worker  *)
(* read about its items - that their repository is not recorded as gone,   *)
(* that a reply agrees with the rows there are - stays true until it       *)
(* writes, because nobody else writes about them.                          *)
(***************************************************************************)

\* A PR that was announced, of a repository not recorded as gone.
OpenCombo(c) == c \in events /\ repos[RepoOf[c[1]]] \notin Blocked
OpenPR(p) == p \in PRsOf(events) /\ repos[RepoOf[p]] \notin Blocked

\* Whatever a worker holds may be written about.
HeldOpen(w) ==
  pc[w] # "idle" =>
    /\ Stage(w) \in {"combined", "comments"} => \A c \in todo[w] : OpenCombo(c)
    /\ Stage(w) \in {"prs", "reactions"} => \A p \in todo[w] : OpenPR(p)

\* A reply is about the batch in hand, and each station belongs to its stages.
ReplyStations == {"pulls", "comments", "hoorays", "scan", "repos"}
ReplyHeld(w) ==
  /\ pc[w] \in ReplyStations =>
       IF Stage(w) = "combined" THEN DOMAIN reply[w] \subseteq PRsOf(batch[w])
       ELSE DOMAIN reply[w] \subseteq batch[w]
  /\ pc[w] = "pulls" => Stage(w) \in {"combined", "prs"}
  /\ pc[w] \in {"hoorays", "scan"} => Stage(w) \in {"combined", "reactions"}
  /\ pc[w] = "more" => Stage(w) = "comments"

\* A reply that shows something does not contradict a row that says it is absent.
ReplyStands(w) ==
  /\ (pc[w] \in {"pulls", "comments"} /\ Stage(w) \in {"combined", "comments"}) =>
       \A c \in Answered(w) :
         KindOf(w, c) \in Visible /\ Sentinel \in comments[c] => Threads[c] = {}
  /\ pc[w] = "repos" =>
       \A r \in DOMAIN reply[w] : reply[w][r] = "ok" => repos[r] \notin Blocked

LedgerInv == \A w \in Workers : HeldOpen(w) /\ ReplyHeld(w) /\ ReplyStands(w)

-----------------------------------------------------------------------------
(* What a worker's step writes *)

WritesNothing == UNCHANGED <<events, repos, pulls, comments, scan>>
WritesPulls(w) == pc[w] = "pulls" /\ PutPulls(w) /\ events' = events
WritesComments(w) == pc[w] = "comments" /\ PutComments(w) /\ events' = events
WritesScan(w) == pc[w] = "scan" /\ PutScan(w) /\ events' = events
WritesRepo(w) ==
  /\ pc[w] = "repos" /\ events' = events
  /\ \E r \in DOMAIN reply[w] : PutRepo(r, reply[w][r])
RestWritesComments(w) ==
  /\ pc[w] \in {"rest", "more"} /\ Stage(w) = "comments"
  /\ \E c \in rest[w] : \E S \in RestRows(c) : comments' = [comments EXCEPT ![c] = @ \cup S]
  /\ UNCHANGED <<events, repos, pulls, scan>>
RestWritesPull(w) ==
  /\ pc[w] = "rest" /\ Stage(w) = "prs"
  /\ \E p \in rest[w] : \E s \in RestAnswers(p) : pulls' = [pulls EXCEPT ![p] = s]
  /\ UNCHANGED <<events, repos, comments, scan>>
RestWritesRepo(w) ==
  /\ pc[w] = "rest" /\ Stage(w) \in {"repos", "refresh"}
  /\ events' = events
  /\ \E r \in rest[w] : \E s \in RestRepoAnswers(r) : PutRepo(r, s)

\* The eight ways in which a worker's step touches the ledger's tables.
LEMMA WorkWrites ==
  ASSUME NEW w \in Workers, ReplyHeld(w), Work(w)
  PROVE  \/ WritesNothing \/ WritesPulls(w) \/ WritesComments(w) \/ WritesScan(w)
         \/ WritesRepo(w) \/ RestWritesComments(w) \/ RestWritesPull(w)
         \/ RestWritesRepo(w)
<1>1. events' = events
  BY DEF Work, NextStage, Select, Fetch, FetchFails, SkipUnknown, InsertPulls,
     InsertComments, InsertHoorays, InsertScan, InsertFails, InsertRepo,
     InsertRepoFails, ReposDone, RestComments, RestPull, RestRepo, RestSkip,
     RestThrows, MoreDone, RestDone, Raised, Handled, Continue, RestNext
<1>2. CASE NextStage(w) \/ Select(w) \/ Fetch(w) \/ FetchFails(w) \/ SkipUnknown(w)
  BY <1>1, <1>2 DEF NextStage, Select, Fetch, FetchFails, SkipUnknown, WritesNothing
<1>3. CASE InsertPulls(w) \/ InsertComments(w) \/ InsertScan(w)
  BY <1>1, <1>3 DEF InsertPulls, InsertComments, InsertScan, WritesPulls,
     WritesComments, WritesScan
<1>4. CASE InsertHoorays(w)
  BY <1>1, <1>4 DEF InsertHoorays, PutHoorays, WritesNothing
<1>5. CASE InsertFails(w)
  BY <1>1, <1>5 DEF InsertFails, Put, PutHoorays, PutNothing, WritesNothing,
     WritesPulls, WritesComments, WritesScan
<1>6. CASE InsertRepo(w) \/ InsertRepoFails(w)
  <2>1. pc[w] = "repos"
    BY <1>6 DEF InsertRepo, InsertRepoFails
  <2>2. (\E r \in DOMAIN reply[w] : PutRepo(r, reply[w][r])) \/ PutNothing
    BY <1>6 DEF InsertRepo, InsertRepoFails
  <2> QED BY <1>1, <2>1, <2>2 DEF WritesRepo, WritesNothing, PutNothing
<1>7. CASE RestComments(w)
  BY <1>1, <1>7 DEF RestComments, RestWritesComments, Known
<1>8. CASE RestPull(w)
  BY <1>1, <1>8 DEF RestPull, RestWritesPull
<1>9. CASE RestRepo(w)
  BY <1>1, <1>9 DEF RestRepo, RestWritesRepo
<1>10. CASE RestThrows(w)
  <2>1. pc[w] = "more" /\ Stage(w) = "comments"
    BY <1>10 DEF RestThrows, ReplyHeld
  <2>2. CASE PutNothing
    BY <1>1, <2>2 DEF PutNothing, WritesNothing
  <2>3. CASE ~PutNothing
    BY <1>1, <1>10, <2>1, <2>3 DEF RestThrows, RestWritesComments
  <2> QED BY <2>2, <2>3
<1>11. CASE ReposDone(w) \/ RestSkip(w) \/ MoreDone(w) \/ RestDone(w)
  BY <1>1, <1>11 DEF ReposDone, RestSkip, MoreDone, RestDone, PutNothing, WritesNothing
<1> QED BY <1>2, <1>3, <1>4, <1>5, <1>6, <1>7, <1>8, <1>9, <1>10, <1>11 DEF Work

-----------------------------------------------------------------------------
(* Only the holder of an item writes about it *)

LEMMA BatchHeld ==
  ASSUME TypeOK, OwnWork, NEW w \in Workers, pc[w] # "idle"
  PROVE  /\ Stage(w) \in {"combined", "comments"} =>
              \A c \in todo[w] : RepoOf[c[1]] \in Partition(w)
         /\ Stage(w) \in {"prs", "reactions"} => \A p \in todo[w] : RepoOf[p] \in Partition(w)
         /\ Stage(w) \in {"repos", "refresh"} => todo[w] \subseteq Partition(w)
         /\ rest[w] \subseteq batch[w] /\ batch[w] \subseteq todo[w]
         /\ todo[w] \subseteq Items(Stage(w))
<1>1. HeldRepos(w) \subseteq Partition(w) /\ ListsOK(w)
  BY DEF OwnWork, TypeOK
<1>2. /\ rest[w] \subseteq batch[w] /\ batch[w] \subseteq todo[w]
      /\ todo[w] \subseteq Items(Stage(w))
  BY <1>1 DEF ListsOK
<1>3. CASE Stage(w) \in {"combined", "comments"}
  BY <1>1, <1>2, <1>3 DEF HeldRepos
<1>4. CASE Stage(w) \in {"prs", "reactions"}
  BY <1>1, <1>2, <1>4 DEF HeldRepos
<1>5. CASE Stage(w) \in {"repos", "refresh"}
  BY <1>1, <1>2, <1>5 DEF HeldRepos
<1> QED BY <1>2, <1>3, <1>4, <1>5

LEMMA WritesOwn ==
  ASSUME TypeOK, OwnWork, NEW w \in Workers, ReplyHeld(w), Work(w)
  PROVE  /\ events' = events
         /\ \A r : repos'[r] = repos[r] \/ r \in Partition(w)
         /\ \A c \in Combos : comments'[c] = comments[c] \/ RepoOf[c[1]] \in Partition(w)
         /\ Stage(w) \notin {"repos", "refresh"} => repos' = repos
<1> DEFINE Own ==
      /\ events' = events
      /\ \A r : repos'[r] = repos[r] \/ r \in Partition(w)
      /\ \A c \in Combos : comments'[c] = comments[c] \/ RepoOf[c[1]] \in Partition(w)
      /\ Stage(w) \notin {"repos", "refresh"} => repos' = repos
<1>1. /\ comments \in [Combos -> SUBSET Rows] /\ DOMAIN repos = Repos
      /\ pc[w] = "repos" => Stage(w) \in {"repos", "refresh"}
      /\ pc[w] = "comments" => Stage(w) \in {"combined", "comments"}
  BY DEF TypeOK, TablesOK, ListsOK
<1>2. CASE WritesNothing \/ WritesPulls(w) \/ WritesScan(w) \/ RestWritesPull(w)
  BY <1>2 DEF WritesNothing, WritesPulls, WritesScan, RestWritesPull, PutPulls, PutScan
<1>3. CASE WritesComments(w)
  <2>1. ASSUME NEW c \in Combos, comments'[c] # comments[c]
        PROVE  RepoOf[c[1]] \in Partition(w)
    <3>1. c \in Answered(w) /\ pc[w] = "comments"
      BY <1>3, <2>1 DEF WritesComments, PutComments
    <3>2. Answered(w) \subseteq batch[w]
      BY <1>1, <3>1 DEF Answered, Known, ReplyHeld, ReplyStations
    <3> QED BY <1>1, <3>1, <3>2, BatchHeld
  <2> QED BY <1>3, <2>1 DEF WritesComments, PutComments
<1>4. CASE WritesRepo(w)
  <2>1. PICK r \in DOMAIN reply[w] : PutRepo(r, reply[w][r])
    BY <1>4 DEF WritesRepo
  <2>2. r \in batch[w]
    BY <1>1, <1>4 DEF WritesRepo, ReplyHeld, ReplyStations
  <2>3. r \in Partition(w)
    BY <1>1, <1>4, <2>2, BatchHeld DEF WritesRepo
  <2>4. \A q : repos'[q] = repos[q] \/ q = r
    BY <2>1 DEF PutRepo
  <2> QED BY <1>1, <1>4, <2>1, <2>3, <2>4 DEF WritesRepo, PutRepo
<1>5. CASE RestWritesComments(w)
  <2>1. PICK c \in rest[w] : \E S \in RestRows(c) : comments' = [comments EXCEPT ![c] = @ \cup S]
    BY <1>5 DEF RestWritesComments
  <2>2. RepoOf[c[1]] \in Partition(w)
    BY <1>5, BatchHeld DEF RestWritesComments
  <2>3. \A d \in Combos : comments'[d] = comments[d] \/ d = c
    BY <1>1, <2>1
  <2> QED BY <1>5, <2>2, <2>3 DEF RestWritesComments
<1>6. CASE RestWritesRepo(w)
  <2>1. PICK r \in rest[w] : \E s \in RestRepoAnswers(r) : PutRepo(r, s)
    BY <1>6 DEF RestWritesRepo
  <2>2. r \in Partition(w)
    BY <1>6, BatchHeld DEF RestWritesRepo
  <2>3. \A q : repos'[q] = repos[q] \/ q = r
    BY <2>1 DEF PutRepo
  <2> QED BY <1>6, <2>1, <2>2, <2>3 DEF RestWritesRepo, PutRepo
<1> QED BY <1>2, <1>3, <1>4, <1>5, <1>6, WorkWrites

\* What a worker knows of its items survives the steps of the others.
LEMMA OthersStand ==
  ASSUME TypeOK, OwnWork, LedgerInv, NEW w \in Workers, Work(w),
         NEW v \in Workers, v # w
  PROVE  HeldOpen(v)' /\ ReplyHeld(v)' /\ ReplyStands(v)'
<1>1. /\ pc'[v] = pc[v] /\ plan'[v] = plan[v] /\ todo'[v] = todo[v]
      /\ batch'[v] = batch[v] /\ reply'[v] = reply[v]
  BY WorkAlone
<1>2. Stage(v)' = Stage(v)
  BY <1>1 DEF Stage
<1>3. HeldOpen(v) /\ ReplyHeld(v) /\ ReplyStands(v) /\ ReplyHeld(w)
  BY DEF LedgerInv
<1>4. /\ events' = events
      /\ \A r \in Partition(v) : repos'[r] = repos[r]
      /\ \A c \in Combos : RepoOf[c[1]] \in Partition(v) => comments'[c] = comments[c]
  BY <1>3, WritesOwn, PartitionIsDisjoint
<1>5. HeldOpen(v)'
  BY <1>1, <1>2, <1>3, <1>4, BatchHeld DEF HeldOpen, OpenCombo, OpenPR, PRsOf
<1>6. ReplyHeld(v)'
  BY <1>1, <1>2, <1>3 DEF ReplyHeld, PRsOf
<1>7. ReplyStands(v)'
  <2>1. Answered(v)' = Answered(v) /\ \A c : KindOf(v, c)' = KindOf(v, c)
    BY <1>1, <1>2 DEF Answered, Known, KindOf
  <2>2. ASSUME pc[v] \in {"pulls", "comments"}, Stage(v) \in {"combined", "comments"},
               NEW c \in Answered(v)
        PROVE  comments'[c] = comments[c]
    <3>1. c \in batch[v]
      BY <1>3, <2>2 DEF Answered, Known, ReplyHeld, ReplyStations
    <3>2. c \in Combos /\ RepoOf[c[1]] \in Partition(v)
      BY <2>2, <3>1, BatchHeld DEF Items
    <3> QED BY <1>4, <3>2
  <2>3. ASSUME pc[v] = "repos", NEW r \in DOMAIN reply[v] PROVE repos'[r] = repos[r]
    <3>1. Stage(v) \in {"repos", "refresh"}
      BY <2>3 DEF TypeOK, ListsOK
    <3>2. r \in batch[v]
      BY <1>3, <2>3, <3>1 DEF ReplyHeld, ReplyStations
    <3> QED BY <1>4, <2>3, <3>1, <3>2, BatchHeld
  <2> QED BY <1>1, <1>2, <1>3, <2>1, <2>2, <2>3 DEF ReplyStands
<1> QED BY <1>5, <1>6, <1>7

-----------------------------------------------------------------------------
(* The worker itself *)

\* A step within a stage drops items at most.
LEMMA WorkDrops ==
  ASSUME TypeOK, NEW w \in Workers, Work(w), ~NextStage(w), ~Select(w)
  PROVE  pc[w] # "idle" /\ plan' = plan /\ todo'[w] \subseteq todo[w]
<1>1. DOMAIN todo = Workers
  BY DEF TypeOK, RunsOK
<1>2. CASE Fetch(w) \/ SkipUnknown(w)
  BY <1>1, <1>2 DEF Fetch, SkipUnknown
<1>3. CASE FetchFails(w) \/ InsertFails(w) \/ InsertRepoFails(w) \/ RestThrows(w)
  BY <1>3, DropsItems DEF FetchFails, InsertFails, InsertRepoFails, RestThrows
<1>4. CASE InsertPulls(w) \/ InsertHoorays(w) \/ InsertScan(w) \/ ReposDone(w) \/ MoreDone(w)
  BY <1>4, DropsItems DEF InsertPulls, InsertHoorays, InsertScan, ReposDone, MoreDone
<1>5. CASE InsertComments(w)
  BY <1>5, DropsItems DEF InsertComments
<1>6. CASE InsertRepo(w)
  BY <1>6 DEF InsertRepo
<1>7. CASE RestComments(w) \/ RestPull(w) \/ RestRepo(w) \/ RestSkip(w)
  BY <1>7 DEF RestComments, RestPull, RestRepo, RestSkip, RestNext
<1>8. CASE RestDone(w)
  BY <1>1, <1>8 DEF RestDone
<1> QED BY <1>2, <1>3, <1>4, <1>5, <1>6, <1>7, <1>8 DEF Work

\* Every selection query but the ones of the repository stages asks for
\* announced pairs of repositories that are not recorded as gone.
LEMMA SelectOpen ==
  ASSUME TypeOK, NEW w \in Workers, Select(w) PROVE HeldOpen(w)'
<1>1. PICK W \in Windows(w) : todo' = [todo EXCEPT ![w] = W]
  BY DEF Select
<1>2. /\ Stage(w)' = Stage(w) /\ todo'[w] = W /\ events' = events /\ repos' = repos
  BY <1>1 DEF Select, Stage, TypeOK, RunsOK
<1>3. \A c \in Selectable(w) : OpenCombo(c)
  BY DEF Selectable, OpenCombo
<1>4. \A p \in PRsOf(Selectable(w)) : OpenPR(p)
  BY DEF Selectable, PRsOf, OpenPR
<1>5. \A S, n : \A X \in LimitedTo(S, n) : X \subseteq S
  BY DEF LimitedTo
<1>6. ASSUME Stage(w) \in {"combined", "comments"} PROVE W \subseteq Selectable(w)
  <2>1. W \subseteq PendingCombined(w) \/ W \subseteq PendingComments(w)
    BY <1>1, <1>5, <1>6 DEF Windows
  <2> QED BY <2>1 DEF PendingCombined, PendingComments
<1>7. ASSUME Stage(w) \in {"prs", "reactions"} PROVE W \subseteq PRsOf(Selectable(w))
  <2>1. W \subseteq PendingPulls(w) \/ W \subseteq PendingScans(w)
    BY <1>1, <1>5, <1>7 DEF Windows, ScanWindows
  <2> QED BY <2>1 DEF PendingPulls, PendingScans
<1>8. (\A c : OpenCombo(c) => OpenCombo(c)') /\ (\A p : OpenPR(p) => OpenPR(p)')
  BY <1>2 DEF OpenCombo, OpenPR, PRsOf
<1> QED BY <1>2, <1>3, <1>4, <1>6, <1>7, <1>8 DEF HeldOpen

LEMMA OwnOpen ==
  ASSUME TypeOK, OwnWork, NEW w \in Workers, ReplyHeld(w), HeldOpen(w), Work(w)
  PROVE  HeldOpen(w)'
<1>1. CASE Select(w)
  BY <1>1, SelectOpen
<1>2. CASE NextStage(w)
  <2>1. todo'[w] = {}
    BY <1>2 DEF NextStage
  <2> QED BY <2>1 DEF HeldOpen
<1>3. CASE ~Select(w) /\ ~NextStage(w)
  <2>1. pc[w] # "idle" /\ todo'[w] \subseteq todo[w] /\ Stage(w)' = Stage(w)
    BY <1>3, WorkDrops DEF Stage
  <2>2. events' = events /\ (Stage(w) \notin {"repos", "refresh"} => repos' = repos)
    BY WritesOwn
  <2>3. Stage(w) \notin {"repos", "refresh"} =>
          (\A c : OpenCombo(c) => OpenCombo(c)') /\ (\A p : OpenPR(p) => OpenPR(p)')
    BY <2>2 DEF OpenCombo, OpenPR, PRsOf
  <2> QED BY <2>1, <2>3 DEF HeldOpen
<1> QED BY <1>1, <1>2, <1>3

\* A reply speaks of what was asked.
LEMMA ReplyDomain ==
  ASSUME NEW w \in Workers, Stage(w) \in Stages, NEW b, NEW f \in Replies(w, b)
  PROVE  DOMAIN f = Asked(w, b)
<1>1. CASE Stage(w) = "combined"
  BY <1>1 DEF Replies, CombinedReplies
<1>2. CASE Stage(w) = "comments"
  BY <1>2 DEF Replies, CommentReplies
<1>3. CASE Stage(w) = "reactions"
  BY <1>3 DEF Replies, ReactionReplies
<1>4. CASE Stage(w) = "prs"
  BY <1>4 DEF Replies, PullReplies
<1>5. CASE Stage(w) \in {"repos", "refresh"}
  BY <1>5 DEF Replies, RepoReplies
<1> QED BY <1>1, <1>2, <1>3, <1>4, <1>5 DEF Stages

\* What a truthful reply shows is there.
LEMMA RepliesShown ==
  ASSUME ~Misleading, NEW w \in Workers, NEW b, NEW f \in Replies(w, b)
  PROVE  /\ Stage(w) = "combined" => \A p \in DOMAIN f : f[p] \in Visible => ~Lost(p)
         /\ Stage(w) = "comments" => \A c \in DOMAIN f : f[c] \in Visible => ~Lost(c[1])
         /\ Stage(w) \in {"repos", "refresh"} =>
              \A r \in DOMAIN f : f[r] = "ok" => access[r] = "ok"
<1> DEFINE A == Asked(w, b)
<1>1. ASSUME NEW p, NEW node \in PRAnswers(p), node \in Visible PROVE ~Lost(p)
  BY <1>1 DEF PRAnswers, TrueAnswer, Visible, Lost
<1>2. CASE Stage(w) = "combined"
  <2>1. PICK n \in PRNodes(A) : f = [p \in A |-> CombinedResult(n[p])]
    BY <1>2 DEF Replies, CombinedReplies
  <2>2. ASSUME NEW p \in A, f[p] \in Visible PROVE ~Lost(p)
    <3>1. n[p] \in PRAnswers(p) /\ f[p] = CombinedResult(n[p])
      BY <2>1 DEF PRNodes
    <3>2. n[p] \in Visible
      BY <2>2, <3>1 DEF CombinedResult, Visible
    <3> QED BY <1>1, <3>1, <3>2
  <2>3. DOMAIN f = A
    BY <2>1
  <2> QED BY <1>2, <2>2, <2>3
<1>3. CASE Stage(w) = "comments"
  <2>1. CASE f = [c \in A |-> "partial"]
    BY <1>3, <2>1 DEF Visible
  <2>2. CASE \E n \in ComboNodes(A) : f = [c \in A |-> CommentResult(n[c])]
    <3>1. PICK n \in ComboNodes(A) : f = [c \in A |-> CommentResult(n[c])]
      BY <2>2
    <3>2. ASSUME NEW c \in A, f[c] \in Visible PROVE ~Lost(c[1])
      <4>1. n[c] \in PRAnswers(c[1]) /\ f[c] = CommentResult(n[c])
        BY <3>1 DEF ComboNodes
      <4>2. n[c] \in Visible
        BY <3>2, <4>1 DEF CommentResult, Visible
      <4> QED BY <1>1, <4>1, <4>2
    <3>3. DOMAIN f = A
      BY <3>1
    <3> QED BY <1>3, <3>2, <3>3
  <2> QED BY <1>3, <2>1, <2>2 DEF Replies, CommentReplies
<1>4. CASE Stage(w) \in {"repos", "refresh"}
  <2>1. f \in RepoReplies(A)
    BY <1>4 DEF Replies
  <2>2. PICK n \in RepoNodes(A) : \/ f = [r \in A |-> RepoResult(n[r])]
                                  \/ f = [r \in A |-> ThrownRepoResult(n[r])]
    BY <2>1 DEF RepoReplies
  <2>3. ASSUME NEW r \in A, f[r] = "ok" PROVE access[r] = "ok"
    <3>1. n[r] = access[r] /\ f[r] \in {RepoResult(n[r]), ThrownRepoResult(n[r])}
      BY <2>2 DEF RepoNodes, RepoAnswers
    <3> QED BY <2>3, <3>1 DEF RepoResult, ThrownRepoResult
  <2>4. DOMAIN f = A
    BY <2>2
  <2> QED BY <1>4, <2>3, <2>4
<1> QED BY <1>2, <1>3, <1>4

\* A fetch: what GitHub shows at this moment has no row that says it is absent.
LEMMA FetchStands ==
  ASSUME ~Misleading, TypeOK, AbsenceInv, NEW w \in Workers, Fetch(w)
  PROVE  ReplyHeld(w)' /\ ReplyStands(w)'
<1>1. PICK b \in Batches(w) :
        /\ batch' = [batch EXCEPT ![w] = b]
        /\ \E f \in Replies(w, b) : reply' = [reply EXCEPT ![w] = f]
  BY DEF Fetch
<1>2. PICK f \in Replies(w, b) : reply' = [reply EXCEPT ![w] = f]
  BY <1>1
<1>3. /\ batch'[w] = b /\ reply'[w] = f /\ pc'[w] = FirstWrite(Stage(w))
      /\ Stage(w)' = Stage(w) /\ comments' = comments /\ repos' = repos
  BY <1>1, <1>2 DEF Fetch, TypeOK, RunsOK, Stage
<1>4. /\ Stage(w) \in Stages /\ todo[w] \subseteq Items(Stage(w)) /\ b \subseteq todo[w]
  BY Running, BatchType DEF Fetch
<1>5. /\ FirstWrite(Stage(w)) = "pulls" => Stage(w) \in {"combined", "prs"}
      /\ FirstWrite(Stage(w)) = "comments" => Stage(w) = "comments"
      /\ FirstWrite(Stage(w)) = "repos" => Stage(w) \in {"repos", "refresh"}
      /\ FirstWrite(Stage(w)) = "scan" => Stage(w) = "reactions"
      /\ FirstWrite(Stage(w)) \in {"pulls", "comments", "scan", "repos"}
  BY <1>4 DEF FirstWrite, Stages
<1>6. DOMAIN f = Asked(w, b)
  BY <1>4, ReplyDomain
<1>7. IF Stage(w) = "combined" THEN DOMAIN f \subseteq PRsOf(b) ELSE DOMAIN f \subseteq b
  BY <1>6 DEF Asked, Known, PRsOf
<1>8. ReplyHeld(w)'
  <2>1. PRsOf(batch[w])' = PRsOf(b)
    BY <1>3 DEF PRsOf
  <2> QED BY <1>3, <1>5, <1>7, <2>1 DEF ReplyHeld
<1>9. ASSUME Stage(w) \in {"combined", "comments"}, NEW c \in Answered(w)',
             KindOf(w, c)' \in Visible, Sentinel \in comments[c]
      PROVE  Threads[c] = {}
  <2>1. CASE Stage(w) = "combined"
    <3>1. c \in Known(b) /\ KindOf(w, c)' = f[c[1]]
      BY <1>3, <1>9, <2>1 DEF Answered, KindOf, Known
    <3>2. c[1] \in DOMAIN f /\ c \in Combos
      BY <1>4, <1>6, <2>1, <3>1 DEF Asked, PRsOf, Known, Items
    <3>3. ~Lost(c[1])
      BY <1>9, <2>1, <3>1, <3>2, RepliesShown
    <3> QED BY <1>9, <3>2, <3>3 DEF AbsenceInv, CommentsTrue
  <2>2. CASE Stage(w) = "comments"
    <3>1. c \in DOMAIN f /\ KindOf(w, c)' = f[c]
      BY <1>3, <1>9, <2>2 DEF Answered, KindOf
    <3>2. c \in Combos
      BY <1>4, <1>6, <2>2, <3>1 DEF Asked, Known, Items
    <3>3. ~Lost(c[1])
      BY <1>9, <2>2, <3>1, RepliesShown
    <3> QED BY <1>9, <3>2, <3>3 DEF AbsenceInv, CommentsTrue
  <2> QED BY <1>9, <2>1, <2>2
<1>10. ASSUME Stage(w) \in {"repos", "refresh"}, NEW r \in DOMAIN f, f[r] = "ok"
       PROVE  repos[r] \notin Blocked
  <2>1. r \in Repos
    BY <1>4, <1>6, <1>10 DEF Asked, Items
  <2>2. access[r] = "ok"
    BY <1>10, RepliesShown
  <2> QED BY <2>1, <2>2 DEF AbsenceInv, ReposTrue
<1>11. ReplyStands(w)'
  BY <1>3, <1>5, <1>9, <1>10 DEF ReplyStands
<1> QED BY <1>8, <1>11

\* A worker at a station where a reply no longer matters.
LEMMA NoReplyHeld ==
  ASSUME NEW w \in Workers, pc'[w] \notin ReplyStations, pc'[w] # "more"
  PROVE  ReplyHeld(w)'
BY DEF ReplyHeld, ReplyStations

LEMMA NoReplyStands ==
  ASSUME NEW w \in Workers, pc'[w] \notin {"pulls", "comments", "repos"}
  PROVE  ReplyStands(w)'
BY DEF ReplyStands

\* On to the next insert of the same reply.
LEMMA ContinueHeld ==
  ASSUME TypeOK, NEW w \in Workers, ReplyHeld(w), pc[w] \in ReplyStations,
         NEW next, Continue(w, next),
         \/ next = "comments"
         \/ next \in {"hoorays", "scan"} /\ Stage(w) \in {"combined", "reactions"}
  PROVE  ReplyHeld(w)'
<1>1. /\ pc'[w] = next /\ batch' = batch /\ reply' = reply /\ Stage(w)' = Stage(w)
  BY DEF Continue, TypeOK, RunsOK, Stage
<1>2. PRsOf(batch[w])' = PRsOf(batch[w])
  BY <1>1 DEF PRsOf
<1> QED BY <1>1, <1>2 DEF ReplyHeld

LEMMA OwnHeld ==
  ASSUME TypeOK, NEW w \in Workers, ReplyHeld(w), Work(w), ~Fetch(w)
  PROVE  ReplyHeld(w)'
<1>1. pc \in [Workers -> Stations] /\ DOMAIN reply = Workers
  BY DEF TypeOK, RunsOK
<1>2. ASSUME NEW b, Raised(w, b) PROVE ReplyHeld(w)'
  <2>1. pc'[w] \in {"batch", "rest"}
    BY <1>1, <1>2 DEF Raised, ShrinkAndRetry, GiveUp
  <2> QED BY <2>1, NoReplyHeld DEF ReplyStations
<1>3. ASSUME Handled(w) PROVE ReplyHeld(w)'
  <2>1. pc'[w] = "batch"
    BY <1>1, <1>3 DEF Handled
  <2> QED BY <2>1, NoReplyHeld DEF ReplyStations
<1>4. CASE NextStage(w) \/ Select(w) \/ SkipUnknown(w) \/ RestDone(w)
  <2>1. pc'[w] \in {"idle", "select", "batch"}
    BY <1>1, <1>4 DEF NextStage, Select, SkipUnknown, RestDone
  <2> QED BY <2>1, NoReplyHeld DEF ReplyStations
<1>5. CASE FetchFails(w) \/ InsertFails(w) \/ InsertRepoFails(w) \/ RestThrows(w)
  BY <1>2, <1>5 DEF FetchFails, InsertFails, InsertRepoFails, RestThrows
<1>6. CASE ReposDone(w) \/ MoreDone(w)
  BY <1>3, <1>6 DEF ReposDone, MoreDone
<1>7. CASE InsertPulls(w) \/ InsertHoorays(w) \/ InsertScan(w)
  BY <1>3, <1>7, ContinueHeld DEF InsertPulls, InsertHoorays, InsertScan, ReplyStations
<1>8. CASE InsertComments(w)
  <2>1. CASE Stage(w) = "combined"
    BY <1>8, <2>1, ContinueHeld DEF InsertComments, ReplyStations
  <2>2. CASE Stage(w) # "combined"
    <3>1. Stage(w) = "comments"
      BY <1>8, <2>2 DEF InsertComments, TypeOK, ListsOK
    <3>2. CASE pc'[w] = "more" /\ plan' = plan
      BY <3>1, <3>2 DEF ReplyHeld, ReplyStations, Stage
    <3> QED BY <1>1, <1>3, <1>8, <2>2, <3>2 DEF InsertComments
  <2> QED BY <2>1, <2>2
<1>9. CASE InsertRepo(w)
  <2>1. PICK r \in DOMAIN reply[w] :
          reply' = [reply EXCEPT ![w] = [q \in DOMAIN reply[w] \ {r} |-> reply[w][q]]]
    BY <1>9 DEF InsertRepo
  <2>2. DOMAIN reply'[w] \subseteq DOMAIN reply[w]
    BY <1>1, <2>1
  <2>3. /\ pc[w] = "repos" /\ pc' = pc /\ batch' = batch /\ Stage(w)' = Stage(w)
        /\ Stage(w) \in {"repos", "refresh"}
    BY <1>9 DEF InsertRepo, Stage, TypeOK, ListsOK
  <2> QED BY <2>2, <2>3 DEF ReplyHeld, ReplyStations
<1>10. CASE RestComments(w) \/ RestPull(w) \/ RestRepo(w) \/ RestSkip(w)
  <2>1. pc[w] \in {"rest", "more"} /\ pc' = pc /\ plan' = plan
    BY <1>10 DEF RestComments, RestPull, RestRepo, RestSkip, RestNext
  <2> QED BY <2>1 DEF ReplyHeld, ReplyStations, Stage
<1> QED BY <1>4, <1>5, <1>6, <1>7, <1>8, <1>9, <1>10 DEF Work

LEMMA OwnStands ==
  ASSUME TypeOK, NEW w \in Workers, ReplyStands(w), Work(w), ~Fetch(w)
  PROVE  ReplyStands(w)'
<1>1. CASE InsertPulls(w)
  <2>1. CASE Stage(w) # "combined"
    <3>1. pc'[w] = "batch"
      BY <1>1, <2>1 DEF InsertPulls, Handled, TypeOK, RunsOK
    <3> QED BY <3>1, NoReplyStands
  <2>2. CASE Stage(w) = "combined"
    <3>1. /\ pc[w] = "pulls" /\ pc'[w] = "comments" /\ Stage(w)' = Stage(w)
          /\ UNCHANGED <<batch, reply, comments>>
      BY <1>1, <2>2 DEF InsertPulls, Continue, PutPulls, TypeOK, RunsOK, Stage
    <3> QED BY <2>2, <3>1 DEF ReplyStands, Answered, KindOf, Known
  <2> QED BY <2>1, <2>2
<1>2. CASE InsertRepo(w)
  <2>1. PICK r \in DOMAIN reply[w] :
          /\ PutRepo(r, reply[w][r])
          /\ reply' = [reply EXCEPT ![w] = [q \in DOMAIN reply[w] \ {r} |-> reply[w][q]]]
    BY <1>2 DEF InsertRepo
  <2>2. reply'[w] = [q \in DOMAIN reply[w] \ {r} |-> reply[w][q]]
    BY <2>1 DEF TypeOK, RunsOK
  <2>3. \A q : q # r => repos'[q] = repos[q]
    BY <2>1 DEF PutRepo
  <2>4. pc[w] = "repos" /\ pc' = pc
    BY <1>2 DEF InsertRepo
  <2> QED BY <2>2, <2>3, <2>4 DEF ReplyStands
<1>3. CASE ~InsertPulls(w) /\ ~InsertRepo(w)
  BY <1>3, WorkQuiet, NoReplyStands
<1> QED BY <1>1, <1>2, <1>3

-----------------------------------------------------------------------------
(* LedgerInv is inductive *)

\* A step that leaves a worker and the rows it looked at alone; more events do
\* not matter.
LEMMA SameHeld ==
  ASSUME NEW v \in Workers, HeldOpen(v), ReplyHeld(v), ReplyStands(v),
         pc'[v] = pc[v], plan'[v] = plan[v], todo'[v] = todo[v],
         batch'[v] = batch[v], reply'[v] = reply[v],
         events \subseteq events', UNCHANGED <<repos, comments>>
  PROVE  HeldOpen(v)' /\ ReplyHeld(v)' /\ ReplyStands(v)'
<1>1. Stage(v)' = Stage(v)
  BY DEF Stage
<1>2. (\A c : OpenCombo(c) => OpenCombo(c)') /\ (\A p : OpenPR(p) => OpenPR(p)')
  BY DEF OpenCombo, OpenPR, PRsOf
<1>3. PRsOf(batch[v])' = PRsOf(batch[v])
  BY DEF PRsOf
<1>4. HeldOpen(v)'
  BY <1>1, <1>2 DEF HeldOpen
<1>5. ReplyHeld(v)'
  BY <1>1, <1>3 DEF ReplyHeld
<1>6. Answered(v)' = Answered(v) /\ \A c : KindOf(v, c)' = KindOf(v, c)
  BY <1>1 DEF Answered, Known, KindOf
<1>7. ReplyStands(v)'
  BY <1>1, <1>6 DEF ReplyStands
<1> QED BY <1>4, <1>5, <1>7

LEMMA StepLedgerInv ==
  ASSUME ~Misleading, TypeOK, OwnWork, AbsenceInv, LedgerInv, [Next]_vars
  PROVE  LedgerInv'
<1>1. ASSUME NEW w \in Workers, Work(w) PROVE LedgerInv'
  <2>1. HeldOpen(w) /\ ReplyHeld(w) /\ ReplyStands(w)
    BY DEF LedgerInv
  <2>2. HeldOpen(w)' /\ ReplyHeld(w)' /\ ReplyStands(w)'
    BY <1>1, <2>1, OwnOpen, FetchStands, OwnHeld, OwnStands
  <2> QED BY <1>1, <2>2, OthersStand DEF LedgerInv
<1>2. ASSUME NEW w \in Workers, Start(w) \/ Stop(w) PROVE LedgerInv'
  <2>1. /\ UNCHANGED <<events, repos, comments>>
        /\ pc'[w] \in {"idle", "select"} /\ todo'[w] = {}
        /\ \A v \in Workers : v # w =>
             /\ pc'[v] = pc[v] /\ plan'[v] = plan[v] /\ todo'[v] = todo[v]
             /\ batch'[v] = batch[v] /\ reply'[v] = reply[v]
    BY <1>2 DEF Start, Stop, TypeOK, RunsOK, ListsOK
  <2>2. HeldOpen(w)' /\ ReplyHeld(w)' /\ ReplyStands(w)'
    BY <2>1, NoReplyHeld, NoReplyStands DEF HeldOpen, ReplyStations
  <2>3. ASSUME NEW v \in Workers, v # w
        PROVE  HeldOpen(v)' /\ ReplyHeld(v)' /\ ReplyStands(v)'
    BY <2>1, <2>3, SameHeld DEF LedgerInv
  <2> QED BY <2>2, <2>3 DEF LedgerInv
<1>3. CASE \/ \E c \in Combos : Discover(c)
           \/ \E r \in Repos : Vanish(r)
           \/ Recover
           \/ UNCHANGED vars
  <2>1. /\ UNCHANGED <<repos, comments, plan, pc, todo, batch, reply>>
        /\ events \subseteq events'
    BY <1>3 DEF Discover, Vanish, Recover, vars
  <2> QED BY <2>1, SameHeld DEF LedgerInv
<1> QED BY <1>1, <1>2, <1>3 DEF Next

-----------------------------------------------------------------------------
(* Every step is a step of the ledger, or none *)

LEMMA LedgerStutter ==
  ASSUME WritesNothing PROVE UNCHANGED Ledger!lvars
BY DEF WritesNothing, Ledger!lvars, AnswerOf

\* The PRs a reply speaks of may be written about.
LEMMA ReplyOpen ==
  ASSUME TypeOK, NEW w \in Workers, HeldOpen(w), ReplyHeld(w), pc[w] \in {"pulls", "scan"}
  PROVE  \A p \in DOMAIN reply[w] : p \in PRs /\ OpenPR(p)
<1>1. /\ Stage(w) \in {"combined", "prs", "reactions"} /\ batch[w] \subseteq todo[w]
      /\ todo[w] \subseteq Items(Stage(w))
  BY DEF ReplyHeld, TypeOK, ListsOK
<1>2. CASE Stage(w) = "combined"
  <2>1. ASSUME NEW p \in DOMAIN reply[w] PROVE p \in PRs /\ OpenPR(p)
    <3>1. PICK c \in batch[w] : p = c[1]
      BY <1>2 DEF ReplyHeld, ReplyStations, PRsOf
    <3>2. OpenCombo(c) /\ c \in Combos
      BY <1>1, <1>2 DEF HeldOpen, Items
    <3> QED BY <3>1, <3>2, WorldAssumption DEF OpenCombo, OpenPR, PRsOf
  <2> QED BY <2>1
<1>3. CASE Stage(w) # "combined"
  BY <1>1, <1>3 DEF ReplyHeld, ReplyStations, HeldOpen, Items
<1> QED BY <1>2, <1>3

LEMMA PullStep ==
  ASSUME NEW S, \A p \in S : p \in PRs /\ OpenPR(p),
         \A p \in PRs : pulls'[p] # Absent <=> p \in S \/ pulls[p] # Absent,
         UNCHANGED <<events, repos, comments, scan>>
  PROVE  Ledger!Pull
<1>1. S \subseteq {p \in Ledger!KnownPRs : Ledger!Open(p)}
  <2>1. \A p \in PRs : RepoOf[p] \in Repos
    BY WorldAssumption
  <2> QED BY <2>1 DEF Ledger!KnownPRs, Ledger!Open, OpenPR, PRsOf
<1>2. {p \in PRs : pulls'[p] # Absent} = {p \in PRs : pulls[p] # Absent} \cup S
  OBVIOUS
<1> QED BY <1>1, <1>2 DEF Ledger!Pull, AnswerOf

LEMMA ScanStep ==
  ASSUME NEW S, \A p \in S : p \in PRs /\ OpenPR(p),
         \A p \in PRs : scan'[p] # Absent <=> p \in S \/ scan[p] # Absent,
         UNCHANGED <<events, repos, comments, pulls>>
  PROVE  Ledger!Scan
<1>1. S \subseteq {p \in Ledger!KnownPRs : Ledger!Open(p)}
  <2>1. \A p \in PRs : RepoOf[p] \in Repos
    BY WorldAssumption
  <2> QED BY <2>1 DEF Ledger!KnownPRs, Ledger!Open, OpenPR, PRsOf
<1>2. {p \in PRs : scan'[p] # Absent} = {p \in PRs : scan[p] # Absent} \cup S
  OBVIOUS
<1> QED BY <1>1, <1>2 DEF Ledger!Scan, AnswerOf

\* A row of a repository adds it to the ones that are gone, or changes nothing.
LEMMA RepoStep ==
  ASSUME TypeOK, NEW r \in Repos, NEW s \in {"ok"} \cup Blocked, PutRepo(r, s),
         s = "ok" => repos[r] \notin Blocked, events' = events
  PROVE  Ledger!Block \/ UNCHANGED Ledger!lvars
<1>1. /\ \A q \in Repos : repos'[q] = IF q = r THEN s ELSE repos[q]
      /\ UNCHANGED <<pulls, comments, scan>>
  BY DEF PutRepo, TypeOK, TablesOK
<1>2. "ok" \notin Blocked
  BY DEF Blocked
<1>3. CASE s = "ok"
  <2>1. {q \in Repos : repos'[q] \in Blocked} = {q \in Repos : repos[q] \in Blocked}
    BY <1>1, <1>2, <1>3
  <2> QED BY <1>1, <2>1 DEF Ledger!lvars, AnswerOf
<1>4. CASE s \in Blocked
  <2>1. {q \in Repos : repos'[q] \in Blocked}
          = {q \in Repos : repos[q] \in Blocked} \cup {r}
    BY <1>1, <1>4
  <2> QED BY <1>1, <2>1 DEF Ledger!Block, AnswerOf
<1> QED BY <1>3, <1>4

\* More rows of a combo: the answer stays, or the pending one comes whole.
LEMMA AnswerFinal ==
  ASSUME NEW c \in Combos, comments[c] \ {Sentinel} \in {{}, Threads[c]},
         NEW T \in {{}, {Sentinel}, Threads[c]}, comments'[c] = comments[c] \cup T,
         T = Threads[c] /\ Sentinel \in comments[c] => Threads[c] = {}
  PROVE  \/ AnswerOf(c)' = AnswerOf(c)
         \/ AnswerOf(c) = "pending" /\ AnswerOf(c)' \in {"empty", "full"}
<1>1. Sentinel \notin Threads[c]
  BY ThreadsAssumption
<1>2. CASE comments[c] = {}
  BY <1>2 DEF AnswerOf
<1>3. CASE comments[c] # {} /\ comments[c] \ {Sentinel} = {}
  <2>1. comments[c] = {Sentinel}
    BY <1>3
  <2>2. T = {} \/ T = {Sentinel}
    BY <2>1
  <2>3. comments'[c] = {Sentinel}
    BY <2>1, <2>2
  <2> QED BY <2>1, <2>3 DEF AnswerOf
<1>4. CASE comments[c] \ {Sentinel} # {}
  <2>1. comments'[c] # {} /\ comments'[c] \ {Sentinel} # {} /\ comments[c] # {}
    BY <1>4
  <2> QED BY <1>4, <2>1 DEF AnswerOf
<1> QED BY <1>2, <1>3, <1>4

LEMMA AnswerStep ==
  ASSUME UNCHANGED <<events, repos, pulls, scan>>, events \subseteq Combos,
         \A c \in Combos :
           \/ AnswerOf(c)' = AnswerOf(c)
           \/ AnswerOf(c) = "pending" /\ AnswerOf(c)' \in {"empty", "full"} /\ OpenCombo(c)
  PROVE  Ledger!Answer
<1> DEFINE S == {c \in Combos : AnswerOf(c)' # AnswerOf(c)}
           new == [c \in S |-> AnswerOf(c)']
           L == [c \in Combos |-> AnswerOf(c)]
<1>1. S \subseteq {c \in events : Ledger!Open(c[1]) /\ L[c] = "pending"}
  BY DEF Ledger!Open, OpenCombo
<1>2. new \in [S -> {"empty", "full"}]
  OBVIOUS
<1>3. [c \in Combos |-> AnswerOf(c)'] = [c \in Combos |-> IF c \in S THEN new[c] ELSE L[c]]
  OBVIOUS
<1>4. UNCHANGED <<events, {r \in Repos : repos[r] \in Blocked},
                  {p \in PRs : pulls[p] # Absent}, {p \in PRs : scan[p] # Absent}>>
  OBVIOUS
<1> HIDE DEF S, new
<1> QED BY <1>1, <1>2, <1>3, <1>4 DEF Ledger!Answer

\* A bulk insert of comments.
LEMMA CommentsStep ==
  ASSUME TypeOK, NoPartialComments, NEW w \in Workers, HeldOpen(w), ReplyHeld(w),
         ReplyStands(w), WritesComments(w)
  PROVE  Ledger!Answer
<1>1. /\ pc[w] = "comments" /\ Stage(w) \in {"combined", "comments"} /\ PutComments(w)
      /\ events' = events /\ events \subseteq Combos /\ batch[w] \subseteq todo[w]
  BY DEF WritesComments, TypeOK, TablesOK, ListsOK
<1>2. ASSUME NEW c \in Combos, c \in Answered(w)
      PROVE  /\ OpenCombo(c)
             /\ \/ AnswerOf(c)' = AnswerOf(c)
                \/ AnswerOf(c) = "pending" /\ AnswerOf(c)' \in {"empty", "full"}
  <2> DEFINE T == CommentRows(w, c)
  <2>1. T \in {{}, {Sentinel}, Threads[c]}
    BY CommentRowsType
  <2>2. comments'[c] = comments[c] \cup T
    BY <1>1, <1>2 DEF PutComments
  <2>3. comments[c] \ {Sentinel} \in {{}, Threads[c]}
    BY DEF NoPartialComments
  <2>4. ASSUME T = Threads[c], Sentinel \in comments[c] PROVE Threads[c] = {}
    <3>1. CASE KindOf(w, c) \in Visible
      BY <1>1, <1>2, <2>4, <3>1 DEF ReplyStands
    <3>2. CASE KindOf(w, c) \in Missing
      <4>1. T = {Sentinel}
        BY <3>2 DEF CommentRows, Missing, Visible
      <4> QED BY <2>4, <4>1, ThreadsAssumption
    <3>3. CASE KindOf(w, c) \notin Visible /\ KindOf(w, c) \notin Missing
      BY <2>4, <3>3 DEF CommentRows
    <3> QED BY <3>1, <3>2, <3>3
  <2>5. OpenCombo(c)
    <3>1. c \in batch[w]
      BY <1>1, <1>2 DEF Answered, Known, ReplyHeld, ReplyStations
    <3> QED BY <1>1, <3>1 DEF HeldOpen
  <2> HIDE DEF T
  <2> QED BY <2>1, <2>2, <2>3, <2>4, <2>5, AnswerFinal
<1>3. ASSUME NEW c \in Combos, c \notin Answered(w) PROVE AnswerOf(c)' = AnswerOf(c)
  BY <1>1, <1>3 DEF PutComments, AnswerOf
<1>4. UNCHANGED <<events, repos, pulls, scan>>
  BY <1>1 DEF PutComments
<1> QED BY <1>1, <1>2, <1>3, <1>4, AnswerStep

\* The REST fallback of the comments stage.
LEMMA RestCommentsStep ==
  ASSUME ~Misleading, TypeOK, NoPartialComments, AbsenceInv,
         NEW w \in Workers, HeldOpen(w), RestWritesComments(w)
  PROVE  Ledger!Answer
<1>1. /\ pc[w] # "idle" /\ Stage(w) = "comments" /\ rest[w] \subseteq todo[w]
      /\ todo[w] \subseteq Combos /\ UNCHANGED <<events, repos, pulls, scan>>
      /\ events \subseteq Combos
  BY DEF RestWritesComments, TypeOK, TablesOK, ListsOK, Items
<1>2. PICK c \in rest[w] : \E S \in RestRows(c) : comments' = [comments EXCEPT ![c] = @ \cup S]
  BY DEF RestWritesComments
<1>3. PICK T \in RestRows(c) : comments' = [comments EXCEPT ![c] = @ \cup T]
  BY <1>2
<1>4. c \in Combos /\ OpenCombo(c)
  BY <1>1 DEF HeldOpen
<1>5. T \in {{Sentinel}, Threads[c]}
  BY <1>4, RestRowsType
<1>6. comments'[c] = comments[c] \cup T /\ \A d \in Combos : d # c => comments'[d] = comments[d]
  BY <1>3, <1>4 DEF TypeOK, TablesOK
<1>7. ASSUME T = Threads[c], Sentinel \in comments[c] PROVE Threads[c] = {}
  <2>1. Threads[c] = {} \/ Lost(c[1])
    BY <1>4, <1>7 DEF AbsenceInv, CommentsTrue
  <2>2. ASSUME Lost(c[1]) PROVE "found" \notin RestAnswers(c[1])
    <3>1. access[RepoOf[c[1]]] \in {"ok"} \cup Blocked
      BY <1>4, WorldAssumption DEF TypeOK, TablesOK
    <3> QED BY <2>2, <3>1 DEF RestAnswers, Lost, Blocked
  <2>3. ASSUME Lost(c[1]) PROVE T = {Sentinel}
    BY <2>2, <2>3 DEF RestRows
  <2> QED BY <1>4, <1>7, <2>1, <2>3, ThreadsAssumption
<1>8. comments[c] \ {Sentinel} \in {{}, Threads[c]}
  BY <1>4 DEF NoPartialComments
<1>9. \/ AnswerOf(c)' = AnswerOf(c)
      \/ AnswerOf(c) = "pending" /\ AnswerOf(c)' \in {"empty", "full"}
  BY <1>4, <1>5, <1>6, <1>7, <1>8, AnswerFinal
<1>10. \A d \in Combos : d # c => AnswerOf(d)' = AnswerOf(d)
  BY <1>6 DEF AnswerOf
<1> QED BY <1>1, <1>4, <1>9, <1>10, AnswerStep

\* A worker's step is a step of the ledger, or none.
LEMMA WorkStep ==
  ASSUME ~Misleading, TypeOK, NoPartialComments, OwnWork, AbsenceInv, LedgerInv,
         NEW w \in Workers, Work(w)
  PROVE  Ledger!Next \/ UNCHANGED Ledger!lvars
<1>1. /\ HeldOpen(w) /\ ReplyHeld(w) /\ ReplyStands(w)
      /\ pc[w] = "repos" => Stage(w) \in {"repos", "refresh"}
  BY DEF LedgerInv, TypeOK, ListsOK
<1>2. CASE WritesPulls(w)
  <2>1. \A p \in PRs : pulls'[p] # Absent <=> p \in DOMAIN reply[w] \/ pulls[p] # Absent
    BY <1>2 DEF WritesPulls, PutPulls, PullRow, Absent
  <2>2. Ledger!Pull
    BY <1>1, <1>2, <2>1, ReplyOpen, PullStep DEF WritesPulls, PutPulls
  <2> QED BY <2>2 DEF Ledger!Next
<1>3. CASE WritesScan(w)
  <2> DEFINE S == {p \in DOMAIN reply[w] : ScanRow(w, p) # Absent}
  <2>1. \A p \in PRs : scan'[p] # Absent <=> p \in S \/ scan[p] # Absent
    BY <1>3 DEF WritesScan, PutScan
  <2>2. Ledger!Scan
    BY <1>1, <1>3, <2>1, ReplyOpen, ScanStep DEF WritesScan, PutScan
  <2> QED BY <2>2 DEF Ledger!Next
<1>4. CASE WritesComments(w)
  BY <1>1, <1>4, CommentsStep DEF Ledger!Next
<1>5. CASE RestWritesComments(w)
  BY <1>1, <1>5, RestCommentsStep DEF Ledger!Next
<1>6. CASE RestWritesPull(w)
  <2>1. PICK p \in rest[w] : \E s \in RestAnswers(p) : pulls' = [pulls EXCEPT ![p] = s]
    BY <1>6 DEF RestWritesPull
  <2>2. PICK s \in RestAnswers(p) : pulls' = [pulls EXCEPT ![p] = s]
    BY <2>1
  <2>3. p \in PRs /\ OpenPR(p)
    BY <1>1, <1>6 DEF RestWritesPull, HeldOpen, TypeOK, ListsOK, Items
  <2>4. s # Absent
    <3>1. access[RepoOf[p]] \in {"ok"} \cup Blocked
      BY <2>3, WorldAssumption DEF TypeOK, TablesOK
    <3> QED BY <3>1 DEF RestAnswers, Absent, Blocked
  <2>5. \A q \in PRs : pulls'[q] # Absent <=> q \in {p} \/ pulls[q] # Absent
    BY <2>2, <2>4 DEF TypeOK, TablesOK
  <2>6. UNCHANGED <<events, repos, comments, scan>>
    BY <1>6 DEF RestWritesPull
  <2>7. \A q \in {p} : q \in PRs /\ OpenPR(q)
    BY <2>3
  <2>8. Ledger!Pull
    BY <2>5, <2>6, <2>7, PullStep
  <2> QED BY <2>8 DEF Ledger!Next
<1>7. CASE WritesRepo(w)
  <2>1. PICK r \in DOMAIN reply[w] : PutRepo(r, reply[w][r])
    BY <1>7 DEF WritesRepo
  <2>2. /\ reply[w][r] \in {"ok"} \cup Blocked
        /\ reply[w][r] = "ok" => repos[r] \notin Blocked
    BY <1>1, <1>7 DEF WritesRepo, TypeOK, ListsOK, ReplyStands
  <2>3. r \in Repos
    BY <1>1, <1>7 DEF WritesRepo, ReplyHeld, ReplyStations, TypeOK, ListsOK, Items
  <2>4. events' = events
    BY <1>7 DEF WritesRepo
  <2> QED BY <2>1, <2>2, <2>3, <2>4, RepoStep DEF Ledger!Next
<1>8. CASE RestWritesRepo(w)
  <2>1. PICK r \in rest[w] : \E s \in RestRepoAnswers(r) : PutRepo(r, s)
    BY <1>8 DEF RestWritesRepo
  <2>2. PICK s \in RestRepoAnswers(r) : PutRepo(r, s)
    BY <2>1
  <2>3. r \in Repos /\ s = access[r]
    BY <1>8 DEF RestWritesRepo, TypeOK, ListsOK, Items, RestRepoAnswers
  <2>4. s \in {"ok"} \cup Blocked /\ (s = "ok" => repos[r] \notin Blocked)
    BY <2>3 DEF TypeOK, TablesOK, AbsenceInv, ReposTrue
  <2>5. events' = events
    BY <1>8 DEF RestWritesRepo
  <2> QED BY <2>2, <2>3, <2>4, <2>5, RepoStep DEF Ledger!Next
<1>9. CASE WritesNothing
  BY <1>9, LedgerStutter
<1> QED BY <1>1, <1>2, <1>3, <1>4, <1>5, <1>6, <1>7, <1>8, <1>9, WorkWrites

LEMMA StepKeepsLedger ==
  ASSUME ~Misleading, TypeOK, NoPartialComments, OwnWork, AbsenceInv, LedgerInv,
         [Next]_vars
  PROVE  [Ledger!Next]_(Ledger!lvars)
<1>1. CASE \E c \in Combos : Discover(c)
  <2>1. PICK c \in Combos : events' = events \cup {c}
    BY <1>1 DEF Discover
  <2>2. UNCHANGED <<repos, pulls, comments, scan>>
    BY <1>1 DEF Discover
  <2>3. Ledger!Announce
    BY <2>1, <2>2 DEF Ledger!Announce, AnswerOf
  <2> QED BY <2>3 DEF Ledger!Next
<1>2. CASE \/ \E r \in Repos : Vanish(r)
           \/ \E w \in Workers : Start(w) \/ Stop(w)
           \/ Recover
           \/ UNCHANGED vars
  <2>1. WritesNothing
    BY <1>2 DEF Vanish, Start, Stop, Recover, vars, WritesNothing
  <2> QED BY <2>1, LedgerStutter
<1> QED BY <1>1, <1>2, WorkStep DEF Next

\* The enrichment workers implement the ledger: while GitHub's answers are true,
\* whichever of any number of workers writes, whatever fails, is retried, falls
\* back to REST or is killed, answers arrive whole and are final, and nothing is
\* written about a repository that is recorded as gone.
THEOREM LedgerImplemented == ASSUME ~Misleading PROVE Spec => KeepsLedger
<1>1. Init => Ledger!Init
  BY DEF Init, Ledger!Init, AnswerOf, Absent, Blocked
<1>2. Init => OwnWork /\ LedgerInv /\ AbsenceInv
  BY DEF Init, OwnWork, HeldRepos, LedgerInv, HeldOpen, ReplyHeld, ReplyStations,
     ReplyStands, AbsenceInv, AccessFated, ReposTrue, PullsTrue, CommentsTrue,
     ReplyTrue, PRReplyTrue, CombinedAsked, PullStation, ComboReplyTrue,
     RepoReplyTrue, Absent, Blocked
<1>3. /\ TypeOK /\ OwnWork /\ AbsenceInv /\ LedgerInv /\ [Next]_vars
      => (OwnWork /\ AbsenceInv /\ LedgerInv)'
  BY StepOwn, StepTrue, StepLedgerInv
<1>4. TypeOK /\ NoPartialComments /\ OwnWork /\ AbsenceInv /\ LedgerInv /\ [Next]_vars
      => [Ledger!Next]_(Ledger!lvars)
  BY StepKeepsLedger
<1> QED BY <1>1, <1>2, <1>3, <1>4, TypeCorrect, CommentsWhole, PTL
        DEF Spec, KeepsLedger, Ledger!Spec

-----------------------------------------------------------------------------
(* The reactions of a PR are stored before its scan is recorded *)

\* What the combined stage was told, and what it has stored once it comes to the scans.
CombinedStations == {"pulls", "comments", "hoorays", "scan"}
CombinedTold(w) ==
  (pc[w] \in CombinedStations /\ Stage(w) = "combined") =>
    \A p \in DOMAIN reply[w] : reply[w][p] \in {"found", "no_reactions", "not_found"}
HooraysStored(w) ==
  (pc[w] = "scan" /\ Stage(w) = "combined") =>
    \A p \in DOMAIN reply[w] : reply[w][p] = "found" => FirstTwenty[p] \subseteq hoorays[p]
ScanInv == \A w \in Workers : CombinedTold(w) /\ HooraysStored(w)

LEMMA WorkPuts ==
  ASSUME NEW w \in Workers, Work(w)
  PROVE  /\ UNCHANGED hoorays \/ PutHoorays(w)
         /\ UNCHANGED scan \/ (pc[w] = "scan" /\ PutScan(w))
<1>1. CASE NextStage(w) \/ Select(w) \/ Fetch(w) \/ FetchFails(w) \/ SkipUnknown(w)
  BY <1>1 DEF NextStage, Select, Fetch, FetchFails, SkipUnknown
<1>2. CASE InsertPulls(w) \/ InsertComments(w) \/ InsertHoorays(w) \/ InsertScan(w)
  BY <1>2 DEF InsertPulls, InsertComments, InsertHoorays, InsertScan, PutPulls, PutComments, PutScan,
     PutHoorays
<1>3. CASE InsertFails(w)
  BY <1>3 DEF InsertFails, Put, PutPulls, PutComments, PutScan, PutHoorays, PutNothing
<1>4. CASE InsertRepo(w) \/ InsertRepoFails(w) \/ ReposDone(w)
  BY <1>4 DEF InsertRepo, InsertRepoFails, ReposDone, PutRepo, PutNothing
<1>5. CASE RestComments(w) \/ RestPull(w) \/ RestRepo(w) \/ RestSkip(w)
  BY <1>5 DEF RestComments, RestPull, RestRepo, RestSkip, PutRepo, PutNothing
<1>6. CASE RestThrows(w) \/ MoreDone(w) \/ RestDone(w)
  BY <1>6 DEF RestThrows, MoreDone, RestDone, PutNothing
<1> QED BY <1>1, <1>2, <1>3, <1>4, <1>5, <1>6 DEF Work

LEMMA HooraysGrow ==
  ASSUME TypeOK, NEW w \in Workers, UNCHANGED hoorays \/ PutHoorays(w), NEW p \in PRs
  PROVE  hoorays[p] \subseteq hoorays'[p]
BY DEF PutHoorays

\* Who keeps its place and its reply, and whom a step leaves elsewhere.
LEMMA SameTold ==
  ASSUME TypeOK, NEW v \in Workers, CombinedTold(v), HooraysStored(v),
         pc'[v] = pc[v], plan'[v] = plan[v], reply'[v] = reply[v],
         \A p \in PRs : hoorays[p] \subseteq hoorays'[p]
  PROVE  CombinedTold(v)' /\ HooraysStored(v)'
<1>1. Stage(v)' = Stage(v)
  BY DEF Stage
<1>2. pc[v] = "scan" /\ Stage(v) = "combined" => DOMAIN reply[v] \subseteq PRs
  BY DEF TypeOK, ListsOK, Keys
<1> QED BY <1>1, <1>2 DEF CombinedTold, HooraysStored

LEMMA ElsewhereTold ==
  ASSUME NEW v \in Workers, pc'[v] \notin CombinedStations
  PROVE  CombinedTold(v)' /\ HooraysStored(v)'
BY DEF CombinedTold, HooraysStored, CombinedStations

LEMMA FetchTold ==
  ASSUME TypeOK, NEW w \in Workers, Fetch(w) PROVE CombinedTold(w)' /\ HooraysStored(w)'
<1>1. PICK b \in Batches(w) : \E f \in Replies(w, b) : reply' = [reply EXCEPT ![w] = f]
  BY DEF Fetch
<1>2. PICK f \in Replies(w, b) : reply' = [reply EXCEPT ![w] = f]
  BY <1>1
<1>3. reply'[w] = f /\ pc'[w] = FirstWrite(Stage(w)) /\ Stage(w)' = Stage(w)
  BY <1>2 DEF Fetch, TypeOK, RunsOK, Stage
<1>4. CASE Stage(w) = "combined"
  <2>1. f \in CombinedReplies(Asked(w, b))
    BY <1>4 DEF Replies
  <2>2. PICK n \in PRNodes(Asked(w, b)) : f = [p \in Asked(w, b) |-> CombinedResult(n[p])]
    BY <2>1 DEF CombinedReplies
  <2>3. \A p \in DOMAIN f : f[p] \in {"found", "no_reactions", "not_found"}
    BY <2>2 DEF CombinedResult, Visible
  <2>4. FirstWrite(Stage(w)) = "pulls"
    BY <1>4 DEF FirstWrite
  <2> QED BY <1>3, <2>3, <2>4 DEF CombinedTold, HooraysStored
<1>5. CASE Stage(w) # "combined"
  BY <1>3, <1>5 DEF CombinedTold, HooraysStored
<1> QED BY <1>4, <1>5

\* The reactions that were inserted are those of the reply.
LEMMA InsertHooraysTold ==
  ASSUME TypeOK, NEW w \in Workers, CombinedTold(w), InsertHoorays(w)
  PROVE  CombinedTold(w)' /\ HooraysStored(w)'
<1>1. pc \in [Workers -> Stations] /\ pc[w] = "hoorays"
  BY DEF TypeOK, RunsOK, InsertHoorays
<1>2. CASE Stage(w) = "combined"
  <2>1. plan' = plan /\ reply' = reply /\ Stage(w)' = Stage(w)
    BY <1>2 DEF InsertHoorays, Continue, Stage
  <2>2. DOMAIN reply[w] \subseteq PRs
    BY <1>1, <1>2 DEF TypeOK, ListsOK, Keys
  <2>3. ASSUME NEW p \in DOMAIN reply[w], reply[w][p] = "found" PROVE FirstTwenty[p] \subseteq hoorays'[p]
    BY <1>2, <2>2, <2>3 DEF InsertHoorays, PutHoorays, HoorayRows
  <2> QED BY <1>1, <2>1, <2>3 DEF CombinedTold, HooraysStored, CombinedStations
<1>3. CASE Stage(w) # "combined"
  <2>1. pc'[w] = "batch"
    BY <1>1, <1>3 DEF InsertHoorays, Handled
  <2> QED BY <2>1, ElsewhereTold DEF CombinedStations
<1> QED BY <1>2, <1>3

\* The other inserts of the combined stage keep the reply and come before the reactions, or
\* are the last.
LEMMA InsertTold ==
  ASSUME TypeOK, NEW w \in Workers, CombinedTold(w),
         InsertPulls(w) \/ InsertComments(w) \/ InsertScan(w)
  PROVE  CombinedTold(w)' /\ HooraysStored(w)'
<1>1. pc \in [Workers -> Stations]
  BY DEF TypeOK, RunsOK
<1>2. CASE pc'[w] \notin CombinedStations
  BY <1>2, ElsewhereTold
<1>3. CASE pc'[w] \in CombinedStations
  <2>1. ~Handled(w) /\ pc'[w] # "more"
    BY <1>1, <1>3 DEF Handled, CombinedStations
  <2>2. \/ Stage(w) = "combined" /\ pc[w] = "pulls" /\ Continue(w, "comments")
        \/ Stage(w) = "combined" /\ pc[w] = "comments" /\ Continue(w, "hoorays")
        \/ Stage(w) # "combined" /\ Continue(w, "hoorays")
    <3>1. CASE InsertPulls(w)
      BY <2>1, <3>1 DEF InsertPulls
    <3>2. CASE InsertComments(w)
      BY <1>1, <2>1, <3>2 DEF InsertComments
    <3>3. CASE InsertScan(w)
      BY <2>1, <3>3 DEF InsertScan
    <3> QED BY <3>1, <3>2, <3>3
  <2>3. plan' = plan /\ reply' = reply /\ Stage(w)' = Stage(w) /\ pc'[w] # "scan"
    BY <1>1, <2>2 DEF Continue, Stage
  <2> QED BY <2>2, <2>3 DEF CombinedTold, HooraysStored, CombinedStations
<1> QED BY <1>2, <1>3

LEMMA WorkElsewhere ==
  ASSUME TypeOK, NEW w \in Workers, Work(w), ~Fetch(w), ~InsertHoorays(w),
         ~(InsertPulls(w) \/ InsertComments(w) \/ InsertScan(w))
  PROVE  pc'[w] \notin CombinedStations
<1>1. pc \in [Workers -> Stations]
  BY DEF TypeOK, RunsOK
<1>2. ASSUME NEW b, Raised(w, b) PROVE pc'[w] \notin CombinedStations
  BY <1>1, <1>2 DEF Raised, ShrinkAndRetry, GiveUp, CombinedStations
<1>3. ASSUME Handled(w) PROVE pc'[w] \notin CombinedStations
  BY <1>1, <1>3 DEF Handled, CombinedStations
<1>4. CASE NextStage(w) \/ Select(w) \/ SkipUnknown(w) \/ InsertRepo(w)
  BY <1>1, <1>4 DEF NextStage, Select, SkipUnknown, InsertRepo, CombinedStations
<1>5. CASE FetchFails(w) \/ InsertFails(w) \/ InsertRepoFails(w) \/ RestThrows(w)
  BY <1>2, <1>5 DEF FetchFails, InsertFails, InsertRepoFails, RestThrows
<1>6. CASE ReposDone(w) \/ MoreDone(w)
  BY <1>3, <1>6 DEF ReposDone, MoreDone
<1>7. CASE RestComments(w) \/ RestPull(w) \/ RestRepo(w) \/ RestSkip(w)
  BY <1>1, <1>7 DEF RestComments, RestPull, RestRepo, RestSkip, RestNext, CombinedStations
<1>8. CASE RestDone(w)
  BY <1>1, <1>8 DEF RestDone, CombinedStations
<1> QED BY <1>4, <1>5, <1>6, <1>7, <1>8 DEF Work

LEMMA StepScanInv == TypeOK /\ ScanInv /\ [Next]_vars => ScanInv'
<1> SUFFICES ASSUME TypeOK, ScanInv, [Next]_vars PROVE ScanInv'
  OBVIOUS
<1>1. /\ DOMAIN pc = Workers /\ DOMAIN plan = Workers /\ DOMAIN reply = Workers
  BY DEF TypeOK, RunsOK
<1>2. ASSUME NEW w \in Workers, Work(w) PROVE ScanInv'
  <2>1. \A p \in PRs : hoorays[p] \subseteq hoorays'[p]
    BY <1>2, WorkPuts, HooraysGrow
  <2>2. CombinedTold(w)' /\ HooraysStored(w)'
    BY <1>2, FetchTold, InsertHooraysTold, InsertTold, WorkElsewhere, ElsewhereTold DEF ScanInv
  <2>3. ASSUME NEW v \in Workers, v # w PROVE CombinedTold(v)' /\ HooraysStored(v)'
    BY <1>2, <2>1, <2>3, WorkAlone, SameTold DEF ScanInv
  <2> QED BY <2>2, <2>3 DEF ScanInv
<1>3. ASSUME NEW w \in Workers, Start(w) \/ Stop(w) PROVE ScanInv'
  <2>1. /\ pc'[w] \notin CombinedStations /\ hoorays' = hoorays
        /\ \A v \in Workers : v # w => pc'[v] = pc[v] /\ plan'[v] = plan[v] /\ reply'[v] = reply[v]
    BY <1>1, <1>3 DEF Start, Stop, CombinedStations
  <2>2. ASSUME NEW v \in Workers, v # w PROVE CombinedTold(v)' /\ HooraysStored(v)'
    BY <2>1, <2>2, SameTold DEF ScanInv
  <2> QED BY <2>1, <2>2, ElsewhereTold DEF ScanInv
<1>4. CASE \/ \E c \in Combos : Discover(c)
           \/ \E r \in Repos : Vanish(r)
           \/ Recover \/ UNCHANGED vars
  <2>1. pc' = pc /\ plan' = plan /\ reply' = reply /\ hoorays' = hoorays
    BY <1>4 DEF Discover, Vanish, Recover, vars
  <2> QED BY <2>1, SameTold DEF ScanInv
<1> QED BY <1>2, <1>3, <1>4 DEF Next

\* The order of the two inserts of combined-enrichment.ts, whoever works beside this worker and
\* whatever fails: a PR of the combined stage that gets its scan row "ok" has the reactions of
\* the first page stored already, so a run that dies before leaves it to the reactions stage.
THEOREM ScansFollowReactions == Spec => CombinedScanAfterReactions
<1>1. Init => ScanInv
  BY DEF Init, ScanInv, CombinedTold, HooraysStored, CombinedStations
<1>2. ASSUME TypeOK, ScanInv, [Next]_vars, NEW w \in Workers, NEW p \in PRs,
             pc[w] = "scan", Stage(w) = "combined", pc'[w] # "scan",
             p \in DOMAIN reply[w], scan[p] = Absent, scan'[p] = "ok"
      PROVE  FirstTwenty[p] \subseteq hoorays[p]
  <2>1. scan' # scan
    BY <1>2 DEF Absent
  <2>2. PICK v \in Workers : Work(v)
    BY <1>2, <2>1 DEF Next, Start, Stop, Discover, Vanish, Recover, vars
  <2>3. v = w
    BY <1>2, <2>2, WorkAlone
  <2>4. PutScan(w)
    BY <2>1, <2>2, <2>3, WorkPuts
  <2>5. ScanRow(w, p) = "ok"
    BY <1>2, <2>4 DEF PutScan, Absent
  <2>6. reply[w][p] \in {"found", "no_reactions", "not_found"}
    BY <1>2 DEF ScanInv, CombinedTold, CombinedStations
  <2>7. reply[w][p] = "found"
    BY <1>2, <2>5, <2>6 DEF ScanRow, Missing, Absent
  <2> QED BY <1>2, <2>7 DEF ScanInv, HooraysStored
<1>3. TypeOK /\ ScanInv /\ [Next]_vars =>
        [\A w \in Workers, p \in PRs :
           (/\ pc[w] = "scan" /\ Stage(w) = "combined" /\ pc'[w] # "scan"
            /\ p \in DOMAIN reply[w] /\ scan[p] = Absent /\ scan'[p] = "ok")
           => FirstTwenty[p] \subseteq hoorays[p]]_vars
  BY <1>2
<1> QED BY <1>1, <1>3, StepScanInv, TypeCorrect, PTL DEF Spec, CombinedScanAfterReactions

====
