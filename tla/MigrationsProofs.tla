---- MODULE MigrationsProofs ----
(***************************************************************************)
(* Theorems about schema migrations, for any number of instances of the    *)
(* app, of any versions, next to the pipeline's migrate command, however   *)
(* the lock expires and whatever fails; the last two are about a migrator  *)
(* that is alone, which is what the lock is there for.                     *)
(***************************************************************************)
EXTENDS Migrations, TLAPS

-----------------------------------------------------------------------------
(* The script, and the version read from schema_migrations *)

\* Every version has between one and eight statements.
LEMMA ScriptLength == \A v \in Versions : Len(Statements[v]) \in 1 .. 8
<1>1. Len(Statements[1]) = 3
  BY DEF Statements
<1>2. Len(Statements[2]) = 5
  BY DEF Statements
<1>3. Len(Statements[3]) = 8
  BY DEF Statements
<1>4. Len(Statements[4]) = 3
  BY DEF Statements
<1>5. \A v \in Versions : v = 1 \/ v = 2 \/ v = 3 \/ v = 4
  BY DEF Versions
<1> QED BY <1>1, <1>2, <1>3, <1>4, <1>5

\* Arithmetic of a position in a script of at most eight statements.
LEMMA ShortScript ==
  \A n \in 1 .. 8 : /\ 1 \in 1 .. n
                     /\ \A k \in 1 .. n : /\ k \in 1 .. 8 /\ k <= n
                                          /\ k # n => k + 1 \in 1 .. n /\ k + 1 \in 0 .. 8 /\ k < n
OBVIOUS

LEMMA ScriptPairs ==
  /\ \A v \in Versions : \A k \in 1 .. Len(Statements[v]) : <<v, k>> \in Script
  /\ \A v, k : <<v, k>> \in Script => v \in Versions /\ k \in 1 .. Len(Statements[v])
<1>1. \A v \in Versions : Len(Statements[v]) \in 1 .. 8
  BY ScriptLength
<1>2. ASSUME NEW v \in Versions, NEW k \in 1 .. Len(Statements[v])
      PROVE  <<v, k>> \in Script
  <2>1. k \in 1 .. 8 /\ k <= Len(Statements[v])
    BY <1>1, ShortScript
  <2>2. <<v, k>> \in Versions \X (1 .. 8)
    BY <2>1
  <2> QED BY <2>1, <2>2 DEF Script
<1>3. ASSUME NEW v, NEW k, <<v, k>> \in Script
      PROVE  v \in Versions /\ k \in 1 .. Len(Statements[v])
  <2>1. v \in Versions /\ k \in 1 .. 8 /\ k <= Len(Statements[v])
    BY <1>3 DEF Script
  <2> QED BY <1>1, <2>1
<1> QED BY <1>2, <1>3

LEMMA FirstStatement == \A v \in Versions : <<v, 1>> \in Script
BY ScriptLength, ScriptPairs, ShortScript

LEMMA LatestType ==
  ASSUME recorded \subseteq Versions
  PROVE  /\ Latest \in 0 .. 4
         /\ Latest # 0 => Latest \in recorded
         /\ \A v \in recorded : v <= Latest
<1>1. CASE recorded = {}
  BY <1>1 DEF Latest
<1>2. CASE recorded # {}
  <2>1. \E v \in recorded : \A u \in recorded : u <= v
    <3>1. CASE 4 \in recorded
      BY <3>1 DEF Versions
    <3>2. CASE 4 \notin recorded /\ 3 \in recorded
      BY <3>2 DEF Versions
    <3>3. CASE 4 \notin recorded /\ 3 \notin recorded /\ 2 \in recorded
      BY <3>3 DEF Versions
    <3>4. CASE 4 \notin recorded /\ 3 \notin recorded /\ 2 \notin recorded
      <4>1. \A u \in recorded : u = 1
        BY <3>4 DEF Versions
      <4>2. \A u \in recorded : u <= 1
        BY <4>1
      <4>3. 1 \in recorded
        BY <1>2, <4>1
      <4> QED BY <4>2, <4>3
    <3> QED BY <3>1, <3>2, <3>3, <3>4
  <2>2. Latest \in recorded /\ \A u \in recorded : u <= Latest
    BY <1>2, <2>1 DEF Latest
  <2> QED BY <2>2 DEF Versions
<1> QED BY <1>1, <1>2

\* getSchemaVersion never overstates.
LEMMA ReadType ==
  ASSUME recorded \subseteq Versions, NEW v \in ReadVersions
  PROVE  v \in 0 .. 4 /\ (v # 0 => v \in recorded)
BY LatestType DEF ReadVersions

-----------------------------------------------------------------------------
(* Type correctness *)

\* The part of TypeOK about the database.
DbOK ==
  /\ recorded \subseteq Versions /\ exists \subseteq Names
  /\ rows \in [Names -> SUBSET (Stored \cup Written)]
  /\ schema \subseteq {"stats_view", "summary_view", "column"}
  /\ counted \in [stats : 0 .. 2, summary : 0 .. 2] /\ misread \in BOOLEAN
  /\ adrift \in [stats : 0 .. MaxAdrift, summary : 0 .. MaxAdrift]
  /\ outlived \subseteq {"stats", "summary"}
  /\ ran \subseteq Script /\ late \subseteq written /\ written \subseteq Written

CliOK ==
  /\ cli \in [at : {"idle", "run", "record"}, v : 0 .. 4, k : 0 .. 8,
              errors : BOOLEAN, pending : SUBSET Versions]
  /\ cli.at = "run" => <<cli.v, cli.k>> \in Script

\* The part about the instances.
AppOK ==
  /\ pc \in [Instances -> Stations] /\ attempt \in [Instances -> 0 .. LockMaxRetries]
  /\ cur \in [Instances -> 0 .. 4] /\ pos \in [Instances -> 0 .. 8]
  /\ cached \in [Instances -> BOOLEAN]
  /\ \A i \in Instances :
       /\ pc[i] = "run" => <<cur[i], pos[i]>> \in Script
       /\ pc[i] \in Behind => cur[i] \in Versions
       /\ pc[i] \in {"idle", "pending", "check", "recheck"} => attempt[i] < LockMaxRetries
       /\ cur[i] <= Expected[i]

LEMMA TypeParts == TypeOK <=> DbOK /\ CliOK /\ AppOK /\ locked \in BOOLEAN /\ calm \in BOOLEAN
BY DEF TypeOK, DbOK, CliOK, AppOK

LEMMA ExecuteType ==
  ASSUME DbOK, NEW s, Execute(s), UNCHANGED <<adrift, recorded, written, late, misread>>,
         ran' \subseteq Script
  PROVE  DbOK'
<1> USE DEF DbOK, Names
<1>1. exists' \subseteq Names
  BY DEF Execute, TablesAfter
<1>2. rows' \in [Names -> SUBSET (Stored \cup Written)]
  BY DEF Execute, RowsAfter
<1>3. schema' \subseteq {"stats_view", "summary_view", "column"}
  BY DEF Execute, SchemaAfter
<1>4. counted' \in [stats : 0 .. 2, summary : 0 .. 2]
  BY DEF Execute, CountsAfter, OnceMore
<1>5. outlived' \subseteq {"stats", "summary"}
  BY DEF Execute, OutlivedAfter
<1> QED BY <1>1, <1>2, <1>3, <1>4, <1>5

\* The fills that go on at the server are never more than the bound.
LEMMA GoesOnType ==
  ASSUME DbOK, NEW s, GoesOn(s)
  PROVE  adrift' \in [stats : 0 .. MaxAdrift, summary : 0 .. MaxAdrift]
<1>1. adrift.stats \in 0 .. MaxAdrift /\ adrift.summary \in 0 .. MaxAdrift
  BY DEF DbOK
<1>2. adrift.stats + 1 \in 0 .. MaxAdrift /\ adrift.summary + 1 \in 0 .. MaxAdrift
  BY <1>1, MigrationAssumption DEF GoesOn
<1>3. CASE FilledBy(s) = "stats"
  BY <1>2, <1>3 DEF GoesOn, DbOK
<1>4. CASE FilledBy(s) = "summary"
  BY <1>2, <1>4 DEF GoesOn, DbOK
<1> QED BY <1>3, <1>4 DEF FilledBy

LEMMA LandsType ==
  ASSUME DbOK, NEW t \in {"stats", "summary"}, Lands(t) PROVE DbOK'
<1>1. /\ adrift.stats \in 0 .. MaxAdrift /\ adrift.summary \in 0 .. MaxAdrift
      /\ counted.stats \in 0 .. 2 /\ counted.summary \in 0 .. 2
  BY DEF DbOK
<1>2. adrift[t] - 1 \in 0 .. MaxAdrift /\ OnceMore(counted[t]) \in 0 .. 2
  BY <1>1, MigrationAssumption DEF Lands, OnceMore
<1>3. adrift' \in [stats : 0 .. MaxAdrift, summary : 0 .. MaxAdrift]
  <2>1. adrift' = [adrift EXCEPT ![t] = adrift[t] - 1]
    BY DEF Lands
  <2> QED BY <1>2, <2>1 DEF DbOK
<1>4. counted' \in [stats : 0 .. 2, summary : 0 .. 2]
  <2>1. counted' \in {counted, [counted EXCEPT ![t] = OnceMore(counted[t])]}
    BY DEF Lands
  <2> QED BY <1>2, <2>1 DEF DbOK
<1> QED BY <1>3, <1>4 DEF Lands, DbOK

LEMMA SucceedsType ==
  ASSUME DbOK, NEW v, NEW k, NEW s, <<v, k>> \in Script, Succeeds(v, k, s) PROVE DbOK'
<1>1. ran' \subseteq Script
  BY DEF Succeeds, DbOK
<1> QED BY <1>1, ExecuteType DEF Succeeds

LEMMA FailsType ==
  ASSUME DbOK, NEW s, Fails(s) PROVE DbOK'
<1>1. UNCHANGED <<recorded, ran, written, late, misread>>
  BY DEF Fails
<1>2. CASE UNCHANGED <<exists, rows, schema, counted, adrift, outlived>>
  BY <1>1, <1>2 DEF DbOK
<1>3. CASE Execute(s) /\ UNCHANGED adrift
  BY <1>1, <1>3, ExecuteType DEF DbOK
<1>4. CASE /\ \E part \in SUBSET rows["main"] : rows' = [rows EXCEPT !["new"] = @ \cup part]
           /\ UNCHANGED <<exists, schema, counted, adrift, outlived>>
  BY <1>1, <1>4 DEF DbOK, Names
<1>5. CASE GoesOn(s) /\ UNCHANGED <<exists, rows, schema, counted, outlived>>
  BY <1>1, <1>5, GoesOnType DEF DbOK
<1> QED BY <1>2, <1>3, <1>4, <1>5 DEF Fails

LEMMA InitType == Init => TypeOK
<1> SUFFICES ASSUME Init PROVE TypeOK
  OBVIOUS
<1>1. DbOK
  <2>1. rows \in [Names -> SUBSET (Stored \cup Written)]
    BY DEF Init, Names
  <2>2. counted \in [stats : 0 .. 2, summary : 0 .. 2]
    BY DEF Init
  <2>3. adrift \in [stats : 0 .. MaxAdrift, summary : 0 .. MaxAdrift]
    BY MigrationAssumption DEF Init
  <2> QED BY <2>1, <2>2, <2>3 DEF Init, DbOK, Names
<1>2. CliOK
  BY DEF Init, CliOK, NoCli
<1>3. AppOK
  BY MigrationAssumption DEF Init, AppOK, Stations, Behind, Versions
<1>4. locked \in BOOLEAN /\ calm \in BOOLEAN
  BY MigrationAssumption DEF Init
<1> QED BY <1>1, <1>2, <1>3, <1>4, TypeParts

\* The bookkeeping of one instance.
LEMMA ReturnType ==
  ASSUME AppOK, NEW i \in Instances, NEW ok \in BOOLEAN, Return(i, ok) PROVE AppOK'
<1>1. 0 \in 0 .. LockMaxRetries /\ 0 < LockMaxRetries
  BY MigrationAssumption
<1>2. 0 <= Expected[i]
  BY MigrationAssumption DEF Versions
<1> QED BY <1>1, <1>2 DEF AppOK, Return, Goto, Stations, Behind

LEMMA AfterStatementType ==
  ASSUME AppOK, NEW i \in Instances, pc[i] = "run", AfterStatement(i) PROVE AppOK'
<1>1. cur[i] \in Versions /\ pos[i] \in 1 .. Len(Statements[cur[i]])
  BY ScriptPairs DEF AppOK
<1>2. Len(Statements[cur[i]]) \in 1 .. 8
  BY <1>1, ScriptLength
<1>3. CASE pos[i] = Len(Statements[cur[i]])
  BY <1>3 DEF AfterStatement, AppOK, Goto, Stations, Behind
<1>4. CASE pos[i] # Len(Statements[cur[i]])
  <2>1. pos[i] + 1 \in 1 .. Len(Statements[cur[i]]) /\ pos[i] + 1 \in 0 .. 8
    BY <1>1, <1>2, <1>4, ShortScript
  <2>2. <<cur[i], pos[i] + 1>> \in Script
    BY <1>1, <2>1, ScriptPairs
  <2>3. pos' = [pos EXCEPT ![i] = pos[i] + 1] /\ UNCHANGED <<pc, cur, attempt, cached>>
    BY <1>4 DEF AfterStatement
  <2> QED BY <2>1, <2>2, <2>3 DEF AppOK
<1> QED BY <1>3, <1>4

LEMMA LookType ==
  ASSUME AppOK, recorded \subseteq Versions, NEW i \in Instances,
         Request(i) \/ Pending(i) \/ Recheck(i) \/ FinalLook(i)
  PROVE  AppOK'
<1>1. Expected[i] \in 1 .. 4
  BY MigrationAssumption DEF Versions
<1>2. CASE \E ok \in BOOLEAN : Return(i, ok)
  BY <1>2, ReturnType
<1>3. CASE pc[i] = "idle" /\ Goto(i, "pending") /\ UNCHANGED <<cur, pos, attempt, cached>>
  BY <1>3 DEF AppOK, Goto, Stations, Behind
<1>4. CASE /\ pc[i] = "pending" /\ Goto(i, "check")
           /\ \E v \in ReadVersions :
                v < Expected[i] /\ cur' = [cur EXCEPT ![i] = v + 1]
           /\ UNCHANGED <<pos, attempt, cached>>
  <2>1. PICK v \in ReadVersions : v < Expected[i] /\ cur' = [cur EXCEPT ![i] = v + 1]
    BY <1>4
  <2>2. v + 1 \in 1 .. 4 /\ v + 1 <= Expected[i]
    BY <1>1, <2>1, ReadType
  <2> QED BY <1>4, <2>1, <2>2 DEF AppOK, Goto, Stations, Behind, Versions
<1>5. CASE /\ pc[i] = "recheck" /\ attempt' = [attempt EXCEPT ![i] = attempt[i] + 1]
           /\ Goto(i, IF attempt[i] + 1 < LockMaxRetries THEN "check" ELSE "final")
           /\ UNCHANGED <<cur, pos, cached>>
  <2>1. attempt[i] \in 0 .. LockMaxRetries /\ attempt[i] < LockMaxRetries
    BY <1>5 DEF AppOK
  <2>2. attempt[i] + 1 \in 0 .. LockMaxRetries
    BY <2>1, MigrationAssumption
  <2>3. CASE attempt[i] + 1 < LockMaxRetries
    BY <1>5, <2>2, <2>3 DEF AppOK, Goto, Stations, Behind
  <2>4. CASE ~(attempt[i] + 1 < LockMaxRetries)
    BY <1>5, <2>2, <2>4 DEF AppOK, Goto, Stations, Behind
  <2> QED BY <2>3, <2>4
<1>6. ASSUME Request(i) PROVE AppOK'
  <2>1. PICK v \in ReadVersions :
          IF v >= Expected[i] THEN Return(i, v = Expected[i])
          ELSE Goto(i, "pending") /\ UNCHANGED <<cur, pos, attempt, cached>>
    BY <1>6 DEF Request
  <2> QED BY <1>2, <1>3, <1>6, <2>1 DEF Request
<1>7. ASSUME Pending(i) PROVE AppOK'
  <2>1. PICK v \in ReadVersions :
          IF v >= Expected[i] THEN Return(i, TRUE)
          ELSE /\ Goto(i, "check") /\ cur' = [cur EXCEPT ![i] = v + 1]
               /\ UNCHANGED <<pos, attempt, cached>>
    BY <1>7 DEF Pending
  <2>2. v < Expected[i] \/ v >= Expected[i]
    BY <1>1, ReadType
  <2> QED BY <1>2, <1>4, <1>7, <2>1, <2>2 DEF Pending
<1>8. ASSUME Recheck(i) PROVE AppOK'
  <2>1. PICK v \in ReadVersions :
          IF v >= Expected[i] THEN Return(i, TRUE)
          ELSE /\ attempt' = [attempt EXCEPT ![i] = attempt[i] + 1]
               /\ Goto(i, IF attempt[i] + 1 < LockMaxRetries THEN "check" ELSE "final")
               /\ UNCHANGED <<cur, pos, cached>>
    BY <1>8 DEF Recheck
  <2> QED BY <1>2, <1>5, <1>8, <2>1 DEF Recheck
<1>9. ASSUME FinalLook(i) PROVE AppOK'
  <2>1. PICK v \in ReadVersions : Return(i, v >= Expected[i])
    BY <1>9 DEF FinalLook
  <2>2. (v >= Expected[i]) \in BOOLEAN
    OBVIOUS
  <2> QED BY <1>2, <2>1, <2>2
<1> QED BY <1>6, <1>7, <1>8, <1>9

LEMMA LockType ==
  ASSUME AppOK, locked \in BOOLEAN, NEW i \in Instances,
         CheckLock(i) \/ TruncateLock(i) \/ InsertLock(i) \/ Release(i)
  PROVE  AppOK' /\ locked' \in BOOLEAN
<1>1. CASE CheckLock(i)
  BY <1>1 DEF CheckLock, AppOK, Goto, Stations, Behind
<1>2. CASE TruncateLock(i)
  BY <1>2 DEF TruncateLock, AppOK, Goto, Stations, Behind
<1>3. CASE InsertLock(i)
  <2>1. cur[i] \in Versions
    BY <1>3 DEF InsertLock, AppOK, Behind
  <2>2. <<cur[i], 1>> \in Script
    BY <2>1, ScriptLength, ScriptPairs, ShortScript
  <2> QED BY <1>3, <2>1, <2>2 DEF InsertLock, AppOK, Goto, Stations, Behind
<1>4. CASE Release(i)
  BY <1>4, ReturnType DEF Release
<1> QED BY <1>1, <1>2, <1>3, <1>4

LEMMA RecordType ==
  ASSUME TypeOK, NEW i \in Instances, Record(i) \/ RecordFails(i)
  PROVE  DbOK' /\ AppOK'
<1>1. DbOK /\ AppOK /\ pc[i] = "record"
  BY TypeParts DEF Record, RecordFails
<1>2. cur[i] \in Versions
  BY <1>1 DEF AppOK, Behind
<1>3. DbOK'
  BY <1>1, <1>2 DEF Record, RecordFails, DbOK
<1>4. CASE Goto(i, "finish") /\ UNCHANGED <<cur, pos, attempt, cached>>
  BY <1>1, <1>3, <1>4 DEF AppOK, Goto, Stations, Behind
<1>5. CASE Goto(i, "release") /\ UNCHANGED <<cur, pos, attempt, cached>>
  BY <1>1, <1>3, <1>5 DEF AppOK, Goto, Stations, Behind
<1>6. CASE /\ cur[i] # Expected[i] /\ Goto(i, "run")
           /\ cur' = [cur EXCEPT ![i] = cur[i] + 1] /\ pos' = [pos EXCEPT ![i] = 1]
           /\ UNCHANGED <<attempt, cached>>
  <2>1. cur[i] <= Expected[i] /\ Expected[i] \in Versions
    BY <1>1, MigrationAssumption DEF AppOK
  <2>2. cur[i] + 1 \in Versions /\ cur[i] + 1 <= Expected[i]
    BY <1>2, <1>6, <2>1 DEF Versions
  <2>3. <<cur[i] + 1, 1>> \in Script
    BY <2>2, FirstStatement
  <2>4. cur[i] + 1 \in 0 .. 4
    BY <2>2 DEF Versions
  <2> QED BY <1>1, <1>3, <1>6, <2>2, <2>3, <2>4 DEF AppOK, Goto, Stations, Behind
<1> QED BY <1>3, <1>4, <1>5, <1>6 DEF Record, RecordFails

LEMMA CliStepType ==
  ASSUME TypeOK, CliStart \/ CliStatement \/ CliRecord \/ CliAborts
  PROVE  DbOK' /\ CliOK'
<1>1. DbOK /\ CliOK
  BY TypeParts
<1>2. CASE CliStart
  <2>1. DbOK'
    BY <1>1, <1>2 DEF CliStart, db, DbOK
  <2>2. cli' = [at |-> "run", v |-> 1, k |-> 1, errors |-> FALSE,
                pending |-> Versions \ recorded]
    BY <1>2 DEF CliStart
  <2>3. <<1, 1>> \in Script
    BY FirstStatement DEF Versions
  <2> QED BY <2>1, <2>2, <2>3 DEF CliOK
<1>3. CASE CliStatement
  <2>1. cli.v \in Versions /\ cli.k \in 1 .. Len(Statements[cli.v])
        /\ <<cli.v, cli.k>> \in Script
    BY <1>1, <1>3, ScriptPairs DEF CliStatement, CliOK
  <2>2. DbOK'
    BY <1>1, <1>3, <2>1, SucceedsType, FailsType DEF CliStatement
  <2>3. PICK failed \in BOOLEAN : CliAdvance(failed)
    BY <1>3 DEF CliStatement
  <2>4. cli.at = "run" /\ (cli.errors \/ failed) \in BOOLEAN
    BY <1>1, <1>3 DEF CliStatement, CliOK
  <2>5. CASE cli.k # Len(Statements[cli.v])
    <3>1. cli.k + 1 \in 1 .. Len(Statements[cli.v]) /\ cli.k + 1 \in 0 .. 8
          /\ cli.k < Len(Statements[cli.v])
      <4>1. Len(Statements[cli.v]) \in 1 .. 8
        BY <2>1, ScriptLength
      <4> QED BY <2>1, <2>5, <4>1, ShortScript
    <3>2. <<cli.v, cli.k + 1>> \in Script
      BY <2>1, <3>1, ScriptPairs
    <3>3. cli' = [cli EXCEPT !.k = cli.k + 1, !.errors = cli.errors \/ failed]
      BY <2>3, <3>1 DEF CliAdvance
    <3>4. cli' = [at |-> "run", v |-> cli.v, k |-> cli.k + 1,
                  errors |-> cli.errors \/ failed, pending |-> cli.pending]
      BY <1>1, <2>4, <3>3 DEF CliOK
    <3>5. cli.v \in 0 .. 4 /\ cli.pending \in SUBSET Versions
      BY <1>1 DEF CliOK
    <3> QED BY <2>2, <2>4, <3>1, <3>2, <3>4, <3>5 DEF CliOK
  <2>6. CASE cli.k = Len(Statements[cli.v]) /\ cli.v < 4
    <3>1. ~(cli.k < Len(Statements[cli.v]))
      BY <2>1, <2>6, ScriptLength, ShortScript
    <3>2. cli.v + 1 \in Versions /\ cli.v + 1 \in 0 .. 4
      BY <2>1, <2>6 DEF Versions
    <3>3. <<cli.v + 1, 1>> \in Script
      BY <3>2, FirstStatement
    <3>4. cli' = [cli EXCEPT !.v = cli.v + 1, !.k = 1, !.errors = cli.errors \/ failed]
      BY <2>3, <2>6, <3>1 DEF CliAdvance
    <3>5. cli' = [at |-> "run", v |-> cli.v + 1, k |-> 1,
                  errors |-> cli.errors \/ failed, pending |-> cli.pending]
      BY <1>1, <2>4, <3>4 DEF CliOK
    <3>6. cli.pending \in SUBSET Versions
      BY <1>1 DEF CliOK
    <3> QED BY <2>2, <2>4, <3>2, <3>3, <3>5, <3>6 DEF CliOK
  <2>7. CASE cli.k = Len(Statements[cli.v]) /\ ~(cli.v < 4)
    <3>1. ~(cli.k < Len(Statements[cli.v]))
      BY <2>1, <2>7, ScriptLength, ShortScript
    <3>2. cli' = [cli EXCEPT !.at = "record", !.errors = cli.errors \/ failed]
      BY <2>3, <2>7, <3>1 DEF CliAdvance
    <3> QED BY <1>1, <2>2, <2>4, <3>2 DEF CliOK
  <2> QED BY <2>5, <2>6, <2>7
<1>4. CASE CliRecord
  BY <1>1, <1>4 DEF CliRecord, DbOK, CliOK, NoCli
<1>5. CASE CliAborts
  BY <1>1, <1>5 DEF CliAborts, DbOK, CliOK, NoCli, db
<1> QED BY <1>2, <1>3, <1>4, <1>5

LEMMA ServeType ==
  ASSUME TypeOK, NEW i \in Instances, Serve(i) \/ CacheExpires(i) \/ Abort(i)
  PROVE  TypeOK'
<1>1. DbOK /\ CliOK /\ AppOK /\ locked \in BOOLEAN /\ calm \in BOOLEAN
  BY TypeParts
<1>2. ASSUME DbOK', AppOK', locked' \in BOOLEAN, UNCHANGED <<cli, calm>>
      PROVE  TypeOK'
  <2>1. CliOK'
    BY <1>1, <1>2 DEF CliOK
  <2> QED BY <1>1, <1>2, <2>1, TypeParts DEF TypeOK, DbOK, CliOK, AppOK
<1>3. ASSUME UNCHANGED db, misread' \in BOOLEAN PROVE DbOK'
  BY <1>1, <1>3 DEF db, DbOK
<1>4. CASE Request(i) \/ Pending(i) \/ Recheck(i) \/ FinalLook(i)
  <2>1. UNCHANGED db /\ UNCHANGED <<cli, calm, locked>>
    BY <1>4 DEF Request, Pending, Recheck, FinalLook
  <2>3. misread' \in BOOLEAN
    BY <1>1, <1>4 DEF Request, Pending, Recheck, FinalLook, DbOK
  <2>2. AppOK'
    BY <1>1, <1>4, LookType DEF DbOK
  <2> QED BY <1>1, <1>2, <1>3, <2>1, <2>2, <2>3
<1>5. CASE CheckLock(i) \/ TruncateLock(i) \/ InsertLock(i) \/ Release(i)
  <2>1. UNCHANGED db /\ UNCHANGED <<cli, calm, misread>>
    BY <1>5 DEF CheckLock, TruncateLock, InsertLock, Release
  <2>2. misread' \in BOOLEAN
    BY <1>1, <2>1 DEF DbOK
  <2> QED BY <1>1, <1>2, <1>3, <1>5, <2>1, <2>2, LockType
<1>6. CASE RunStatement(i)
  <2>1. <<cur[i], pos[i]>> \in Script /\ Succeeds(cur[i], pos[i], Statements[cur[i]][pos[i]])
    BY <1>1, <1>6 DEF RunStatement, AppOK
  <2>2. AppOK'
    BY <1>1, <1>6, AfterStatementType DEF RunStatement
  <2> QED BY <1>1, <1>2, <1>6, <2>1, <2>2, SucceedsType DEF RunStatement
<1>7. CASE StatementFails(i)
  <2>1. AppOK'
    BY <1>1, <1>7 DEF StatementFails, AppOK, Goto, Stations, Behind
  <2>2. DbOK'
    BY <1>1, <1>7, FailsType DEF StatementFails
  <2> QED BY <1>1, <1>2, <1>7, <2>1, <2>2 DEF StatementFails
<1>8. CASE Record(i) \/ RecordFails(i)
  <2>1. UNCHANGED <<cli, calm, locked>>
    BY <1>8 DEF Record, RecordFails
  <2> QED BY <1>1, <1>2, <1>8, <2>1, RecordType
<1>9. CASE CacheExpires(i)
  <2>1. AppOK'
    BY <1>1, <1>9 DEF CacheExpires, AppOK
  <2> QED BY <1>1, <1>2, <1>3, <1>9, <2>1 DEF CacheExpires, DbOK
<1>10. CASE Abort(i)
  <2>1. AppOK'
    BY <1>1, <1>10, ReturnType DEF Abort
  <2> QED BY <1>1, <1>2, <1>3, <1>10, <2>1 DEF Abort, DbOK
<1> QED BY <1>4, <1>5, <1>6, <1>7, <1>8, <1>9, <1>10 DEF Serve

LEMMA StepType == TypeOK /\ [Next]_vars => TypeOK'
<1> SUFFICES ASSUME TypeOK, [Next]_vars PROVE TypeOK'
  OBVIOUS
<1>1. DbOK /\ CliOK /\ AppOK /\ locked \in BOOLEAN /\ calm \in BOOLEAN
  BY TypeParts
<1>2. ASSUME DbOK', CliOK', UNCHANGED app, locked' \in BOOLEAN, calm' \in BOOLEAN
      PROVE  TypeOK'
  <2>1. AppOK'
    BY <1>1, <1>2 DEF app, AppOK
  <2> QED BY <1>2, <2>1 DEF TypeOK, DbOK, CliOK, AppOK
<1>3. CASE CliStart \/ CliStatement \/ CliRecord \/ CliAborts
  <2>1. UNCHANGED app /\ UNCHANGED <<locked, calm>>
    BY <1>3 DEF CliStart, CliStatement, CliRecord, CliAborts
  <2> QED BY <1>1, <1>2, <1>3, <2>1, CliStepType
<1>4. ASSUME NEW c \in Written, WriteComment(c) PROVE TypeOK'
  <2>1. DbOK'
    <3>1. rows' = [rows EXCEPT !["main"] = @ \cup {c}] /\ written' = written \cup {c}
          /\ late' \in {late, late \cup {c}}
          /\ UNCHANGED <<recorded, exists, schema, counted, adrift, outlived, ran, misread>>
      BY <1>4 DEF WriteComment
    <3> QED BY <1>1, <3>1 DEF DbOK, Names
  <2> QED BY <1>1, <1>2, <1>4, <2>1 DEF WriteComment, CliOK
<1>5. CASE LockExpires \/ Settle \/ UNCHANGED vars
  <2>1. UNCHANGED db /\ UNCHANGED app /\ UNCHANGED <<cli, misread>>
        /\ locked' \in BOOLEAN /\ calm' \in BOOLEAN
    BY <1>1, <1>5 DEF LockExpires, Settle, vars, db, app
  <2> QED BY <1>1, <1>2, <2>1 DEF db, DbOK, CliOK
<1>6. ASSUME NEW t \in {"stats", "summary"}, Lands(t) PROVE TypeOK'
  <2>1. UNCHANGED app /\ UNCHANGED <<cli, locked, calm>>
    BY <1>6 DEF Lands
  <2> QED BY <1>1, <1>2, <1>6, <2>1, LandsType DEF CliOK
<1> QED BY <1>3, <1>4, <1>5, <1>6, ServeType DEF Next

\* Type correctness of the migrations (migrations.ts and cli.ts).
THEOREM MigrationsTypeCorrect == Spec => []TypeOK
<1>1. Init => TypeOK
  BY InitType
<1>2. TypeOK /\ [Next]_vars => TypeOK'
  BY StepType
<1> QED BY <1>1, <1>2, PTL DEF Spec

-----------------------------------------------------------------------------
(* The version is honest, and "ok" is earned *)

\* What the version in the table stands for (VersionIsHonest, with the range of
\* a version spelled out).
Honest ==
  /\ \A v \in recorded : \A u \in Versions : u <= v => u \in recorded
  /\ \A v \in recorded : \A k \in 1 .. Len(Statements[v]) : <<v, k>> \in ran

\* What an instance knows of the database: the versions below its next one are
\* recorded, the statements before its next one have succeeded.
Knows(i) ==
  /\ pc[i] \in Behind => \A u \in Versions : u < cur[i] => u \in recorded
  /\ pc[i] = "run" =>
       \A k \in 1 .. Len(Statements[cur[i]]) : k < pos[i] => <<cur[i], k>> \in ran
  /\ pc[i] = "record" => \A k \in 1 .. Len(Statements[cur[i]]) : <<cur[i], k>> \in ran
  /\ pc[i] = "finish" \/ cached[i] => Expected[i] \in recorded

\* What the command knows, as long as none of its statements has failed.
Before(x) == x[1] < cli.v \/ (x[1] = cli.v /\ x[2] < cli.k)
CliKnows ==
  /\ cli.at # "idle" => Versions \subseteq recorded \cup cli.pending
  /\ cli.at = "run" /\ ~cli.errors => \A x \in Script : Before(x) => x \in ran
  /\ cli.at = "record" /\ ~cli.errors => Script \subseteq ran

HonestInv == Honest /\ CliKnows /\ \A i \in Instances : Knows(i)

LEMMA HonestIsHonest == recorded \subseteq Versions /\ Honest => VersionIsHonest
BY DEF Honest, VersionIsHonest, Versions

LEMMA HonestInit == Init => HonestInv
BY DEF Init, HonestInv, Honest, CliKnows, Knows, NoCli, Behind

\* Nothing is ever taken back: neither a version nor what a statement did.
LEMMA Grows ==
  ASSUME TypeOK, [Next]_vars PROVE recorded \subseteq recorded' /\ ran \subseteq ran'
<1>1. ASSUME NEW i \in Instances, Serve(i) \/ CacheExpires(i) \/ Abort(i)
      PROVE  recorded \subseteq recorded' /\ ran \subseteq ran'
  <2>1. CASE RunStatement(i) \/ StatementFails(i)
    BY <2>1 DEF RunStatement, StatementFails, Succeeds, Fails
  <2>2. CASE Record(i) \/ RecordFails(i)
    BY <2>2 DEF Record, RecordFails
  <2>3. CASE Request(i) \/ Pending(i) \/ CheckLock(i) \/ TruncateLock(i)
             \/ InsertLock(i) \/ Recheck(i) \/ FinalLook(i) \/ Release(i)
             \/ CacheExpires(i) \/ Abort(i)
    BY <2>3 DEF Request, Pending, CheckLock, TruncateLock, InsertLock, Recheck,
                FinalLook, Release, CacheExpires, Abort, db
  <2> QED BY <1>1, <2>1, <2>2, <2>3 DEF Serve
<1>2. CASE CliStart \/ CliStatement \/ CliRecord \/ CliAborts
  BY <1>2 DEF CliStart, CliStatement, CliRecord, CliAborts, Succeeds, Fails, db
<1>3. CASE \/ \E c \in Written : WriteComment(c)
           \/ \E t \in {"stats", "summary"} : Lands(t)
           \/ LockExpires \/ Settle \/ UNCHANGED vars
  BY <1>3 DEF WriteComment, Lands, LockExpires, Settle, vars, db
<1> QED BY <1>1, <1>2, <1>3 DEF Next

\* Knowledge is kept by steps of others.
LEMMA StillKnows ==
  ASSUME NEW i \in Instances, Knows(i), recorded \subseteq recorded', ran \subseteq ran',
         pc'[i] = pc[i], cur'[i] = cur[i], pos'[i] = pos[i], cached'[i] = cached[i]
  PROVE  Knows(i)'
BY DEF Knows

LEMMA CliStillKnows ==
  ASSUME CliKnows, recorded \subseteq recorded', ran \subseteq ran', UNCHANGED cli
  PROVE  CliKnows'
<1>1. \A x : Before(x)' <=> Before(x)
  BY DEF Before
<1> QED BY <1>1 DEF CliKnows

\* A statement of the script is one the database stays honest about.
LEMMA StillHonest ==
  ASSUME Honest, UNCHANGED recorded, ran \subseteq ran' PROVE Honest'
BY DEF Honest

\* A version read that is at least the one asked for has that one recorded.
LEMMA ReadHonest ==
  ASSUME TypeOK, Honest, NEW v \in ReadVersions, NEW u \in Versions, u <= v
  PROVE  u \in recorded
<1>1. v \in 0 .. 4 /\ (v # 0 => v \in recorded)
  BY ReadType DEF TypeOK
<1>2. v # 0
  BY <1>1 DEF Versions
<1> QED BY <1>1, <1>2 DEF Honest

\* The steps of one instance that leave the database alone.
LEMMA LookKnows ==
  ASSUME TypeOK, HonestInv, NEW i \in Instances,
         Request(i) \/ Pending(i) \/ Recheck(i) \/ FinalLook(i) \/ CheckLock(i)
         \/ TruncateLock(i) \/ InsertLock(i) \/ Release(i) \/ CacheExpires(i) \/ Abort(i)
  PROVE  Knows(i)'
<1>1. /\ pc \in [Instances -> Stations] /\ cur \in [Instances -> 0 .. 4]
      /\ pos \in [Instances -> 0 .. 8] /\ cached \in [Instances -> BOOLEAN]
      /\ Knows(i) /\ Honest /\ Expected[i] \in Versions
  BY MigrationAssumption DEF TypeOK, HonestInv
<1>2. UNCHANGED <<recorded, ran>>
  BY DEF Request, Pending, Recheck, FinalLook, CheckLock, TruncateLock, InsertLock,
         Release, CacheExpires, Abort, db
<1>3. ASSUME NEW ok \in BOOLEAN, Return(i, ok), ok => Expected[i] \in recorded
      PROVE  Knows(i)'
  <2>1. pc'[i] = "idle" /\ cached'[i] = ok
    BY <1>1, <1>3 DEF Return, Goto
  <2> QED BY <1>2, <1>3, <2>1 DEF Knows, Behind
<1>4. ASSUME NEW v \in ReadVersions, v >= Expected[i] PROVE Expected[i] \in recorded
  <2>1. v \in 0 .. 4
    BY ReadType DEF TypeOK
  <2>2. Expected[i] <= v
    BY <1>1, <1>4, <2>1 DEF Versions
  <2> QED BY <1>1, <2>2, ReadHonest
<1>5. CASE Request(i)
  <2>1. PICK v \in ReadVersions :
          IF v >= Expected[i] THEN Return(i, v = Expected[i])
          ELSE Goto(i, "pending") /\ UNCHANGED <<cur, pos, attempt, cached>>
    BY <1>5 DEF Request
  <2>2. CASE v >= Expected[i]
    <3>1. (v = Expected[i]) \in BOOLEAN
      OBVIOUS
    <3> QED BY <1>3, <1>4, <2>1, <2>2, <3>1
  <2>3. CASE ~(v >= Expected[i])
    <3>1. pc'[i] = "pending" /\ cached'[i] = cached[i]
      BY <1>1, <2>1, <2>3 DEF Goto
    <3> QED BY <1>1, <1>2, <3>1 DEF Knows, Behind
  <2> QED BY <2>2, <2>3
<1>6. CASE Pending(i)
  <2>1. PICK v \in ReadVersions :
          IF v >= Expected[i] THEN Return(i, TRUE)
          ELSE /\ Goto(i, "check") /\ cur' = [cur EXCEPT ![i] = v + 1]
               /\ UNCHANGED <<pos, attempt, cached>>
    BY <1>6 DEF Pending
  <2>2. CASE v >= Expected[i]
    BY <1>3, <1>4, <2>1, <2>2
  <2>3. CASE ~(v >= Expected[i])
    <3>1. pc'[i] = "check" /\ cur'[i] = v + 1 /\ cached'[i] = cached[i]
      BY <1>1, <2>1, <2>3 DEF Goto
    <3>2. v \in 0 .. 4
      BY ReadType DEF TypeOK
    <3>3. ASSUME NEW u \in Versions, u < v + 1 PROVE u \in recorded
      <4>1. u <= v
        BY <3>2, <3>3 DEF Versions
      <4> QED BY <1>1, <4>1, ReadHonest
    <3> QED BY <1>1, <1>2, <3>1, <3>3 DEF Knows
  <2> QED BY <2>2, <2>3
<1>7. CASE Recheck(i)
  <2>1. PICK v \in ReadVersions :
          IF v >= Expected[i] THEN Return(i, TRUE)
          ELSE /\ attempt' = [attempt EXCEPT ![i] = @ + 1]
               /\ Goto(i, IF attempt[i] + 1 < LockMaxRetries THEN "check" ELSE "final")
               /\ UNCHANGED <<cur, pos, cached>>
    BY <1>7 DEF Recheck
  <2>2. CASE v >= Expected[i]
    BY <1>3, <1>4, <2>1, <2>2
  <2>3. CASE ~(v >= Expected[i])
    <3>1. pc[i] = "recheck" /\ pc'[i] \in {"check", "final"}
          /\ cur'[i] = cur[i] /\ cached'[i] = cached[i]
      BY <1>1, <1>7, <2>1, <2>3 DEF Goto, Recheck
    <3> QED BY <1>1, <1>2, <3>1 DEF Knows, Behind
  <2> QED BY <2>2, <2>3
<1>8. CASE FinalLook(i)
  <2>1. PICK v \in ReadVersions : Return(i, v >= Expected[i])
    BY <1>8 DEF FinalLook
  <2>2. (v >= Expected[i]) \in BOOLEAN
    OBVIOUS
  <2> QED BY <1>3, <1>4, <2>1, <2>2
<1>9. CASE CheckLock(i) \/ TruncateLock(i)
  <2>1. pc[i] \in {"check", "truncate"} /\ pc'[i] \in {"recheck", "truncate", "insert"}
        /\ cur'[i] = cur[i] /\ cached'[i] = cached[i]
    BY <1>1, <1>9 DEF CheckLock, TruncateLock, Goto
  <2> QED BY <1>1, <1>2, <2>1 DEF Knows, Behind
<1>10. CASE InsertLock(i)
  <2>1. pc[i] = "insert" /\ pc'[i] = "run" /\ cur'[i] = cur[i] /\ pos'[i] = 1
        /\ cached'[i] = cached[i]
    BY <1>1, <1>10 DEF InsertLock, Goto
  <2>2. cur[i] \in Versions
    BY <2>1 DEF TypeOK, Behind
  <2>3. \A k \in 1 .. Len(Statements[cur[i]]) : ~(k < 1)
    BY <2>2, ScriptLength, ShortScript
  <2> QED BY <1>1, <1>2, <2>1, <2>3 DEF Knows, Behind
<1>11. CASE Release(i)
  <2>1. Return(i, pc[i] = "finish")
    BY <1>11 DEF Release
  <2>2. (pc[i] = "finish") \in BOOLEAN
    OBVIOUS
  <2>3. pc[i] = "finish" => Expected[i] \in recorded
    BY <1>1 DEF Knows
  <2> QED BY <1>3, <2>1, <2>2, <2>3
<1>12. CASE CacheExpires(i)
  <2>1. pc'[i] = "idle" /\ ~cached'[i]
    BY <1>1, <1>12 DEF CacheExpires
  <2> QED BY <2>1 DEF Knows, Behind
<1>13. CASE Abort(i)
  BY <1>3, <1>13 DEF Abort
<1> QED BY <1>5, <1>6, <1>7, <1>8, <1>9, <1>10, <1>11, <1>12, <1>13

\* The steps of one instance that change it.
LEMMA RunKnows ==
  ASSUME TypeOK, HonestInv, NEW i \in Instances, RunStatement(i) \/ StatementFails(i)
  PROVE  Knows(i)' /\ Honest'
<1>1. /\ pc \in [Instances -> Stations] /\ cur \in [Instances -> 0 .. 4]
      /\ pos \in [Instances -> 0 .. 8] /\ cached \in [Instances -> BOOLEAN]
      /\ Knows(i) /\ Honest /\ pc[i] = "run"
  BY DEF TypeOK, HonestInv, RunStatement, StatementFails
<1>2. cur[i] \in Versions /\ pos[i] \in 1 .. Len(Statements[cur[i]])
  BY <1>1, ScriptPairs DEF TypeOK
<1>3. Len(Statements[cur[i]]) \in 1 .. 8
  BY <1>2, ScriptLength
<1>4. CASE StatementFails(i)
  <2>1. pc'[i] = "release" /\ cached'[i] = cached[i] /\ UNCHANGED <<recorded, ran>>
    BY <1>1, <1>4 DEF StatementFails, Goto, Fails
  <2> QED BY <1>1, <2>1 DEF Knows, Behind, Honest
<1>5. CASE RunStatement(i)
  <2>1. UNCHANGED recorded /\ ran' = ran \cup {<<cur[i], pos[i]>>}
    BY <1>5 DEF RunStatement, Succeeds
  <2>2. Honest'
    BY <1>1, <2>1, StillHonest
  <2>3. \A k \in 1 .. Len(Statements[cur[i]]) : k < pos[i] => <<cur[i], k>> \in ran
    BY <1>1 DEF Knows
  <2>4. CASE pos[i] = Len(Statements[cur[i]])
    <3>1. pc'[i] = "record" /\ cur'[i] = cur[i] /\ cached'[i] = cached[i]
      BY <1>1, <1>5, <2>4 DEF RunStatement, AfterStatement, Goto
    <3>2. \A k \in 1 .. Len(Statements[cur[i]]) : k < pos[i] \/ k = pos[i]
      BY <1>3, <2>4
    <3>3. \A k \in 1 .. Len(Statements[cur[i]]) : <<cur[i], k>> \in ran'
      BY <2>1, <2>3, <3>2
    <3> QED BY <1>1, <2>1, <2>2, <3>1, <3>3 DEF Knows, Behind
  <2>5. CASE pos[i] # Len(Statements[cur[i]])
    <3>1. pc'[i] = "run" /\ cur'[i] = cur[i] /\ pos'[i] = pos[i] + 1 /\ cached'[i] = cached[i]
      BY <1>1, <1>5, <2>5 DEF RunStatement, AfterStatement
    <3>2. \A k \in 1 .. Len(Statements[cur[i]]) :
            k < pos[i] + 1 => k < pos[i] \/ k = pos[i]
      BY <1>2, <1>3
    <3>3. \A k \in 1 .. Len(Statements[cur[i]]) :
            k < pos[i] + 1 => <<cur[i], k>> \in ran'
      BY <2>1, <2>3, <3>2
    <3> QED BY <1>1, <2>1, <2>2, <3>1, <3>3 DEF Knows, Behind
  <2> QED BY <2>4, <2>5
<1> QED BY <1>4, <1>5

LEMMA RecordKnows ==
  ASSUME TypeOK, HonestInv, NEW i \in Instances, Record(i) \/ RecordFails(i)
  PROVE  Knows(i)' /\ Honest'
<1>1. /\ pc \in [Instances -> Stations] /\ cur \in [Instances -> 0 .. 4]
      /\ pos \in [Instances -> 0 .. 8] /\ cached \in [Instances -> BOOLEAN]
      /\ Knows(i) /\ Honest /\ pc[i] = "record" /\ cur[i] \in Versions
      /\ recorded \subseteq Versions
  BY DEF TypeOK, HonestInv, Record, RecordFails, Behind
<1>2. /\ \A u \in Versions : u < cur[i] => u \in recorded
      /\ \A k \in 1 .. Len(Statements[cur[i]]) : <<cur[i], k>> \in ran
  BY <1>1 DEF Knows, Behind
<1>3. UNCHANGED ran /\ recorded' \in {recorded, recorded \cup {cur[i]}}
  BY DEF Record, RecordFails
<1>4. ASSUME NEW v \in recorded', NEW u \in Versions, u <= v PROVE u \in recorded'
  <2>1. CASE v \in recorded
    BY <1>1, <1>3, <1>4, <2>1 DEF Honest
  <2>2. CASE v \notin recorded
    <3>1. v = cur[i] /\ v \in recorded'
      BY <1>3, <1>4, <2>2
    <3>2. u < cur[i] \/ u = cur[i]
      BY <1>1, <1>4, <3>1 DEF Versions
    <3> QED BY <1>2, <1>3, <3>1, <3>2
  <2> QED BY <2>1, <2>2
<1>5. Honest'
  BY <1>1, <1>2, <1>3, <1>4 DEF Honest
<1>6. CASE RecordFails(i)
  <2>1. pc'[i] = "release" /\ cached'[i] = cached[i]
    BY <1>1, <1>6 DEF RecordFails, Goto
  <2> QED BY <1>1, <1>3, <1>5, <2>1 DEF Knows, Behind
<1>7. CASE Record(i) /\ cur[i] = Expected[i]
  <2>1. pc'[i] = "finish" /\ Expected[i] \in recorded'
    BY <1>1, <1>7 DEF Record, Goto
  <2> QED BY <1>5, <2>1 DEF Knows, Behind
<1>8. CASE Record(i) /\ cur[i] # Expected[i]
  <2>1. /\ pc'[i] = "run" /\ cur'[i] = cur[i] + 1 /\ pos'[i] = 1
        /\ cached'[i] = cached[i] /\ recorded' = recorded \cup {cur[i]}
    BY <1>1, <1>8 DEF Record, Goto
  <2>2. \A u \in Versions : u < cur[i] + 1 => u < cur[i] \/ u = cur[i]
    BY <1>1 DEF Versions
  <2>3. \A u \in Versions : u < cur'[i] => u \in recorded'
    BY <1>2, <2>1, <2>2
  <2>4. cur'[i] \in Versions
    <3>1. Expected[i] \in Versions /\ cur[i] <= Expected[i]
      BY MigrationAssumption DEF TypeOK
    <3> QED BY <1>1, <1>8, <2>1, <3>1 DEF Versions
  <2>5. \A k \in 1 .. Len(Statements[cur'[i]]) : ~(k < 1)
    BY <2>4, ScriptLength, ShortScript
  <2> QED BY <1>1, <1>5, <2>1, <2>3, <2>5 DEF Knows
<1> QED BY <1>6, <1>7, <1>8

LEMMA ServeHonest ==
  ASSUME TypeOK, HonestInv, NEW i \in Instances, Serve(i) \/ CacheExpires(i) \/ Abort(i)
  PROVE  HonestInv'
<1>1. recorded \subseteq recorded' /\ ran \subseteq ran'
  BY Grows DEF Next
<1>2. Knows(i)' /\ Honest'
  <2>1. CASE RunStatement(i) \/ StatementFails(i)
    BY <2>1, RunKnows
  <2>2. CASE Record(i) \/ RecordFails(i)
    BY <2>2, RecordKnows
  <2>3. CASE Request(i) \/ Pending(i) \/ Recheck(i) \/ FinalLook(i) \/ CheckLock(i)
             \/ TruncateLock(i) \/ InsertLock(i) \/ Release(i) \/ CacheExpires(i) \/ Abort(i)
    <3>1. UNCHANGED <<recorded, ran>>
      BY <2>3 DEF Request, Pending, Recheck, FinalLook, CheckLock, TruncateLock,
                  InsertLock, Release, CacheExpires, Abort, db
    <3> QED BY <2>3, <3>1, LookKnows, StillHonest DEF HonestInv
  <2> QED BY <2>1, <2>2, <2>3 DEF Serve
<1>3. UNCHANGED cli
  BY DEF Serve, Request, Pending, Recheck, FinalLook, CheckLock, TruncateLock, InsertLock,
         RunStatement, StatementFails, Record, RecordFails, Release, CacheExpires, Abort
<1>4. ASSUME NEW j \in Instances, j # i
      PROVE  pc'[j] = pc[j] /\ cur'[j] = cur[j] /\ pos'[j] = pos[j] /\ cached'[j] = cached[j]
  <2>1. /\ pc \in [Instances -> Stations] /\ cur \in [Instances -> 0 .. 4]
        /\ pos \in [Instances -> 0 .. 8] /\ cached \in [Instances -> BOOLEAN]
    BY DEF TypeOK
  <2> QED BY <1>4, <2>1 DEF Serve, Request, Pending, Recheck, FinalLook, CheckLock,
         TruncateLock, InsertLock, RunStatement, StatementFails, AfterStatement, Record,
         RecordFails, Release, CacheExpires, Abort, Return, Goto
<1>5. CliKnows'
  BY <1>1, <1>3, CliStillKnows DEF HonestInv
<1>6. ASSUME NEW j \in Instances PROVE Knows(j)'
  BY <1>1, <1>2, <1>4, StillKnows DEF HonestInv
<1> QED BY <1>2, <1>5, <1>6 DEF HonestInv

\* The command's next statement, and what it knows after it.
LEMMA CliStatementKnows ==
  ASSUME TypeOK, HonestInv, CliStatement PROVE CliKnows' /\ Honest'
<1>1. /\ cli \in [at : {"idle", "run", "record"}, v : 0 .. 4, k : 0 .. 8,
                  errors : BOOLEAN, pending : SUBSET Versions]
      /\ CliKnows /\ Honest /\ cli.at = "run"
      /\ cli.v \in Versions /\ cli.k \in 1 .. Len(Statements[cli.v])
  BY ScriptPairs DEF TypeOK, HonestInv, CliStatement
<1>2. Len(Statements[cli.v]) \in 1 .. 8
  BY <1>1, ScriptLength
<1>3. PICK failed \in BOOLEAN :
        /\ CliAdvance(failed) /\ UNCHANGED recorded
        /\ ran \subseteq ran'
        /\ ~failed => <<cli.v, cli.k>> \in ran'
  BY DEF CliStatement, Succeeds, Fails
<1>4. Honest'
  BY <1>1, <1>3, StillHonest
<1>5. (cli.errors \/ failed) \in BOOLEAN
  BY <1>1
<1>6. /\ Versions \subseteq recorded \cup cli.pending
      /\ ~cli.errors => \A x \in Script : Before(x) => x \in ran
  BY <1>1 DEF CliKnows
<1>7. ASSUME ~(cli.errors \/ failed), NEW x \in Script,
             Before(x) \/ (x[1] = cli.v /\ x[2] = cli.k)
      PROVE  x \in ran'
  <2>1. CASE Before(x)
    BY <1>3, <1>6, <1>7, <2>1
  <2>2. CASE x[1] = cli.v /\ x[2] = cli.k
    <3>1. x = <<x[1], x[2]>>
      BY DEF Script
    <3> QED BY <1>3, <1>7, <2>2, <3>1
  <2> QED BY <1>7, <2>1, <2>2
<1>8. \A x \in Script : x[1] \in Versions /\ x[2] \in 1 .. Len(Statements[x[1]])
  <2>1. ASSUME NEW x \in Script PROVE x = <<x[1], x[2]>>
    BY DEF Script
  <2> QED BY <2>1, ScriptPairs
<1>9. CASE cli.k < Len(Statements[cli.v])
  <2>1. cli' = [cli EXCEPT !.k = cli.k + 1, !.errors = cli.errors \/ failed]
    BY <1>3, <1>9 DEF CliAdvance
  <2>2. /\ cli'.at = "run" /\ cli'.v = cli.v /\ cli'.k = cli.k + 1
        /\ cli'.errors = (cli.errors \/ failed) /\ cli'.pending = cli.pending
    BY <1>1, <2>1
  <2>3. ASSUME NEW x \in Script, Before(x)'
        PROVE  Before(x) \/ (x[1] = cli.v /\ x[2] = cli.k)
    <3>1. x[1] < cli.v \/ (x[1] = cli.v /\ x[2] < cli.k + 1)
      BY <2>2, <2>3 DEF Before
    <3>2. CASE x[1] = cli.v /\ x[2] < cli.k + 1
      <4>1. x[2] \in 1 .. Len(Statements[cli.v])
        BY <1>8, <3>2
      <4>2. x[2] < cli.k \/ x[2] = cli.k
        BY <1>1, <1>2, <3>2, <4>1
      <4> QED BY <3>2, <4>2 DEF Before
    <3> QED BY <3>1, <3>2 DEF Before
  <2> QED BY <1>3, <1>4, <1>6, <1>7, <2>2, <2>3 DEF CliKnows
<1>10. CASE ~(cli.k < Len(Statements[cli.v]))
  <2>1. cli.k = Len(Statements[cli.v])
    BY <1>1, <1>2, <1>10
  <2>2. ASSUME NEW x \in Script, x[1] <= cli.v
        PROVE  Before(x) \/ (x[1] = cli.v /\ x[2] = cli.k)
    <3>1. CASE x[1] = cli.v
      <4>1. x[2] \in 1 .. Len(Statements[cli.v])
        BY <1>8, <3>1
      <4>2. x[2] < cli.k \/ x[2] = cli.k
        BY <1>2, <2>1, <4>1
      <4> QED BY <3>1, <4>2 DEF Before
    <3>2. CASE x[1] # cli.v
      <4>1. x[1] \in Versions
        BY <1>8
      <4>2. x[1] < cli.v
        BY <1>1, <2>2, <3>2, <4>1 DEF Versions
      <4> QED BY <4>2 DEF Before
    <3> QED BY <3>1, <3>2
  <2>3. CASE cli.v < 4
    <3>1. cli' = [cli EXCEPT !.v = cli.v + 1, !.k = 1, !.errors = cli.errors \/ failed]
      BY <1>3, <1>10, <2>3 DEF CliAdvance
    <3>2. /\ cli'.at = "run" /\ cli'.v = cli.v + 1 /\ cli'.k = 1
          /\ cli'.errors = (cli.errors \/ failed) /\ cli'.pending = cli.pending
      BY <1>1, <3>1
    <3>3. ASSUME NEW x \in Script, Before(x)' PROVE x[1] <= cli.v
      <4>1. x[1] < cli.v + 1 \/ (x[1] = cli.v + 1 /\ x[2] < 1)
        BY <3>2, <3>3 DEF Before
      <4>2. x[1] \in Versions /\ x[2] \in 1 .. Len(Statements[x[1]])
        BY <1>8
      <4>3. ~(x[2] < 1)
        BY <4>2, ScriptLength, ShortScript
      <4> QED BY <1>1, <4>1, <4>2, <4>3 DEF Versions
    <3> QED BY <1>3, <1>4, <1>6, <1>7, <2>2, <3>2, <3>3 DEF CliKnows
  <2>4. CASE ~(cli.v < 4)
    <3>1. cli' = [cli EXCEPT !.at = "record", !.errors = cli.errors \/ failed]
      BY <1>3, <1>10, <2>4 DEF CliAdvance
    <3>2. /\ cli'.at = "record" /\ cli'.errors = (cli.errors \/ failed)
          /\ cli'.pending = cli.pending
      BY <1>1, <3>1
    <3>3. \A x \in Script : x[1] <= cli.v
      BY <1>1, <1>8, <2>4 DEF Versions
    <3> QED BY <1>3, <1>4, <1>6, <1>7, <2>2, <3>2, <3>3 DEF CliKnows
  <2> QED BY <2>3, <2>4
<1> QED BY <1>9, <1>10

LEMMA CliHonest ==
  ASSUME TypeOK, HonestInv, CliStart \/ CliStatement \/ CliRecord \/ CliAborts
  PROVE  CliKnows' /\ Honest'
<1>1. CliKnows /\ Honest /\ recorded \subseteq Versions
      /\ cli.pending \subseteq Versions /\ cli.errors \in BOOLEAN
  BY DEF HonestInv, TypeOK
<1>2. CASE CliStart
  <2>1. UNCHANGED <<recorded, ran>>
    BY <1>2 DEF CliStart, db
  <2>2. /\ cli'.at = "run" /\ cli'.v = 1 /\ cli'.k = 1 /\ ~cli'.errors
        /\ cli'.pending = Versions \ recorded
    BY <1>2 DEF CliStart
  <2>3. ASSUME NEW x \in Script PROVE ~Before(x)'
    <3>1. x = <<x[1], x[2]>> /\ x[1] \in Versions /\ x[2] \in 1 .. 8
      BY DEF Script
    <3> QED BY <2>2, <3>1 DEF Before, Versions
  <2> QED BY <1>1, <2>1, <2>2, <2>3, StillHonest DEF CliKnows
<1>3. CASE CliStatement
  BY <1>3, CliStatementKnows
<1>4. CASE CliRecord
  <2>1. cli.at = "record" /\ cli' = NoCli /\ UNCHANGED ran
        /\ recorded' = IF cli.errors THEN recorded ELSE recorded \cup cli.pending
    BY <1>4 DEF CliRecord
  <2>2. CliKnows'
    BY <2>1 DEF CliKnows, NoCli
  <2>3. CASE cli.errors
    BY <1>1, <2>1, <2>2, <2>3, StillHonest
  <2>4. CASE ~cli.errors
    <3>1. recorded' = Versions /\ Script \subseteq ran'
      BY <1>1, <2>1, <2>4 DEF CliKnows
    <3> QED BY <2>2, <3>1, ScriptPairs DEF Honest
  <2> QED BY <2>3, <2>4
<1>5. CASE CliAborts
  <2>1. cli' = NoCli /\ UNCHANGED <<recorded, ran>>
    BY <1>5 DEF CliAborts, db
  <2> QED BY <1>1, <2>1, StillHonest DEF CliKnows, NoCli
<1> QED BY <1>2, <1>3, <1>4, <1>5

LEMMA StepHonest == TypeOK /\ HonestInv /\ [Next]_vars => HonestInv'
<1> SUFFICES ASSUME TypeOK, HonestInv, [Next]_vars PROVE HonestInv'
  OBVIOUS
<1>1. recorded \subseteq recorded' /\ ran \subseteq ran'
  BY Grows
<1>2. ASSUME UNCHANGED app, NEW i \in Instances PROVE Knows(i)'
  BY <1>1, <1>2, StillKnows DEF app, HonestInv
<1>3. CASE CliStart \/ CliStatement \/ CliRecord \/ CliAborts
  <2>1. UNCHANGED app
    BY <1>3 DEF CliStart, CliStatement, CliRecord, CliAborts
  <2> QED BY <1>2, <1>3, <2>1, CliHonest DEF HonestInv
<1>4. CASE \/ \E c \in Written : WriteComment(c)
           \/ \E t \in {"stats", "summary"} : Lands(t)
           \/ LockExpires \/ Settle \/ UNCHANGED vars
  <2>1. UNCHANGED app /\ UNCHANGED <<recorded, ran, cli>>
    BY <1>4 DEF WriteComment, Lands, LockExpires, Settle, vars, app, db
  <2> QED BY <1>1, <1>2, <2>1, StillHonest, CliStillKnows DEF HonestInv
<1> QED BY <1>3, <1>4, ServeHonest DEF Next

\* The version in schema_migrations is honest, for any number of instances of any
\* versions, next to the pipeline's migrate command, whatever fails: the lock is
\* not what this rests on (runMigrations, cmdMigrate).
THEOREM VersionHonest == Spec => []VersionIsHonest
<1>1. Init => HonestInv
  BY HonestInit
<1>2. TypeOK /\ HonestInv /\ [Next]_vars => HonestInv'
  BY StepHonest
<1>3. TypeOK /\ HonestInv => VersionIsHonest
  BY HonestIsHonest DEF TypeOK, HonestInv
<1> QED BY <1>1, <1>2, <1>3, MigrationsTypeCorrect, PTL DEF Spec

\* Pages are served on a cached "ok" only from a database that is up to the
\* version the instance was built for (getSchemaStatus).
THEOREM OkEarned == Spec => []OkIsEarned
<1>1. Init => HonestInv
  BY HonestInit
<1>2. TypeOK /\ HonestInv /\ [Next]_vars => HonestInv'
  BY StepHonest
<1>3. HonestInv => OkIsEarned
  BY DEF HonestInv, Knows, OkIsEarned
<1> QED BY <1>1, <1>2, <1>3, MigrationsTypeCorrect, PTL DEF Spec

-----------------------------------------------------------------------------
(* One migrator: no row is lost, none is counted twice *)

OneMigrator == ~WithCli /\ \A i, j \in Instances : i = j

\* Where the statements that matter stand in the script.
LEMMA ScriptSays ==
  ASSUME NEW v, NEW k, <<v, k>> \in Script
  PROVE  /\ Statements[v][k] = "swap" <=> v = 3 /\ k = 6
         /\ Statements[v][k] = "copy" <=> v = 3 /\ k = 5
         /\ Statements[v][k] = "truncate_stats" <=> v = 2 /\ k = 3
         /\ Statements[v][k] \in Fills <=> (v = 1 /\ k = 2) \/ (v = 2 /\ k = 4)
         /\ Statements[v][k] = "truncate_summary" <=> v = 4 /\ k = 2
         /\ Statements[v][k] = "fill_summary" <=> v = 4 /\ k = 3
         /\ k = Len(Statements[v]) <=>
              (v = 1 /\ k = 3) \/ (v = 2 /\ k = 5) \/ (v = 3 /\ k = 8) \/ (v = 4 /\ k = 3)
<1>1. v \in Versions /\ k \in 1 .. Len(Statements[v])
  BY ScriptPairs
<1>2. CASE v = 1
  <2>1. Statements[1] = << "create", "fill_stats", "create_stats_view" >>
    BY DEF Statements
  <2>2. k \in {1, 2, 3}
    BY <1>1, <1>2, <2>1
  <2> QED BY <1>2, <2>1, <2>2 DEF Fills
<1>3. CASE v = 2
  <2>1. Statements[2] = << "drop_stats_view", "add_column", "truncate_stats",
                           "fill_stats", "create_stats_view" >>
    BY DEF Statements
  <2>2. k \in {1, 2, 3, 4, 5}
    BY <1>1, <1>3, <2>1
  <2> QED BY <1>3, <2>1, <2>2 DEF Fills
<1>4. CASE v = 3
  <2>1. Statements[3] = << "drop_old", "drop_new", "drop_stats_view", "create_new",
                           "copy", "swap", "drop_swapped", "create_stats_view" >>
    BY DEF Statements
  <2>2. k \in {1, 2, 3, 4, 5, 6, 7, 8}
    BY <1>1, <1>4, <2>1
  <2> QED BY <1>4, <2>1, <2>2 DEF Fills
<1>5. CASE v = 4
  <2>1. Statements[4] = << "create_summary_view", "truncate_summary", "fill_summary" >>
    BY DEF Statements
  <2>2. k \in {1, 2, 3}
    BY <1>1, <1>5, <2>1
  <2> QED BY <1>5, <2>1, <2>2 DEF Fills
<1> QED BY <1>1, <1>2, <1>3, <1>4, <1>5 DEF Versions

\* The rows that may not be lost, and the strengthening that is inductive: when
\* the swap is next, the new table has them all.
Kept == Stored \cup (written \ late)
SwapReady(i) == pc[i] = "run" /\ cur[i] = 3 /\ pos[i] = 6
KeptInv ==
  /\ cli.at = "idle" /\ DataKept
  /\ \A i \in Instances : SwapReady(i) => "new" \in exists /\ Kept \subseteq rows["new"]

\* An instance gets to the swap by a copy that succeeded only.
LEMMA ToSwap ==
  ASSUME TypeOK, NEW i \in Instances, Serve(i) \/ CacheExpires(i) \/ Abort(i), SwapReady(i)'
  PROVE  RunStatement(i) /\ cur[i] = 3 /\ pos[i] = 5
<1>1. /\ pc \in [Instances -> Stations] /\ cur \in [Instances -> 0 .. 4]
      /\ pos \in [Instances -> 0 .. 8]
  BY DEF TypeOK
<1>2. \A ok : ~Return(i, ok)
  BY <1>1 DEF SwapReady, Return, Goto
<1>3. pc'[i] = "run" /\ cur'[i] = 3 /\ pos'[i] = 6
  BY DEF SwapReady
<1>4. CASE Request(i) \/ FinalLook(i) \/ Release(i) \/ Abort(i)
  BY <1>1, <1>2, <1>3, <1>4 DEF Request, FinalLook, Release, Abort, Goto
<1>5. CASE Pending(i) \/ Recheck(i) \/ CheckLock(i) \/ TruncateLock(i)
  BY <1>1, <1>2, <1>3, <1>5 DEF Pending, Recheck, CheckLock, TruncateLock, Goto
<1>6. CASE InsertLock(i) \/ CacheExpires(i)
  BY <1>1, <1>3, <1>6 DEF InsertLock, CacheExpires, Goto
<1>7. CASE StatementFails(i) \/ Record(i) \/ RecordFails(i)
  BY <1>1, <1>3, <1>7 DEF StatementFails, Record, RecordFails, Goto
<1>8. CASE RunStatement(i)
  <2>1. pos'[i] = pos[i] + 1 /\ cur'[i] = cur[i]
    BY <1>1, <1>3, <1>8 DEF RunStatement, AfterStatement, Goto
  <2>2. pos[i] = 5
    BY <1>1, <1>3, <2>1
  <2> QED BY <1>3, <1>8, <2>1, <2>2
<1> QED BY <1>4, <1>5, <1>6, <1>7, <1>8 DEF Serve

\* A statement of the script keeps the rows, whether it succeeds or fails.
LEMMA StatementKeeps ==
  ASSUME TypeOK, KeptInv, NEW i \in Instances, RunStatement(i) \/ StatementFails(i)
  PROVE  DataKept'
<1> DEFINE s == Statements[cur[i]][pos[i]]
<1>1. rows \in [Names -> SUBSET (Stored \cup Written)] /\ Kept \subseteq rows["main"]
  BY DEF TypeOK, KeptInv, DataKept, Kept
<1>2. UNCHANGED <<written, late>>
  BY DEF RunStatement, StatementFails, Succeeds, Fails
<1>3. s = "swap" => SwapReady(i)
  <2>1. pc[i] = "run" /\ <<cur[i], pos[i]>> \in Script
    BY DEF RunStatement, StatementFails, TypeOK
  <2> QED BY <2>1, ScriptSays DEF SwapReady
<1>4. ASSUME rows' = RowsAfter(s) PROVE Kept \subseteq rows'["main"]
  <2>1. CASE s = "swap"
    BY <1>3, <1>4, <2>1 DEF RowsAfter, KeptInv
  <2>2. CASE s # "swap"
    BY <1>1, <1>4, <2>2 DEF RowsAfter, Names
  <2> QED BY <2>1, <2>2
<1>5. CASE UNCHANGED rows
  BY <1>1, <1>2, <1>5 DEF DataKept, Kept
<1>6. CASE \E part : rows' = [rows EXCEPT !["new"] = @ \cup part]
  BY <1>1, <1>2, <1>6 DEF DataKept, Kept, Names
<1>7. CASE Execute(s)
  BY <1>2, <1>4, <1>7 DEF Execute, DataKept, Kept
<1> QED BY <1>5, <1>6, <1>7 DEF RunStatement, StatementFails, Succeeds, Fails

LEMMA StepKept == OneMigrator /\ TypeOK /\ KeptInv /\ [Next]_vars => KeptInv'
<1> SUFFICES ASSUME OneMigrator, TypeOK, KeptInv, [Next]_vars PROVE KeptInv'
  OBVIOUS
<1>1. ASSUME NEW i \in Instances, Serve(i) \/ CacheExpires(i) \/ Abort(i) PROVE KeptInv'
  <2>1. UNCHANGED cli
    BY <1>1 DEF Serve, Request, Pending, CheckLock, TruncateLock, InsertLock, Recheck,
       FinalLook, RunStatement, StatementFails, Record, RecordFails, Release,
       CacheExpires, Abort
  <2>2. DataKept'
    <3>1. CASE RunStatement(i) \/ StatementFails(i)
      BY <3>1, StatementKeeps
    <3>2. CASE UNCHANGED <<rows, written, late>>
      BY <3>2 DEF KeptInv, DataKept
    <3> QED BY <1>1, <3>1, <3>2 DEF Serve, Request, Pending, CheckLock, TruncateLock,
            InsertLock, Recheck, FinalLook, Record, RecordFails, Release, CacheExpires,
            Abort, db
  <2>3. ASSUME NEW j \in Instances, SwapReady(j)'
        PROVE  ("new" \in exists /\ Kept \subseteq rows["new"])'
    <3>1. j = i
      BY DEF OneMigrator
    <3>2. RunStatement(i) /\ cur[i] = 3 /\ pos[i] = 5
      BY <1>1, <2>3, <3>1, ToSwap
    <3>3. Statements[3][5] = "copy"
      BY DEF Statements
    <3>4. Legal("copy") /\ Execute("copy") /\ UNCHANGED <<written, late>>
      BY <3>2, <3>3 DEF RunStatement, Succeeds
    <3>5. "new" \in exists' /\ rows' = [rows EXCEPT !["new"] = @ \cup rows["main"]]
      BY <3>4 DEF Legal, Execute, TablesAfter, RowsAfter
    <3>6. rows["main"] \subseteq rows'["new"]
      BY <3>5 DEF TypeOK, Names
    <3> QED BY <3>4, <3>5, <3>6 DEF KeptInv, DataKept, Kept
  <2> QED BY <2>1, <2>2, <2>3 DEF KeptInv
<1>2. CASE CliStart \/ CliStatement \/ CliRecord \/ CliAborts
  BY <1>2 DEF CliStart, CliStatement, CliRecord, CliAborts, OneMigrator, KeptInv
<1>3. ASSUME NEW c \in Written, WriteComment(c) PROVE KeptInv'
  <2>1. /\ rows' = [rows EXCEPT !["main"] = @ \cup {c}] /\ written' = written \cup {c}
        /\ late' = IF "new" \in exists THEN late \cup {c} ELSE late
        /\ UNCHANGED <<exists, cli, pc, cur, pos>>
    BY <1>3 DEF WriteComment, app
  <2>2. rows'["main"] = rows["main"] \cup {c} /\ rows'["new"] = rows["new"]
    BY <2>1 DEF TypeOK, Names
  <2>3. Kept' \subseteq Kept \cup {c} /\ ("new" \in exists => Kept' \subseteq Kept)
    BY <2>1 DEF Kept
  <2>4. DataKept'
    BY <2>2, <2>3 DEF KeptInv, DataKept, Kept
  <2>5. \A i \in Instances : SwapReady(i)' => SwapReady(i)
    BY <2>1 DEF SwapReady
  <2>6. ASSUME NEW i \in Instances, SwapReady(i)'
        PROVE  "new" \in exists' /\ Kept' \subseteq rows'["new"]
    BY <2>1, <2>2, <2>3, <2>5, <2>6 DEF KeptInv
  <2> QED BY <2>1, <2>4, <2>6 DEF KeptInv
<1>4. CASE \/ \E t \in {"stats", "summary"} : Lands(t)
           \/ LockExpires \/ Settle \/ UNCHANGED vars
  <2>1. UNCHANGED <<rows, written, late, exists, cli, pc, cur, pos>>
    BY <1>4 DEF Lands, LockExpires, Settle, vars, db, app
  <2> QED BY <2>1 DEF KeptInv, DataKept, Kept, SwapReady
<1> QED BY <1>1, <1>2, <1>3, <1>4 DEF Next

\* A migrator that is alone loses no comment row but those written during its
\* copy, wherever a statement fails or the container is killed (migration 15).
THEOREM AloneKeepsData == ASSUME OneMigrator PROVE Spec => []DataKept
<1>1. Init => KeptInv
  BY DEF Init, KeptInv, DataKept, Kept, SwapReady, NoCli
<1>2. TypeOK /\ KeptInv /\ [Next]_vars => KeptInv'
  BY StepKept
<1>3. KeptInv => DataKept
  BY DEF KeptInv
<1> QED BY <1>1, <1>2, <1>3, MigrationsTypeCorrect, PTL DEF Spec

\* A row of table t is counted at most n times, also when every fill that goes on
\* at the server has landed; unless one ran already at the last TRUNCATE.
AtMost(t, n) == counted[t] + adrift[t] <= n \/ t \in outlived

\* What the migrator knows of the counts: a table about to be filled is empty,
\* and once version 2 is recorded it is past the statements that fill
\* comment_stats_weekly, unless it was told that the version is 0.
CountKnown(i) ==
  /\ pc[i] = "run" /\ cur[i] = 4 /\ pos[i] = 3 => AtMost("summary", 0)
  /\ pc[i] = "run" /\ cur[i] = 2 /\ pos[i] = 4 => AtMost("stats", 0)
  /\ pc[i] = "run" /\ cur[i] = 2 /\ pos[i] = 5 => AtMost("stats", 1)
  /\ pc[i] = "record" /\ cur[i] = 2 => AtMost("stats", 1)
  /\ pc[i] \in Behind /\ 2 \in recorded /\ ~misread => cur[i] >= 3

CountedOnce == AtMost("summary", 1) /\ (2 \in recorded /\ ~misread => AtMost("stats", 1))
CountInv == cli.at = "idle" /\ CountedOnce /\ \A i \in Instances : CountKnown(i)

LEMMA CountsOf ==
  ASSUME TypeOK, NEW s, counted' = CountsAfter(s)
  PROVE  /\ counted'.stats = IF s = "truncate_stats" THEN 0
                             ELSE IF s \in Fills THEN OnceMore(counted.stats)
                             ELSE counted.stats
         /\ counted'.summary = IF s = "truncate_summary" THEN 0
                               ELSE IF s = "fill_summary" THEN OnceMore(counted.summary)
                               ELSE counted.summary
<1>1. counted \in [stats : 0 .. 2, summary : 0 .. 2]
  BY DEF TypeOK
<1>2. CASE s = "truncate_stats"
  BY <1>1, <1>2 DEF CountsAfter, Fills
<1>3. CASE s \in Fills
  BY <1>1, <1>3 DEF CountsAfter, Fills
<1>4. CASE s = "truncate_summary"
  BY <1>1, <1>4 DEF CountsAfter, Fills
<1>5. CASE s = "fill_summary"
  BY <1>1, <1>5 DEF CountsAfter, Fills
<1>6. CASE s \notin Fills \cup {"truncate_stats", "truncate_summary", "fill_summary"}
  BY <1>1, <1>6 DEF CountsAfter
<1> QED BY <1>2, <1>3, <1>4, <1>5, <1>6

\* What a statement does to a bound on the counts, whether it succeeds, fails, is
\* applied although it fails, or goes on at the server.
Runs(s) ==
  \/ counted' = CountsAfter(s) /\ outlived' = OutlivedAfter(s) /\ UNCHANGED adrift
  \/ GoesOn(s) /\ UNCHANGED <<counted, outlived>>
  \/ UNCHANGED <<counted, adrift, outlived>>

Adds(s, t) == s \in Fills \cup {"fill_summary"} /\ FilledBy(s) = t

LEMMA CountsType ==
  ASSUME TypeOK
  PROVE  /\ counted.stats \in 0 .. 2 /\ counted.summary \in 0 .. 2
         /\ adrift.stats \in Nat /\ adrift.summary \in Nat
BY MigrationAssumption DEF TypeOK

LEMMA StatementDue ==
  ASSUME TypeOK, NEW s, NEW t \in {"stats", "summary"}, NEW n \in Nat, AtMost(t, n), Runs(s)
  PROVE  AtMost(t, n + 1)' /\ (~Adds(s, t) => AtMost(t, n)')
<1>1. counted[t] \in 0 .. 2 /\ adrift[t] \in Nat
  BY CountsType
<1>2. CASE counted' = CountsAfter(s) /\ outlived' = OutlivedAfter(s) /\ UNCHANGED adrift
  <2>1. /\ Truncates(s, t) => counted'[t] = 0
        /\ ~Truncates(s, t) => counted'[t] = IF Adds(s, t) THEN OnceMore(counted[t]) ELSE counted[t]
    BY <1>2, CountsOf DEF Truncates, Adds, FilledBy, Fills
  <2>2. t \in outlived' <=> IF Truncates(s, t) THEN adrift[t] > 0 ELSE t \in outlived
    BY <1>2 DEF OutlivedAfter
  <2>3. adrift'[t] = adrift[t]
    BY <1>2
  <2>4. CASE Truncates(s, t)
    BY <1>1, <2>1, <2>2, <2>3, <2>4 DEF AtMost
  <2>5. CASE ~Truncates(s, t)
    <3>1. counted'[t] <= counted[t] + 1 /\ (~Adds(s, t) => counted'[t] = counted[t])
          /\ counted'[t] \in 0 .. 2
      BY <1>1, <2>1, <2>5 DEF OnceMore
    <3>2. t \in outlived' <=> t \in outlived
      BY <2>2, <2>5
    <3> QED BY <1>1, <2>3, <3>1, <3>2 DEF AtMost
  <2> QED BY <2>4, <2>5
<1>3. CASE GoesOn(s) /\ UNCHANGED <<counted, outlived>>
  <2>1. adrift'[t] = IF Adds(s, t) THEN adrift[t] + 1 ELSE adrift[t]
    <3>1. adrift' = [adrift EXCEPT ![FilledBy(s)] = adrift[FilledBy(s)] + 1]
          /\ s \in Fills \cup {"fill_summary"}
      BY <1>3 DEF GoesOn
    <3>2. adrift \in [stats : 0 .. MaxAdrift, summary : 0 .. MaxAdrift]
      BY DEF TypeOK
    <3>3. FilledBy(s) \in {"stats", "summary"}
      BY DEF FilledBy
    <3> QED BY <3>1, <3>2, <3>3 DEF Adds
  <2> QED BY <1>1, <1>3, <2>1 DEF AtMost
<1>4. CASE UNCHANGED <<counted, adrift, outlived>>
  BY <1>1, <1>4 DEF AtMost
<1> QED BY <1>2, <1>3, <1>4 DEF Runs

\* A TRUNCATE that succeeds empties its table, whatever went on before.
LEMMA TruncateDue ==
  ASSUME TypeOK, NEW s, NEW t \in {"stats", "summary"}, Truncates(s, t),
         counted' = CountsAfter(s), outlived' = OutlivedAfter(s), UNCHANGED adrift
  PROVE  AtMost(t, 0)'
<1>1. adrift[t] \in Nat
  BY CountsType
<1>2. counted'[t] = 0
  BY CountsOf DEF Truncates
<1>3. t \in outlived' <=> adrift[t] > 0
  BY DEF OutlivedAfter
<1> QED BY <1>1, <1>2, <1>3 DEF AtMost

\* A fill that lands was counted on.
LEMMA LandsDue ==
  ASSUME TypeOK, NEW u \in {"stats", "summary"}, Lands(u),
         NEW t \in {"stats", "summary"}, NEW n \in Nat, AtMost(t, n)
  PROVE  AtMost(t, n)'
<1>1. /\ counted[t] \in 0 .. 2 /\ adrift[t] \in Nat /\ counted[u] \in 0 .. 2
      /\ adrift \in [stats : 0 .. MaxAdrift, summary : 0 .. MaxAdrift]
      /\ counted \in [stats : 0 .. 2, summary : 0 .. 2] /\ adrift[u] > 0
  BY CountsType DEF TypeOK, Lands
<1>2. adrift'[t] = IF t = u THEN adrift[t] - 1 ELSE adrift[t]
  BY <1>1 DEF Lands
<1>3. counted'[t] \in {counted[t], IF t = u THEN OnceMore(counted[t]) ELSE counted[t]}
  BY <1>1 DEF Lands
<1>4. counted'[t] + adrift'[t] <= counted[t] + adrift[t]
  BY <1>1, <1>2, <1>3 DEF OnceMore
<1>5. counted'[t] \in 0 .. 2 /\ adrift'[t] \in Nat
  BY <1>1, <1>2, <1>3 DEF OnceMore
<1>6. outlived' = outlived
  BY DEF Lands
<1> QED BY <1>1, <1>4, <1>5, <1>6 DEF AtMost

\* The steps of the migrator that leave the database alone.
LEMMA LookCounts ==
  ASSUME TypeOK, CountInv, NEW i \in Instances,
         Request(i) \/ Pending(i) \/ Recheck(i) \/ FinalLook(i) \/ CheckLock(i)
         \/ TruncateLock(i) \/ InsertLock(i) \/ Release(i) \/ CacheExpires(i) \/ Abort(i)
  PROVE  CountedOnce' /\ CountKnown(i)'
<1>1. /\ pc \in [Instances -> Stations] /\ cur \in [Instances -> 0 .. 4]
      /\ pos \in [Instances -> 0 .. 8] /\ recorded \subseteq Versions
      /\ misread \in BOOLEAN
  BY DEF TypeOK
<1>2. UNCHANGED <<recorded, counted, adrift, outlived>> /\ (misread => misread')
  <2>1. CASE Pending(i)
    <3>1. UNCHANGED <<recorded, counted, adrift, outlived>>
      BY <2>1 DEF Pending, db
    <3>2. PICK v \in ReadVersions : misread' = (misread \/ v # Latest)
      BY <2>1, Zenon DEF Pending
    <3>3. misread => misread'
      BY <3>2, Zenon
    <3> QED BY <3>1, <3>3
  <2>2. CASE ~Pending(i)
    <3>1. UNCHANGED <<db, misread>>
      <4>1. CASE Request(i) \/ Recheck(i) \/ FinalLook(i)
        BY <4>1 DEF Request, Recheck, FinalLook
      <4>2. CASE CheckLock(i) \/ TruncateLock(i) \/ InsertLock(i)
        BY <4>2 DEF CheckLock, TruncateLock, InsertLock
      <4>3. CASE Release(i) \/ CacheExpires(i) \/ Abort(i)
        BY <4>3 DEF Release, CacheExpires, Abort
      <4> QED BY <2>2, <4>1, <4>2, <4>3
    <3> QED BY <3>1 DEF db
  <2> QED BY <2>1, <2>2
<1>3. CountedOnce'
  BY <1>2 DEF CountInv, CountedOnce, AtMost
<1>4. ASSUME pc'[i] \notin Behind PROVE CountKnown(i)'
  BY <1>4 DEF CountKnown, Behind
<1>5. ASSUME pc[i] \in Behind, cur'[i] = cur[i],
             pc'[i] \notin {"run", "record"} \/ (pc'[i] = "run" /\ pos'[i] = 1)
      PROVE  CountKnown(i)'
  BY <1>2, <1>5 DEF CountInv, CountKnown, AtMost
<1>6. ASSUME NEW ok, Return(i, ok) PROVE pc'[i] \notin Behind
  BY <1>1, <1>6 DEF Return, Goto, Behind
<1>7. CASE Request(i) \/ FinalLook(i) \/ Release(i) \/ Abort(i)
  <2>1. pc'[i] \notin Behind
    BY <1>1, <1>6, <1>7 DEF Request, FinalLook, Release, Abort, Goto, Behind
  <2> QED BY <1>3, <1>4, <2>1
<1>8. CASE CacheExpires(i)
  <2>1. pc'[i] \notin Behind
    BY <1>8 DEF CacheExpires, Behind
  <2> QED BY <1>3, <1>4, <2>1
<1>9. CASE Pending(i)
  <2>1. PICK v \in ReadVersions :
          /\ misread' = (misread \/ v # Latest)
          /\ IF v >= Expected[i] THEN Return(i, TRUE)
             ELSE Goto(i, "check") /\ cur' = [cur EXCEPT ![i] = v + 1]
    BY <1>9 DEF Pending
  <2>2. CASE v >= Expected[i]
    BY <1>3, <1>4, <1>6, <2>1, <2>2
  <2>3. CASE ~(v >= Expected[i])
    <3>1. pc'[i] = "check" /\ cur'[i] = v + 1
      BY <1>1, <2>1, <2>3 DEF Goto
    <3>2. v \in 0 .. 4 /\ Latest \in 0 .. 4 /\ (2 \in recorded => Latest >= 2)
      BY <1>1, ReadType, LatestType
    <3>3. 2 \in recorded' /\ ~misread' => cur'[i] >= 3
      <4>1. ~misread' => v = Latest
        BY <2>1, Zenon
      <4>2. recorded' = recorded
        BY <1>2
      <4> QED BY <3>1, <3>2, <4>1, <4>2
    <3> QED BY <1>3, <3>1, <3>3 DEF CountKnown
  <2> QED BY <2>2, <2>3
<1>10. CASE Recheck(i)
  <2>1. CASE \E ok : Return(i, ok)
    BY <1>3, <1>4, <1>6, <2>1
  <2>2. CASE ~\E ok : Return(i, ok)
    <3>1. pc[i] = "recheck" /\ pc'[i] \in {"check", "final"} /\ cur'[i] = cur[i]
      BY <1>1, <1>10, <2>2 DEF Recheck, Goto
    <3> QED BY <1>3, <1>5, <3>1 DEF Behind
  <2> QED BY <2>1, <2>2
<1>11. CASE CheckLock(i) \/ TruncateLock(i) \/ InsertLock(i)
  <2>1. /\ pc[i] \in {"check", "truncate", "insert"} /\ cur'[i] = cur[i]
        /\ pc'[i] \notin {"run", "record"} \/ (pc'[i] = "run" /\ pos'[i] = 1)
    BY <1>1, <1>11 DEF CheckLock, TruncateLock, InsertLock, Goto
  <2> QED BY <1>3, <1>5, <2>1 DEF Behind
<1> QED BY <1>7, <1>8, <1>9, <1>10, <1>11

\* A statement counts nothing twice, whether it succeeds, fails, is applied
\* although it fails, or goes on at the server.
LEMMA StatementCounts ==
  ASSUME TypeOK, CountInv, NEW i \in Instances, RunStatement(i) \/ StatementFails(i)
  PROVE  CountedOnce' /\ CountKnown(i)'
<1> DEFINE v == cur[i]
           k == pos[i]
           s == Statements[v][k]
<1>1. /\ pc \in [Instances -> Stations] /\ cur \in [Instances -> 0 .. 4]
      /\ pos \in [Instances -> 0 .. 8] /\ pc[i] = "run" /\ <<v, k>> \in Script
  BY DEF TypeOK, RunStatement, StatementFails
<1>2. UNCHANGED <<recorded, misread>>
  BY DEF RunStatement, StatementFails, Succeeds, Fails
<1>3. CountKnown(i) /\ CountedOnce
  BY DEF CountInv
<1>4. Runs(s)
  BY DEF RunStatement, StatementFails, Succeeds, Fails, Execute, Runs
<1>5. /\ Adds(s, "stats") <=> (v = 1 /\ k = 2) \/ (v = 2 /\ k = 4)
      /\ Adds(s, "summary") <=> v = 4 /\ k = 3
      /\ Truncates(s, "stats") <=> v = 2 /\ k = 3
      /\ Truncates(s, "summary") <=> v = 4 /\ k = 2
  <2>1. /\ s \in Fills <=> (v = 1 /\ k = 2) \/ (v = 2 /\ k = 4)
        /\ s = "fill_summary" <=> v = 4 /\ k = 3
        /\ s = "truncate_stats" <=> v = 2 /\ k = 3
        /\ s = "truncate_summary" <=> v = 4 /\ k = 2
    BY <1>1, ScriptSays
  <2> QED BY <2>1 DEF Adds, FilledBy, Fills, Truncates
<1>6. AtMost("summary", 1)'
  <2>1. CASE v = 4 /\ k = 3
    <3>1. AtMost("summary", 0)
      BY <1>1, <1>3, <2>1 DEF CountKnown
    <3> QED BY <1>4, <3>1, StatementDue
  <2>2. CASE ~(v = 4 /\ k = 3)
    <3>1. AtMost("summary", 1) /\ ~Adds(s, "summary")
      BY <1>3, <1>5, <2>2 DEF CountedOnce
    <3> QED BY <1>4, <3>1, StatementDue
  <2> QED BY <2>1, <2>2
<1>7. ASSUME 2 \in recorded, ~misread PROVE AtMost("stats", 1)'
  <2>1. v >= 3 /\ AtMost("stats", 1)
    BY <1>1, <1>3, <1>7 DEF CountKnown, CountedOnce, Behind
  <2>2. ~Adds(s, "stats")
    BY <1>1, <1>5, <2>1
  <2> QED BY <1>4, <2>1, <2>2, StatementDue
<1>8. CountedOnce'
  BY <1>2, <1>6, <1>7 DEF CountedOnce
<1>9. CASE StatementFails(i)
  <2>1. pc'[i] = "release"
    BY <1>1, <1>9 DEF StatementFails, Goto
  <2> QED BY <1>8, <2>1 DEF CountKnown, Behind
<1>10. CASE RunStatement(i)
  <2>1. counted' = CountsAfter(s) /\ outlived' = OutlivedAfter(s) /\ UNCHANGED adrift
    BY <1>10 DEF RunStatement, Succeeds, Execute
  <2>2. /\ cur'[i] = v
        /\ \/ pc'[i] = "record" /\ k = Len(Statements[v])
           \/ pc'[i] = "run" /\ pos'[i] = k + 1 /\ k # Len(Statements[v])
    BY <1>1, <1>10 DEF RunStatement, AfterStatement, Goto
  <2>3. pc'[i] \in Behind /\ 2 \in recorded' /\ ~misread' => cur'[i] >= 3
    BY <1>1, <1>2, <1>3, <2>2 DEF CountKnown, Behind
  <2>4. ASSUME pc'[i] = "run", v = 4, k + 1 = 3 PROVE AtMost("summary", 0)'
    <3>1. Truncates(s, "summary")
      BY <1>1, <1>5, <2>4
    <3> QED BY <2>1, <3>1, TruncateDue
  <2>5. ASSUME pc'[i] = "run", v = 2, k + 1 = 4 PROVE AtMost("stats", 0)'
    <3>1. Truncates(s, "stats")
      BY <1>1, <1>5, <2>5
    <3> QED BY <2>1, <3>1, TruncateDue
  <2>6. ASSUME pc'[i] = "run", v = 2, k + 1 = 5 PROVE AtMost("stats", 1)'
    <3>1. AtMost("stats", 0)
      BY <1>1, <1>3, <2>6 DEF CountKnown
    <3> QED BY <1>4, <3>1, StatementDue
  <2>7. ASSUME pc'[i] = "record", v = 2 PROVE AtMost("stats", 1)'
    <3>1. k = 5
      BY <1>1, <2>2, <2>7, ScriptSays
    <3>2. ~Adds(s, "stats") /\ AtMost("stats", 1)
      BY <1>1, <1>3, <1>5, <2>7, <3>1 DEF CountKnown
    <3> QED BY <1>4, <3>2, StatementDue
  <2> HIDE DEF v, k, s
  <2>8. CountKnown(i)'
    BY <2>2, <2>3, <2>4, <2>5, <2>6, <2>7 DEF CountKnown
  <2> QED BY <1>8, <2>8
<1> QED BY <1>9, <1>10

LEMMA RecordCounts ==
  ASSUME TypeOK, CountInv, NEW i \in Instances, Record(i) \/ RecordFails(i)
  PROVE  CountedOnce' /\ CountKnown(i)'
<1>1. /\ pc \in [Instances -> Stations] /\ cur \in [Instances -> 0 .. 4]
      /\ pos \in [Instances -> 0 .. 8] /\ pc[i] = "record"
      /\ UNCHANGED <<counted, adrift, outlived, misread>>
      /\ recorded' \in {recorded, recorded \cup {cur[i]}}
  BY DEF TypeOK, Record, RecordFails
<1>2. CountKnown(i) /\ CountedOnce
  BY DEF CountInv
<1>3. CountedOnce'
  BY <1>1, <1>2 DEF CountedOnce, CountKnown, AtMost
<1>4. CASE pc'[i] \in {"finish", "release"}
  BY <1>3, <1>4 DEF CountKnown, Behind
<1>5. CASE pc'[i] \notin {"finish", "release"}
  <2>1. pc'[i] = "run" /\ pos'[i] = 1 /\ cur'[i] = cur[i] + 1
    BY <1>1, <1>5 DEF Record, RecordFails, Goto
  <2>2. 2 \in recorded' /\ ~misread' => cur'[i] >= 3
    BY <1>1, <1>2, <2>1 DEF CountKnown, Behind
  <2> QED BY <1>3, <2>1, <2>2 DEF CountKnown
<1> QED BY <1>4, <1>5

LEMMA StepCounts == OneMigrator /\ TypeOK /\ CountInv /\ [Next]_vars => CountInv'
<1> SUFFICES ASSUME OneMigrator, TypeOK, CountInv, [Next]_vars PROVE CountInv'
  OBVIOUS
<1>1. ASSUME NEW i \in Instances, Serve(i) \/ CacheExpires(i) \/ Abort(i) PROVE CountInv'
  <2>1. UNCHANGED cli
    BY <1>1 DEF Serve, Request, Pending, CheckLock, TruncateLock, InsertLock, Recheck,
       FinalLook, RunStatement, StatementFails, Record, RecordFails, Release,
       CacheExpires, Abort
  <2>2. CountedOnce' /\ CountKnown(i)'
    BY <1>1, LookCounts, StatementCounts, RecordCounts DEF Serve
  <2>3. \A j \in Instances : j = i
    BY DEF OneMigrator
  <2>4. \A j \in Instances : CountKnown(j)'
    BY <2>2, <2>3
  <2> QED BY <2>1, <2>2, <2>4 DEF CountInv
<1>2. CASE CliStart \/ CliStatement \/ CliRecord \/ CliAborts
  BY <1>2 DEF CliStart, CliStatement, CliRecord, CliAborts, OneMigrator, CountInv
<1>3. CASE \/ \E c \in Written : WriteComment(c)
           \/ LockExpires \/ Settle \/ UNCHANGED vars
  <2>1. UNCHANGED <<recorded, counted, adrift, outlived, misread, cli, pc, cur, pos>>
    BY <1>3 DEF WriteComment, LockExpires, Settle, vars, db, app
  <2> QED BY <2>1 DEF CountInv, CountedOnce, CountKnown, AtMost
<1>4. ASSUME NEW u \in {"stats", "summary"}, Lands(u) PROVE CountInv'
  <2>1. UNCHANGED <<recorded, misread, cli, pc, cur, pos>>
    BY <1>4 DEF Lands, app
  <2>2. \A t \in {"stats", "summary"} : \A n \in Nat : AtMost(t, n) => AtMost(t, n)'
    BY <1>4, LandsDue
  <2>3. /\ AtMost("summary", 0) => AtMost("summary", 0)'
        /\ AtMost("summary", 1) => AtMost("summary", 1)'
        /\ AtMost("stats", 0) => AtMost("stats", 0)'
        /\ AtMost("stats", 1) => AtMost("stats", 1)'
    BY <2>2
  <2> QED BY <2>1, <2>3 DEF CountInv, CountedOnce, CountKnown
<1> QED BY <1>1, <1>2, <1>3, <1>4 DEF Next

\* However often a lone migrator starts over, no pull request is counted twice in
\* the summaries of version 16, nor, from version 8 on, a comment in
\* comment_stats_weekly, as long as no fill that was given up still runs at the
\* server when a re-run empties the table, and the version is never read as 0.
THEOREM AloneCountsOnce == ASSUME OneMigrator PROVE Spec => []NeverCountedTwice
<1>1. Init => CountInv
  BY DEF Init, CountInv, CountedOnce, CountKnown, AtMost, NoCli, Behind
<1>2. TypeOK /\ CountInv /\ [Next]_vars => CountInv'
  BY StepCounts
<1>3. TypeOK /\ CountInv => NeverCountedTwice
  BY CountsType DEF CountInv, CountedOnce, AtMost, NeverCountedTwice
<1> QED BY <1>1, <1>2, <1>3, MigrationsTypeCorrect, PTL DEF Spec

====
