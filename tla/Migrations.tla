---- MODULE Migrations ----
(***************************************************************************)
(* Schema migrations: every serverless instance of the app checks the      *)
(* version on a request and migrates the database if it is behind          *)
(* (app/src/lib/migrations.ts), under a lock kept in a table; the          *)
(* pipeline's "migrate" command re-applies every SQL file without a lock   *)
(* (pipeline/src/cli.ts).  Four steps stand for the sixteen versions:      *)
(*   1  the CREATE and ALTER ... IF NOT EXISTS ones (1-7, 9-14), with the  *)
(*      first count of comment_stats_weekly (version 6)                    *)
(*   2  version 8, which adds a column to it and counts again              *)
(*   3  version 15, which copies pr_comments and swaps the tables          *)
(*   4  version 16, whose counting summaries are truncated and refilled    *)
(***************************************************************************)
EXTENDS Naturals, FiniteSets, Sequences

CONSTANTS
  Instances,      \* serverless instances of the app
  Expected,       \* EXPECTED_SCHEMA_VERSION of each (they differ in a deploy)
  LockMaxRetries, \* 15 attempts, 2 s apart
  Expires,        \* whether a run may outlast the lock's 300 s
  Faults,         \* whether statements, requests and containers fail
  WithCli,        \* whether someone runs "pipeline migrate" meanwhile
  MaxAdrift,      \* bound: abandoned fills that still run at the server
  Stored,         \* comment rows stored before the first migration
  Written         \* comment rows the pipeline writes meanwhile

Versions == 1 .. 4
ASSUME MigrationAssumption ==
  /\ Expected \in [Instances -> Versions]
  /\ LockMaxRetries \in Nat \ {0} /\ MaxAdrift \in Nat
  /\ Expires \in BOOLEAN /\ Faults \in BOOLEAN /\ WithCli \in BOOLEAN

Statements ==
  << << "create", "fill_stats", "create_stats_view" >>,
     << "drop_stats_view", "add_column", "truncate_stats", "fill_stats",
        "create_stats_view" >>,
     << "drop_old", "drop_new", "drop_stats_view", "create_new", "copy", "swap",
        "drop_swapped", "create_stats_view" >>,
     << "create_summary_view", "truncate_summary", "fill_summary" >> >>

\* The command's SQL files are the same but for 007_comment_stats.sql, whose
\* INSERT ... SELECT names no columns.
Files == [Statements EXCEPT ![1] = << "create", "fill_stats_by_position",
                                      "create_stats_view" >>]

Names == {"main", "new", "old"}  \* pr_comments, pr_comments_new, pr_comments_old
Script == {x \in Versions \X (1 .. 8) : x[2] <= Len(Statements[x[1]])}

VARIABLES
  recorded,  \* the versions in schema_migrations
  locked,    \* schema_migration_lock holds a row younger than 300 s
  exists,    \* which of the three tables there are
  rows,      \* their rows
  schema,    \* the views attached and the column added so far
  counted,   \* how often a row is counted, at most, in comment_stats_weekly and
             \* in the summaries of version 16: 2 stands for more
  adrift,    \* the fills of each that still run although their request is over
  outlived,  \* history: the tables of which one ran at their last TRUNCATE
  ran,       \* history: the statements that succeeded at least once
  written,   \* history: the rows the pipeline wrote
  late,      \* history: those it wrote while a copy was under way
  misread,   \* history: a list of pending migrations was computed from an error
  calm,      \* statements and instances do not fail from now on
  pc,        \* where each instance stands in getSchemaStatus
  cur,       \* the next version of its pending list, computed before the lock
  pos,       \* the next statement of that version
  attempt,   \* attempts at the lock
  cached,    \* the instance trusts its cached "ok"
  cli        \* the command: [at, v, k, errors, pending]

db == <<recorded, exists, rows, schema, counted, adrift, outlived, ran, written, late>>
app == <<pc, cur, pos, attempt, cached>>
vars == <<recorded, locked, exists, rows, schema, counted, adrift, outlived, ran,
          written, late, misread, calm, pc, cur, pos, attempt, cached, cli>>

\* SELECT max(version)
Latest == IF recorded = {} THEN 0
          ELSE CHOOSE v \in recorded : \A u \in recorded : u <= v

\* getSchemaVersion answers 0 to any error, as if there were no table yet.
ReadVersions == {Latest} \cup (IF calm THEN {} ELSE {0})

-----------------------------------------------------------------------------
(* What a statement does to the database *)

\* A statement is legal in the current state: DROP without IF EXISTS, CREATE
\* without IF NOT EXISTS, RENAME, and an INSERT by position are not always.
Legal(s) == CASE s = "create_new" -> "new" \notin exists
              [] s = "copy" -> "new" \in exists
              [] s = "swap" -> "new" \in exists /\ "old" \notin exists
              [] s = "drop_swapped" -> "old" \in exists
              [] s = "fill_stats_by_position" -> "column" \notin schema
              [] OTHER -> TRUE

TablesAfter(s) == CASE s \in {"drop_old", "drop_swapped"} -> exists \ {"old"}
                    [] s = "drop_new" -> exists \ {"new"}
                    [] s = "create_new" -> exists \cup {"new"}
                    [] s = "swap" -> (exists \ {"new"}) \cup {"old"}
                    [] OTHER -> exists

RowsAfter(s) == CASE s \in {"drop_old", "drop_swapped"} -> [rows EXCEPT !["old"] = {}]
                  [] s = "drop_new" -> [rows EXCEPT !["new"] = {}]
                  [] s = "copy" -> [rows EXCEPT !["new"] = @ \cup rows["main"]]
                  [] s = "swap" -> [main |-> rows["new"], new |-> {}, old |-> rows["main"]]
                  [] OTHER -> rows

SchemaAfter(s) == CASE s = "drop_stats_view" -> schema \ {"stats_view"}
                    [] s = "create_stats_view" -> schema \cup {"stats_view"}
                    [] s = "create_summary_view" -> schema \cup {"summary_view"}
                    [] s = "add_column" -> schema \cup {"column"}
                    [] OTHER -> schema

OnceMore(n) == IF n = 0 THEN 1 ELSE 2
Fills == {"fill_stats", "fill_stats_by_position"}
FilledBy(s) == IF s = "fill_summary" THEN "summary" ELSE "stats"

\* Mutant of CountsAfter: the summaries are filled without a TRUNCATE.
CountsNotTruncated(s) ==
  CASE s = "truncate_stats" -> [counted EXCEPT !.stats = 0]
    [] s \in Fills -> [counted EXCEPT !.stats = OnceMore(@)]
    [] s = "fill_summary" -> [counted EXCEPT !.summary = OnceMore(@)]
    [] OTHER -> counted

CountsAfter(s) == CASE s = "truncate_stats" -> [counted EXCEPT !.stats = 0]
                    [] s \in Fills -> [counted EXCEPT !.stats = OnceMore(@)]
                    [] s = "truncate_summary" -> [counted EXCEPT !.summary = 0]
                    [] s = "fill_summary" -> [counted EXCEPT !.summary = OnceMore(@)]
                    [] OTHER -> counted

Truncates(s, t) == s = (IF t = "stats" THEN "truncate_stats" ELSE "truncate_summary")
OutlivedAfter(s) == {t \in {"stats", "summary"} :
                       IF Truncates(s, t) THEN adrift[t] > 0 ELSE t \in outlived}

Execute(s) == /\ exists' = TablesAfter(s) /\ rows' = RowsAfter(s)
              /\ schema' = SchemaAfter(s) /\ counted' = CountsAfter(s)
              /\ outlived' = OutlivedAfter(s)

\* Statement s, the k-th of version v.
Succeeds(v, k, s) ==
  /\ Legal(s) /\ Execute(s)
  /\ ran' = ran \cup {<<v, k>>}
  /\ UNCHANGED <<adrift, recorded, written, late, misread>>

\* The client of a fill is gone, and the server goes on with it.
GoesOn(s) ==
  /\ s \in Fills \cup {"fill_summary"} /\ adrift.stats + adrift.summary < MaxAdrift
  /\ adrift' = [adrift EXCEPT ![FilledBy(s)] = @ + 1]

\* An illegal statement always fails; any other may, and then may have been
\* applied (the answer is lost), for the copy in part (max_execution_time), or
\* still be applied later.  (A copy that goes on writes to a pr_comments_new that
\* every attempt at version 15 drops first.)
Fails(s) ==
  /\ ~Legal(s) \/ ~calm
  /\ \/ UNCHANGED <<exists, rows, schema, counted, adrift, outlived>>
     \/ Legal(s) /\ Execute(s) /\ UNCHANGED adrift
     \/ Legal(s) /\ GoesOn(s) /\ UNCHANGED <<exists, rows, schema, counted, outlived>>
     \/ /\ s = "copy" /\ Legal(s)
        /\ \E part \in SUBSET rows["main"] : rows' = [rows EXCEPT !["new"] = @ \cup part]
        /\ UNCHANGED <<exists, schema, counted, adrift, outlived>>
  /\ UNCHANGED <<recorded, ran, written, late, misread>>

\* A fill that goes on at the server ends there, most often by being applied
\* (external: ClickHouse; the lock may long be another's).
Lands(t) ==
  /\ adrift[t] > 0 /\ adrift' = [adrift EXCEPT ![t] = @ - 1]
  /\ counted' \in {counted, [counted EXCEPT ![t] = OnceMore(@)]}
  /\ UNCHANGED <<recorded, exists, rows, schema, outlived, ran, written, late,
                 misread, locked, calm, cli, app>>

-----------------------------------------------------------------------------
(* getSchemaStatus and runMigrations, one instance *)

Goto(i, station) == pc' = [pc EXCEPT ![i] = station]
Return(i, ok) ==
  /\ Goto(i, "idle")
  /\ cur' = [cur EXCEPT ![i] = 0] /\ pos' = [pos EXCEPT ![i] = 0]
  /\ attempt' = [attempt EXCEPT ![i] = 0]
  /\ cached' = [cached EXCEPT ![i] = ok]

\* A page is requested, and the cached status is not an "ok" of the last 60 s.
Request(i) ==
  /\ pc[i] = "idle" /\ ~cached[i]
  /\ \E v \in ReadVersions :
       IF v >= Expected[i] THEN Return(i, v = Expected[i])
       ELSE Goto(i, "pending") /\ UNCHANGED <<cur, pos, attempt, cached>>
  /\ UNCHANGED <<db, misread, locked, calm, cli>>

CacheExpires(i) ==
  /\ pc[i] = "idle" /\ cached[i] /\ cached' = [cached EXCEPT ![i] = FALSE]
  /\ UNCHANGED <<db, misread, locked, calm, cli, pc, cur, pos, attempt>>

\* The list of pending migrations is fixed here, before the lock is asked for.
Pending(i) ==
  /\ pc[i] = "pending"
  /\ \E v \in ReadVersions :
       /\ misread' = (misread \/ v # Latest)
       /\ IF v >= Expected[i] THEN Return(i, TRUE)
          ELSE /\ Goto(i, "check") /\ cur' = [cur EXCEPT ![i] = v + 1]
               /\ UNCHANGED <<pos, attempt, cached>>
  /\ UNCHANGED <<db, locked, calm, cli>>

\* tryAcquireLock: count, then truncate, then insert, in three requests.
CheckLock(i) ==
  /\ pc[i] = "check"
  /\ Goto(i, IF locked THEN "recheck" ELSE "truncate")
  /\ UNCHANGED <<db, misread, locked, calm, cli, cur, pos, attempt, cached>>

TruncateLock(i) ==
  /\ pc[i] = "truncate" /\ locked' = FALSE /\ Goto(i, "insert")
  /\ UNCHANGED <<db, misread, calm, cli, cur, pos, attempt, cached>>

InsertLock(i) ==
  /\ pc[i] = "insert" /\ locked' = TRUE /\ Goto(i, "run")
  /\ pos' = [pos EXCEPT ![i] = 1]
  /\ UNCHANGED <<db, misread, calm, cli, cur, attempt, cached>>

\* The lock is taken: has its holder finished meanwhile?  Else sleep and retry.
Recheck(i) ==
  /\ pc[i] = "recheck"
  /\ \E v \in ReadVersions :
       IF v >= Expected[i] THEN Return(i, TRUE)
       ELSE /\ attempt' = [attempt EXCEPT ![i] = @ + 1]
            /\ Goto(i, IF attempt[i] + 1 < LockMaxRetries THEN "check" ELSE "final")
            /\ UNCHANGED <<cur, pos, cached>>
  /\ UNCHANGED <<db, misread, locked, calm, cli>>

\* Mutant of FinalLook: any result but a DDL error is taken for "ok".
FinalLookOk(i) ==
  /\ pc[i] = "final" /\ Return(i, TRUE)
  /\ UNCHANGED <<db, misread, locked, calm, cli>>

\* "Could not acquire migration lock": one more look at the version, and the
\* page shows "migrating" if it is still behind.
FinalLook(i) ==
  /\ pc[i] = "final"
  /\ \E v \in ReadVersions : Return(i, v >= Expected[i])
  /\ UNCHANGED <<db, misread, locked, calm, cli>>

\* Mutant of AfterStatement: one statement too many.
AfterStatementPast(i) ==
  IF pos[i] > Len(Statements[cur[i]])
  THEN Goto(i, "record") /\ UNCHANGED <<cur, pos, attempt, cached>>
  ELSE pos' = [pos EXCEPT ![i] = @ + 1] /\ UNCHANGED <<pc, cur, attempt, cached>>

AfterStatement(i) ==
  IF pos[i] = Len(Statements[cur[i]])
  THEN Goto(i, "record") /\ UNCHANGED <<cur, pos, attempt, cached>>
  ELSE pos' = [pos EXCEPT ![i] = @ + 1] /\ UNCHANGED <<pc, cur, attempt, cached>>

RunStatement(i) ==
  /\ pc[i] = "run" /\ Succeeds(cur[i], pos[i], Statements[cur[i]][pos[i]])
  /\ AfterStatement(i)
  /\ UNCHANGED <<locked, calm, cli>>

\* Mutant of StatementFails: the error is logged and the run goes on.
StatementFailsOn(i) ==
  /\ pc[i] = "run" /\ Fails(Statements[cur[i]][pos[i]]) /\ AfterStatement(i)
  /\ UNCHANGED <<locked, calm, cli>>

\* A DDL error ends the run (db_behind); what ran before it stays.
StatementFails(i) ==
  /\ pc[i] = "run" /\ Fails(Statements[cur[i]][pos[i]]) /\ Goto(i, "release")
  /\ UNCHANGED <<locked, calm, cli, cur, pos, attempt, cached>>

Record(i) ==
  /\ pc[i] = "record" /\ recorded' = recorded \cup {cur[i]}
  /\ IF cur[i] = Expected[i] THEN Goto(i, "finish") /\ UNCHANGED <<cur, pos>>
     ELSE /\ Goto(i, "run") /\ cur' = [cur EXCEPT ![i] = @ + 1]
          /\ pos' = [pos EXCEPT ![i] = 1]
  /\ UNCHANGED <<exists, rows, schema, counted, adrift, outlived, ran, written, late,
                 misread, locked, calm, cli, attempt, cached>>

RecordFails(i) ==
  /\ pc[i] = "record" /\ ~calm /\ Goto(i, "release")
  /\ recorded' \in {recorded, recorded \cup {cur[i]}}
  /\ UNCHANGED <<exists, rows, schema, counted, adrift, outlived, ran, written, late,
                 misread, locked, calm, cli, cur, pos, attempt, cached>>

\* finally: the TRUNCATE takes away any lock, its own or another's.
Release(i) ==
  /\ pc[i] \in {"release", "finish"}
  /\ locked' \in {FALSE} \cup (IF calm THEN {} ELSE {locked})
  /\ Return(i, pc[i] = "finish")
  /\ UNCHANGED <<db, misread, calm, cli>>

\* A request outside the statements' try block fails, or the container is killed.
Abort(i) ==
  /\ pc[i] # "idle" /\ ~calm /\ Return(i, FALSE)
  /\ UNCHANGED <<db, misread, locked, calm, cli>>

\* Mutant of LockExpires: the age of the lock is not asked for.
LockStays == locked /\ UNCHANGED vars

LockExpires ==
  /\ Expires \/ \A i \in Instances : pc[i] \notin {"run", "record"}
  /\ locked /\ locked' = FALSE
  /\ UNCHANGED <<db, misread, calm, cli, app>>

-----------------------------------------------------------------------------
(* pipeline migrate: every file, every time, whatever fails *)

NoCli == [at |-> "idle", v |-> 0, k |-> 0, errors |-> FALSE, pending |-> {}]

CliStart ==
  /\ WithCli /\ cli.at = "idle"
  /\ cli' = [at |-> "run", v |-> 1, k |-> 1, errors |-> FALSE,
             pending |-> Versions \ recorded]
  /\ UNCHANGED <<db, misread, locked, calm, app>>

CliAdvance(failed) ==
  cli' = IF cli.k < Len(Statements[cli.v])
         THEN [cli EXCEPT !.k = @ + 1, !.errors = @ \/ failed]
         ELSE IF cli.v < 4
         THEN [cli EXCEPT !.v = @ + 1, !.k = 1, !.errors = @ \/ failed]
         ELSE [cli EXCEPT !.at = "record", !.errors = @ \/ failed]

CliStatement ==
  /\ cli.at = "run"
  /\ \/ Succeeds(cli.v, cli.k, Files[cli.v][cli.k]) /\ CliAdvance(FALSE)
     \/ Fails(Files[cli.v][cli.k]) /\ CliAdvance(TRUE)
  /\ UNCHANGED <<locked, calm, app>>

CliRecord ==
  /\ cli.at = "record" /\ cli' = NoCli
  /\ recorded' = IF cli.errors THEN recorded ELSE recorded \cup cli.pending
  /\ UNCHANGED <<exists, rows, schema, counted, adrift, outlived, ran, written, late,
                 misread, locked, calm, app>>

\* Interrupted, or the network is gone.
CliAborts ==
  /\ cli.at # "idle" /\ cli' = NoCli
  /\ UNCHANGED <<db, misread, locked, calm, app>>

-----------------------------------------------------------------------------

\* The enrichment pipeline inserts a comment row (external).
WriteComment(c) ==
  /\ c \notin written /\ written' = written \cup {c}
  /\ rows' = [rows EXCEPT !["main"] = @ \cup {c}]
  /\ late' = IF "new" \in exists THEN late \cup {c} ELSE late
  /\ UNCHANGED <<recorded, exists, schema, counted, adrift, outlived, ran, misread,
                 locked, calm, cli, app>>

\* The database and the platform stop failing (for the liveness property).
Settle ==
  /\ ~calm /\ calm' = TRUE
  /\ UNCHANGED <<db, misread, locked, cli, app>>

Init ==
  /\ recorded = {} /\ locked = FALSE /\ exists = {"main"}
  /\ rows = [main |-> Stored, new |-> {}, old |-> {}]
  /\ schema = {} /\ counted = [stats |-> 0, summary |-> 0]
  /\ adrift = [stats |-> 0, summary |-> 0] /\ outlived = {}
  /\ ran = {} /\ written = {} /\ late = {} /\ misread = FALSE /\ calm = ~Faults
  /\ pc = [i \in Instances |-> "idle"] /\ cur = [i \in Instances |-> 0]
  /\ pos = [i \in Instances |-> 0] /\ attempt = [i \in Instances |-> 0]
  /\ cached = [i \in Instances |-> FALSE] /\ cli = NoCli

Serve(i) ==
  \/ Request(i) \/ Pending(i) \/ CheckLock(i) \/ TruncateLock(i) \/ InsertLock(i)
  \/ Recheck(i) \/ FinalLook(i) \/ RunStatement(i) \/ StatementFails(i)
  \/ Record(i) \/ RecordFails(i) \/ Release(i)

Next ==
  \/ \E i \in Instances : Serve(i) \/ CacheExpires(i) \/ Abort(i)
  \/ CliStart \/ CliStatement \/ CliRecord \/ CliAborts
  \/ \E c \in Written : WriteComment(c)
  \/ \E t \in {"stats", "summary"} : Lands(t)
  \/ LockExpires \/ Settle

Spec == Init /\ [][Next]_vars

\* Pages keep being requested, and time passes.
FairSpec == Spec /\ (\A i \in Instances : WF_vars(Serve(i))) /\ WF_vars(LockExpires)

-----------------------------------------------------------------------------
(* Properties *)

Stations == {"idle", "pending", "check", "truncate", "insert", "recheck", "final",
             "run", "record", "release", "finish"}

\* Where an instance has a list of pending migrations in hand.
Behind == {"check", "truncate", "insert", "recheck", "run", "record"}

\* Every variable holds a value the code gives it, and a running instance stands
\* at a statement of its script (runMigrations, cmdMigrate).
TypeOK ==
  /\ recorded \subseteq Versions /\ locked \in BOOLEAN /\ calm \in BOOLEAN
  /\ exists \subseteq Names /\ rows \in [Names -> SUBSET (Stored \cup Written)]
  /\ schema \subseteq {"stats_view", "summary_view", "column"}
  /\ counted \in [stats : 0 .. 2, summary : 0 .. 2] /\ misread \in BOOLEAN
  /\ adrift \in [stats : 0 .. MaxAdrift, summary : 0 .. MaxAdrift]
  /\ outlived \subseteq {"stats", "summary"}
  /\ ran \subseteq Script /\ late \subseteq written /\ written \subseteq Written
  /\ pc \in [Instances -> Stations] /\ attempt \in [Instances -> 0 .. LockMaxRetries]
  /\ cur \in [Instances -> 0 .. 4] /\ pos \in [Instances -> 0 .. 8]
  /\ cached \in [Instances -> BOOLEAN]
  /\ cli \in [at : {"idle", "run", "record"}, v : 0 .. 4, k : 0 .. 8,
              errors : BOOLEAN, pending : SUBSET Versions]
  /\ \A i \in Instances :
       /\ pc[i] = "run" => <<cur[i], pos[i]>> \in Script
       /\ pc[i] \in Behind => cur[i] \in Versions
       /\ pc[i] \in {"idle", "pending", "check", "recheck"} => attempt[i] < LockMaxRetries
       /\ cur[i] <= Expected[i]
  /\ cli.at = "run" => <<cli.v, cli.k>> \in Script

\* The database's version is honest: every migration up to it is recorded, and
\* each of their statements has succeeded at least once.  getSchemaVersion reads
\* the maximum only, so a gap below it would never be filled.
VersionIsHonest ==
  /\ \A v \in recorded : \A u \in 1 .. v : u \in recorded
  /\ \A v \in recorded : \A k \in 1 .. Len(Statements[v]) : <<v, k>> \in ran

\* An instance that serves pages on a cached "ok" has a database that is up to
\* the version it was built for, whoever migrated it (getSchemaStatus).
OkIsEarned == \A i \in Instances : cached[i] => Expected[i] \in recorded

\* A comment row once stored stays in pr_comments, through failed copies, killed
\* containers and re-runs; except that rows written while pr_comments_new exists
\* may miss the copy (migration 15).
DataKept == Stored \cup (written \ late) \subseteq rows["main"]

\* "TRUNCATE first - countState is NOT idempotent, re-run would double-count":
\* a re-run counts a pull request twice in the summaries (migration 16), or, once
\* version 8 is there, a comment in comment_stats_weekly (version 6 fills it
\* without a TRUNCATE), only if a fill that an earlier run had given up still ran
\* at the server when the re-run emptied the table; or, for the latter, if the
\* version was read as 0 and the old migrations ran again.
NeverCountedTwice ==
  /\ counted.summary = 2 => "summary" \in outlived
  /\ 2 \in recorded /\ counted.stats = 2 => misread \/ "stats" \in outlived

\* Once nothing fails any more, an instance that keeps being visited migrates the
\* database: a lock left behind by a killed container does not stand in its way
\* for ever (LOCK_EXPIRY_SECONDS).
Migrated == \A i \in Instances : calm ~> Expected[i] \in recorded

====
