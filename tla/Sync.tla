---- MODULE Sync ----
(***************************************************************************)
(* Weekly activity counts: backfill and sync (pipeline/src/sync.ts) and    *)
(* fetch-bigquery (pipeline/src/cli.ts) ask BigQuery for the events of a   *)
(* range of days and store one row per week and bot, and one per week for  *)
(* people.  A stored row replaces the earlier one of its key, whichever of *)
(* them is the more complete.  Days are numbers, and day 0 is a Monday.    *)
(***************************************************************************)
EXTENDS Integers

CONSTANTS
  Runs,         \* runs that may be under way at a time
  LastDay,      \* the calendar ends here
  RunDays,      \* the days on which anything is run or deployed
  MonthStart,   \* the first and the last day of the month of a day
  MonthEnd,
  SyncWeeks,    \* --weeks of the sync job
  Logins,       \* GitHub accounts, bots and people
  BotOf,        \* the bot an account belongs to, were it listed
  Suffixed,     \* accounts whose name ends in "[bot]"
  Listed,       \* BOT_LOGINS before the deployment
  Added,        \* accounts the deployment adds to BOT_LOGINS
  Active,       \* the events: <<account, day>>
  FetchRanges,  \* the ranges somebody gives to fetch-bigquery
  FetchDefault, \* whether fetch-bigquery is also run without a range
  Manual,       \* whether somebody runs backfill by hand
  Faults        \* whether requests and containers fail

Days == 0 .. LastDay
Ranges == [first : Int, last : Int]

ASSUME CalendarAssumption ==
  /\ LastDay \in Nat /\ RunDays \subseteq Days /\ RunDays # {}
  /\ SyncWeeks \in Nat \ {0}
  /\ MonthStart \in [Days -> Days] /\ MonthEnd \in [Days -> Nat]
  /\ \A d \in Days : MonthStart[d] <= d /\ d <= MonthEnd[d]
  /\ \A d, e \in Days : MonthStart[d] <= e /\ e <= MonthEnd[d]
       => MonthStart[e] = MonthStart[d] /\ MonthEnd[e] = MonthEnd[d]

ASSUME EventAssumption ==
  /\ Listed \subseteq Logins /\ Added \subseteq Logins
  /\ Active \subseteq Logins \X Days
  /\ FetchRanges \subseteq Ranges
  /\ FetchDefault \in BOOLEAN /\ Manual \in BOOLEAN /\ Faults \in BOOLEAN

VARIABLES
  today,
  known,      \* BOT_LOGINS of the deployed code; a new PIPELINE_VERSION acts alike
  deployedOn, \* history: when it last changed
  activity,   \* review_activity: the events its rows count
  humans,     \* human_review_activity: the events its rows count
  completed,  \* pipeline_state: one row per chunk start; began is history
  calm,       \* nothing fails from now on
  pc,         \* where each run stands
  kind,       \* its command
  began,      \* the day it began on, the default --end
  asked,      \* BOT_LOGINS of the code it runs
  todo,       \* the chunks it has not begun
  chunk,      \* the one it is at
  found,      \* BigQuery's answers about bots and about people
  others,
  left        \* inserts of the chunk still to be done

tables == <<activity, humans, completed>>
run == <<pc, kind, began, asked, todo, chunk, found, others, left>>
vars == <<today, known, deployedOn, activity, humans, completed, calm,
          pc, kind, began, asked, todo, chunk, found, others, left>>

-----------------------------------------------------------------------------
(* Ranges of days *)

Monday(d) == d - (d % 7)
Sunday(d) == Monday(d) + 6
Lesser(a, b) == IF a <= b THEN a ELSE b
NoRange == [first |-> 0, last |-> 0]
Within(d, c) == c.first <= d /\ d <= c.last

\* Mutant of RecentSyncChunk: the start is not moved back to a Monday.
RecentSyncChunkUnaligned(now) == [first |-> now - SyncWeeks * 7, last |-> now]

RecentSyncChunk(now) == [first |-> Monday(now - SyncWeeks * 7), last |-> now]

\* The cursor stands at the start of the range, then at the first of each month.
Cursors(start, end) == {c \in start .. end : c = start \/ c = MonthStart[c]}
MonthlyChunks(start, end) ==
  {[first |-> Monday(c), last |-> Sunday(Lesser(MonthEnd[c], end))] :
     c \in Cursors(start, end)}

\* The first of an earlier month: the month before, instead of three back.
DefaultStart(now) ==
  IF MonthStart[now] = 0 THEN 0 ELSE MonthStart[MonthStart[now] - 1]

-----------------------------------------------------------------------------
(* BigQuery, which has the days that are over, and ClickHouse *)

EventsOf(c) == {e \in Active : Within(e[2], c) /\ e[2] < today}
\* Mutant of BotEvents: the accounts of a bot are not added up, one row survives.
BotEventsOneRow(c, logins) ==
  {e \in EventsOf(c) : e[1] \in logins /\ e[1] = CHOOSE l \in logins : BotOf[l] = BotOf[e[1]]}

\* mapBotActivityRows adds up the accounts of a bot.
BotEvents(c, logins) == {e \in EventsOf(c) : e[1] \in logins}

\* Mutant of HumanEvents: listed bots are not excluded, only [bot] accounts.
HumanEventsBySuffix(c, logins) == {e \in EventsOf(c) : e[1] \notin Suffixed}

HumanEvents(c, logins) == {e \in EventsOf(c) : e[1] \notin logins \cup Suffixed}

BotKey(e) == <<Monday(e[2]), BotOf[e[1]]>>
SameWeek(d, e) == Monday(d[2]) = Monday(e[2])

\* ReplacingMergeTree: a row inserted later replaces that of the same key.
StoreActivity(rows) ==
  {e \in activity : \A n \in rows : BotKey(n) # BotKey(e)} \cup rows
StoreHumans(rows) ==
  {e \in humans : \A n \in rows : ~SameWeek(n, e)} \cup rows

\* Mutant of Pending: the bots it was fetched with are not compared.
PendingAnyBots(c) == \A x \in completed : x.first = c.first => x.last < c.last

\* backfill has the chunk still to do: it is not recorded, or with other bots or
\* a shorter end.
Pending(c) == \A x \in completed :
  x.first = c.first => x.logins # known \/ x.last < c.last

-----------------------------------------------------------------------------
(* The commands *)

\* What the process held is gone when it ends.
Ends(r) ==
  /\ pc' = [pc EXCEPT ![r] = "idle"] /\ kind' = [kind EXCEPT ![r] = "sync"]
  /\ began' = [began EXCEPT ![r] = 0] /\ asked' = [asked EXCEPT ![r] = {}]
  /\ todo' = [todo EXCEPT ![r] = {}] /\ chunk' = [chunk EXCEPT ![r] = NoRange]
  /\ found' = [found EXCEPT ![r] = {}] /\ others' = [others EXCEPT ![r] = {}]
  /\ left' = [left EXCEPT ![r] = {}]
  /\ UNCHANGED <<today, known, deployedOn, tables, calm>>

Starts(r, command, ranges) ==
  /\ pc[r] = "idle"
  /\ pc' = [pc EXCEPT ![r] = "next"]
  /\ kind' = [kind EXCEPT ![r] = command]
  /\ began' = [began EXCEPT ![r] = today]
  /\ asked' = [asked EXCEPT ![r] = known]
  /\ todo' = [todo EXCEPT ![r] = ranges]
  /\ UNCHANGED <<today, known, deployedOn, tables, calm, chunk, found, others, left>>

\* Daily; syncRecent.
StartSync(r) == Starts(r, "sync", {RecentSyncChunk(today)})

\* Mondays; resumes, and returns at once when nothing is pending.
StartBackfill(r) ==
  /\ Monday(today) = today
  /\ Starts(r, "backfill", {c \in MonthlyChunks(DefaultStart(today), today) : Pending(c)})

\* By hand, on any day, with --all or --no-resume.
StartManualBackfill(r) ==
  /\ Manual
  /\ \E start \in {0, DefaultStart(today)}, resume \in BOOLEAN :
       Starts(r, "backfill",
              {c \in MonthlyChunks(start, today) : resume => Pending(c)})

StartFetchBigQuery(r) ==
  \E c \in {x \in FetchRanges : x.last < today} \cup
           (IF FetchDefault THEN {[first |-> DefaultStart(today), last |-> today]} ELSE {}) :
    Starts(r, "fetch", {c})

Precedes(c, d) == c.first < d.first \/ (c.first = d.first /\ c.last <= d.last)

QueryBots(r) ==
  /\ pc[r] = "next"
  /\ \E c \in todo[r] :
       /\ \A d \in todo[r] : Precedes(c, d)
       /\ todo' = [todo EXCEPT ![r] = @ \ {c}]
       /\ chunk' = [chunk EXCEPT ![r] = c]
       /\ found' = [found EXCEPT ![r] = BotEvents(c, asked[r])]
  /\ pc' = [pc EXCEPT ![r] = "people"]
  /\ UNCHANGED <<today, known, deployedOn, tables, calm, kind, began, asked, others, left>>

QueryHumans(r) ==
  /\ pc[r] = "people"
  /\ others' = [others EXCEPT ![r] = HumanEvents(chunk[r], asked[r])]
  /\ left' = [left EXCEPT ![r] = {"bots", "humans"}]
  /\ pc' = [pc EXCEPT ![r] = "insert"]
  /\ UNCHANGED <<today, known, deployedOn, tables, calm, kind, began, asked, todo, chunk,
                 found>>

\* Mutant of AfterInsert: the chunk is done once one insert has succeeded.
AfterInsertOne(r, table) == IF kind[r] = "backfill" THEN "mark" ELSE "next"

AfterInsert(r, table) == IF left[r] # {table} THEN "insert"
                         ELSE IF kind[r] = "backfill" THEN "mark" ELSE "next"

\* Both inserts of a chunk are under way at a time; fetch-bigquery awaits the
\* first before the second.
Insert(r, table) ==
  /\ pc[r] = "insert" /\ table \in left[r]
  /\ kind[r] = "fetch" /\ table = "humans" => "bots" \notin left[r]
  /\ left' = [left EXCEPT ![r] = @ \ {table}]
  /\ pc' = [pc EXCEPT ![r] = AfterInsert(r, table)]
  /\ UNCHANGED <<today, known, deployedOn, completed, calm, kind, began, asked, todo,
                 chunk>>

InsertActivity(r) == /\ Insert(r, "bots")
                     /\ activity' = StoreActivity(found[r])
                     /\ found' = [found EXCEPT ![r] = {}]
                     /\ UNCHANGED <<humans, others>>

InsertHumans(r) == /\ Insert(r, "humans")
                   /\ humans' = StoreHumans(others[r])
                   /\ others' = [others EXCEPT ![r] = {}]
                   /\ UNCHANGED <<activity, found>>

MarkChunkCompleted(r) ==
  /\ pc[r] = "mark"
  /\ completed' = {x \in completed : x.first # chunk[r].first} \cup
                   {[first |-> chunk[r].first, last |-> chunk[r].last,
                     logins |-> asked[r], began |-> began[r]]}
  /\ pc' = [pc EXCEPT ![r] = "next"]
  /\ UNCHANGED <<today, known, deployedOn, activity, humans, calm, kind, began, asked,
                 todo, chunk, found, others, left>>

Finish(r) == pc[r] = "next" /\ todo[r] = {} /\ Ends(r)

\* Any request fails, or the container is killed; an insert may have been
\* applied before.  No command catches an error: the run ends.
Fail(r) == ~calm /\ pc[r] # "idle" /\ Ends(r)

-----------------------------------------------------------------------------
(* The world, and the specification *)

Tick ==
  /\ \E d \in RunDays : /\ today < d
                        /\ \A e \in RunDays : today < e => d <= e
                        /\ today' = d
  /\ UNCHANGED <<known, deployedOn, tables, calm, run>>

\* Runs under way keep the list they were started with.
Deploy ==
  /\ ~(Added \subseteq known)
  /\ known' = known \cup Added /\ deployedOn' = today
  /\ UNCHANGED <<today, tables, calm, run>>

Recover == ~calm /\ calm' = TRUE /\ UNCHANGED <<today, known, deployedOn, tables, run>>

Init ==
  /\ today \in {d \in RunDays : \A e \in RunDays : d <= e}
  /\ known = Listed /\ deployedOn = 0
  /\ activity = {} /\ humans = {}
  /\ completed = {}
  /\ calm = ~Faults
  /\ pc = [r \in Runs |-> "idle"] /\ kind = [r \in Runs |-> "sync"]
  /\ began = [r \in Runs |-> 0] /\ asked = [r \in Runs |-> {}]
  /\ todo = [r \in Runs |-> {}] /\ chunk = [r \in Runs |-> NoRange]
  /\ found = [r \in Runs |-> {}] /\ others = [r \in Runs |-> {}]
  /\ left = [r \in Runs |-> {}]

Work(r) ==
  \/ QueryBots(r) \/ QueryHumans(r) \/ InsertActivity(r) \/ InsertHumans(r)
  \/ MarkChunkCompleted(r) \/ Finish(r)

Next ==
  \/ \E r \in Runs :
       \/ StartSync(r) \/ StartBackfill(r) \/ StartManualBackfill(r)
       \/ StartFetchBigQuery(r) \/ Work(r) \/ Fail(r)
  \/ Tick \/ Deploy \/ Recover

Spec == Init /\ [][Next]_vars

\* A run goes on, time passes, and both schedules fire again and again.
FairSpec ==
  /\ Spec
  /\ WF_vars(Tick)
  /\ \A r \in Runs : WF_vars(Work(r))
  /\ SF_vars(\E r \in Runs : StartSync(r))
  /\ SF_vars(\E r \in Runs : StartBackfill(r))

-----------------------------------------------------------------------------
(* Properties *)

\* The tables count only events of days that are over, and a run holds answers and
\* owes inserts only between its query and its last insert.
TypeOK ==
  /\ today \in Days /\ known \subseteq Logins /\ deployedOn \in Days /\ calm \in BOOLEAN
  /\ activity \subseteq Active /\ humans \subseteq Active
  /\ completed \subseteq [first : Int, last : Int, logins : SUBSET Logins, began : Days]
  /\ pc \in [Runs -> {"idle", "next", "people", "insert", "mark"}]
  /\ kind \in [Runs -> {"sync", "backfill", "fetch"}]
  /\ began \in [Runs -> Days] /\ asked \in [Runs -> SUBSET Logins]
  /\ todo \in [Runs -> SUBSET Ranges] /\ chunk \in [Runs -> Ranges]
  /\ found \in [Runs -> SUBSET Active] /\ others \in [Runs -> SUBSET Active]
  /\ left \in [Runs -> SUBSET {"bots", "humans"}]
  /\ \A e \in activity \cup humans : e[2] < today
  /\ \A r \in Runs : /\ \A e \in found[r] \cup others[r] : e[2] < today
                     /\ pc[r] # "insert" => left[r] = {}
                     /\ "humans" \notin left[r] => others[r] = {}

\* A run never takes a day out of a stored week that was over when the run began,
\* for an account that it asked about: replacing rows by those of a range is safe
\* only because every range begins on a Monday and ends on a Sunday or on the day
\* of the run (monthlyChunks, recentSyncChunk).
NoDayLost == [][
  /\ \A e \in activity \ activity' :
       \E r \in Runs : pc[r] = "insert" /\ (e[1] \notin asked[r] \/ e[2] >= began[r])
  /\ \A e \in humans \ humans' :
       \E r \in Runs : pc[r] = "insert" /\ (e[1] \in asked[r] \/ e[2] >= began[r])]_vars

\* A chunk that the resume filter of backfill takes for done with the present bots
\* has every day of it that was over when the run that marked it began, whichever
\* insert or run failed meanwhile.  Runs do not overlap (one run).
CompletedIsWhole ==
  \A x \in completed : x.logins = known =>
    \A e \in Active : e[1] \in known /\ Within(e[2], x) /\ e[2] < x.began
      => e \in activity

\* In such a chunk no event counts both as a bot's and as a person's, although a
\* bot counts as a person until it is listed and two inserts replace the two rows.
CountedOnce ==
  \A x \in completed : x.logins = known =>
    \A e \in activity \cap humans : ~Within(e[2], x)

RecentStored ==
  \A e \in Active : e[1] \in known /\ e[2] < today /\ Within(e[2], RecentSyncChunk(today))
    => e \in activity

NewBotStored ==
  \A e \in Active : /\ e[1] \in Added \cap known
                    /\ DefaultStart(today) <= e[2] /\ e[2] < deployedOn
    => e \in activity \ humans

\* Once nothing fails any more, the weeks that sync looks at become complete and stay
\* so; and so do, for a bot that was listed late, the weeks from before, back to the
\* start of the backfill, in which it counts as a person no longer.
CountsSettle == <>calm => <>[](RecentStored /\ NewBotStored)
====
