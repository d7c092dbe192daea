---- MODULE SyncProofs ----
(***************************************************************************)
(* Theorems about Sync, for any calendar, any accounts and events, and any *)
(* number of runs under way at a time unless a theorem says otherwise.     *)
(***************************************************************************)
EXTENDS Sync, TLAPS

-----------------------------------------------------------------------------
(* Weeks and chunks *)

\* toMondayDate and toSundayDate: a week begins before each of its days, and the
\* weeks follow one another.
LEMMA Weeks ==
  ASSUME NEW a \in Int, NEW b \in Int
  PROVE  /\ Monday(a) \in Int /\ Sunday(a) \in Int
         /\ Monday(a) <= a /\ a <= Sunday(a)
         /\ Monday(Monday(a)) = Monday(a) /\ Sunday(Sunday(a)) = Sunday(a)
         /\ a <= b => Monday(a) <= Monday(b) /\ Sunday(a) <= Sunday(b)
BY SMTT(30) DEF Monday, Sunday

LEMMA ChunksAreRanges ==
  ASSUME NEW start \in Days, NEW end \in Days
  PROVE  MonthlyChunks(start, end) \subseteq Ranges
<1> SUFFICES ASSUME NEW c \in Cursors(start, end)
             PROVE  [first |-> Monday(c), last |-> Sunday(Lesser(MonthEnd[c], end))] \in Ranges
    BY DEF MonthlyChunks
<1>1. c \in Days BY CalendarAssumption DEF Cursors, Days
<1>2. Lesser(MonthEnd[c], end) \in Int
      BY <1>1, CalendarAssumption DEF Lesser, Days
<1> QED BY <1>1, <1>2, Weeks DEF Ranges, Days

\* monthlyChunks: every week of the range lies within one of the chunks, also a week
\* that two months share.
THEOREM ChunksCover ==
  ASSUME NEW start \in Days, NEW end \in Days, NEW d \in start .. end
  PROVE  \E c \in MonthlyChunks(start, end) : Within(Monday(d), c) /\ Within(Sunday(d), c)
<1>1. /\ d \in Days /\ d \in Int /\ start \in Int /\ end \in Int
      /\ start <= d /\ d <= end
      BY CalendarAssumption DEF Days
<1>2. /\ MonthStart[d] \in Days /\ MonthStart[d] \in Int
      /\ MonthStart[d] <= d /\ d <= MonthEnd[d] /\ MonthEnd[d] \in Int
  <2>1. MonthStart[d] \in Days /\ MonthEnd[d] \in Nat BY <1>1, CalendarAssumption
  <2>2. MonthStart[d] <= d /\ d <= MonthEnd[d] BY <1>1, CalendarAssumption
  <2> QED BY <2>1, <2>2 DEF Days
<1> DEFINE cursor == IF MonthStart[d] <= start THEN start ELSE MonthStart[d]
<1>3. /\ cursor \in Days /\ cursor \in Int
      /\ cursor <= d /\ MonthStart[d] <= cursor
      /\ start <= cursor /\ cursor <= end
      /\ cursor = start \/ cursor = MonthStart[d]
      BY <1>1, <1>2
<1> HIDE DEF cursor
<1>4. MonthStart[cursor] = MonthStart[d] /\ MonthEnd[cursor] = MonthEnd[d]
  <2>1. cursor <= MonthEnd[d] BY <1>1, <1>2, <1>3
  <2> QED BY <1>1, <1>3, <2>1, CalendarAssumption
<1>5. cursor \in Cursors(start, end)
      BY <1>1, <1>3, <1>4 DEF Cursors
<1> DEFINE final == Lesser(MonthEnd[cursor], end)
<1>6. final \in Int /\ d <= final
      BY <1>1, <1>2, <1>4 DEF Lesser
<1> HIDE DEF final
<1> DEFINE c == [first |-> Monday(cursor), last |-> Sunday(final)]
<1>7. c \in MonthlyChunks(start, end) BY <1>5 DEF MonthlyChunks, final
<1>8. Monday(cursor) <= Monday(d) /\ Monday(cursor) \in Int
      BY <1>1, <1>3, Weeks
<1>9. Sunday(d) <= Sunday(final) /\ Sunday(final) \in Int
      BY <1>1, <1>6, Weeks
<1>10. /\ Monday(d) \in Int /\ Sunday(d) \in Int
       /\ Monday(d) <= d /\ d <= Sunday(d)
      BY <1>1, Weeks
<1>11. Within(Monday(d), c) /\ Within(Sunday(d), c)
      BY <1>1, <1>8, <1>9, <1>10 DEF Within
<1> QED BY <1>7, <1>11

-----------------------------------------------------------------------------
(* Type correctness *)

LEMMA Dates == Days \subseteq Int /\ RunDays \subseteq Days /\ 0 \in Days
BY CalendarAssumption DEF Days

LEMMA InitType == Init => TypeOK
BY CalendarAssumption, EventAssumption, Dates DEF Init, TypeOK, NoRange, Ranges

LEMMA StartsType ==
  ASSUME TypeOK, NEW r \in Runs, NEW command \in {"sync", "backfill", "fetch"},
         NEW ranges \in SUBSET Ranges, Starts(r, command, ranges)
  PROVE  TypeOK'
BY DEF TypeOK, Starts, tables

LEMMA DefaultStartIsDay ==
  ASSUME NEW d \in Days
  PROVE  DefaultStart(d) \in Days
<1>1. MonthStart[d] \in Days BY CalendarAssumption
<1>2. CASE MonthStart[d] = 0 BY <1>2, Dates DEF DefaultStart
<1>3. CASE MonthStart[d] # 0
  <2>0. LastDay \in Nat BY CalendarAssumption
  <2>1. MonthStart[d] - 1 \in Days BY <1>1, <1>3, <2>0 DEF Days
  <2>2. MonthStart[MonthStart[d] - 1] \in Days BY <2>1, CalendarAssumption
  <2> QED BY <1>3, <2>2 DEF DefaultStart
<1> QED BY <1>2, <1>3

LEMMA StoredEvents ==
  ASSUME TypeOK, NEW rows \in SUBSET Active, \A e \in rows : e[2] < today
  PROVE  /\ StoreActivity(rows) \subseteq Active /\ StoreHumans(rows) \subseteq Active
         /\ \A e \in StoreActivity(rows) \cup StoreHumans(rows) : e[2] < today
BY DEF TypeOK, StoreActivity, StoreHumans

LEMMA SyncType ==
  ASSUME TypeOK, NEW r \in Runs, StartSync(r)
  PROVE  TypeOK'
<1>1. today \in Int /\ today - SyncWeeks * 7 \in Int
      BY Dates, CalendarAssumption DEF TypeOK
<1>2. RecentSyncChunk(today) \in Ranges BY <1>1, Weeks DEF RecentSyncChunk, Ranges
<1> QED BY <1>2, StartsType DEF StartSync

LEMMA BackfillType ==
  ASSUME TypeOK, NEW r \in Runs, StartBackfill(r) \/ StartManualBackfill(r)
  PROVE  TypeOK'
<1>1. \A start \in {0, DefaultStart(today)} : MonthlyChunks(start, today) \subseteq Ranges
      BY ChunksAreRanges, DefaultStartIsDay, Dates DEF TypeOK
<1>2. CASE StartBackfill(r)
  <2> DEFINE chunks == {c \in MonthlyChunks(DefaultStart(today), today) : Pending(c)}
  <2>1. chunks \in SUBSET Ranges BY <1>1
  <2>2. Starts(r, "backfill", chunks) BY <1>2 DEF StartBackfill
  <2> HIDE DEF chunks
  <2> QED BY <2>1, <2>2, StartsType
<1>3. CASE StartManualBackfill(r)
  <2>1. PICK start \in {0, DefaultStart(today)}, resume \in BOOLEAN :
          Starts(r, "backfill", {c \in MonthlyChunks(start, today) : resume => Pending(c)})
        BY <1>3 DEF StartManualBackfill
  <2> DEFINE chunks == {c \in MonthlyChunks(start, today) : resume => Pending(c)}
  <2>2. chunks \in SUBSET Ranges BY <1>1
  <2> HIDE DEF chunks
  <2> QED BY <2>1, <2>2, StartsType DEF chunks
<1> QED BY <1>2, <1>3

LEMMA FetchType ==
  ASSUME TypeOK, NEW r \in Runs, StartFetchBigQuery(r)
  PROVE  TypeOK'
<1>1. PICK c : /\ c \in FetchRanges \/ c = [first |-> DefaultStart(today), last |-> today]
               /\ Starts(r, "fetch", {c})
      BY DEF StartFetchBigQuery
<1>2. c \in Ranges
  <2>1. today \in Int /\ DefaultStart(today) \in Int
        BY DefaultStartIsDay, Dates DEF TypeOK
  <2>2. CASE c \in FetchRanges BY <2>2, EventAssumption
  <2>3. CASE c = [first |-> DefaultStart(today), last |-> today]
        BY <2>1, <2>3 DEF Ranges
  <2> QED BY <1>1, <2>2, <2>3
<1> QED BY <1>1, <1>2, StartsType

LEMMA QueriesType ==
  ASSUME TypeOK, NEW r \in Runs, QueryBots(r) \/ QueryHumans(r)
  PROVE  TypeOK'
<1>1. CASE QueryBots(r)
      BY <1>1 DEF TypeOK, QueryBots, BotEvents, EventsOf, tables
<1>2. CASE QueryHumans(r)
      BY <1>2 DEF TypeOK, QueryHumans, HumanEvents, EventsOf, tables
<1> QED BY <1>1, <1>2

LEMMA InsertsType ==
  ASSUME TypeOK, NEW r \in Runs, InsertActivity(r) \/ InsertHumans(r)
  PROVE  TypeOK'
<1>1. CASE InsertActivity(r)
  <2>1. /\ StoreActivity(found[r]) \subseteq Active
        /\ \A e \in StoreActivity(found[r]) : e[2] < today
        BY StoredEvents DEF TypeOK
  <2>2. AfterInsert(r, "bots") \in {"insert", "mark", "next"}
        BY DEF AfterInsert
  <2>3. AfterInsert(r, "bots") # "insert" => left[r] = {"bots"}
        BY DEF AfterInsert
  <2>4. /\ activity' = StoreActivity(found[r])
        /\ found' = [found EXCEPT ![r] = {}]
        /\ left' = [left EXCEPT ![r] = @ \ {"bots"}]
        /\ pc' = [pc EXCEPT ![r] = AfterInsert(r, "bots")]
        /\ UNCHANGED <<today, known, deployedOn, humans, completed, calm, kind, began, asked,
                       todo, chunk, others>>
        BY <1>1 DEF InsertActivity, Insert
  <2>5. \A s \in Runs : /\ pc'[s] # "insert" => left'[s] = {}
                        /\ "humans" \notin left'[s] => others'[s] = {}
    <3>1. SUFFICES ASSUME NEW s \in Runs
                   PROVE  /\ pc'[s] # "insert" => left'[s] = {}
                          /\ "humans" \notin left'[s] => others'[s] = {}
          OBVIOUS
    <3>2. CASE s = r BY <2>3, <2>4, <3>2 DEF TypeOK
    <3>3. CASE s # r BY <2>4, <3>3 DEF TypeOK
    <3> QED BY <3>2, <3>3
  <2> HIDE DEF AfterInsert
  <2> QED BY <2>1, <2>2, <2>4, <2>5 DEF TypeOK
<1>2. CASE InsertHumans(r)
  <2>1. /\ StoreHumans(others[r]) \subseteq Active
        /\ \A e \in StoreHumans(others[r]) : e[2] < today
        BY StoredEvents DEF TypeOK
  <2>2. AfterInsert(r, "humans") \in {"insert", "mark", "next"}
        BY DEF AfterInsert
  <2>3. AfterInsert(r, "humans") # "insert" => left[r] = {"humans"}
        BY DEF AfterInsert
  <2>4. /\ humans' = StoreHumans(others[r])
        /\ others' = [others EXCEPT ![r] = {}]
        /\ left' = [left EXCEPT ![r] = @ \ {"humans"}]
        /\ pc' = [pc EXCEPT ![r] = AfterInsert(r, "humans")]
        /\ UNCHANGED <<today, known, deployedOn, activity, completed, calm, kind, began, asked,
                       todo, chunk, found>>
        BY <1>2 DEF InsertHumans, Insert
  <2>5. \A s \in Runs : /\ pc'[s] # "insert" => left'[s] = {}
                        /\ "humans" \notin left'[s] => others'[s] = {}
    <3>1. SUFFICES ASSUME NEW s \in Runs
                   PROVE  /\ pc'[s] # "insert" => left'[s] = {}
                          /\ "humans" \notin left'[s] => others'[s] = {}
          OBVIOUS
    <3>2. CASE s = r BY <2>3, <2>4, <3>2 DEF TypeOK
    <3>3. CASE s # r BY <2>4, <3>3 DEF TypeOK
    <3> QED BY <3>2, <3>3
  <2> HIDE DEF AfterInsert
  <2> QED BY <2>1, <2>2, <2>4, <2>5 DEF TypeOK
<1> QED BY <1>1, <1>2

LEMMA MarkType ==
  ASSUME TypeOK, NEW r \in Runs, MarkChunkCompleted(r)
  PROVE  TypeOK'
BY DEF TypeOK, MarkChunkCompleted, Ranges

LEMMA EndsType ==
  ASSUME TypeOK, NEW r \in Runs, Ends(r)
  PROVE  TypeOK'
BY Dates DEF TypeOK, Ends, tables, NoRange, Ranges

LEMMA WorldType ==
  ASSUME TypeOK, Tick \/ Deploy \/ Recover
  PROVE  TypeOK'
<1>1. CASE Tick
  <2>1. today' \in Days /\ today < today' BY <1>1, Dates DEF Tick
  <2>2. \A e \in Active : e[2] \in Int BY EventAssumption, Dates
  <2>3. \A e \in Active : e[2] < today => e[2] < today'
        BY <2>1, <2>2, Dates DEF TypeOK
  <2> QED BY <1>1, <2>1, <2>3 DEF TypeOK, Tick, tables, run
<1>2. CASE Deploy BY <1>2, EventAssumption DEF TypeOK, Deploy, tables, run
<1>3. CASE Recover BY <1>3 DEF TypeOK, Recover, tables, run
<1> QED BY <1>1, <1>2, <1>3

LEMMA NextType == TypeOK /\ [Next]_vars => TypeOK'
<1> SUFFICES ASSUME TypeOK, [Next]_vars PROVE TypeOK'
    OBVIOUS
<1>1. ASSUME NEW r \in Runs,
             \/ StartSync(r) \/ StartBackfill(r) \/ StartManualBackfill(r)
             \/ StartFetchBigQuery(r) \/ Work(r) \/ Fail(r)
      PROVE  TypeOK'
      BY <1>1, SyncType, BackfillType, FetchType, QueriesType, InsertsType, MarkType,
         EndsType DEF Work, Finish, Fail
<1>2. CASE Tick \/ Deploy \/ Recover BY <1>2, WorldType
<1>3. CASE UNCHANGED vars BY <1>3 DEF vars, TypeOK
<1> QED BY <1>1, <1>2, <1>3 DEF Next

\* For any calendar and any runs, however they overlap and fail.
THEOREM SyncTypeCorrect == Spec => []TypeOK
BY InitType, NextType, PTL DEF Spec

-----------------------------------------------------------------------------
(* No stored day is lost *)

\* A range that may replace rows: it begins with a week, and ends with one or not
\* before day n.
Whole(c, n) == /\ Monday(c.first) = c.first
               /\ Sunday(c.last) = c.last \/ c.last >= n

\* What recentSyncChunk and monthlyChunks see to, and fetch-bigquery leaves to the
\* one who calls it.
RangesWhole == /\ ~FetchDefault
               /\ \A c \in FetchRanges : Monday(c.first) = c.first /\ Sunday(c.last) = c.last

RunsWhole == \A r \in Runs : pc[r] # "idle" =>
  /\ began[r] <= today
  /\ \A c \in todo[r] : Whole(c, began[r])
  /\ pc[r] # "next" => Whole(chunk[r], began[r])

\* Answers hold days of the chunk only, and all of those over when the run began.
BotsAnswered(r) ==
  /\ \A e \in found[r] : Within(e[2], chunk[r])
  /\ \A e \in Active : e[1] \in asked[r] /\ Within(e[2], chunk[r]) /\ e[2] < began[r]
       => e \in found[r]
HumansAnswered(r) ==
  /\ \A e \in others[r] : Within(e[2], chunk[r])
  /\ \A e \in Active : /\ e[1] \notin asked[r] \cup Suffixed
                        /\ Within(e[2], chunk[r]) /\ e[2] < began[r]
       => e \in others[r]

AnswersWhole == \A r \in Runs :
  /\ pc[r] = "people" \/ (pc[r] = "insert" /\ "bots" \in left[r]) => BotsAnswered(r)
  /\ pc[r] = "insert" /\ "humans" \in left[r] => HumansAnswered(r)

NoSuffixed == \A e \in humans \cup UNION {others[r] : r \in Runs} : e[1] \notin Suffixed

RangeInv == TypeOK /\ RunsWhole /\ AnswersWhole /\ NoSuffixed

\* Another day of a week that a range touches lies in the range, if it is over by n.
LEMMA WeekInside ==
  ASSUME NEW c \in Ranges, NEW n \in Int, Whole(c, n),
         NEW a \in Int, NEW b \in Int, Monday(a) = Monday(b), Within(a, c), b < n
  PROVE  Within(b, c)
<1>1. c.first \in Int /\ c.last \in Int BY DEF Ranges
<1>2. c.first <= b
  <2>1. c.first <= Monday(a) BY <1>1, Weeks DEF Whole, Within
  <2> QED BY <1>1, <2>1, Weeks
<1>3. b <= c.last
  <2>1. CASE c.last >= n BY <1>1, <2>1
  <2>2. CASE Sunday(c.last) = c.last
    <3>1. Sunday(a) <= c.last BY <1>1, <2>2, Weeks DEF Within
    <3>2. Sunday(a) = Sunday(b) BY DEF Sunday
    <3>3. b <= Sunday(b) /\ Sunday(b) \in Int BY Weeks
    <3> QED BY <1>1, <3>1, <3>2, <3>3
  <2> QED BY <2>1, <2>2 DEF Whole
<1> QED BY <1>2, <1>3 DEF Within

LEMMA EventsTyped ==
  ASSUME NEW e \in Active
  PROVE  e[1] \in Logins /\ e[2] \in Days /\ e[2] \in Int
BY EventAssumption, Dates

LEMMA ActivityLost ==
  ASSUME RangeInv, NEW r \in Runs, InsertActivity(r), NEW e \in activity \ activity'
  PROVE  pc[r] = "insert" /\ (e[1] \notin asked[r] \/ e[2] >= began[r])
<1>1. pc[r] = "insert" /\ "bots" \in left[r] /\ activity' = StoreActivity(found[r])
      BY DEF InsertActivity, Insert
<1>2. e \in Active /\ e \notin found[r] /\ found[r] \subseteq Active
      BY <1>1 DEF StoreActivity, RangeInv, TypeOK
<1>3. PICK n \in found[r] : BotKey(n) = BotKey(e) BY <1>1 DEF StoreActivity
<1>4. Monday(n[2]) = Monday(e[2]) BY <1>3 DEF BotKey
<1>5. /\ BotsAnswered(r) /\ Whole(chunk[r], began[r]) /\ chunk[r] \in Ranges
      /\ began[r] \in Int
      BY <1>1, Dates DEF RangeInv, AnswersWhole, RunsWhole, TypeOK
<1>6. Within(n[2], chunk[r]) BY <1>3, <1>5 DEF BotsAnswered
<1>7. ASSUME e[1] \in asked[r], e[2] < began[r] PROVE FALSE
  <2>1. Within(e[2], chunk[r])
        BY <1>2, <1>3, <1>4, <1>5, <1>6, <1>7, WeekInside, EventsTyped
  <2> QED BY <1>2, <1>5, <1>7, <2>1 DEF BotsAnswered
<1> QED BY <1>1, <1>2, <1>5, <1>7, EventsTyped

LEMMA HumansLost ==
  ASSUME RangeInv, NEW r \in Runs, InsertHumans(r), NEW e \in humans \ humans'
  PROVE  pc[r] = "insert" /\ (e[1] \in asked[r] \/ e[2] >= began[r])
<1>1. pc[r] = "insert" /\ "humans" \in left[r] /\ humans' = StoreHumans(others[r])
      BY DEF InsertHumans, Insert
<1>2. /\ e \in Active /\ e \notin others[r] /\ others[r] \subseteq Active
      /\ e[1] \notin Suffixed
      BY <1>1 DEF StoreHumans, RangeInv, TypeOK, NoSuffixed
<1>3. PICK n \in others[r] : SameWeek(n, e) BY <1>1 DEF StoreHumans
<1>4. Monday(n[2]) = Monday(e[2]) BY <1>3 DEF SameWeek
<1>5. /\ HumansAnswered(r) /\ Whole(chunk[r], began[r]) /\ chunk[r] \in Ranges
      /\ began[r] \in Int
      BY <1>1, Dates DEF RangeInv, AnswersWhole, RunsWhole, TypeOK
<1>6. Within(n[2], chunk[r]) BY <1>3, <1>5 DEF HumansAnswered
<1>7. ASSUME e[1] \notin asked[r], e[2] < began[r] PROVE FALSE
  <2>1. Within(e[2], chunk[r])
        BY <1>2, <1>3, <1>4, <1>5, <1>6, <1>7, WeekInside, EventsTyped
  <2> QED BY <1>2, <1>5, <1>7, <2>1 DEF HumansAnswered
<1> QED BY <1>1, <1>2, <1>5, <1>7, EventsTyped

LEMMA SyncRangeWhole ==
  ASSUME today \in Int
  PROVE  Whole(RecentSyncChunk(today), today)
<1>1. today - SyncWeeks * 7 \in Int BY CalendarAssumption
<1> QED BY <1>1, Weeks DEF Whole, RecentSyncChunk

LEMMA ChunksAreWhole ==
  ASSUME NEW start \in Days, NEW end \in Days, NEW c \in MonthlyChunks(start, end),
         NEW n \in Int
  PROVE  Whole(c, n)
<1>1. PICK x \in Cursors(start, end) :
        c = [first |-> Monday(x), last |-> Sunday(Lesser(MonthEnd[x], end))]
      BY DEF MonthlyChunks
<1>2. x \in Days BY <1>1, CalendarAssumption DEF Cursors, Days
<1>3. x \in Int /\ Lesser(MonthEnd[x], end) \in Int
      BY <1>2, CalendarAssumption, Dates DEF Lesser
<1> QED BY <1>1, <1>3, Weeks DEF Whole

LEMMA StartsWhole ==
  ASSUME RangeInv, NEW r \in Runs, NEW command \in {"sync", "backfill", "fetch"},
         NEW ranges \in SUBSET Ranges, Starts(r, command, ranges),
         \A c \in ranges : Whole(c, today)
  PROVE  RangeInv'
<1>1. TypeOK' BY StartsType DEF RangeInv
<1>2. RunsWhole'
  <2> SUFFICES ASSUME NEW s \in Runs, pc'[s] # "idle"
               PROVE  /\ began'[s] <= today'
                      /\ \A c \in todo'[s] : Whole(c, began'[s])
                      /\ pc'[s] # "next" => Whole(chunk'[s], began'[s])
      BY DEF RunsWhole, Whole
  <2>1. CASE s = r BY <2>1, Dates DEF Starts, RangeInv, TypeOK
  <2>2. CASE s # r BY <2>2 DEF Starts, RangeInv, TypeOK, RunsWhole
  <2> QED BY <2>1, <2>2
<1>3. AnswersWhole'
      BY DEF Starts, RangeInv, TypeOK, AnswersWhole, BotsAnswered, HumansAnswered
<1>4. NoSuffixed' BY DEF Starts, RangeInv, NoSuffixed, tables
<1> QED BY <1>1, <1>2, <1>3, <1>4 DEF RangeInv

LEMMA CommandsWhole ==
  ASSUME RangesWhole, RangeInv, NEW r \in Runs,
         \/ StartSync(r) \/ StartBackfill(r) \/ StartManualBackfill(r)
         \/ StartFetchBigQuery(r)
  PROVE  RangeInv'
<1>1. today \in Days /\ today \in Int BY Dates DEF RangeInv, TypeOK
<1>2. \A start \in {0, DefaultStart(today)} :
        MonthlyChunks(start, today) \subseteq {c \in Ranges : Whole(c, today)}
      BY <1>1, ChunksAreRanges, ChunksAreWhole, DefaultStartIsDay, Dates
<1>3. CASE StartSync(r)
  <2>1. today - SyncWeeks * 7 \in Int BY <1>1, CalendarAssumption
  <2>2. RecentSyncChunk(today) \in Ranges
        BY <1>1, <2>1, Weeks DEF RecentSyncChunk, Ranges
  <2> DEFINE ranges == {RecentSyncChunk(today)}
  <2>3. ranges \in SUBSET Ranges /\ \A c \in ranges : Whole(c, today)
        BY <1>1, <2>2, SyncRangeWhole
  <2>4. Starts(r, "sync", ranges) BY <1>3 DEF StartSync
  <2> HIDE DEF ranges
  <2> QED BY <2>3, <2>4, StartsWhole
<1>4. CASE StartBackfill(r)
  <2> DEFINE ranges == {c \in MonthlyChunks(DefaultStart(today), today) : Pending(c)}
  <2>1. ranges \in SUBSET Ranges /\ \A c \in ranges : Whole(c, today) BY <1>2
  <2>2. Starts(r, "backfill", ranges) BY <1>4 DEF StartBackfill
  <2> HIDE DEF ranges
  <2> QED BY <2>1, <2>2, StartsWhole
<1>5. CASE StartManualBackfill(r)
  <2>1. PICK start \in {0, DefaultStart(today)}, resume \in BOOLEAN :
          Starts(r, "backfill", {c \in MonthlyChunks(start, today) : resume => Pending(c)})
        BY <1>5 DEF StartManualBackfill
  <2> DEFINE ranges == {c \in MonthlyChunks(start, today) : resume => Pending(c)}
  <2>2. ranges \in SUBSET Ranges /\ \A c \in ranges : Whole(c, today) BY <1>2
  <2>3. Starts(r, "backfill", ranges) BY <2>1
  <2> HIDE DEF ranges
  <2> QED BY <2>2, <2>3, StartsWhole
<1>6. CASE StartFetchBigQuery(r)
  <2>1. PICK c \in FetchRanges : Starts(r, "fetch", {c})
        BY <1>6 DEF StartFetchBigQuery, RangesWhole
  <2>2. c \in Ranges /\ Whole(c, today)
        BY EventAssumption DEF RangesWhole, Whole
  <2> QED BY <2>1, <2>2, StartsWhole
<1> QED BY <1>3, <1>4, <1>5, <1>6

LEMMA QueryBotsWhole ==
  ASSUME RangeInv, NEW r \in Runs, QueryBots(r)
  PROVE  RangeInv'
<1>1. TypeOK' BY QueriesType DEF RangeInv
<1>2. PICK c \in todo[r] : /\ todo' = [todo EXCEPT ![r] = @ \ {c}]
                           /\ chunk' = [chunk EXCEPT ![r] = c]
                           /\ found' = [found EXCEPT ![r] = BotEvents(c, asked[r])]
      BY DEF QueryBots
<1>3. /\ pc[r] = "next" /\ pc' = [pc EXCEPT ![r] = "people"]
      /\ UNCHANGED <<today, activity, humans, began, asked, others, left>>
      BY DEF QueryBots, tables
<1>4. began[r] <= today /\ began[r] \in Int /\ today \in Int /\ Whole(c, began[r])
      BY <1>2, <1>3, Dates DEF RangeInv, RunsWhole, TypeOK
<1>5. RunsWhole'
  <2> SUFFICES ASSUME NEW s \in Runs, pc'[s] # "idle"
               PROVE  /\ began'[s] <= today'
                      /\ \A d \in todo'[s] : Whole(d, began'[s])
                      /\ pc'[s] # "next" => Whole(chunk'[s], began'[s])
      BY DEF RunsWhole, Whole
  <2>1. CASE s = r BY <1>2, <1>3, <1>4, <2>1 DEF RangeInv, TypeOK, RunsWhole
  <2>2. CASE s # r BY <1>2, <1>3, <2>2 DEF RangeInv, TypeOK, RunsWhole
  <2> QED BY <2>1, <2>2
<1>6. AnswersWhole'
  <2>1. BotsAnswered(r)'
    <3>1. found'[r] = BotEvents(c, asked[r]) /\ chunk'[r] = c
          BY <1>2 DEF RangeInv, TypeOK
    <3> QED BY <1>3, <1>4, <3>1, EventsTyped DEF BotsAnswered, BotEvents, EventsOf
  <2>2. \A s \in Runs \ {r} : /\ BotsAnswered(s)' <=> BotsAnswered(s)
                              /\ HumansAnswered(s)' <=> HumansAnswered(s)
                              /\ pc'[s] = pc[s]
        BY <1>2, <1>3 DEF RangeInv, TypeOK, BotsAnswered, HumansAnswered
  <2> QED BY <1>3, <2>1, <2>2 DEF RangeInv, TypeOK, AnswersWhole
<1>7. NoSuffixed' BY <1>3 DEF RangeInv, NoSuffixed
<1> QED BY <1>1, <1>5, <1>6, <1>7 DEF RangeInv

LEMMA QueryHumansWhole ==
  ASSUME RangeInv, NEW r \in Runs, QueryHumans(r)
  PROVE  RangeInv'
<1>1. TypeOK' BY QueriesType DEF RangeInv
<1>2. /\ pc[r] = "people" /\ pc' = [pc EXCEPT ![r] = "insert"]
      /\ others' = [others EXCEPT ![r] = HumanEvents(chunk[r], asked[r])]
      /\ left' = [left EXCEPT ![r] = {"bots", "humans"}]
      /\ UNCHANGED <<today, activity, humans, began, asked, todo, chunk, found>>
      BY DEF QueryHumans, tables
<1>3. began[r] <= today /\ began[r] \in Int /\ today \in Int
      BY <1>2, Dates DEF RangeInv, RunsWhole, TypeOK
<1>4. RunsWhole' BY <1>2 DEF RangeInv, TypeOK, RunsWhole, Whole
<1>5. AnswersWhole'
  <2>1. HumansAnswered(r)' /\ BotsAnswered(r)'
    <3>1. others'[r] = HumanEvents(chunk[r], asked[r]) BY <1>2 DEF RangeInv, TypeOK
    <3>2. BotsAnswered(r) BY <1>2 DEF RangeInv, AnswersWhole
    <3>3. BotsAnswered(r)' BY <1>2, <3>2 DEF BotsAnswered
    <3> QED BY <1>2, <1>3, <3>1, <3>3, EventsTyped DEF HumansAnswered, HumanEvents, EventsOf
  <2>2. \A s \in Runs \ {r} : /\ BotsAnswered(s)' <=> BotsAnswered(s)
                              /\ HumansAnswered(s)' <=> HumansAnswered(s)
                              /\ pc'[s] = pc[s] /\ left'[s] = left[s]
        BY <1>2 DEF RangeInv, TypeOK, BotsAnswered, HumansAnswered
  <2> QED BY <2>1, <2>2 DEF RangeInv, AnswersWhole
<1>6. NoSuffixed'
  <2>1. \A e \in HumanEvents(chunk[r], asked[r]) : e[1] \notin Suffixed
        BY DEF HumanEvents
  <2> QED BY <1>2, <2>1 DEF RangeInv, TypeOK, NoSuffixed
<1> QED BY <1>1, <1>4, <1>5, <1>6 DEF RangeInv

LEMMA InsertsWhole ==
  ASSUME RangeInv, NEW r \in Runs, InsertActivity(r) \/ InsertHumans(r)
  PROVE  RangeInv'
<1>1. TypeOK' BY InsertsType DEF RangeInv
<1>2. PICK table \in {"bots", "humans"} :
        /\ pc[r] = "insert" /\ left' = [left EXCEPT ![r] = @ \ {table}]
        /\ pc' = [pc EXCEPT ![r] = AfterInsert(r, table)]
        /\ UNCHANGED <<today, began, asked, todo, chunk>>
        /\ table = "humans" => found' = found
        /\ table = "bots" => others' = others
        /\ \A s \in Runs \ {r} : found'[s] = found[s] /\ others'[s] = others[s]
        /\ others'[r] \subseteq others[r]
        /\ humans' \subseteq humans \cup others[r]
      BY DEF InsertActivity, InsertHumans, Insert, RangeInv, TypeOK, StoreHumans
<1>3. AfterInsert(r, table) # "people" /\ AfterInsert(r, table) # "idle"
      BY DEF AfterInsert
<1>4. RunsWhole'
  <2> SUFFICES ASSUME NEW s \in Runs, pc'[s] # "idle"
               PROVE  /\ began'[s] <= today'
                      /\ \A d \in todo'[s] : Whole(d, began'[s])
                      /\ pc'[s] # "next" => Whole(chunk'[s], began'[s])
      BY DEF RunsWhole, Whole
  <2>1. CASE s = r BY <1>2, <2>1 DEF RangeInv, TypeOK, RunsWhole
  <2>2. CASE s # r BY <1>2, <2>2 DEF RangeInv, TypeOK, RunsWhole
  <2> QED BY <2>1, <2>2
<1>5. AnswersWhole'
  <2>1. ASSUME pc'[r] = "insert", "bots" \in left'[r] PROVE BotsAnswered(r)'
    <3>1. table = "humans" /\ "bots" \in left[r]
          BY <1>2, <2>1 DEF RangeInv, TypeOK
    <3>2. BotsAnswered(r) BY <1>2, <3>1 DEF RangeInv, AnswersWhole
    <3> QED BY <1>2, <3>1, <3>2 DEF BotsAnswered
  <2>2. ASSUME pc'[r] = "insert", "humans" \in left'[r] PROVE HumansAnswered(r)'
    <3>1. table = "bots" /\ "humans" \in left[r]
          BY <1>2, <2>2 DEF RangeInv, TypeOK
    <3>2. HumansAnswered(r) BY <1>2, <3>1 DEF RangeInv, AnswersWhole
    <3> QED BY <1>2, <3>1, <3>2 DEF HumansAnswered
  <2>3. pc'[r] # "people" BY <1>2, <1>3 DEF RangeInv, TypeOK
  <2>4. \A s \in Runs \ {r} : /\ BotsAnswered(s)' <=> BotsAnswered(s)
                              /\ HumansAnswered(s)' <=> HumansAnswered(s)
                              /\ pc'[s] = pc[s] /\ left'[s] = left[s]
        BY <1>2 DEF RangeInv, TypeOK, BotsAnswered, HumansAnswered
  <2> QED BY <2>1, <2>2, <2>3, <2>4 DEF RangeInv, AnswersWhole
<1>6. NoSuffixed' BY <1>2 DEF RangeInv, NoSuffixed
<1> QED BY <1>1, <1>4, <1>5, <1>6 DEF RangeInv

LEMMA MarkWhole ==
  ASSUME RangeInv, NEW r \in Runs, MarkChunkCompleted(r)
  PROVE  RangeInv'
<1>1. TypeOK' BY MarkType DEF RangeInv
<1>2. /\ pc[r] = "mark" /\ pc' = [pc EXCEPT ![r] = "next"]
      /\ UNCHANGED <<today, humans, began, asked, todo, chunk, found, others, left>>
      BY DEF MarkChunkCompleted
<1>3. RunsWhole' BY <1>2 DEF RangeInv, TypeOK, RunsWhole, Whole
<1>4. AnswersWhole'
      BY <1>2 DEF RangeInv, TypeOK, AnswersWhole, BotsAnswered, HumansAnswered
<1>5. NoSuffixed' BY <1>2 DEF RangeInv, NoSuffixed
<1> QED BY <1>1, <1>3, <1>4, <1>5 DEF RangeInv

LEMMA EndsWhole ==
  ASSUME RangeInv, NEW r \in Runs, Ends(r)
  PROVE  RangeInv'
<1>1. TypeOK' BY EndsType DEF RangeInv
<1>2. /\ pc'[r] = "idle" /\ others'[r] = {} /\ UNCHANGED <<today, humans>>
      /\ \A s \in Runs \ {r} :
           /\ pc'[s] = pc[s] /\ began'[s] = began[s] /\ asked'[s] = asked[s]
           /\ todo'[s] = todo[s] /\ chunk'[s] = chunk[s] /\ found'[s] = found[s]
           /\ others'[s] = others[s] /\ left'[s] = left[s]
      BY DEF Ends, RangeInv, TypeOK, tables
<1>3. RunsWhole' BY <1>2 DEF RangeInv, RunsWhole, Whole
<1>4. AnswersWhole'
      BY <1>2 DEF RangeInv, AnswersWhole, BotsAnswered, HumansAnswered
<1>5. NoSuffixed' BY <1>2 DEF RangeInv, NoSuffixed
<1> QED BY <1>1, <1>3, <1>4, <1>5 DEF RangeInv

LEMMA WorldWhole ==
  ASSUME RangeInv, Tick \/ Deploy \/ Recover
  PROVE  RangeInv'
<1>1. TypeOK' BY WorldType DEF RangeInv
<1>2. today <= today' /\ today \in Int /\ today' \in Int
      BY Dates DEF RangeInv, TypeOK, Tick, Deploy, Recover
<1>3. UNCHANGED <<tables, run>> BY DEF Tick, Deploy, Recover
<1>4. \A r \in Runs : began[r] \in Int BY Dates DEF RangeInv, TypeOK
<1>5. RunsWhole' BY <1>2, <1>3, <1>4 DEF RangeInv, RunsWhole, Whole, run
<1>6. AnswersWhole'
      BY <1>3 DEF RangeInv, AnswersWhole, BotsAnswered, HumansAnswered, run
<1>7. NoSuffixed' BY <1>3 DEF RangeInv, NoSuffixed, tables, run
<1> QED BY <1>1, <1>5, <1>6, <1>7 DEF RangeInv

LEMMA InitWhole == Init => RangeInv
<1> SUFFICES ASSUME Init PROVE RangeInv
    OBVIOUS
<1>1. TypeOK BY InitType
<1>2. RunsWhole /\ AnswersWhole BY DEF Init, RunsWhole, AnswersWhole
<1>3. NoSuffixed BY DEF Init, NoSuffixed
<1> QED BY <1>1, <1>2, <1>3 DEF RangeInv

LEMMA NextWhole == RangesWhole /\ RangeInv /\ [Next]_vars => RangeInv'
<1> SUFFICES ASSUME RangesWhole, RangeInv, [Next]_vars PROVE RangeInv'
    OBVIOUS
<1>1. ASSUME NEW r \in Runs,
             \/ StartSync(r) \/ StartBackfill(r) \/ StartManualBackfill(r)
             \/ StartFetchBigQuery(r) \/ Work(r) \/ Fail(r)
      PROVE  RangeInv'
      BY <1>1, CommandsWhole, QueryBotsWhole, QueryHumansWhole, InsertsWhole, MarkWhole,
         EndsWhole DEF Work, Finish, Fail
<1>2. CASE Tick \/ Deploy \/ Recover BY <1>2, WorldWhole
<1>3. CASE UNCHANGED vars
  <2>1. TypeOK' BY <1>3, NextType DEF RangeInv
  <2> QED BY <1>3, <2>1 DEF vars, RangeInv, RunsWhole, Whole, AnswersWhole, BotsAnswered,
                            HumansAnswered, NoSuffixed
<1> QED BY <1>1, <1>2, <1>3 DEF Next

\* A step that takes an event out of a table is an insert of one of the runs.
LEMMA OnlyInsertsLose ==
  ASSUME RangeInv, [Next]_vars
  PROVE  /\ \A e \in activity \ activity' :
              \E r \in Runs : pc[r] = "insert" /\ (e[1] \notin asked[r] \/ e[2] >= began[r])
         /\ \A e \in humans \ humans' :
              \E r \in Runs : pc[r] = "insert" /\ (e[1] \in asked[r] \/ e[2] >= began[r])
<1>1. ASSUME NEW r \in Runs, InsertActivity(r) PROVE humans' = humans
      BY <1>1 DEF InsertActivity
<1>2. ASSUME NEW r \in Runs, InsertHumans(r) PROVE activity' = activity
      BY <1>2 DEF InsertHumans
<1>3. CASE \E r \in Runs : InsertActivity(r) BY <1>1, <1>3, ActivityLost
<1>4. CASE \E r \in Runs : InsertHumans(r) BY <1>2, <1>4, HumansLost
<1>5. CASE ~\E r \in Runs : InsertActivity(r) \/ InsertHumans(r)
  <2>1. UNCHANGED <<activity, humans>>
        BY <1>5 DEF Next, Work, vars, tables, Starts, StartSync, StartBackfill,
           StartManualBackfill, StartFetchBigQuery, QueryBots, QueryHumans,
           MarkChunkCompleted, Finish, Fail, Ends, Tick, Deploy, Recover
  <2> QED BY <2>1
<1> QED BY <1>3, <1>4, <1>5

\* For any calendar, and any number of runs that overlap and fail at any point, as long
\* as nobody gives fetch-bigquery a range that begins or ends within a week.
THEOREM NoStoredDayLost == ASSUME RangesWhole PROVE Spec => NoDayLost
<1>1. Init => RangeInv BY InitWhole
<1>2. RangeInv /\ [Next]_vars => RangeInv' BY NextWhole
<1>3. RangeInv /\ [Next]_vars =>
      [/\ \A e \in activity \ activity' :
            \E r \in Runs : pc[r] = "insert" /\ (e[1] \notin asked[r] \/ e[2] >= began[r])
       /\ \A e \in humans \ humans' :
            \E r \in Runs : pc[r] = "insert" /\ (e[1] \in asked[r] \/ e[2] >= began[r])]_vars
      BY OnlyInsertsLose
<1> QED BY <1>1, <1>2, <1>3, PTL DEF Spec, NoDayLost

-----------------------------------------------------------------------------
(* A completed chunk is whole *)

OneRun == \A r, s \in Runs : r = s

\* The chunk a run is at has in the table all that the run is about to vouch for.
ChunkStored(r) ==
  \A e \in Active : e[1] \in asked[r] /\ Within(e[2], chunk[r]) /\ e[2] < began[r]
    => e \in activity

\* pipeline_state vouches for the bots and the days of the run that wrote a row,
\* whatever bots are listed now.
RowsVouch ==
  \A x \in completed :
    \A e \in Active : e[1] \in x.logins /\ Within(e[2], x) /\ e[2] < x.began
      => e \in activity

\* A run is later than all the rows there are, and knows at least their bots: what it
\* replaces it asks for again.
RowsEarlier ==
  /\ \A x \in completed : x.logins \subseteq known /\ x.began <= today
  /\ \A r \in Runs : pc[r] # "idle" =>
       /\ asked[r] \subseteq known
       /\ \A x \in completed : x.logins \subseteq asked[r] /\ x.began <= began[r]

MarksEarned == \A r \in Runs :
  pc[r] = "mark" \/ (pc[r] = "insert" /\ "bots" \notin left[r]) => ChunkStored(r)

VouchInv == RangeInv /\ RowsVouch /\ RowsEarlier /\ MarksEarned

LEMMA VouchStarts ==
  ASSUME VouchInv, RangeInv', NEW r \in Runs, NEW command, NEW ranges,
         Starts(r, command, ranges)
  PROVE  VouchInv'
<1>1. /\ pc' = [pc EXCEPT ![r] = "next"] /\ began' = [began EXCEPT ![r] = today]
      /\ asked' = [asked EXCEPT ![r] = known]
      /\ UNCHANGED <<today, known, activity, completed, chunk, left>>
      BY DEF Starts, tables
<1>2. RowsVouch' BY <1>1 DEF VouchInv, RowsVouch
<1>3. RowsEarlier' BY <1>1 DEF VouchInv, RangeInv, TypeOK, RowsEarlier
<1>4. MarksEarned' BY <1>1 DEF VouchInv, RangeInv, TypeOK, MarksEarned, ChunkStored
<1> QED BY <1>2, <1>3, <1>4 DEF VouchInv

LEMMA VouchQueries ==
  ASSUME VouchInv, RangeInv', NEW r \in Runs, QueryBots(r) \/ QueryHumans(r)
  PROVE  VouchInv'
<1>1. /\ pc[r] \in {"next", "people"}
      /\ pc'[r] = "people" \/ (pc'[r] = "insert" /\ "bots" \in left'[r])
      /\ \A s \in Runs \ {r} : pc'[s] = pc[s] /\ left'[s] = left[s] /\ chunk'[s] = chunk[s]
      /\ UNCHANGED <<today, known, activity, completed, began, asked>>
      BY DEF QueryBots, QueryHumans, tables, VouchInv, RangeInv, TypeOK
<1>2. RowsVouch' BY <1>1 DEF VouchInv, RowsVouch
<1>3. RowsEarlier' BY <1>1 DEF VouchInv, RowsEarlier
<1>4. MarksEarned' BY <1>1 DEF VouchInv, MarksEarned, ChunkStored
<1> QED BY <1>2, <1>3, <1>4 DEF VouchInv

LEMMA VouchInsertActivity ==
  ASSUME OneRun, VouchInv, RangeInv', NEW r \in Runs, InsertActivity(r)
  PROVE  VouchInv'
<1>1. /\ pc[r] = "insert" /\ "bots" \in left[r] /\ activity' = StoreActivity(found[r])
      /\ pc' = [pc EXCEPT ![r] = AfterInsert(r, "bots")]
      /\ UNCHANGED <<today, known, completed, began, asked, chunk>>
      BY DEF InsertActivity, Insert
<1>2. \A e \in activity \ activity' : e[1] \notin asked[r] \/ e[2] >= began[r]
      BY ActivityLost DEF VouchInv
<1>3. began[r] \in Int BY Dates DEF VouchInv, RangeInv, TypeOK
<1>4. RowsVouch'
  <2> SUFFICES ASSUME NEW x \in completed, NEW e \in Active,
                      e[1] \in x.logins, Within(e[2], x), e[2] < x.began
               PROVE  e \in activity'
      BY <1>1 DEF RowsVouch
  <2>1. e \in activity BY DEF VouchInv, RowsVouch
  <2>2. x.logins \subseteq asked[r] /\ x.began <= began[r]
        BY <1>1 DEF VouchInv, RowsEarlier
  <2>3. x.began \in Int BY Dates DEF VouchInv, RangeInv, TypeOK
  <2> QED BY <1>2, <1>3, <2>1, <2>2, <2>3, EventsTyped
<1>5. RowsEarlier' BY <1>1 DEF VouchInv, RowsEarlier, OneRun
<1>6. MarksEarned'
  <2>1. BotsAnswered(r) BY <1>1 DEF VouchInv, RangeInv, AnswersWhole
  <2>2. found[r] \subseteq activity' BY <1>1 DEF StoreActivity
  <2>3. ChunkStored(r)' BY <1>1, <2>1, <2>2 DEF BotsAnswered, ChunkStored
  <2> QED BY <2>3 DEF MarksEarned, OneRun
<1> QED BY <1>4, <1>5, <1>6 DEF VouchInv

LEMMA VouchInsertHumans ==
  ASSUME VouchInv, RangeInv', NEW r \in Runs, InsertHumans(r)
  PROVE  VouchInv'
<1>1. /\ pc[r] = "insert" /\ pc' = [pc EXCEPT ![r] = AfterInsert(r, "humans")]
      /\ left' = [left EXCEPT ![r] = @ \ {"humans"}]
      /\ UNCHANGED <<today, known, activity, completed, began, asked, chunk>>
      BY DEF InsertHumans, Insert
<1>2. AfterInsert(r, "humans") \in {"insert", "mark", "next"}
      BY DEF AfterInsert
<1>3. RowsVouch' BY <1>1 DEF VouchInv, RowsVouch
<1>4. RowsEarlier' BY <1>1 DEF VouchInv, RangeInv, TypeOK, RowsEarlier
<1>5. MarksEarned'
  <2>1. ASSUME AfterInsert(r, "humans") # "insert" PROVE left[r] = {"humans"}
        BY <2>1 DEF AfterInsert
  <2>2. \A s \in Runs : ChunkStored(s)' <=> ChunkStored(s) BY <1>1 DEF ChunkStored
  <2>3. \A s \in Runs \ {r} : pc'[s] = pc[s] /\ left'[s] = left[s]
        BY <1>1 DEF VouchInv, RangeInv, TypeOK
  <2>4. ASSUME pc'[r] = "mark" \/ (pc'[r] = "insert" /\ "bots" \notin left'[r])
        PROVE  "bots" \notin left[r]
        BY <1>1, <2>1, <2>4 DEF VouchInv, RangeInv, TypeOK
  <2> QED BY <1>1, <2>2, <2>3, <2>4 DEF VouchInv, MarksEarned
<1> QED BY <1>3, <1>4, <1>5 DEF VouchInv

LEMMA VouchMark ==
  ASSUME OneRun, VouchInv, RangeInv', NEW r \in Runs, MarkChunkCompleted(r)
  PROVE  VouchInv'
<1> DEFINE row == [first |-> chunk[r].first, last |-> chunk[r].last,
                   logins |-> asked[r], began |-> began[r]]
<1>1. /\ pc[r] = "mark" /\ pc' = [pc EXCEPT ![r] = "next"]
      /\ completed' \subseteq completed \cup {row}
      /\ UNCHANGED <<today, known, activity, began, asked, chunk, left>>
      BY DEF MarkChunkCompleted
<1>2. ChunkStored(r) BY <1>1 DEF VouchInv, MarksEarned
<1>3. began[r] \in Int /\ began[r] <= today
      BY <1>1, Dates DEF VouchInv, RangeInv, RunsWhole, TypeOK
<1>4. RowsVouch' BY <1>1, <1>2 DEF VouchInv, RowsVouch, ChunkStored, Within
<1>5. asked[r] \subseteq known BY <1>1 DEF VouchInv, RowsEarlier
<1>6. RowsEarlier' BY <1>1, <1>3, <1>5 DEF VouchInv, RowsEarlier, OneRun
<1>7. MarksEarned' BY <1>1 DEF VouchInv, RangeInv, TypeOK, MarksEarned, OneRun
<1> QED BY <1>4, <1>6, <1>7 DEF VouchInv

LEMMA VouchEnds ==
  ASSUME VouchInv, RangeInv', NEW r \in Runs, Ends(r)
  PROVE  VouchInv'
<1>1. /\ pc'[r] = "idle" /\ UNCHANGED <<today, known, activity, completed>>
      /\ \A s \in Runs \ {r} : /\ pc'[s] = pc[s] /\ began'[s] = began[s]
                               /\ asked'[s] = asked[s] /\ chunk'[s] = chunk[s]
                               /\ left'[s] = left[s]
      BY DEF Ends, tables, VouchInv, RangeInv, TypeOK
<1>2. RowsVouch' BY <1>1 DEF VouchInv, RowsVouch
<1>3. RowsEarlier' BY <1>1 DEF VouchInv, RowsEarlier
<1>4. MarksEarned' BY <1>1 DEF VouchInv, MarksEarned, ChunkStored
<1> QED BY <1>2, <1>3, <1>4 DEF VouchInv

LEMMA VouchWorld ==
  ASSUME VouchInv, RangeInv', Tick \/ Deploy \/ Recover
  PROVE  VouchInv'
<1>1. /\ today <= today' /\ today \in Int /\ today' \in Int
      /\ known \subseteq known' /\ UNCHANGED <<tables, run>>
      BY Dates DEF VouchInv, RangeInv, TypeOK, Tick, Deploy, Recover
<1>2. \A x \in completed : x.began \in Int BY Dates DEF VouchInv, RangeInv, TypeOK
<1>3. RowsVouch' BY <1>1 DEF VouchInv, RowsVouch, tables
<1>4. RowsEarlier'
  <2>1. \A x \in completed : x.logins \subseteq known' /\ x.began <= today'
        BY <1>1, <1>2 DEF VouchInv, RowsEarlier
  <2> QED BY <1>1, <2>1 DEF VouchInv, RowsEarlier, tables, run
<1>5. MarksEarned' BY <1>1 DEF VouchInv, MarksEarned, ChunkStored, tables, run
<1> QED BY <1>3, <1>4, <1>5 DEF VouchInv

LEMMA InitVouch == Init => VouchInv
BY InitWhole DEF Init, VouchInv, RowsVouch, RowsEarlier, MarksEarned

LEMMA NextVouch == RangesWhole /\ OneRun /\ VouchInv /\ [Next]_vars => VouchInv'
<1> SUFFICES ASSUME RangesWhole, OneRun, VouchInv, [Next]_vars PROVE VouchInv'
    OBVIOUS
<1>1. RangeInv' BY NextWhole DEF VouchInv
<1>2. ASSUME NEW r \in Runs,
             \/ StartSync(r) \/ StartBackfill(r) \/ StartManualBackfill(r)
             \/ StartFetchBigQuery(r)
      PROVE  VouchInv'
  <2>1. PICK command, ranges : Starts(r, command, ranges)
        BY <1>2 DEF StartSync, StartBackfill, StartManualBackfill, StartFetchBigQuery
  <2> QED BY <1>1, <2>1, VouchStarts
<1>3. ASSUME NEW r \in Runs, Work(r) \/ Fail(r) PROVE VouchInv'
      BY <1>1, <1>3, VouchQueries, VouchInsertActivity, VouchInsertHumans, VouchMark,
         VouchEnds DEF Work, Finish, Fail
<1>4. CASE Tick \/ Deploy \/ Recover BY <1>1, <1>4, VouchWorld
<1>5. CASE UNCHANGED vars
      BY <1>1, <1>5 DEF vars, VouchInv, RowsVouch, RowsEarlier, MarksEarned, ChunkStored
<1> QED BY <1>2, <1>3, <1>4, <1>5 DEF Next

\* For any calendar, deployments and failures, as long as runs do not overlap, as the
\* schedules see to, and ranges given by hand are whole weeks.
THEOREM CompletedWhole == ASSUME RangesWhole, OneRun PROVE Spec => []CompletedIsWhole
<1>1. VouchInv => CompletedIsWhole BY DEF VouchInv, RowsVouch, CompletedIsWhole
<1>2. RangesWhole /\ OneRun OBVIOUS
<1> QED BY <1>1, <1>2, InitVouch, NextVouch, PTL DEF Spec

-----------------------------------------------------------------------------
(* No event counts for a bot and for a person *)

\* Whenever anybody was active, so was somebody who is never listed, no later in the week:
\* then every week that is asked for has a row of people, which replaces an older one.
PeopleBusy ==
  \A e \in Active : \E n \in Active :
    n[1] \notin Listed \cup Added \cup Suffixed /\ SameWeek(n, e) /\ n[2] <= e[2]

\* Bots are stored once they are listed.
BotsKnown ==
  /\ known \subseteq Listed \cup Added /\ \A e \in activity : e[1] \in known
  /\ \A r \in Runs :
       /\ pc[r] = "people" \/ (pc[r] = "insert" /\ "bots" \in left[r])
            => \A e \in found[r] : e[1] \in asked[r]
       /\ \A e \in others[r] : e[1] \notin asked[r]

\* A bot that a run knows was taken for a person before the run began, if at all.
PeopleEarlier ==
  \A r \in Runs : pc[r] # "idle" => \A e \in humans : e[1] \in asked[r] => e[2] < began[r]

\* The days of a range have no people among some accounts.
NoneAmong(c, logins) == \A e \in humans : Within(e[2], c) => e[1] \notin logins

RowsApart == \A x \in completed : NoneAmong(x, x.logins)
MarksApart == \A r \in Runs :
  pc[r] = "mark" \/ (pc[r] = "insert" /\ "humans" \notin left[r]) => NoneAmong(chunk[r], asked[r])

ApartInv == VouchInv /\ BotsKnown /\ PeopleEarlier /\ RowsApart /\ MarksApart

LEMMA ApartStarts ==
  ASSUME ApartInv, VouchInv', NEW r \in Runs, NEW command, NEW ranges, Starts(r, command, ranges)
  PROVE  ApartInv'
<1>1. /\ pc[r] = "idle" /\ pc' = [pc EXCEPT ![r] = "next"]
      /\ began' = [began EXCEPT ![r] = today] /\ asked' = [asked EXCEPT ![r] = known]
      /\ UNCHANGED <<today, known, activity, humans, completed, chunk, found, others, left>>
      BY DEF Starts, tables
<1>2. others[r] = {} /\ \A e \in humans : e[2] < today
      BY <1>1 DEF ApartInv, VouchInv, RangeInv, TypeOK
<1>3. BotsKnown' BY <1>1, <1>2 DEF ApartInv, VouchInv, RangeInv, TypeOK, BotsKnown
<1>4. PeopleEarlier' BY <1>1, <1>2 DEF ApartInv, VouchInv, RangeInv, TypeOK, PeopleEarlier
<1>5. RowsApart' BY <1>1 DEF ApartInv, RowsApart, NoneAmong
<1>6. MarksApart' BY <1>1 DEF ApartInv, VouchInv, RangeInv, TypeOK, MarksApart, NoneAmong
<1> QED BY <1>3, <1>4, <1>5, <1>6 DEF ApartInv

LEMMA ApartQueries ==
  ASSUME ApartInv, VouchInv', NEW r \in Runs, QueryBots(r) \/ QueryHumans(r)
  PROVE  ApartInv'
<1>1. /\ pc[r] \in {"next", "people"}
      /\ pc'[r] = "people" \/ (pc'[r] = "insert" /\ "humans" \in left'[r])
      /\ \A s \in Runs \ {r} : /\ pc'[s] = pc[s] /\ left'[s] = left[s] /\ chunk'[s] = chunk[s]
                               /\ found'[s] = found[s] /\ others'[s] = others[s]
      /\ UNCHANGED <<today, known, activity, humans, completed, began, asked>>
      BY DEF QueryBots, QueryHumans, tables, ApartInv, VouchInv, RangeInv, TypeOK
<1>2. BotsKnown'
  <2>1. /\ \A e \in found'[r] : e[1] \in asked[r]
        /\ \A e \in others'[r] : e[1] \notin asked[r]
    <3>1. CASE QueryBots(r)
          BY <3>1 DEF QueryBots, BotEvents, ApartInv, BotsKnown, VouchInv, RangeInv, TypeOK
    <3>2. CASE QueryHumans(r)
          BY <3>2 DEF QueryHumans, HumanEvents, ApartInv, BotsKnown, VouchInv, RangeInv, TypeOK
    <3> QED BY <3>1, <3>2
  <2> QED BY <1>1, <2>1 DEF ApartInv, BotsKnown
<1>3. PeopleEarlier' BY <1>1 DEF ApartInv, PeopleEarlier
<1>4. RowsApart' BY <1>1 DEF ApartInv, RowsApart, NoneAmong
<1>5. MarksApart' BY <1>1 DEF ApartInv, MarksApart, NoneAmong
<1> QED BY <1>2, <1>3, <1>4, <1>5 DEF ApartInv

LEMMA ApartInsertActivity ==
  ASSUME OneRun, ApartInv, VouchInv', NEW r \in Runs, InsertActivity(r)
  PROVE  ApartInv'
<1>1. /\ pc[r] = "insert" /\ "bots" \in left[r] /\ activity' = StoreActivity(found[r])
      /\ pc' = [pc EXCEPT ![r] = AfterInsert(r, "bots")] /\ left' = [left EXCEPT ![r] = @ \ {"bots"}]
      /\ UNCHANGED <<today, known, humans, completed, began, asked, chunk, others>>
      BY DEF InsertActivity, Insert
<1>2. asked[r] \subseteq known BY <1>1 DEF ApartInv, VouchInv, RowsEarlier
<1>3. /\ AfterInsert(r, "bots") \in {"insert", "mark", "next"}
      /\ AfterInsert(r, "bots") # "insert" => left[r] = {"bots"}
      BY DEF AfterInsert
<1>4. BotsKnown'
  <2>1. \A e \in activity' : e[1] \in known
        BY <1>1, <1>2 DEF StoreActivity, ApartInv, BotsKnown
  <2>2. pc'[r] # "people" /\ "bots" \notin left'[r]
        BY <1>1, <1>3 DEF ApartInv, VouchInv, RangeInv, TypeOK
  <2> QED BY <1>1, <2>1, <2>2 DEF ApartInv, BotsKnown, OneRun
<1>5. PeopleEarlier' BY <1>1 DEF ApartInv, PeopleEarlier, OneRun
<1>6. RowsApart' BY <1>1 DEF ApartInv, RowsApart, NoneAmong
<1>7. MarksApart'
  <2>1. pc'[r] = "mark" \/ (pc'[r] = "insert" /\ "humans" \notin left'[r]) => "humans" \notin left[r]
        BY <1>1, <1>3 DEF ApartInv, VouchInv, RangeInv, TypeOK
  <2> QED BY <1>1, <2>1 DEF ApartInv, MarksApart, NoneAmong, OneRun
<1> QED BY <1>4, <1>5, <1>6, <1>7 DEF ApartInv

LEMMA ApartInsertHumans ==
  ASSUME OneRun, PeopleBusy, ApartInv, VouchInv', NEW r \in Runs, InsertHumans(r)
  PROVE  ApartInv'
<1>1. /\ pc[r] = "insert" /\ "humans" \in left[r] /\ humans' = StoreHumans(others[r])
      /\ pc' = [pc EXCEPT ![r] = AfterInsert(r, "humans")]
      /\ left' = [left EXCEPT ![r] = @ \ {"humans"}] /\ others' = [others EXCEPT ![r] = {}]
      /\ UNCHANGED <<today, known, activity, completed, began, asked, chunk, found>>
      BY DEF InsertHumans, Insert
<1>2. AfterInsert(r, "humans") \in {"insert", "mark", "next"}
      BY DEF AfterInsert
<1>3. \A e \in others[r] : e[1] \notin asked[r] BY DEF ApartInv, BotsKnown
<1>4. humans' \subseteq humans \cup others[r] BY <1>1 DEF StoreHumans
\* A week with somebody the run knows as a bot is replaced.
<1>5. NoneAmong(chunk[r], asked[r])'
  <2> SUFFICES ASSUME NEW e \in humans', Within(e[2], chunk[r]), e[1] \in asked[r] PROVE FALSE
      BY <1>1 DEF NoneAmong
  <2>1. e \in humans /\ \A n \in others[r] : ~SameWeek(n, e)
        BY <1>1, <1>3 DEF StoreHumans
  <2>2. e[2] < began[r] BY <1>1, <2>1 DEF ApartInv, PeopleEarlier
  <2>3. e \in Active BY <2>1 DEF ApartInv, VouchInv, RangeInv, TypeOK
  <2>4. PICK n \in Active : /\ n[1] \notin Listed \cup Added \cup Suffixed
                            /\ SameWeek(n, e) /\ n[2] <= e[2]
        BY <2>3 DEF PeopleBusy
  <2>5. /\ HumansAnswered(r) /\ Whole(chunk[r], began[r]) /\ chunk[r] \in Ranges
        /\ began[r] \in Int
        BY <1>1, Dates DEF ApartInv, VouchInv, RangeInv, AnswersWhole, RunsWhole, TypeOK
  <2>6. n[2] \in Int /\ e[2] \in Int /\ Monday(e[2]) = Monday(n[2])
        BY <2>3, <2>4, EventsTyped DEF SameWeek
  <2>7. n[2] < began[r] BY <2>2, <2>4, <2>5, <2>6
  <2>8. Within(n[2], chunk[r]) BY <2>5, <2>6, <2>7, WeekInside
  <2>9. asked[r] \subseteq Listed \cup Added
        BY <1>1 DEF ApartInv, BotsKnown, VouchInv, RowsEarlier
  <2>10. n \in others[r] BY <2>4, <2>5, <2>7, <2>8, <2>9 DEF HumansAnswered
  <2> QED BY <2>1, <2>4, <2>10
<1>6. BotsKnown'
  <2>1. pc'[r] # "people" BY <1>1, <1>2 DEF ApartInv, VouchInv, RangeInv, TypeOK
  <2>2. others'[r] = {} /\ ("bots" \in left'[r] => "bots" \in left[r])
        BY <1>1 DEF ApartInv, VouchInv, RangeInv, TypeOK
  <2> QED BY <1>1, <2>1, <2>2 DEF ApartInv, BotsKnown, OneRun
<1>7. PeopleEarlier'
      BY <1>1, <1>3, <1>4 DEF ApartInv, PeopleEarlier, OneRun
<1>8. RowsApart'
  <2> SUFFICES ASSUME NEW x \in completed, NEW e \in humans', Within(e[2], x)
               PROVE  e[1] \notin x.logins
      BY <1>1 DEF RowsApart, NoneAmong
  <2>1. x.logins \subseteq asked[r] BY <1>1 DEF ApartInv, VouchInv, RowsEarlier
  <2> QED BY <1>3, <1>4, <2>1 DEF ApartInv, RowsApart, NoneAmong
<1>9. MarksApart'
  <2>1. (NoneAmong(chunk[r], asked[r]))' BY <1>5
  <2> QED BY <2>1 DEF MarksApart, OneRun
<1> QED BY <1>6, <1>7, <1>8, <1>9 DEF ApartInv

LEMMA ApartMark ==
  ASSUME OneRun, ApartInv, VouchInv', NEW r \in Runs, MarkChunkCompleted(r)
  PROVE  ApartInv'
<1> DEFINE row == [first |-> chunk[r].first, last |-> chunk[r].last,
                   logins |-> asked[r], began |-> began[r]]
<1>1. /\ pc[r] = "mark" /\ pc' = [pc EXCEPT ![r] = "next"]
      /\ completed' \subseteq completed \cup {row}
      /\ UNCHANGED <<today, known, activity, humans, began, asked, chunk, found, others, left>>
      BY DEF MarkChunkCompleted
<1>2. NoneAmong(chunk[r], asked[r]) BY <1>1 DEF ApartInv, MarksApart
<1>3. NoneAmong(row, row.logins) BY <1>2 DEF NoneAmong, Within
<1>4. RowsApart' BY <1>1, <1>3 DEF ApartInv, RowsApart, NoneAmong
<1>5. BotsKnown' BY <1>1 DEF ApartInv, VouchInv, RangeInv, TypeOK, BotsKnown, OneRun
<1>6. PeopleEarlier' BY <1>1 DEF ApartInv, PeopleEarlier, OneRun
<1>7. MarksApart' BY <1>1 DEF ApartInv, VouchInv, RangeInv, TypeOK, MarksApart, OneRun
<1> QED BY <1>4, <1>5, <1>6, <1>7 DEF ApartInv

LEMMA ApartEnds ==
  ASSUME ApartInv, VouchInv', NEW r \in Runs, Ends(r)
  PROVE  ApartInv'
<1>1. /\ pc'[r] = "idle" /\ others'[r] = {}
      /\ UNCHANGED <<today, known, activity, humans, completed>>
      /\ \A s \in Runs \ {r} : /\ pc'[s] = pc[s] /\ began'[s] = began[s]
                               /\ asked'[s] = asked[s] /\ chunk'[s] = chunk[s]
                               /\ found'[s] = found[s] /\ others'[s] = others[s]
                               /\ left'[s] = left[s]
      BY DEF Ends, tables, ApartInv, VouchInv, RangeInv, TypeOK
<1>2. BotsKnown' BY <1>1 DEF ApartInv, BotsKnown
<1>3. PeopleEarlier' BY <1>1 DEF ApartInv, PeopleEarlier
<1>4. RowsApart' BY <1>1 DEF ApartInv, RowsApart, NoneAmong
<1>5. MarksApart' BY <1>1 DEF ApartInv, MarksApart, NoneAmong
<1> QED BY <1>2, <1>3, <1>4, <1>5 DEF ApartInv

LEMMA ApartWorld ==
  ASSUME ApartInv, VouchInv', Tick \/ Deploy \/ Recover \/ UNCHANGED vars
  PROVE  ApartInv'
<1>1. /\ known \subseteq known' /\ known' \subseteq known \cup Added
      /\ UNCHANGED <<activity, humans, completed, pc, began, asked, chunk, found, others, left>>
      BY DEF Tick, Deploy, Recover, vars, tables, run
<1>2. BotsKnown' BY <1>1 DEF ApartInv, BotsKnown
<1>3. PeopleEarlier' BY <1>1 DEF ApartInv, PeopleEarlier
<1>4. RowsApart' BY <1>1 DEF ApartInv, RowsApart, NoneAmong
<1>5. MarksApart' BY <1>1 DEF ApartInv, MarksApart, NoneAmong
<1> QED BY <1>2, <1>3, <1>4, <1>5 DEF ApartInv

LEMMA InitApart == Init => ApartInv
BY InitVouch DEF Init, ApartInv, BotsKnown, PeopleEarlier, RowsApart, MarksApart

LEMMA NextApart == RangesWhole /\ OneRun /\ PeopleBusy /\ ApartInv /\ [Next]_vars => ApartInv'
<1> SUFFICES ASSUME RangesWhole, OneRun, PeopleBusy, ApartInv, [Next]_vars PROVE ApartInv'
    OBVIOUS
<1>1. VouchInv' BY NextVouch DEF ApartInv
<1>2. ASSUME NEW r \in Runs,
             \/ StartSync(r) \/ StartBackfill(r) \/ StartManualBackfill(r)
             \/ StartFetchBigQuery(r)
      PROVE  ApartInv'
  <2>1. PICK command, ranges : Starts(r, command, ranges)
        BY <1>2 DEF StartSync, StartBackfill, StartManualBackfill, StartFetchBigQuery
  <2> QED BY <1>1, <2>1, ApartStarts
<1>3. ASSUME NEW r \in Runs, Work(r) \/ Fail(r) PROVE ApartInv'
      BY <1>1, <1>3, ApartQueries, ApartInsertActivity, ApartInsertHumans, ApartMark,
         ApartEnds DEF Work, Finish, Fail
<1>4. CASE Tick \/ Deploy \/ Recover \/ UNCHANGED vars BY <1>1, <1>4, ApartWorld
<1> QED BY <1>2, <1>3, <1>4 DEF Next

\* A bot counts as a person until it is listed; once a chunk is recorded for the present bots,
\* no event of it counts twice, whatever failed between the two inserts that move it, as long as
\* runs do not overlap and people are active whenever a bot is.
THEOREM NoneCountedTwice ==
  ASSUME RangesWhole, OneRun, PeopleBusy PROVE Spec => []CountedOnce
<1>1. ApartInv => CountedOnce
      BY DEF ApartInv, BotsKnown, RowsApart, NoneAmong, CountedOnce
<1>2. RangesWhole /\ OneRun /\ PeopleBusy OBVIOUS
<1> QED BY <1>1, <1>2, InitApart, NextApart, PTL DEF Spec
====
