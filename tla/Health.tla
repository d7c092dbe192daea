------------------------------- MODULE Health -------------------------------
(***************************************************************************)
(* Two answers to "is the pipeline healthy?": pipeline status              *)
(* (pipeline/src/tools/status.ts), whose --check makes an alarm of it, and *)
(* the status page (getDataCollectionStats and                             *)
(* app/src/components/data-collection-stats.tsx).  They look at the same   *)
(* weeks, one from the first stored one on, the other from the epoch on.   *)
(*                                                                         *)
(* A day is a number, a Monday a multiple of 7.  What an empty table has   *)
(* for a minimum or a maximum is a day, too: NoDate, a Thursday long ago.  *)
(***************************************************************************)
EXTENDS Integers, FiniteSets, Functions, FiniteSetsExt

CONSTANTS
  NoDate,     \* 1970-01-01
  Epoch,      \* DATA_EPOCH, a Sunday
  MaxAge      \* 14, or what --max-age says

ASSUME HealthAssumption ==
  /\ NoDate \in Int /\ NoDate % 7 = 3
  /\ MaxAge \in Nat \ {0}
  /\ Epoch \in Int /\ Epoch % 7 = 6 /\ NoDate + MaxAge < Epoch

VARIABLE
  intake  \* [today,
          \*  activity: rows [bot, week, n] of review_activity, human: its weeks,
          \*  chunks: [last, at] of the backfill chunks in pipeline_state, at being a day,
          \*  work: the four cards of the page, [total, success, unreachable]]

Latest(days) == Max(days \cup {NoDate})
Earliest(days) == IF days = {} THEN NoDate ELSE Min(days)

\* Mutant of MondaysBetween: the last day is not looked at.
MondaysBefore(first, last) == {d \in first .. last - 1 : d % 7 = 0}

\* countMondaysBetween, findMissingMondays and allExpectedWeeks: a cursor is moved to the
\* first Monday, then on by a week until it is past the end.
MondaysBetween(first, last) == {d \in first .. last : d % 7 = 0}

StoredWeeks == {r.week : r \in intake.activity}

-----------------------------------------------------------------------------
(* pipeline status *)

\* The summary of every bot.
BotsReport ==
  [b \in {r.bot : r \in intake.activity} |->
     LET own == {r \in intake.activity : r.bot = b} IN
     [totalReviews |-> SumFunction([r \in own |-> r.n]),
      latestWeek |-> Max({r.week : r \in own}),
      weeksWithData |-> Cardinality({r.week : r \in own})]]

\* The state of the backfill: nothing if the last end is the date that stands for none.
BackfillReport ==
  LET last == Latest({c.last : c \in intake.chunks}) IN
  IF last = NoDate THEN [lastChunkEnd |-> NoDate, completedChunks |-> 0, lastRunAt |-> NoDate]
  ELSE [lastChunkEnd |-> last, completedChunks |-> Cardinality(intake.chunks),
        lastRunAt |-> Latest({c.at : c \in intake.chunks})]

\* buildReport.
StatusReport ==
  LET first == Earliest(StoredWeeks)
      latest == Latest(StoredWeeks)
      missing == MondaysBetween(first, latest) \ StoredWeeks
      daysOld == intake.today - latest
  IN [healthy |-> daysOld <= MaxAge /\ missing = {},
      daysOld |-> daysOld, firstWeek |-> first, latestWeek |-> latest,
      totalWeeks |-> Cardinality(StoredWeeks),
      expectedWeeks |-> Cardinality(MondaysBetween(first, latest)),
      missingWeeks |-> missing,
      backfill |-> BackfillReport, bots |-> BotsReport,
      humanWeeks |-> Cardinality(intake.human)]

\* runStatus with --check: the exit code.
CheckFails == ~StatusReport.healthy

-----------------------------------------------------------------------------
(* The status page *)

\* A card: its bar is full at 1000, and what is left is pending.
Card(work) ==
  LET processed == work.success + work.unreachable IN
  [bar |-> IF work.total > 0 THEN Min({(1000 * processed) \div work.total, 1000}) ELSE 0,
   failRate |-> IF processed > 0 THEN (1000 * work.unreachable) \div processed ELSE 0,
   pending |-> Max({0, work.total - work.success - work.unreachable})]

\* DataCollectionPanel, with the weeks of getDataCollectionStats.  Chunks that claim to be
\* from later than tomorrow are no last import.
Panel ==
  LET present == {w \in StoredWeeks : w >= Epoch}
      expected == MondaysBetween(Epoch, intake.today)
  IN [noData |-> present = {} /\ intake.work["repos"].total = 0,
      missingWeeks |-> expected \ present,
      covered |-> Cardinality(expected \cap present), expected |-> Cardinality(expected),
      range |-> <<Earliest(present), Latest(present)>>,
      lastImport |-> Latest({c.at : c \in {d \in intake.chunks : d.at <= intake.today + 1}}),
      cards |-> [c \in DOMAIN intake.work |-> Card(intake.work[c])]]

-----------------------------------------------------------------------------
\* Weeks are stored when they have begun, chunks end in days since the epoch.
IntakeOK(i) ==
  /\ i.today \in Int /\ i.today > Epoch
  /\ IsFiniteSet(i.activity) /\ \A r \in i.activity : r.week \in Int /\ r.week <= i.today
  /\ IsFiniteSet(i.chunks) /\ \A c \in i.chunks : c.last \in Int /\ c.last >= Epoch /\ c.at \in Int
  /\ \A c \in DOMAIN i.work : {i.work[c].total, i.work[c].success, i.work[c].unreachable} \subseteq Nat

CONSTANT Intakes  \* bound: the contents that are looked at

ASSUME IntakesAssumption == \A i \in Intakes : IntakeOK(i)

\* Weeks are stored as Mondays (Discovery), those from the epoch on.
Regular == \A w \in StoredWeeks : w % 7 = 0 /\ w >= Epoch

\* As long as no week between two stored ones is missing, pipeline status --check fails
\* once the newest data is too old, and not while the sync is late by less than MaxAge
\* minus the six days a week is older than its last day; it never passes over a gap, nor
\* an empty table.  The page shows the gaps the report counts and, wherever the check
\* fails, a missing week or no data at all; a bar is full just when nothing is pending.
HealthAlarms ==
  Regular =>
    LET r == StatusReport
        p == Panel
    IN /\ \A s \in (intake.today - 2 * MaxAge) .. intake.today :
            /\ StoredWeeks # {} /\ StoredWeeks = MondaysBetween(Earliest(StoredWeeks), s) =>
                 /\ intake.today - s <= MaxAge - 6 => ~CheckFails
                 /\ intake.today - s > MaxAge => CheckFails
       /\ \A v, w \in StoredWeeks, d \in MondaysBetween(Epoch, intake.today) :
            v < d /\ d < w /\ d \notin StoredWeeks => CheckFails
       /\ r.missingWeeks = {d \in p.missingWeeks : r.firstWeek <= d /\ d <= r.latestWeek}
       /\ r.totalWeeks = r.expectedWeeks - Cardinality(r.missingWeeks)
       /\ p.covered + Cardinality(p.missingWeeks) = p.expected
       /\ CheckFails /\ MaxAge >= 13 => p.missingWeeks # {}
       /\ p.noData => CheckFails
       /\ StoredWeeks # {} => p.range = <<r.firstWeek, r.latestWeek>>
       /\ \A b \in DOMAIN r.bots : r.bots[b].weeksWithData <= r.totalWeeks
       /\ (\A c \in intake.chunks : c.at <= intake.today + 1) =>
            (p.lastImport = r.backfill.lastRunAt)
       /\ \A c \in DOMAIN p.cards : intake.work[c].total > 0 =>
            (p.cards[c].bar = 1000 <=> p.cards[c].pending = 0)
=============================================================================
