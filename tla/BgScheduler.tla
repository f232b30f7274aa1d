---------------------------- MODULE BgScheduler ----------------------------
(***************************************************************************)
(* The background scheduler: the table of scheduled tasks, its file         *)
(* /data/bg_schedule.json, the sync at the end of a foreground app, and the *)
(* main loop that finds a due task, marks it and launches its headless run. *)
(* The scheduler is called only with the app slot empty or by the app in    *)
(* it (module AppSession), so one activity is under way at a time; it may   *)
(* be cut off by a power loss or a restart at any step.                     *)
(* Time is counted in ticks, Minute of them to a minute; a cron expression  *)
(* is the set of minutes it matches.                                        *)
(***************************************************************************)
EXTENDS AppIds, Naturals, Sequences, FiniteSets

CONSTANTS Names,
          Intervals,    \* interval_s of a declared task; 0 is a cron task
          TaskMax,      \* JPP_MANIFEST_V2_BG_TASK_MAX
          Capacity,     \* JPP_RESOURCE_BG_SCHEDULE_MAX
          Minute,       \* ticks in a minute
          CronMinutes,  \* the minutes the cron expressions match
          Wrap,         \* 2^32: seconds are uint32_t
          ClockMax,     \* bound on the clock
          Duplicates    \* whether a manifest may name a task twice

ASSUME SchedulerAssumption ==
  /\ Capacity \in Nat /\ TaskMax \in Nat /\ ClockMax \in Nat /\ Wrap > ClockMax
  /\ Minute \in Nat \ {0} /\ Minute <= ClockMax
  /\ Wrap \in Nat /\ Intervals \subseteq Nat
  /\ \A i \in Intervals : i = 0 \/ i >= Minute

Unreadable == <<>>   \* no file, or one that does not parse

VARIABLES entries,   \* s_entries, up to s_entry_count
          schedFile,      \* <<the table at BG_SCHEDULE_PATH>>, or Unreadable
          clock,     \* the RTC's seconds
          granted,   \* apps with a persisted background.register grant
          bgStage,     \* what the main loop or the app's end is doing
          bgCur,       \* the app open, or the task that was found due
          stale,     \* the latest save failed: the file is not the table
          fired,     \* the time each task's latest run was marked at, while scheduled
          forgotten  \* tasks of which a restart loaded an older time, the save
                     \* of their latest run having failed

bgHistory == <<fired, forgotten>>
bgVars == <<entries, schedFile, clock, granted, bgStage, bgCur, stale, bgHistory>>

Task == [name : Names, interval : Intervals]
Entry == [app : Apps, name : Names, interval : Intervals, last : 0..ClockMax]
TaskKeys == Apps \X Names

\* validate_background has no rule against two tasks of one name.
Manifests ==
  {ts \in UNION {[1..n -> Task] : n \in 0..TaskMax} :
     Duplicates \/ \A i, j \in DOMAIN ts : ts[i].name = ts[j].name => i = j}

BgInit ==
  /\ entries = <<>> /\ schedFile = Unreadable
  /\ clock = Minute
  /\ granted = {}
  /\ bgStage = "idle" /\ bgCur = <<>> /\ stale = FALSE
  /\ fired = [k \in TaskKeys |-> 0] /\ forgotten = {}

Scheduled(es) == {<<es[i].app, es[i].name>> : i \in DOMAIN es}

----------------------------------------------------------------------------
\* jpp_bg_scheduler_sync_app.

LastForgotten(es, a, name) == 0

\* The last_run of the app's first entry of that name.
LastCarried(es, a, name) ==
  LET old == {i \in DOMAIN es : es[i].app = a /\ es[i].name = name}
  IN  IF old = {} THEN 0 ELSE es[CHOOSE i \in old : \A j \in old : i <= j].last

RoomForOneMore(kept) == Capacity + 1 - Len(kept)

\* A full table drops the tasks that come last.
Room(kept) == Capacity - Len(kept)

\* The entries of other apps close ranks: each moves to `w`, the number of those
\* up to it.
OfOthers(es, a) == {i \in DOMAIN es : es[i].app # a}
Place(es, a, i) == Cardinality({j \in OfOthers(es, a) : j <= i})
WithoutApp(es, a) ==
  [w \in 1..Cardinality(OfOthers(es, a)) |->
     es[CHOOSE i \in OfOthers(es, a) : Place(es, a, i) = w]]

\* The entries of other apps, then the app's tasks as declared now.
Synced(es, a, ts) ==
  LET kept == WithoutApp(es, a)
      n == IF Len(ts) < Room(kept) THEN Len(ts) ELSE Room(kept)
  IN  kept \o [i \in 1..n |-> [app |-> a, name |-> ts[i].name,
                              interval |-> ts[i].interval,
                              last |-> LastCarried(es, a, ts[i].name)]]

\* History of runs, for the tasks that are still scheduled.
StillScheduled(es) == [k \in TaskKeys |-> IF k \in Scheduled(es) THEN fired[k] ELSE 0]

----------------------------------------------------------------------------
\* Foreground apps.

BgOpenApp(a, ts) ==
  /\ bgStage = "idle"
  /\ bgStage' = "app" /\ bgCur' = [app |-> a, tasks |-> ts]
  /\ UNCHANGED <<entries, schedFile, clock, granted, stale, bgHistory>>

\* The app calls background_register and the user allows it.
Register ==
  /\ bgStage = "app" /\ bgCur.app \notin granted
  /\ granted' = granted \union {bgCur.app}
  /\ UNCHANGED <<entries, schedFile, clock, bgStage, bgCur, stale, bgHistory>>

DeclaredNow == IF bgCur.app \in granted THEN bgCur.tasks ELSE <<>>

\* The app returns; its task syncs the schedule before it signals the close.
AppEnds ==
  /\ bgStage = "app"
  /\ entries' = Synced(entries, bgCur.app, DeclaredNow)
  /\ fired' = StillScheduled(entries') /\ forgotten' = forgotten \intersect Scheduled(entries')
  /\ bgStage' = "sync_open"
  /\ UNCHANGED <<schedFile, clock, granted, bgCur, stale>>

\* The app asked to be closed and waits: the main loop deletes its task.
AppTornDown ==
  /\ bgStage = "app"
  /\ bgStage' = "idle" /\ bgCur' = <<>>
  /\ UNCHANGED <<entries, schedFile, clock, granted, stale, bgHistory>>

----------------------------------------------------------------------------
\* save_schedule: fopen "w", then fputs and fclose, whose results are not looked at.

SaveOpen ==
  /\ bgStage \in {"sync_open", "mark_open"}
  /\ schedFile' = Unreadable
  /\ bgStage' = IF bgStage = "sync_open" THEN "sync_put" ELSE "mark_put"
  /\ UNCHANGED <<entries, clock, granted, bgCur, stale, bgHistory>>

\* The caller goes on alike whether anything was saved.
SaveReturns ==
  \/ bgStage \in {"sync_open", "sync_put"} /\ bgStage' = "idle" /\ bgCur' = <<>>
  \/ bgStage \in {"mark_open", "mark_put"} /\ bgStage' = "launch" /\ UNCHANGED bgCur

\* No memory for the text, or fopen fails: the file stays.
SaveFails ==
  /\ MayFail /\ bgStage \in {"sync_open", "mark_open"}
  /\ stale' = TRUE
  /\ SaveReturns
  /\ UNCHANGED <<entries, schedFile, clock, granted, bgHistory>>

\* A text cut short does not parse.
SavePut ==
  /\ bgStage \in {"sync_put", "mark_put"}
  /\ \/ schedFile' = <<entries>> /\ stale' = FALSE
     \/ MayFail /\ UNCHANGED schedFile /\ stale' = TRUE
  /\ SaveReturns
  /\ UNCHANGED <<entries, clock, granted, bgHistory>>

----------------------------------------------------------------------------
\* The main loop, idle on the launcher.

MinuteOf(t) == t \div Minute

CronDueAlways(e) == MinuteOf(clock) \in CronMinutes

\* Cron: once within the matching minute.
CronDue(e) == MinuteOf(clock) \in CronMinutes /\ MinuteOf(clock) # MinuteOf(e.last)

\* The sum is a uint32_t.
IntervalDue(e) == e.last = 0 \/ clock >= (e.last + e.interval) % Wrap

IsDue(e) == IF e.interval > 0 THEN IntervalDue(e) ELSE CronDue(e)

\* jpp_bg_scheduler_due: the first entry that is due.
FindDue ==
  /\ bgStage = "idle"
  /\ \E i \in DOMAIN entries :
       /\ IsDue(entries[i])
       /\ \A j \in 1..(i - 1) : ~IsDue(entries[j])
       /\ bgCur' = entries[i]
  /\ bgStage' = "mark"
  /\ UNCHANGED <<entries, schedFile, clock, granted, stale, bgHistory>>

IsCur(e) == e.app = bgCur.app /\ e.name = bgCur.name

\* jpp_bg_scheduler_mark_run: the first entry of that name, at the time it is
\* by now, and the table is saved before anything is launched.  jpp_rtc_get_current
\* gives the time: it did so for due, and nothing clears has_datetime.
Marked ==
  [i \in DOMAIN entries |->
     IF IsCur(entries[i]) /\ \A j \in 1..(i - 1) : ~IsCur(entries[j])
     THEN [entries[i] EXCEPT !.last = clock] ELSE entries[i]]

StageAfterMarkUnsaved == "launch"
StageAfterMark == "mark_open"

\* mark_run stores 0 for want of a clock; but the clock is held in memory, has just
\* been read by jpp_bg_scheduler_due, and nothing in the firmware unsets it.
MarkRun ==
  /\ bgStage = "mark"
  /\ entries' = Marked
  /\ bgCur' = [bgCur EXCEPT !.last = clock]
  /\ bgStage' = StageAfterMark
  /\ UNCHANGED <<schedFile, clock, granted, stale, bgHistory>>

\* jpp_app_bg_launch, which fails if the app is gone or will not load.
LaunchRun ==
  /\ bgStage = "launch"
  /\ \/ /\ bgStage' = "run" /\ UNCHANGED bgCur
        /\ fired' = [fired EXCEPT ![<<bgCur.app, bgCur.name>>] = bgCur.last]
        /\ forgotten' = forgotten \ {<<bgCur.app, bgCur.name>>}
     \/ bgStage' = "idle" /\ bgCur' = <<>> /\ UNCHANGED bgHistory
  /\ UNCHANGED <<entries, schedFile, clock, granted, stale>>

RunEnds ==
  /\ bgStage = "run"
  /\ bgStage' = "idle" /\ bgCur' = <<>>
  /\ UNCHANGED <<entries, schedFile, clock, granted, stale, bgHistory>>

----------------------------------------------------------------------------
\* jpp_bg_scheduler_init: a file that does not parse is an empty schedule.
Loaded == IF schedFile = Unreadable THEN <<>> ELSE schedFile[1]

\* Tasks the loaded table has an older time for than that of their latest run.
Behindhand(es) ==
  {k \in TaskKeys : \E i \in DOMAIN es :
     k = <<es[i].app, es[i].name>> /\ es[i].last < fired[k]}

\* The quota's esp_restart, a reboot or a power loss, at any step.
BgRestart ==
  /\ entries' = Loaded
  /\ fired' = StillScheduled(Loaded)
  /\ forgotten' = (forgotten \intersect Scheduled(Loaded))
                     \union IF stale THEN Behindhand(Loaded) ELSE {}
  /\ stale' = FALSE
  /\ bgStage' = "idle" /\ bgCur' = <<>>
  /\ UNCHANGED <<schedFile, clock, granted>>

BgTick ==
  /\ clock < ClockMax
  /\ clock' = clock + 1
  /\ UNCHANGED <<entries, schedFile, granted, bgStage, bgCur, stale, bgHistory>>

BgNext ==
  \/ \E a \in Apps, ts \in Manifests : BgOpenApp(a, ts)
  \/ Register \/ AppEnds \/ AppTornDown \/ SaveOpen \/ SaveFails \/ SavePut
  \/ FindDue \/ MarkRun \/ LaunchRun \/ RunEnds \/ BgRestart \/ BgTick

BgSpec == BgInit /\ [][BgNext]_bgVars

----------------------------------------------------------------------------
Saving == bgStage \in {"sync_open", "sync_put", "mark_open", "mark_put"}

BgTypeOK ==
  /\ entries \in Seq(Entry) /\ Len(entries) <= Capacity
  /\ schedFile = Unreadable \/ (schedFile[1] \in Seq(Entry) /\ Len(schedFile[1]) <= Capacity)
  /\ clock \in 0..ClockMax /\ granted \subseteq Apps
  /\ bgStage \in {"idle", "app", "sync_open", "sync_put", "mark", "mark_open",
                "mark_put", "launch", "run"}
  /\ stale \in BOOLEAN
  /\ fired \in [TaskKeys -> 0..ClockMax] /\ forgotten \subseteq TaskKeys

\* Whether the run being launched comes after the interval, or in another minute
\* than the last for a cron task, of a run at time f.
InItsTime(f) ==
  \/ f = 0
  \/ bgCur.interval > 0 /\ bgCur.last >= f + bgCur.interval
  \/ bgCur.interval = 0 /\ MinuteOf(bgCur.last) # MinuteOf(f)

Launches == LaunchRun /\ bgStage' = "run"

\* ESP_IDF_CONTRACT.md:190: last_run "was recorded at launch, so the task does
\* not re-fire immediately after boot"; app_main.c:1661 says it again.
NoEarlyRefire == [][Launches => InItsTime(fired[<<bgCur.app, bgCur.name>>])]_bgVars

\* A task does not run again before its interval is over, or in the minute its
\* cron run was made, however the device restarts and the app syncs its
\* schedule in between: last_run is recorded before the run, saved, loaded
\* again, and carried over by a sync.  Only a restart after a save that failed
\* forgets, and only the runs that save was to record.
OnlyFailedSavesForget ==
  [][Launches =>
       LET k == <<bgCur.app, bgCur.name>>
       IN  k \in forgotten \/ InItsTime(fired[k])]_bgVars

\* Outside of save_schedule the file holds the table in memory, or the file was
\* lost in an interrupted save and no task is scheduled: what a restart loads
\* is what was in force.  Not so only after a save that failed, which nobody
\* notices, until the next save or restart.
FileIsTheSchedule == Saving \/ stale \/ Loaded = entries
=============================================================================
