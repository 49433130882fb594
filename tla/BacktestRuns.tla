---------------------------- MODULE BacktestRuns -----------------------------
(***************************************************************************)
(* The runs of a backtest: `radar backtest`, the walk-forward that strings *)
(* several of them together, and the one the web page starts in the        *)
(* background (src/src/stock_robot/cli.py, src/src/api/radar.py); the      *)
(* directories they write and reuse (src/src/radar/artifacts.py), the      *)
(* windows and the summary of a walk-forward (src/src/radar/walkforward.py)*)
(* and the window a page cuts out of a finished run                        *)
(* (src/src/radar/backtest_cache.py).                                      *)
(*                                                                         *)
(* A directory is named for the second it is made in; no two runs make one *)
(* in the same second.  An edition stands for the fingerprint of the       *)
(* strategy, the costs and the benchmarks a result depends on.             *)
(***************************************************************************)
EXTENDS Integers, Sequences, FiniteSetsExt

CONSTANTS
    Runs,         \* the processes
    WebRun,       \* the ones the web page starts, a subset
    Calendar,     \* the dates, a sequence of <<year, day>>
    Starts,       \* the first days a walk-forward is asked for, positions in Calendar
    Years,        \* window-years
    Editions,     \* 1 .. Editions
    MaxDirs,      \* bound: directories made
    MaxFaults,    \* bound: failures of the disk, kills, unreadable answers
    None

Files == <<"summary", "manifest", "curve", "trades", "report">>
Asked == {"report", "summary", "curve", "trades"}    \* what find_reusable looks for

VARIABLES
    start,      \* the first day asked for
    edition,    \* the edition in the configuration
    dirs,       \* the directories in the order of their names
    run,        \* run[p]: the process
    task,       \* the tasks of the web page: the runs with their status
    page,       \* the last window the page was served
    faults

vars == <<start, edition, dirs, run, task, page, faults>>

Idle == [at |-> "idle", many |-> FALSE, rerun |-> FALSE, todo |-> {}, key |-> None, dir |-> None,
         outputs |-> [w \in {} |-> None], failures |-> {}, summary |-> None]

Init == /\ start \in Starts /\ edition = 1
        /\ dirs = <<>> /\ run = [p \in Runs |-> Idle]
        /\ task = [p \in WebRun |-> None] /\ page = None /\ faults = 0

May == faults < MaxFaults
Fault == May /\ faults' = faults + 1

-----------------------------------------------------------------------------
LastDay == Len(Calendar)
DayOf(date) == CHOOSE i \in 1 .. LastDay : Calendar[i] = date
Dates == Range(Calendar)

\* _add_years: month and day are kept, a leap day falls back to the day before it.
AddYears(i, years) ==
    LET date == <<Calendar[i][1] + years, Calendar[i][2]>>
    IN IF date \in Dates THEN DayOf(date)
       ELSE IF <<date[1], date[2] - 1>> \in Dates THEN DayOf(<<date[1], date[2] - 1>>)
       ELSE LastDay + 1

\* fixed_windows: whole windows one after the other, and what is left at the end.
WindowFrom[i \in 1 .. LastDay + 1] ==
    IF i > LastDay THEN <<>>
    ELSE LET end == AddYears(i, Years) - 1
         IN <<[first |-> i, last |-> IF end <= LastDay THEN end ELSE LastDay, available |-> end <= LastDay]>>
            \o WindowFrom[end + 1]
FixedWindows == WindowFrom[start]
Available == {w \in Range(FixedWindows) : w.available}
Earliest(windows) == CHOOSE w \in windows : \A v \in windows : w.first <= v.first

-----------------------------------------------------------------------------
Put(p, record) == run' = [run EXCEPT ![p] = record]

Begin(p, many, rerun) ==
    /\ run[p].at = "idle" /\ p \notin WebRun
    /\ Put(p, [Idle EXCEPT !.at = "look", !.many = many, !.rerun = rerun,
                           !.todo = IF many THEN Available ELSE {FixedWindows[1]}])
    /\ UNCHANGED <<start, edition, dirs, task, page, faults>>

\* start_backtest: one task at a time, its status under the lock.
StartBacktest(p) ==
    /\ run[p].at = "idle" /\ \A q \in WebRun : task[q] # "running"
    /\ task' = [task EXCEPT ![p] = "running"]
    /\ Put(p, [Idle EXCEPT !.at = "look", !.todo = {FixedWindows[1]}])
    /\ UNCHANGED <<start, edition, dirs, page, faults>>

\* The configuration changes between two runs.
EditStrategy == /\ edition < Editions /\ edition' = edition + 1
                /\ UNCHANGED <<start, dirs, run, task, page, faults>>

Complete(d) == Asked \subseteq d.files
\* find_reusable_radar_backtest: any directory with a manifest and the four files, one that
\* is still being written or was left behind included.
Reusable(key) == {i \in DOMAIN dirs : /\ dirs[i].at # "gone" /\ "manifest" \in dirs[i].files
                                      /\ Complete(dirs[i]) /\ dirs[i].key = key}

\* What becomes of a run when its window is settled.
After(record) == LET rest == record.todo \ {Earliest(record.todo)}
                 IN [record EXCEPT !.todo = rest, !.dir = None,
                                   !.at = IF rest # {} THEN "look" ELSE IF record.many THEN "sum" ELSE "done"]

Settled(record, i, at) ==
    After([record EXCEPT !.outputs = [w \in DOMAIN @ \union {Earliest(record.todo)} |->
                               IF w = Earliest(record.todo) THEN [dir |-> i, at |-> at, key |-> record.key] ELSE @[w]]])
FailedWindow(record) ==
    IF record.many THEN After([record EXCEPT !.failures = @ \union {Earliest(record.todo)}])
    ELSE [record EXCEPT !.at = "failed"]

\* radar_backtest up to the data: a directory that answers the question is used again.
Look(p) ==
    /\ run[p].at = "look"
    /\ LET key == [window |-> Earliest(run[p].todo), edition |-> edition]
           found == IF run[p].rerun THEN {} ELSE Reusable(key)
       IN IF found = {} THEN Put(p, [run[p] EXCEPT !.at = "compute", !.key = key])
          ELSE Put(p, Settled([run[p] EXCEPT !.key = key], Max(found), dirs[Max(found)].at))
    /\ UNCHANGED <<start, edition, dirs, task, page, faults>>

\* Data that cannot be had fail one window (ClickException); benchmarks that cannot be
\* aligned end the whole command (ValueError).
NoData(p) == /\ run[p].at = "compute" /\ Fault
             /\ Put(p, FailedWindow(run[p]))
             /\ UNCHANGED <<start, edition, dirs, task, page>>
Unaligned(p) == /\ run[p].at = "compute" /\ Fault
                /\ Put(p, [run[p] EXCEPT !.at = "failed"])
                /\ UNCHANGED <<start, edition, dirs, task, page>>

\* write_radar_backtest_artifacts
Compute(p) ==
    /\ run[p].at = "compute" /\ Len(dirs) < MaxDirs
    /\ dirs' = Append(dirs, [at |-> "tmp", key |-> run[p].key, files |-> {}])
    /\ Put(p, [run[p] EXCEPT !.at = "write", !.dir = Len(dirs) + 1])
    /\ UNCHANGED <<start, edition, task, page, faults>>

Missing(d) == {n \in DOMAIN Files : Files[n] \notin d.files}
WriteFile(p) ==
    /\ run[p].at = "write" /\ Missing(dirs[run[p].dir]) # {}
    /\ dirs' = [dirs EXCEPT ![run[p].dir].files = @ \union {Files[Min(Missing(dirs[run[p].dir]))]}]
    /\ UNCHANGED <<start, edition, run, task, page, faults>>

\* _replace_with_retry
Replace(p) ==
    /\ run[p].at = "write" /\ Missing(dirs[run[p].dir]) = {}
    /\ dirs' = [dirs EXCEPT ![run[p].dir].at = "final"]
    /\ Put(p, Settled(run[p], run[p].dir, "final"))
    /\ UNCHANGED <<start, edition, task, page, faults>>

\* A write or all three replacements fail: the directory is removed and the command ends.
WriteFails(p) ==
    /\ run[p].at = "write" /\ Fault
    /\ dirs' = [dirs EXCEPT ![run[p].dir].at = "gone"]
    /\ Put(p, [run[p] EXCEPT !.at = "failed"])
    /\ UNCHANGED <<start, edition, task, page>>

\* The process is killed, by a person or because the page waited 600 s: nothing is cleaned up.
Kill(p) ==
    /\ run[p].at \in {"look", "compute", "write", "sum"} /\ Fault
    /\ Put(p, [run[p] EXCEPT !.at = "killed"])
    /\ UNCHANGED <<start, edition, dirs, task, page>>

\* summarize_windows: reads summary.json where the window's run left it; one found in a
\* directory that has since got its final name is not there any more.
Readable(output) == dirs[output.dir].at = output.at
Record(record, w) ==
    IF ~w.available \/ w \in record.failures THEN [status |-> "unavailable", key |-> None]
    ELSE [status |-> "completed", key |-> dirs[record.outputs[w].dir].key]
Summarize(p) ==
    /\ run[p].at = "sum"
    /\ IF \A w \in DOMAIN run[p].outputs : Readable(run[p].outputs[w])
       THEN Put(p, [run[p] EXCEPT !.at = "done",
                                  !.summary = [n \in DOMAIN FixedWindows |-> Record(run[p], FixedWindows[n])]])
       ELSE Put(p, [run[p] EXCEPT !.at = "failed"])
    /\ UNCHANGED <<start, edition, dirs, task, page, faults>>

\* The thread of a task: its status follows the process.  Output that cannot be decoded
\* ends the thread, and the task stays "running".
TaskEnds(p) ==
    /\ task[p] = "running" /\ run[p].at \in {"done", "failed", "killed"}
    /\ task' = [task EXCEPT ![p] = IF run[p].at = "done" THEN "completed" ELSE "failed"]
    /\ UNCHANGED <<start, edition, dirs, run, page, faults>>
TaskLost(p) ==
    /\ task[p] = "running" /\ run[p].at \in {"done", "failed"} /\ Fault
    /\ Put(p, [run[p] EXCEPT !.at = "lost"])
    /\ UNCHANGED <<start, edition, dirs, task, page>>

\* get_backtest: of the runs that end on the day asked for and begin no later than the
\* window, the one that begins first, cut to the window.  A directory that is still being
\* written is listed as soon as its report is there.
Covering(first, last) == {i \in DOMAIN dirs : /\ dirs[i].at # "gone" /\ {"report", "summary"} \subseteq dirs[i].files
                                              /\ dirs[i].key.window.last = last
                                              /\ dirs[i].key.window.first <= first}
GetBacktest(first, last) ==
    LET found == Covering(first, last)
        begins == Min({dirs[i].key.window.first : i \in found})
    IN /\ found # {} /\ last - first >= 1       \* derive_backtest_window: two days at least
       /\ \E i \in found : /\ dirs[i].key.window.first = begins
                           /\ page' = [first |-> first, last |-> last, dir |-> i]
       /\ UNCHANGED <<start, edition, dirs, run, task, faults>>

Step(p) == \/ Look(p) \/ NoData(p) \/ Unaligned(p) \/ Compute(p) \/ WriteFile(p) \/ Replace(p)
           \/ WriteFails(p) \/ Kill(p) \/ Summarize(p)

Next == \/ \E p \in Runs : Step(p) \/ \E many, rerun \in BOOLEAN : Begin(p, many, rerun)
        \/ \E p \in WebRun : StartBacktest(p) \/ TaskEnds(p) \/ TaskLost(p)
        \/ EditStrategy
        \/ \E first, last \in 1 .. LastDay : GetBacktest(first, last)

Spec == Init /\ [][Next]_vars

-----------------------------------------------------------------------------
RunsTypeOK ==
    /\ start \in 1 .. LastDay /\ edition \in 1 .. Editions /\ faults \in 0 .. MaxFaults
    /\ \A i \in DOMAIN dirs : dirs[i].at \in {"tmp", "final", "gone"} /\ dirs[i].files \subseteq Range(Files)
    /\ \A p \in WebRun : task[p] \in {None, "running", "completed", "failed"}

\* The windows of a walk-forward are one after the other and cover every day asked for;
\* only the last may be too short.
WindowsCover ==
    /\ FixedWindows[1].first = start /\ FixedWindows[Len(FixedWindows)].last = LastDay
    /\ \A n \in 1 .. Len(FixedWindows) - 1 : /\ FixedWindows[n].available
                                             /\ FixedWindows[n].last + 1 = FixedWindows[n + 1].first
    /\ \A n \in DOMAIN FixedWindows : FixedWindows[n].first <= FixedWindows[n].last

\* Whatever a run takes for its result, made by itself or found, answers the question it
\* was asked with the configuration it read, and has all of its data; a summary speaks of
\* every window once and of no result of another window or of two configurations that were
\* not in force; a window served comes from a whole run that covers it.
RunsSound ==
    /\ \A p \in Runs : \A w \in DOMAIN run[p].outputs :
          LET d == dirs[run[p].outputs[w].dir]
          IN /\ d.key = run[p].outputs[w].key /\ d.key.window = w
             /\ Asked \subseteq d.files
    /\ \A p \in Runs : run[p].summary # None =>
          \A n \in DOMAIN FixedWindows :
             IF run[p].summary[n].status = "completed" THEN run[p].summary[n].key.window = FixedWindows[n]
             ELSE ~FixedWindows[n].available \/ FixedWindows[n] \in run[p].failures
    /\ \A i \in DOMAIN dirs : dirs[i].at = "final" => Range(Files) = dirs[i].files
    /\ page # None => /\ Asked \subseteq dirs[page.dir].files /\ dirs[page.dir].key.window.first <= page.first
                      /\ dirs[page.dir].key.window.last = page.last
    /\ \A p, q \in WebRun : task[p] = "running" /\ task[q] = "running" => p = q

ResultsSound == WindowsCover /\ RunsSound

\* The directory of a finished run is never changed or removed.
FinishedRunsStay == \A i \in DOMAIN dirs : dirs[i].at = "final" => dirs'[i] = dirs[i]
=============================================================================
