-------------------------- MODULE CollectorStartup --------------------------
(***************************************************************************)
(* How the collection service is started and how the entries of older      *)
(* versions are taken out of its way: the adapter of the system's startup  *)
(* (src/src/radar/collector_startup.py), the commands `radar daemon` and   *)
(* `radar collect` (src/src/stock_robot/cli.py) and the switch of the web  *)
(* page (src/src/api/radar.py), on Windows.                                *)
(*                                                                         *)
(* Older versions left a task of the scheduler, a launcher in the startup  *)
(* folder, and processes that collect without the lock of the service.     *)
(* The code on disk is new: what a leftover entry starts is the command    *)
(* `radar collect` of this version.                                        *)
(***************************************************************************)
EXTENDS Integers, FiniteSets

CONSTANTS
    Old,       \* processes an older version may have left running
    Fresh,     \* processes that may be started
    Pages,     \* {"web"}, or {} where nobody uses the switch of the page
    Installed, \* what older versions may have left: task, launcher, marker
    None

VARIABLES
    task,      \* the old task: "none", "on", "off" or "other" of another project
    launcher,  \* the old launcher: "none", "ours" or "edited"
    marker,    \* the file radar_collector.disabled
    running,   \* running[p]: None, "old", "other" of another project, "collect", "daemon"
    lock,      \* the process that holds the lock of the service
    serving,   \* the processes past their startup hook
    login,     \* the new task: "none", "on", "off"
    mig,       \* the migration each actor is in
    web        \* the request of the page: None or its state

vars == <<task, launcher, marker, running, lock, serving, login, mig, web>>

Pids == Old \union Fresh
Actors == Fresh \union Pages
Idle == [pc |-> "idle", matched |-> {}, rows |-> {}, active |-> {}, unlisted |-> FALSE,
         errors |-> FALSE, unsafe |-> FALSE, pending |-> FALSE]

Init ==
    /\ \E left \in Installed : task = left.task /\ launcher = left.launcher /\ marker = left.marker
    /\ running \in {f \in [Pids -> {None, "old", "other"}] : \A p \in Fresh : f[p] = None}
    /\ lock = None /\ serving = {} /\ login = "none"
    /\ mig = [a \in Actors |-> Idle] /\ web = None

At(a, pc) == mig[a].pc = pc
Go(a, m) == mig' = [mig EXCEPT ![a] = m]
entries == <<task, launcher, marker>>
processes == <<running, lock, serving>>

\* The command lines of processes an older version started, and of those its leftover
\* entries start now.
Legacy(p) == running[p] \in {"old", "other", "collect"}
Ours(p) == running[p] \in {"old", "collect"}

-----------------------------------------------------------------------------
(* migrate_legacy: what is there, the marker, and what is taken away.      *)

\* The task, by name; one of another project or that cannot be read is left alone.
QueryTask(a) ==
    /\ At(a, "task")
    /\ \E fails \in BOOLEAN :
          Go(a, [mig[a] EXCEPT !.pc = "launcher", !.errors = fails,
                     !.matched = IF ~fails /\ task \in {"on", "off"} THEN {"task"} ELSE {}])
    /\ UNCHANGED <<entries, processes, login, web>>

QueryLauncher(a) ==
    /\ At(a, "launcher")
    /\ \E fails \in BOOLEAN :
          /\ fails => launcher # "none"
          /\ Go(a, [mig[a] EXCEPT !.pc = "list", !.errors = @ \/ fails,
                     !.matched = IF ~fails /\ launcher = "ours" THEN @ \union {"launcher"} ELSE @])
    /\ UNCHANGED <<entries, processes, login, web>>

\* The processes with such a command line; whose directory cannot be read stays active.
ListProcesses(a) ==
    /\ At(a, "list")
    /\ \/ Go(a, [mig[a] EXCEPT !.pc = "mark", !.errors = TRUE, !.unlisted = TRUE])
       \/ \E unknown \in SUBSET {p \in Pids : Legacy(p)} :
             Go(a, [mig[a] EXCEPT !.pc = "mark", !.errors = @ \/ unknown # {}, !.active = unknown,
                        !.rows = {p \in Pids \ unknown : Ours(p)}])
    /\ UNCHANGED <<entries, processes, login, web>>

Needed(m) == m.matched # {} \/ m.rows # {} \/ m.errors

\* Without the marker nothing is taken away: what is there stays active.
Mark(a) ==
    /\ At(a, "mark")
    /\ LET m == mig[a]
       IN \/ /\ ~Needed(m)
             /\ Go(a, [m EXCEPT !.pc = "finish"]) /\ UNCHANGED marker
          \/ /\ Needed(m)
             /\ marker' = TRUE /\ Go(a, [m EXCEPT !.pc = "disable"])
          \/ /\ Needed(m)
             /\ Go(a, [m EXCEPT !.pc = "done", !.errors = TRUE, !.pending = TRUE, !.active = @ \union m.rows,
                           !.unsafe = m.matched # {} \/ m.active \union m.rows # {} \/ m.unlisted])
             /\ UNCHANGED marker
    /\ UNCHANGED <<task, launcher, processes, login, web>>

DisableTask(a) ==
    /\ At(a, "disable")
    /\ \E fails \in BOOLEAN :
          LET asked == "task" \in mig[a].matched
          IN /\ fails => asked
             /\ task' = IF asked /\ ~fails THEN "off" ELSE task
             /\ Go(a, [mig[a] EXCEPT !.pc = "unlink", !.errors = @ \/ fails])
    /\ UNCHANGED <<launcher, marker, processes, login, web>>

Unlink(a) ==
    /\ At(a, "unlink")
    /\ \E fails \in BOOLEAN :
          LET asked == "launcher" \in mig[a].matched
          IN /\ fails => asked
             /\ launcher' = IF asked /\ ~fails THEN "none" ELSE launcher
             /\ Go(a, [mig[a] EXCEPT !.pc = "stop", !.errors = @ \/ fails])
    /\ UNCHANGED <<task, marker, processes, login, web>>

Left(p) == /\ running' = [running EXCEPT ![p] = None]
           /\ lock' = IF lock = p THEN None ELSE lock
           /\ serving' = serving \ {p}

\* Command and directory are read again; a process that is gone is done with.  A
\* migration that a leftover entry started finds its own process among the rows.
StopOne(a) ==
    /\ At(a, "stop") /\ mig[a].rows # {}
    /\ LET p == CHOOSE q \in mig[a].rows : TRUE
           rest == [mig[a] EXCEPT !.rows = @ \ {p}]
       IN \/ /\ Left(p)
             /\ mig' = [b \in Actors |-> IF b = p THEN Idle ELSE IF b = a THEN rest ELSE mig[b]]
          \/ /\ running[p] # None
             /\ Go(a, [rest EXCEPT !.errors = TRUE, !.active = @ \union {p}])
             /\ UNCHANGED processes
    /\ UNCHANGED <<entries, login, web>>

Unsafe(m) == m.active # {} \/ m.unlisted

Finish(a) ==
    /\ \/ At(a, "stop") /\ mig[a].rows = {}
       \/ At(a, "finish")
    /\ Go(a, [mig[a] EXCEPT !.pc = "done", !.unsafe = Unsafe(mig[a]), !.pending = mig[a].errors])
    /\ UNCHANGED <<entries, processes, login, web>>

-----------------------------------------------------------------------------
(* The service.                                                            *)

\* A login, or a person: what a leftover entry starts stops at the marker.
StartCollect(p) ==
    /\ running[p] = None /\ p \in Fresh /\ At(p, "idle")
    /\ task = "on" \/ launcher = "ours"
    /\ ~marker
    /\ running' = [running EXCEPT ![p] = "collect"]
    /\ UNCHANGED <<entries, lock, serving, login, mig, web>>

StartDaemon(p) ==
    /\ running[p] = None /\ p \in Fresh /\ At(p, "idle")
    /\ running' = [running EXCEPT ![p] = "daemon"]
    /\ UNCHANGED <<entries, lock, serving, login, mig, web>>

\* serve: the lock at once or not at all, then the startup hook.
Serve(p) ==
    /\ p \in Fresh /\ running[p] # None /\ At(p, "idle") /\ lock # p
    /\ IF lock = None
       THEN lock' = p /\ Go(p, [Idle EXCEPT !.pc = "task"]) /\ UNCHANGED <<running, serving>>
       ELSE Left(p) /\ UNCHANGED mig
    /\ UNCHANGED <<entries, login, web>>

Hooked(p) ==
    /\ p \in Fresh /\ At(p, "done")
    /\ Go(p, Idle)
    /\ IF mig[p].unsafe THEN Left(p)
       ELSE serving' = serving \union {p} /\ UNCHANGED <<running, lock>>
    /\ UNCHANGED <<entries, login, web>>

\* A process ends, whoever ends it.
Exit(p) ==
    /\ running[p] # None
    /\ Left(p)
    /\ mig' = [b \in Actors |-> IF b = p THEN Idle ELSE mig[b]]
    /\ UNCHANGED <<entries, login, web>>

-----------------------------------------------------------------------------
(* The switch of the page.                                                 *)

SwitchOn ==
    /\ Pages # {} /\ web = None /\ web' = "migrating"
    /\ Go("web", [Idle EXCEPT !.pc = "task"])
    /\ UNCHANGED <<entries, processes, login>>

\* Create and run the task, or a refusal.  The process the task starts is StartDaemon.
Enable ==
    /\ web = "migrating" /\ At("web", "done")
    /\ \/ /\ mig["web"].unsafe /\ web' = "refused" /\ UNCHANGED login
       \/ /\ ~mig["web"].unsafe
          /\ \/ login' = "on" /\ web' \in {"waiting", "refused"}
             \/ UNCHANGED login /\ web' = "refused"
    /\ Go("web", Idle)
    /\ UNCHANGED <<entries, processes>>

\* A heartbeat of another worker, or another heartbeat, before the deadline.
Answered ==
    /\ web = "waiting"
    /\ web' \in {"late"} \union IF serving # {} THEN {"online"} ELSE {}
    /\ UNCHANGED <<entries, processes, login, mig>>

SwitchOff ==
    /\ Pages # {} /\ web = None
    /\ \/ login # "none" /\ login' = "off"
       \/ UNCHANGED login
    /\ web' = "answered"
    /\ UNCHANGED <<entries, processes, mig>>

Again == /\ web \in {"refused", "late", "online", "answered"} /\ web' = None
         /\ UNCHANGED <<entries, processes, login, mig>>

Migration(a) ==
    \/ QueryTask(a) \/ QueryLauncher(a) \/ ListProcesses(a) \/ Mark(a) \/ DisableTask(a)
    \/ Unlink(a) \/ StopOne(a) \/ Finish(a)

Next ==
    \/ \E a \in Actors : Migration(a)
    \/ \E p \in Fresh : StartCollect(p) \/ StartDaemon(p) \/ Serve(p) \/ Hooked(p)
    \/ \E p \in Pids : Exit(p)
    \/ SwitchOn \/ Enable \/ Answered \/ SwitchOff \/ Again

Spec == Init /\ [][Next]_vars

-----------------------------------------------------------------------------
StartupTypeOK ==
    /\ task \in {"none", "on", "off", "other"} /\ launcher \in {"none", "ours", "edited"}
    /\ marker \in BOOLEAN /\ lock \in Pids \union {None} /\ serving \subseteq Fresh
    /\ login \in {"none", "on", "off"}
    /\ \A p \in Pids : running[p] \in {None, "old", "other", "collect", "daemon"}

\* A service past its startup hook holds the lock, is the only one, and no process of
\* an older version of this project collects beside it.
NoOldCollectorBeside ==
    serving # {} => /\ serving = {lock} /\ running[lock] # None
                    /\ \A p \in Old : running[p] # "old"

\* A migration that reports nothing left to clean has left nothing: no old entry of the
\* project can start a collection, and no old process runs.
CleanMeansClean ==
    \A a \in Actors : At(a, "done") /\ ~mig[a].pending =>
        /\ task # "on" /\ launcher # "ours"
        /\ \A p \in Old : running[p] # "old"
=============================================================================
