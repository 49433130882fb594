------------------------------ MODULE MCProcess ------------------------------
(***************************************************************************)
(* Small instances of the modules about one process and its files.  A      *)
(* behaviour belongs to one part; the variables of the others are unused,  *)
(* and the runtime and the file stay in a first state.                    *)
(*   runtime  two subscriptions, two edits, two reloads                    *)
(*   pushed   one subscription, the endpoint and the daily job, fair       *)
(*   limits   three calls about two keys, a cache of one entry             *)
(*   call     one request, AutoBudget of 3 for 8192                        *)
(*   config   a web server and a command, one fault                        *)
(*   sweep    reports of a stock and of gold, a loop and a person, fair    *)
(***************************************************************************)
EXTENDS Runtime, ConfigFile, Generation

CONSTANTS s1, s2, h1, h2, c1, c2, c3, k1, k2

VARIABLES
    part, at,  \* at: where the callers of ModelLimits are, its pc
    sub, run, thread, sent, ask, edit, up, crashes,
    key, waits, set, cache, value, pending, answer,
    md, snapshot, dir, old, saver, token, retry, was, chat, sweep, reader, listing, listed, reads

Pushed == INSTANCE PushRuns WITH
    Callers <- {"api", "cron"}, Subs <- {s1}, Runs <- {1, 2}, Switches <- {TRUE},
    MaxSymbols <- 1, MaxFaults <- 1, MaxCrashes <- 1
Limit == INSTANCE ModelLimits WITH Callers <- {c1, c2, c3}, Keys <- {k1, k2}, MaxCache <- 1, pc <- at
Archive == INSTANCE ReportArchive WITH
    Stock <- {s1}, Index <- {}, Gold <- {s2}, Sweepers <- {"loop", "request"},
    MaxMishaps <- 1, MaxReads <- 0, NoFile <- None, snap <- snapshot, mishaps <- faults

ConfigValues == [f \in Fields |-> CASE f = "watch" -> {4, 6} [] f = "attack" -> {5, 7}
                                    [] f = "port" -> {1, 2} [] OTHER -> {9}]
ConfigDefault == [f \in Fields |-> CASE f = "watch" -> 4 [] f = "attack" -> 7
                                     [] f = "port" -> 1 [] OTHER -> 18]

-----------------------------------------------------------------------------
PushOnly == <<sub, run, thread, sent, ask, edit, up, crashes>>
LimitsOnly == <<key, waits, set, cache, value, pending, answer>>
FileOnly == <<file, marked, request, running, saves>>
ArchiveOnly == <<md, snapshot, dir, old, saver, token, retry, was, chat, sweep, reader,
                 listing, listed, reads>>

NoPush == /\ sub = None /\ run = None /\ thread = None /\ sent = None /\ ask = None
          /\ edit = None /\ up = None /\ crashes = None
NoLimits == /\ key = None /\ waits = None /\ set = None /\ cache = None /\ value = None
            /\ pending = None /\ answer = None
NoArchive == /\ md = None /\ snapshot = None /\ dir = None /\ old = None /\ saver = None
             /\ token = None /\ retry = None /\ was = None /\ chat = None /\ sweep = None
             /\ reader = None /\ listing = None /\ listed = None /\ reads = None

ProcessInit ==
    /\ part \in {"runtime", "pushed", "limits", "call", "config", "sweep"}
    /\ Init /\ (part # "runtime" => enabled = {} /\ \A g \in Gens : want[g])
    /\ ConfigInit /\ (part # "config" => file = NULL)
    /\ CallInit /\ (part # "call" => protocol = "claude" /\ explicit = Unset /\ limit = Unset)
    /\ part # "sweep" => NoArchive
    /\ \/ part = "runtime" /\ at = None /\ NoPush /\ NoLimits
       \/ part = "pushed" /\ Pushed!PushInit /\ at = None /\ NoLimits
       \/ part = "limits" /\ Limit!Init /\ NoPush
       \/ part = "call" /\ at = None /\ NoPush /\ NoLimits
       \/ part = "config" /\ at = None /\ NoPush /\ NoLimits
       \/ part = "sweep" /\ Archive!ArchiveInit /\ at = None /\ NoPush /\ NoLimits

ProcessNext ==
    /\ UNCHANGED part
    /\ part # "sweep" => UNCHANGED ArchiveOnly
    /\ \/ /\ part = "runtime" /\ Next
          /\ UNCHANGED <<at, faults, PushOnly, LimitsOnly, callvars, FileOnly>>
       \/ /\ part = "pushed" /\ Pushed!PushNext
          /\ UNCHANGED <<vars, at, LimitsOnly, callvars, FileOnly>>
       \/ /\ part = "limits" /\ Limit!Next
          /\ UNCHANGED <<vars, faults, PushOnly, callvars, FileOnly>>
       \/ /\ part = "call" /\ CallNext
          /\ UNCHANGED <<vars, at, faults, PushOnly, LimitsOnly, FileOnly>>
       \/ /\ part = "config" /\ ConfigNext
          /\ UNCHANGED <<vars, at, PushOnly, LimitsOnly, callvars>>
       \/ /\ part = "sweep" /\ Archive!ArchiveNext
          /\ UNCHANGED <<vars, at, PushOnly, LimitsOnly, callvars, FileOnly>>

all == <<vars, at, faults, PushOnly, LimitsOnly, callvars, FileOnly, ArchiveOnly, part>>

Fairness ==
    /\ WF_vars(part = "runtime" /\ (Stop \/ Start \/ Swap \/ Activate \/ Undo \/ Restore))
    /\ WF_Pushed!pvars(part = "pushed" /\ Pushed!WebStart)
    /\ \A r \in {1, 2} : WF_Pushed!pvars(part = "pushed" /\ Pushed!ThreadStep(r))
    /\ \A c \in {c1, c2, c3} :
          WF_Limit!vars(part = "limits" /\ (Limit!Look(c) \/ Limit!Wake(c) \/ Limit!Query(c)))
    /\ WF_callvars(part = "call" /\ CallNext)
    /\ \A s \in {"loop", "request"} : WF_Archive!archvars(part = "sweep" /\ Archive!SweepStep(s))
    /\ \A r \in {s1, s2} :
          WF_Archive!archvars(part = "sweep" /\ ( \/ Archive!SaveText(r) \/ Archive!SaveSnapshot(r)
                                             \/ Archive!Retrying(r)))

ProcessSpec == ProcessInit /\ [][ProcessNext]_all /\ Fairness

-----------------------------------------------------------------------------
(* The properties of the other modules, each for the behaviours it is      *)
(* about; those of Runtime and ConfigFile hold as they stand.              *)

\* The capability queries: one in flight per key, and a waiter waits for it or for
\* an event that is set; a call pays for at most retry_times + 2 requests; and all
\* variables of the part keep to their domains.
ProcessSafe ==
    CASE part = "limits" -> Limit!LimitsTypeOK /\ Limit!OneQueryPerKey /\ Limit!WaitersAreWoken
      [] part = "call" -> GenerationTypeOK /\ RequestsBounded
      [] part = "pushed" -> Pushed!PushTypeOK
      [] part = "config" -> ConfigTypeOK
      [] part = "sweep" -> Archive!ArchiveTypeOK
      [] OTHER -> TRUE

\* Every run the service queued is closed or deleted.
ServiceRunsEnd ==
    \A r \in {1, 2} :
        (part = "pushed" /\ run[r].status \in Pushed!Active /\ run[r].by \in Pushed!Web)
        ~> (part = "pushed" /\ run[r].status \notin Pushed!Active)

\* Every caller gets an answer although no wait for a query ever times out, and
\* generate() always returns.
CallersReturn ==
    /\ (part = "limits") ~> (part = "limits" /\ \A c \in {c1, c2, c3} : at[c] \in Limit!Ends)
    /\ (part = "call") ~> (part = "call" /\ stage = "done")

\* A report whose week has passed goes, also when a sweep stopped half way,
\* unless its snapshot belongs to another text; so does a snapshot alone.
ExpiredGo ==
    \A r \in {s1, s2} :
        /\ (part = "sweep" /\ old[r] /\ md[r] # None /\ snapshot[r] \in {None, md[r]})
           ~> (part = "sweep" /\ md[r] = None)
        /\ (part = "sweep" /\ old[r] /\ md[r] = None /\ snapshot[r] # None)
           ~> (part = "sweep" /\ snapshot[r] = None)

\* What one process begins comes to an end whatever fails: a reload, a push run, a
\* call of the model, an expired report.
WorkEnds == ReloadEnds /\ ServiceRunsEnd /\ CallersReturn /\ ExpiredGo
=============================================================================
