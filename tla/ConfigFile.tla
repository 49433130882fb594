----------------------------- MODULE ConfigFile -----------------------------
(***************************************************************************)
(* The configuration file and its writers: Config                          *)
(* (src/src/utils/config.py), the configuration routes                     *)
(* (src/src/api/configuration.py) and "config set" of the command line.    *)
(*                                                                         *)
(* Four fields stand for the document: two thresholds that are validated   *)
(* together, the port, which waits for a restart, and the hour of the old  *)
(* collector settings, which a first load takes over from the database.    *)
(* A field the document leaves out is NULL and has its default; the        *)
(* revision of a document, a hash of it, is the document itself.  A load   *)
(* and a save hold the file lock, so their statements show only in what a  *)
(* crash leaves behind.                                                    *)
(***************************************************************************)
EXTENDS Integers, FiniteSets

CONSTANTS
    Servers, Commands,  \* processes: web servers and commands
    Values,     \* field -> the values a person may enter
    Default,    \* field -> value
    Legacy,     \* the hour in the database of an old version, or NULL
    Unversioned,  \* forms may be sent without a revision
    MaxSaves, MaxFaults,  \* bounds
    NULL

Fields == {"watch", "attack", "port", "hour"}

Processes == Servers \union Commands

ASSUME NullAssumption == NULL \notin Nat /\ NULL \notin [Fields -> Nat \union {NULL}]
ASSUME ValuesAssumption == /\ Values \in [Fields -> SUBSET Nat] /\ Values["hour"] # {}
                           /\ Default \in [Fields -> Nat] /\ Legacy \in Nat \union {NULL}

VARIABLES
    file,     \* the document, NULL before the first load
    marked,   \* config_migrations holds the mark
    doing,       \* of each process
    data,     \* Config.data of the request
    page,     \* the document a page was last shown
    asked,     \* the changes of the request
    versioned,  \* the request carries the revision of its page
    listening,  \* the port a server is bound to
    applied,    \* the snapshot its runtime uses
    saves, faults

cvars == <<file, marked, doing, data, page, asked, versioned, listening, applied, saves, faults>>
request == <<doing, data, page, asked, versioned>>
running == <<listening, applied>>

Absent == [f \in Fields |-> NULL]
Merge(base, over) == [f \in Fields |-> IF over[f] = NULL THEN base[f] ELSE over[f]]
Merged(doc) == Merge(Default, doc)
Changes == UNION {[S -> UNION {Values[f] : f \in Fields} \union {NULL}] :
                  S \in {s \in SUBSET Fields : Cardinality(s) \in 1 .. 2}}
Over(doc, change) == [f \in Fields |-> IF f \in DOMAIN change THEN change[f] ELSE doc[f]]

ConfigInit == /\ file \in {NULL, Absent, [Absent EXCEPT !["hour"] = CHOOSE h \in Values["hour"] : TRUE]}
              /\ marked = FALSE
              /\ doing = [p \in Processes |-> "idle"]
              /\ data = [p \in Processes |-> Default] /\ page = [p \in Processes |-> NULL]
              /\ asked = [p \in Processes |-> <<>>] /\ versioned = [p \in Processes |-> TRUE]
              /\ listening = [s \in Servers |-> Default["port"]]
              /\ applied = [s \in Servers |-> Default]
              /\ saves = 0 /\ faults = 0

-----------------------------------------------------------------------------
LegacyHour == IF marked THEN NULL ELSE Legacy

\* _load_unlocked under the lock: defaults are written where no file is; old
\* settings fill the hour the document leaves out, and are marked as taken.
\* What the person wrote wins.
Migrated == CASE file = NULL -> IF LegacyHour = NULL THEN Default
                                ELSE [Default EXCEPT !["hour"] = LegacyHour]
              [] file # NULL /\ LegacyHour # NULL /\ file["hour"] = NULL ->
                    [file EXCEPT !["hour"] = LegacyHour]
              [] OTHER -> file

LoadWrites == /\ file' = Migrated
              /\ marked' = (marked \/ LegacyHour # NULL)

\* The first statement of a load without the second: the process is killed
\* between the write and the mark.
LoadCut(p) ==
    /\ doing[p] = "idle" /\ faults < MaxFaults /\ faults' = faults + 1
    /\ file # Migrated /\ file' = Migrated
    /\ UNCHANGED <<marked, request, running, saves>>

Reply(p) == /\ doing' = [doing EXCEPT ![p] = "idle"]
            /\ asked' = [asked EXCEPT ![p] = <<>>]

\* A page asks for the document and its revision.
Show(p) ==
    /\ doing[p] = "idle" /\ p \in Servers
    /\ LoadWrites
    /\ page' = [page EXCEPT ![p] = file']
    /\ UNCHANGED <<doing, data, asked, versioned, running, saves, faults>>

Ordered(d) == 0 < d["watch"] /\ d["watch"] < d["attack"] /\ d["attack"] <= 10
Valid(d) == Ordered(Merged(d))
Typed(change) == \A f \in DOMAIN change : change[f] \in Values[f]

\* PUT /config and "config set": the configuration is loaded, and the
\* thresholds of a form are validated against it, before the lock is taken.
\* The command line validates nothing.
Submit(p) ==
    /\ doing[p] = "idle" /\ saves < MaxSaves
    /\ LoadWrites
    /\ data' = [data EXCEPT ![p] = Merged(file')]
    /\ \E change \in Changes, v \in BOOLEAN :
          /\ Typed(change)
          /\ p \in Commands => Cardinality(DOMAIN change) = 1
          /\ p \in Servers => Valid(Over(Merged(file'), change)) /\ page[p] # NULL
          /\ v \/ Unversioned \/ p \in Commands
          /\ asked' = [asked EXCEPT ![p] = change]
          /\ versioned' = [versioned EXCEPT ![p] = v /\ p \in Servers]
    /\ doing' = [doing EXCEPT ![p] = "update"] /\ saves' = saves + 1
    /\ UNCHANGED <<page, running, faults>>

\* PUT /config/file: a whole document, made from the one on the page, which
\* may leave fields out; it is validated by itself and needs a revision.
SubmitFile(p) ==
    /\ doing[p] = "idle" /\ saves < MaxSaves /\ p \in Servers /\ page[p] # NULL
    /\ LoadWrites
    /\ data' = [data EXCEPT ![p] = Merged(file')]
    /\ \E change \in Changes :
          /\ \A f \in DOMAIN change : change[f] \in Values[f] \union {NULL}
          /\ Valid(Over(page[p], change))
          /\ asked' = [asked EXCEPT ![p] = change]
    /\ versioned' = [versioned EXCEPT ![p] = TRUE]
    /\ doing' = [doing EXCEPT ![p] = "replace"] /\ saves' = saves + 1
    /\ UNCHANGED <<page, running, faults>>

Current(p) == versioned[p] => page[p] = file

Conflict(p) ==
    /\ doing[p] \in {"update", "replace"} /\ ~Current(p)
    /\ Reply(p)
    /\ UNCHANGED <<file, marked, data, page, versioned, running, saves, faults>>

BaseStale(p) == data[p]
Base(p) == Merged(file)  \* reloaded under the lock

HotUpdate(p) == \E f \in DOMAIN asked[p] : f # "port"

\* _config_for_runtime: a port of this request waits for the restart.
ForRuntime(p, saved) ==
    IF "port" \in DOMAIN asked[p] THEN [saved EXCEPT !["port"] = data[p]["port"]] ELSE saved

\* saved_response: what is hot reaches the runtime unless the reload fails.
Respond(p, saved) ==
    /\ Reply(p)
    /\ page' = IF p \in Servers THEN [page EXCEPT ![p] = file'] ELSE page
    /\ IF p \in Servers /\ HotUpdate(p)
       THEN \E done \in BOOLEAN :
              /\ applied' = IF done THEN [applied EXCEPT ![p] = ForRuntime(p, saved)] ELSE applied
              /\ done \/ faults < MaxFaults
              /\ faults' = IF done THEN faults ELSE faults + 1
       ELSE UNCHANGED <<applied, faults>>
    /\ UNCHANGED listening

\* Config.update: the changes are merged into what the file says now, and
\* every field becomes explicit.
Update(p) ==
    /\ doing[p] = "update" /\ Current(p)
    /\ LET saved == Over(Base(p), asked[p])
       IN  file' = saved /\ Respond(p, saved)
    /\ UNCHANGED <<marked, data, versioned, saves>>

\* Config.replace_source.
Replace(p) ==
    /\ doing[p] = "replace" /\ Current(p)
    /\ file' = Over(page[p], asked[p])
    /\ Respond(p, Merged(file'))
    /\ UNCHANGED <<marked, data, versioned, saves>>

\* The write fails: the file is as before, and the error goes to the caller.
WriteFails(p) ==
    /\ doing[p] \in {"update", "replace"} /\ Current(p)
    /\ faults < MaxFaults /\ faults' = faults + 1
    /\ Reply(p)
    /\ UNCHANGED <<file, marked, data, page, versioned, running, saves>>

\* A server is restarted, by a person or after a crash in the middle of a
\* request, and binds what the file says.
Restart(s) ==
    /\ faults < MaxFaults /\ faults' = faults + 1
    /\ LoadWrites
    /\ Reply(s)
    /\ applied' = [applied EXCEPT ![s] = Merged(file')]
    /\ listening' = [listening EXCEPT ![s] = Merged(file')["port"]]
    /\ UNCHANGED <<data, page, versioned, saves>>

ConfigNext ==
    \/ \E p \in Processes : \/ LoadCut(p) \/ Show(p) \/ Submit(p) \/ SubmitFile(p)
                            \/ Conflict(p) \/ Update(p) \/ Replace(p) \/ WriteFails(p)
    \/ \E s \in Servers : Restart(s)

ConfigSpec == ConfigInit /\ [][ConfigNext]_cvars

-----------------------------------------------------------------------------
\* Every variable keeps to its domain.
ConfigTypeOK ==
    /\ file # NULL => \A f \in Fields : file[f] \in Values[f] \union {NULL, Default[f], Legacy}
    /\ marked \in BOOLEAN
    /\ \A s \in Servers : applied[s] \in [Fields -> Nat] /\ listening[s] \in Nat

\* Action property: a value of the document changes only because a request
\* asked for that field; a concurrent save of another field is never undone,
\* and a whole document never overwrites what its page did not show.
NoUpdateLost ==
    file # NULL => \A f \in Fields : Merged(file')[f] # Merged(file)[f] =>
       \/ \E p \in Processes : doing[p] # "idle" /\ doing'[p] = "idle" /\ f \in DOMAIN asked[p]
       \/ f = "hour" /\ file["hour"] = NULL /\ Legacy # NULL /\ ~marked

\* Action property: settings of the old database come back at most once: a
\* person who removes the field afterwards gets the default.
LegacyStayDead ==
    marked /\ Merged(file)["hour"] # Legacy /\ Merged(file')["hour"] = Legacy =>
       \E p \in Processes : "hour" \in DOMAIN asked[p]

\* Action property: both together.
DocumentKept == [][NoUpdateLost /\ LegacyStayDead]_cvars
=============================================================================
