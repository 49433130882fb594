---------------------------- MODULE ReportArchive ---------------------------
(***************************************************************************)
(* The report archive: a report is a Markdown file and, beside it, a       *)
(* snapshot that names the text it belongs to by digest.  Reports are      *)
(* saved (src/src/report/formatter.py, src/src/index/archives.py,          *)
(* src/src/gold/service.py), get their AI commentary later                 *)
(* (src/src/api/app.py), are listed and read                               *)
(* (src/src/api/report_library.py), and are swept a week later             *)
(* (src/src/maintenance).                                                  *)
(*                                                                         *)
(* A file holds NoFile or a batch: 1 is the report as it was saved, 2 the    *)
(* report with its commentary.  Every file operation is a step; a file is  *)
(* replaced atomically.  The directory is one month of one symbol.         *)
(***************************************************************************)
EXTENDS Integers, FiniteSets

CONSTANTS
    Stock, Index, Gold,  \* the reports of each category
    Sweepers,   \* the background loop and requests of a person
    MaxMishaps,  \* bound: failing file operations and crashes
    MaxReads,   \* bound: reads and listings
    NoFile

ASSUME FilesAssumption == NoFile \notin {1, 2}
ASSUME CategoriesAssumption == Stock \cap Index = {} /\ Stock \cap Gold = {} /\ Index \cap Gold = {}

Reports == Stock \union Index \union Gold

VARIABLES
    md, snap,  \* the two files of each report
    dir,       \* the directory exists
    old,       \* the week of the report has passed
    saver,     \* where saving each report stands
    token,     \* the process can still retry the commentary
    retry,     \* where that retry stands
    was,       \* the two files an index retry may have to restore
    chat,      \* the batch the session shows
    sweep,     \* of each sweeper: [at, units, snaps, unit]
    reader,    \* [at, md, shown]
    listing,   \* reports a listing has found and not yet read
    listed,    \* how the last listing ended
    mishaps, reads

files == <<md, snap, dir, old>>
retrying == <<token, retry, was, chat>>
reading == <<reader, listing, listed, reads>>
archvars == <<md, snap, dir, old, saver, token, retry, was, chat, sweep, reader, listing,
          listed, mishaps, reads>>

Resting == [at |-> "idle", units |-> {}, snaps |-> {}, unit |-> NoFile]
NoRead == [at |-> "idle", md |-> NoFile, shown |-> NoFile, report |-> NoFile]

ArchiveInit == /\ md = [r \in Reports |-> NoFile] /\ snap = [r \in Reports |-> NoFile]
        /\ dir = FALSE /\ old = [r \in Reports |-> FALSE]
        /\ saver = [r \in Reports |-> "none"]
        /\ token = [r \in Reports |-> FALSE] /\ retry = [r \in Reports |-> "idle"]
        /\ was = [r \in Reports |-> NoFile] /\ chat = [r \in Reports |-> NoFile]
        /\ sweep = [s \in Sweepers |-> Resting]
        /\ reader = NoRead /\ listing = {} /\ listed = "none"
        /\ mishaps = 0 /\ reads = 0

May == mishaps < MaxMishaps
Fail == May /\ mishaps' = mishaps + 1
\* A file operation of a save: it needs the directory, and may fail.
Written == dir /\ UNCHANGED mishaps
NotWritten == IF dir THEN Fail ELSE UNCHANGED mishaps

-----------------------------------------------------------------------------
(* Saving: directory, text, snapshot.  A name is a time and, but for       *)
(* stocks, a random suffix, so no report is saved twice.                   *)

SaveAt(r, at) == saver' = [saver EXCEPT ![r] = at]

MakeDirectory(r) ==
    /\ saver[r] = "none" /\ ~old[r]
    /\ dir' = TRUE /\ SaveAt(r, "text")
    /\ UNCHANGED <<md, snap, old, retrying, sweep, reading, mishaps>>

\* The write needs the directory; without it the save is an error, and the
\* answer is not archived.
SaveText(r) ==
    /\ saver[r] = "text"
    /\ \/ Written /\ md' = [md EXCEPT ![r] = 1] /\ SaveAt(r, "snapshot")
       \/ NotWritten /\ SaveAt(r, "failed") /\ UNCHANGED md
    /\ UNCHANGED <<snap, dir, old, retrying, sweep, reading>>

\* The snapshot is optional.  The process remembers what a retry needs and
\* puts the report into the session.
SaveSnapshot(r) ==
    /\ saver[r] = "snapshot"
    /\ \/ Written /\ snap' = [snap EXCEPT ![r] = 1]
       \/ NotWritten /\ UNCHANGED snap
    /\ SaveAt(r, "saved")
    /\ token' = [token EXCEPT ![r] = r \notin Gold /\ (r \in Index => snap'[r] = 1)]
    /\ chat' = [chat EXCEPT ![r] = 1]
    /\ UNCHANGED <<md, dir, old, retry, was, sweep, reading>>

-----------------------------------------------------------------------------
(* The commentary of a saved report; one retry of a report at a time.      *)

RetryAt(r, at) == retry' = [retry EXCEPT ![r] = at]

\* The model answers; a stock report writes its text first, an index report
\* reads both files and only goes on from the batch it was made of.
RetryBegin(r) ==
    /\ token[r] /\ retry[r] = "idle" /\ chat[r] = 1
    /\ IF r \in Stock THEN RetryAt(r, "text") /\ UNCHANGED was
       ELSE CASE md[r] = 1 /\ snap[r] = 1 -> RetryAt(r, "snapshot") /\ was' = [was EXCEPT ![r] = 1]
              [] md[r] = 2 /\ snap[r] = 2 -> RetryAt(r, "session") /\ UNCHANGED was
              [] OTHER -> FALSE
    /\ UNCHANGED <<files, saver, token, chat, sweep, reading, mishaps>>

RetryGivenUp == "idle"

\* update_stock_snapshot: the text, then its snapshot, which is removed when
\* it cannot be written.
RetryStockText(r) ==
    /\ r \in Stock /\ retry[r] = "text"
    /\ \/ Written /\ md' = [md EXCEPT ![r] = 2] /\ RetryAt(r, "snapshot")
       \/ NotWritten /\ RetryAt(r, RetryGivenUp) /\ UNCHANGED md
    /\ UNCHANGED <<snap, dir, old, saver, token, was, chat, sweep, reading>>

RetryStockSnapshot(r) ==
    /\ r \in Stock /\ retry[r] = "snapshot"
    /\ \/ Written /\ snap' = [snap EXCEPT ![r] = 2]
       \/ NotWritten /\ snap' \in {[snap EXCEPT ![r] = NoFile], snap}
    /\ RetryAt(r, "session")
    /\ UNCHANGED <<md, dir, old, saver, token, was, chat, sweep, reading>>

\* update_index_report: the snapshot, then the text; what fails is restored.
RetryIndexSnapshot(r) ==
    /\ r \in Index /\ retry[r] = "snapshot"
    /\ \/ Written /\ snap' = [snap EXCEPT ![r] = 2] /\ RetryAt(r, "text")
       \/ NotWritten /\ RetryAt(r, "restoreText") /\ UNCHANGED snap
    /\ UNCHANGED <<md, dir, old, saver, token, was, chat, sweep, reading>>

RetryIndexText(r) ==
    /\ r \in Index /\ retry[r] = "text"
    /\ \/ Written /\ md' = [md EXCEPT ![r] = 2] /\ RetryAt(r, "session")
       \/ NotWritten /\ RetryAt(r, "restoreText") /\ UNCHANGED md
    /\ UNCHANGED <<snap, dir, old, saver, token, was, chat, sweep, reading>>

RestoreText(r) ==
    /\ retry[r] = "restoreText"
    /\ \/ Written /\ md' = [md EXCEPT ![r] = was[r]] /\ RetryAt(r, "restoreSnapshot")
       \/ NotWritten /\ RetryAt(r, "idle") /\ UNCHANGED md
    /\ UNCHANGED <<snap, dir, old, saver, token, was, chat, sweep, reading>>

Restored(r) == was[r]

RestoreSnapshot(r) ==
    /\ retry[r] = "restoreSnapshot"
    /\ \/ Written /\ snap' = [snap EXCEPT ![r] = Restored(r)]
       \/ NotWritten /\ UNCHANGED snap
    /\ RetryAt(r, "idle")
    /\ UNCHANGED <<md, dir, old, saver, token, was, chat, sweep, reading>>

\* The files come first: then the session gets the new batch.
RetrySession(r) ==
    /\ retry[r] = "session"
    /\ \/ chat' = [chat EXCEPT ![r] = 2] /\ UNCHANGED mishaps
       \/ Fail /\ UNCHANGED chat
    /\ RetryAt(r, "idle")
    /\ UNCHANGED <<files, saver, token, was, sweep, reading>>

-----------------------------------------------------------------------------
(* The sweep, under the file lock of the state directory.                  *)

Put(s, record) == sweep' = [sweep EXCEPT ![s] = record]
SweepUnchanged == UNCHANGED <<saver, retrying, reading>>

LockIgnored == TRUE
LockFree == \A s \in Sweepers : sweep[s].at = "idle"

\* Without the lock the round is only recorded as "locked".
SweepBegin(s) ==
    /\ sweep[s].at = "idle" /\ LockFree /\ dir
    /\ Put(s, [at |-> "units", units |-> {r \in Reports : md[r] # NoFile},
               snaps |-> {r \in Reports : snap[r] # NoFile}, unit |-> NoFile])
    /\ SweepUnchanged /\ UNCHANGED <<files, mishaps>>

Done(s) == [sweep[s] EXCEPT !.units = @ \ {sweep[s].unit}, !.unit = NoFile, !.at = "units"]

VerifiedAny(r) == TRUE
Verified(r) == snap[r] = NoFile \/ snap[r] = md[r]

\* _consider_unit: a young report, and one whose snapshot does not match,
\* stays.
ConsiderUnit(s) ==
    /\ sweep[s].at = "units"
    /\ \E r \in sweep[s].units :
          IF old[r] /\ Verified(r)
          THEN Put(s, [sweep[s] EXCEPT !.unit = r, !.at = "unlinkSnap"])
          ELSE Put(s, [sweep[s] EXCEPT !.units = @ \ {r}])
    /\ SweepUnchanged /\ UNCHANGED <<files, mishaps>>

\* _delete_unit: the snapshot, then the text.
UnlinkSnapshot(s) ==
    /\ sweep[s].at = "unlinkSnap"
    /\ \/ /\ snap' = [snap EXCEPT ![sweep[s].unit] = NoFile]
          /\ Put(s, [sweep[s] EXCEPT !.at = "unlinkText"]) /\ UNCHANGED mishaps
       \/ Fail /\ Put(s, Done(s)) /\ UNCHANGED snap
    /\ SweepUnchanged /\ UNCHANGED <<md, dir, old>>

UnlinkText(s) ==
    /\ sweep[s].at = "unlinkText"
    /\ \/ md' = [md EXCEPT ![sweep[s].unit] = NoFile] /\ UNCHANGED mishaps
       \/ Fail /\ UNCHANGED md
    /\ Put(s, Done(s))
    /\ SweepUnchanged /\ UNCHANGED <<snap, dir, old>>

Orphan(r) == md[r] = NoFile /\ old[r]

\* Snapshots whose text is gone, then the directory if nothing is left.
SweepOrphans(s) ==
    /\ sweep[s].at = "units" /\ sweep[s].units = {} /\ sweep[s].snaps # {}
    /\ \E r \in sweep[s].snaps :
          /\ Put(s, [sweep[s] EXCEPT !.snaps = @ \ {r}])
          /\ \/ /\ snap' = IF Orphan(r) THEN [snap EXCEPT ![r] = NoFile] ELSE snap
                /\ UNCHANGED mishaps
             \/ Orphan(r) /\ Fail /\ UNCHANGED snap
    /\ SweepUnchanged /\ UNCHANGED <<md, dir, old>>

SweepEnd(s) ==
    /\ sweep[s].at = "units" /\ sweep[s].units = {} /\ sweep[s].snaps = {}
    /\ dir' = \E r \in Reports : md[r] # NoFile \/ snap[r] # NoFile
    /\ Put(s, Resting)
    /\ SweepUnchanged /\ UNCHANGED <<md, snap, old, mishaps>>

-----------------------------------------------------------------------------
(* Reading one report, and listing all.                                    *)

ReadText(r) ==
    /\ reader.at = "idle" /\ reads < MaxReads /\ reads' = reads + 1
    /\ md[r] # NoFile
    /\ reader' = [at |-> "snapshot", md |-> md[r], shown |-> NoFile, report |-> r]
    /\ UNCHANGED <<files, saver, retrying, sweep, listing, listed, mishaps>>

MatchesAny(text, snapshot) == snapshot # NoFile
Matches(text, snapshot) == snapshot = text

\* Structure is shown only if it belongs to the text just read.
ReadSnapshot ==
    /\ reader.at = "snapshot"
    /\ reader' = [reader EXCEPT !.at = "idle",
          !.shown = IF Matches(reader.md, snap[reader.report]) THEN snap[reader.report] ELSE NoFile]
    /\ UNCHANGED <<files, saver, retrying, sweep, listing, listed, mishaps, reads>>

\* list_reports finds the files first and reads each title then.
ListFind ==
    /\ listing = {} /\ reads < MaxReads /\ reads' = reads + 1
    /\ listing' = {r \in Reports : md[r] # NoFile} /\ listing' # {}
    /\ listed' = "none"
    /\ UNCHANGED <<files, saver, retrying, sweep, reader, mishaps>>

ListRead ==
    /\ \E r \in listing :
          IF md[r] = NoFile THEN listing' = {} /\ listed' = "not found"
          ELSE /\ listing' = listing \ {r}
               /\ listed' = IF listing' = {} THEN "listed" ELSE listed
    /\ UNCHANGED <<files, saver, retrying, sweep, reader, mishaps, reads>>

-----------------------------------------------------------------------------
\* A week passes for a saved report; its retry expired after half an hour.
Age(r) == /\ saver[r] \in {"saved", "failed"} /\ ~old[r] /\ retry[r] = "idle"
          /\ old' = [old EXCEPT ![r] = TRUE]
          /\ token' = [token EXCEPT ![r] = FALSE]
          /\ UNCHANGED <<md, snap, dir, saver, retry, was, chat, sweep, reading, mishaps>>

\* A person deletes the text of a report by hand.
DeleteByHand(r) ==
    /\ md[r] # NoFile /\ retry[r] = "idle" /\ saver[r] # "snapshot" /\ Fail
    /\ md' = [md EXCEPT ![r] = NoFile]
    /\ UNCHANGED <<snap, dir, old, saver, retrying, sweep, reading>>

\* The process ends: files stay, what a retry needs is lost.
ProcessEnds == /\ Fail
         /\ saver' = [r \in Reports |-> IF saver[r] \in {"text", "snapshot"} THEN "failed" ELSE saver[r]]
         /\ token' = [r \in Reports |-> FALSE] /\ retry' = [r \in Reports |-> "idle"]
         /\ sweep' = [s \in Sweepers |-> Resting]
         /\ reader' = NoRead /\ listing' = {}
         /\ UNCHANGED <<files, was, chat, listed, reads>>

Saving(r) == MakeDirectory(r) \/ SaveText(r) \/ SaveSnapshot(r)
Retrying(r) == \/ RetryBegin(r) \/ RetryStockText(r) \/ RetryStockSnapshot(r)
               \/ RetryIndexSnapshot(r) \/ RetryIndexText(r) \/ RestoreText(r)
               \/ RestoreSnapshot(r) \/ RetrySession(r)
SweepStep(s) == \/ SweepBegin(s) \/ ConsiderUnit(s) \/ UnlinkSnapshot(s) \/ UnlinkText(s)
                \/ SweepOrphans(s) \/ SweepEnd(s)

ArchiveNext == \/ \E r \in Reports : Saving(r) \/ Retrying(r) \/ ReadText(r) \/ Age(r) \/ DeleteByHand(r)
        \/ \E s \in Sweepers : SweepStep(s)
        \/ ReadSnapshot \/ ListFind \/ ListRead \/ ProcessEnds

ArchiveSpec == ArchiveInit /\ [][ArchiveNext]_archvars

\* The loop sweeps again and again, and a request that was begun is worked on.
FairArchiveSpec == /\ ArchiveSpec
            /\ \A s \in Sweepers : WF_archvars(SweepStep(s))
            /\ \A r \in Reports : WF_archvars(SaveText(r) \/ SaveSnapshot(r) \/ Retrying(r))

-----------------------------------------------------------------------------
\* Every variable keeps to its domain; a session shows only what was saved.
ArchiveTypeOK ==
    /\ md \in [Reports -> {NoFile, 1, 2}] /\ snap \in [Reports -> {NoFile, 1, 2}]
    /\ \A r \in Reports : chat[r] \in {NoFile, 1, 2} /\ (chat[r] = 2 => r \notin Gold)
    /\ Cardinality({s \in Sweepers : sweep[s].at # "idle"}) <= 1

\* The structure that is shown beside a text is the structure of that text,
\* although the two files are written, read and swept one at a time.
ShownBelongsToText == reader.shown # NoFile => reader.shown = reader.md

\* An index report whose retry failed has both files of its old batch again,
\* unless a second fault or a sweep came in between.
FailedRetryRestores ==
    \A r \in Index : retry[r] = "idle" /\ was[r] # NoFile /\ mishaps <= 1 /\ ~old[r] /\ token[r] =>
        md[r] \in {NoFile, snap[r]}

\* A session never shows a commentary that the archive has not.
ChatFollowsArchive == \A r \in Reports : chat[r] = 2 => md[r] # 1

\* The structure shown beside a text is the structure of that text; an index report
\* whose retry failed has both files of its old batch again; a session never shows a
\* commentary that the archive has not.
ArchiveSafe == ShownBelongsToText /\ FailedRetryRestores /\ ChatFollowsArchive

\* Action property: a sweep leaves a report of the last week alone, and one
\* whose two files do not belong together, which may be a person's work.
UnverifiedKept ==
    sweep' # sweep => \A r \in Reports :
       ~old[r] \/ (md[r] # NoFile /\ snap[r] # NoFile /\ snap[r] # md[r]) =>
           md'[r] = md[r] /\ snap'[r] = snap[r]

\* A report whose week has passed goes, also when a sweep stopped half way,
\* unless its snapshot belongs to another text; so does a snapshot alone.
ExpiredGo ==
    \A r \in Reports :
        /\ old[r] /\ md[r] # NoFile /\ snap[r] \in {NoFile, md[r]} ~> md[r] = NoFile
        /\ old[r] /\ md[r] = NoFile /\ snap[r] # NoFile ~> snap[r] = NoFile

=============================================================================
