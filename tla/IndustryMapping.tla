--------------------------- MODULE IndustryMapping ---------------------------
(***************************************************************************)
(* The table of industries.  A rebuild walks the industries of the site's  *)
(* tree, writes the candidate file and then the checkpoint after each, and *)
(* may be interrupted anywhere and resumed; publishing puts a complete     *)
(* candidate in the table's place; an update of one stock, a backfill and  *)
(* the migration of placeholders change rows of the table.  Only the table *)
(* is under a lock.  A process that dies gives the lock back.              *)
(***************************************************************************)
EXTENDS Integers, Sequences, FiniteSets

CONSTANTS
    Builders,       \* runs of `industry-mapping rebuild`, each one attempt
    Writers,        \* runs of publish, a code, a backfill or migrate-placeholders
    Kinds,          \* what those do: "publish", "update", "backfill", "migrate"
    Worlds,         \* the site, edition after edition: [codes |-> its industries in order,
                    \*   parent |-> [industry |-> level 2 name], names |-> level2_map,
                    \*   lists |-> [industry |-> [stock listed |-> its level 2 name]]]
    Tables,         \* the table before all this: sets of rows
    Stocks,         \* A shares
    Others,         \* the table's other rows, which no rebuild makes
    Rate,           \* MIN_COVERAGE_RATE in percent
    MaxBuilders,    \* rebuilds at one time
    None

VARIABLES
    now,            \* the edition the site shows
    table,          \* the table: [symbol |-> row]
    locked,         \* who holds the table's lock
    candidate,      \* the candidate file: [stock |-> row], None when there is none
    checkpoint,     \* the checkpoint file
    build,          \* [builder |-> where it is]
    writer,         \* [writer |-> where it is]
    given           \* stocks each industry gave this build (for the properties)

imvars == <<now, table, locked, candidate, checkpoint, build, writer, given>>

Symbols == Stocks \union Others
Trees == {Worlds[k] : k \in DOMAIN Worlds}
tree == Worlds[now]
expected_codes(t) == {t.codes[k] : k \in DOMAIN t.codes}
Level2 == UNION {t.names : t \in Trees}
Industries == UNION {DOMAIN t.parent : t \in Trees}
Row == [level2 : Level2 \union {None}, status : {"verified", "missing"}]
Verified(n) == [level2 |-> n, status |-> "verified"]
Missing == [level2 |-> None, status |-> "missing"]
Shares(rows) == DOMAIN rows \intersect Stocks
\* f with the pairs of g.
Put(f, g) == [s \in DOMAIN f \union DOMAIN g |-> IF s \in DOMAIN g THEN g[s] ELSE f[s]]
Only(f, S) == [s \in DOMAIN f \intersect S |-> f[s]]
Empty == [s \in {} |-> Missing]

NewBuild == [pc |-> "new", tree |-> None, rows |-> Empty, completed |-> {}, failed |-> {}, at |-> 1]
NewWriter == [pc |-> "new", kind |-> None, of |-> {}, level2 |-> None, rows |-> Empty, state |-> None,
              torn |-> FALSE, gave |-> {}]
Nothing == [i \in Industries |-> {}]

Init ==
    /\ now = 1 /\ table \in Tables
    /\ locked = None /\ candidate = None /\ checkpoint = None
    /\ build = [b \in Builders |-> NewBuild] /\ writer = [w \in Writers |-> NewWriter]
    /\ given = Nothing

-----------------------------------------------------------------------------
BAt(b, pc) == build[b].pc = pc
BGo(b, r) == build' = [build EXCEPT ![b] = r]
WAt(w, pc) == writer[w].pc = pc
WGo(w, r) == writer' = [writer EXCEPT ![w] = r]
WEnd(w) == WGo(w, [NewWriter EXCEPT !.pc = "done", !.kind = writer[w].kind])
files == <<candidate, checkpoint>>
Busy == {b \in Builders : build[b].pc \notin {"new", "done"}}

\* rebuild_all without --resume: the candidate is unlinked, then the checkpoint.
Start(b) ==
    /\ BAt(b, "new") /\ Cardinality(Busy) < MaxBuilders
    /\ candidate' = None
    /\ BGo(b, [NewBuild EXCEPT !.pc = "unlink", !.tree = tree])
    /\ UNCHANGED <<now, table, locked, checkpoint, writer, given>>

Unlink(b) ==
    /\ BAt(b, "unlink")
    /\ checkpoint' = None /\ given' = Nothing
    /\ BGo(b, [build[b] EXCEPT !.pc = "fetch"])
    /\ UNCHANGED <<now, table, locked, candidate, writer>>

\* rebuild_all --resume goes on from a pair of files of a tree with the industries
\* and the level 2 names there are now; their parents and lists may be others.
SameTree(c) == c.expected_codes = expected_codes(tree) /\ c.names = tree.names
Resume(b) ==
    /\ BAt(b, "new") /\ Cardinality(Busy) < MaxBuilders
    /\ BGo(b, IF checkpoint # None /\ candidate # None /\ SameTree(checkpoint)
              THEN [NewBuild EXCEPT !.pc = "fetch", !.tree = tree, !.rows = candidate,
                                    !.completed = checkpoint.completed, !.failed = checkpoint.failed]
              ELSE [NewBuild EXCEPT !.pc = "done"])
    /\ UNCHANGED <<now, table, locked, files, writer, given>>

Later(r) == [r EXCEPT !.pc = IF r.at = Len(r.tree.codes) THEN "done" ELSE "fetch", !.at = @ + 1]

\* The stocks on the page of an industry now.
Constituents(i) == tree.lists[i]
\* A stock's own level 2 name when the tree has it, else the industry's parent.
Named(t, i, n) == IF n \in t.names THEN n ELSE t.parent[i]
\* The first industry that lists a stock names it.
Listed(r, i) == Put([s \in DOMAIN Constituents(i) |-> Verified(Named(r.tree, i, Constituents(i)[s]))], r.rows)

Fetch(b) ==
    /\ BAt(b, "fetch")
    /\ LET r == build[b]
           i == r.tree.codes[r.at]
       IN \/ i \in r.completed /\ BGo(b, Later(r)) /\ UNCHANGED given
          \/ /\ i \notin r.completed
             /\ BGo(b, [r EXCEPT !.pc = "rows", !.rows = Listed(r, i), !.completed = @ \union {i},
                                 !.failed = @ \ {i}])
             /\ given' = [given EXCEPT ![i] = DOMAIN Constituents(i)]
          \/ /\ i \notin r.completed
             /\ BGo(b, [r EXCEPT !.pc = "rows", !.failed = @ \union {i}]) /\ UNCHANGED given
    /\ UNCHANGED <<now, table, locked, files, writer>>

WriteRows(b) ==
    /\ BAt(b, "rows")
    /\ candidate' = build[b].rows
    /\ writer' = [w \in Writers |-> IF WAt(w, "state") THEN [writer[w] EXCEPT !.torn = TRUE] ELSE writer[w]]
    /\ BGo(b, [build[b] EXCEPT !.pc = "state"])
    /\ UNCHANGED <<now, table, locked, checkpoint, given>>

WriteCheckpoint(b) ==
    /\ BAt(b, "state")
    /\ LET r == build[b] IN
       /\ checkpoint' = [completed |-> r.completed, failed |-> r.failed,
                         expected_codes |-> expected_codes(r.tree), names |-> r.tree.names]
       /\ BGo(b, Later(r))
    /\ UNCHANGED <<now, table, locked, candidate, writer, given>>

KillBuild(b) ==
    /\ b \in Busy /\ BGo(b, [NewBuild EXCEPT !.pc = "done"])
    /\ UNCHANGED <<now, table, locked, files, writer, given>>

-----------------------------------------------------------------------------
\* publish_candidate reads the candidate, then the checkpoint, both without a lock.
Publish(w) ==
    /\ WAt(w, "new") /\ "publish" \in Kinds
    /\ WGo(w, [NewWriter EXCEPT !.pc = "state", !.kind = "publish",
                                !.rows = IF candidate = None THEN Empty ELSE candidate])
    /\ UNCHANGED <<now, table, locked, files, build, given>>

Complete(c) == c # None /\ c.completed = c.expected_codes /\ c.failed = {}
ReadCheckpoint(w) ==
    /\ WAt(w, "state")
    /\ IF Complete(checkpoint) THEN WGo(w, [writer[w] EXCEPT !.pc = "lock", !.state = checkpoint,
                                                      !.gave = UNION {given[i] : i \in checkpoint.completed}])
       ELSE WEnd(w)
    /\ UNCHANGED <<now, table, locked, files, build, given>>

\* The tree a process has is the one it fetched, which may be an older edition;
\* the level 2 name that the stock's page shows must be in it.
Update(w) ==
    /\ WAt(w, "new") /\ "update" \in Kinds
    /\ \E s \in Stocks, n \in Level2 :
          WGo(w, [NewWriter EXCEPT !.pc = "lock", !.kind = "update", !.of = {s}, !.level2 = n])
    /\ UNCHANGED <<now, table, locked, files, build, given>>

Backfill(w) ==
    /\ WAt(w, "new") /\ "backfill" \in Kinds
    /\ \E S \in SUBSET Stocks \ {{}}, n \in Level2 :
          WGo(w, [NewWriter EXCEPT !.pc = "lock", !.kind = "backfill", !.of = S, !.level2 = n])
    /\ UNCHANGED <<now, table, locked, files, build, given>>

Migrate(w) ==
    /\ WAt(w, "new") /\ "migrate" \in Kinds
    /\ WGo(w, [NewWriter EXCEPT !.pc = "lock", !.kind = "migrate"])
    /\ UNCHANGED <<now, table, locked, files, build, given>>

\* validate_rows
Valid(rows, known, names) ==
    /\ DOMAIN rows # {} /\ \A s \in DOMAIN rows : rows[s].level2 \in names
    /\ 100 * Cardinality(DOMAIN rows) >= Rate * known

Unfilled(r, rows) == {s \in r.of : s \notin DOMAIN rows \/ rows[s].status = "missing"}
Filled(r, rows) == Put(rows, [s \in Unfilled(r, rows) |-> Verified(r.level2)])

Updated(r, rows) == Put(rows, [s \in r.of |-> Verified(r.level2)])
Published(r, rows) == Put(Only(rows, Others), r.rows)

\* What the writer makes of the table it reads under the lock.  A row with an old
\* placeholder is read as missing; the migration clears its words only.
Result(r, rows) ==
    CASE r.kind = "publish" -> Published(r, rows)
      [] r.kind = "update" -> Updated(r, rows)
      [] r.kind = "backfill" -> Filled(r, rows)
      [] OTHER -> rows

Lock(w) ==
    /\ WAt(w, "lock") /\ locked = None
    /\ LET r == writer[w] IN
       IF r.kind = "publish" /\ ~Valid(r.rows, Cardinality(Shares(table)), r.state.names)
       THEN WEnd(w) /\ UNCHANGED locked
       ELSE WGo(w, [r EXCEPT !.pc = "write", !.rows = Result(r, table)]) /\ locked' = w
    /\ UNCHANGED <<now, table, files, build, given>>

\* The table is replaced in one step and the lock given back.
Write(w) ==
    /\ WAt(w, "write")
    /\ table' = writer[w].rows /\ locked' = None
    /\ WEnd(w)
    /\ UNCHANGED <<now, files, build, given>>

\* It waits ten seconds for the lock, or is killed.
KillWriter(w) ==
    /\ writer[w].pc \notin {"new", "done"}
    /\ WEnd(w) /\ locked' = IF locked = w THEN None ELSE locked
    /\ UNCHANGED <<now, table, files, build, given>>

SiteMoves ==
    /\ now < Len(Worlds) /\ now' = now + 1
    /\ UNCHANGED <<table, locked, files, build, writer, given>>

Build(b) == \/ Start(b) \/ Unlink(b) \/ Resume(b) \/ Fetch(b) \/ WriteRows(b) \/ WriteCheckpoint(b) \/ KillBuild(b)
Work(w) == Publish(w) \/ ReadCheckpoint(w) \/ Update(w) \/ Backfill(w) \/ Migrate(w) \/ Lock(w) \/ Write(w) \/ KillWriter(w)
Next == (\E b \in Builders : Build(b)) \/ (\E w \in Writers : Work(w)) \/ SiteMoves

Spec == Init /\ [][Next]_imvars

-----------------------------------------------------------------------------
IMTypeOK ==
    /\ now \in DOMAIN Worlds /\ locked \in Writers \union {None}
    /\ DOMAIN table \subseteq Symbols /\ \A s \in DOMAIN table : table[s] \in Row
    /\ candidate # None => DOMAIN candidate \subseteq Stocks /\ \A s \in DOMAIN candidate : candidate[s] \in Row
    /\ checkpoint # None => checkpoint.completed \union checkpoint.failed \subseteq Industries
    /\ \A b \in Builders : build[b].pc \in {"new", "unlink", "fetch", "rows", "state", "done"}
    /\ \A w \in Writers : writer[w].pc \in {"new", "state", "lock", "write", "done"}

\* The candidate holds every stock that the industries the checkpoint calls
\* completed gave, wherever a rebuild was interrupted.
CheckpointBehind ==
    (candidate # None /\ checkpoint # None) =>
        \A i \in checkpoint.completed : given[i] \subseteq DOMAIN candidate
\* The rows of a candidate have the level 2 names of the checkpoint that is there
\* with it, although a resume may have gone on from another edition's parents and lists.
NamesKnown ==
    (candidate # None /\ checkpoint # None) => \A s \in DOMAIN candidate : candidate[s].level2 \in checkpoint.names
\* The rows no rebuild makes are never lost.
OthersStay == Others \subseteq DOMAIN table
IMSafe == CheckpointBehind /\ NamesKnown /\ OthersStay

\* What is published has every stock that an industry gave, unless the rebuild
\* wrote the candidate between the two reads of the publisher.
PublishedWhole ==
    \A w \in Writers :
        (writer[w].kind = "publish" /\ WAt(w, "write") /\ ~writer[w].torn) =>
            writer[w].gave \subseteq DOMAIN writer[w].rows

\* A row that says an industry is changed by an update of its stock or by a
\* publication only, and a backfill or migration loses no row.
VerifiedStays ==
    \A s \in DOMAIN table :
        (table[s].status = "verified" /\ (s \notin DOMAIN table' \/ table'[s] # table[s])) =>
            \E w \in Writers : WAt(w, "write") /\ (writer[w].kind = "publish"
                                                   \/ (writer[w].kind = "update" /\ s = CHOOSE q \in writer[w].of : TRUE))
=============================================================================
