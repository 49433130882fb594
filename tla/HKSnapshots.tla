----------------------------- MODULE HKSnapshots -----------------------------
(***************************************************************************)
(* The files about Hong Kong stocks: who belongs to Stock Connect, in one  *)
(* JSON file, and their industries, in a CSV file and a JSON file that     *)
(* names its digest.  `hk-industry-refresh` fetches and publishes the      *)
(* first, then the second for the members it reads back.  Each publication *)
(* has its lock, but what a failed one puts back was read before it had    *)
(* the lock.  Analyses read all three without a lock.                      *)
(***************************************************************************)
EXTENDS Integers, Sequences, FiniteSets

CONSTANTS
    Refreshers,     \* runs of hk-industry-refresh
    Readers,        \* analyses of a Hong Kong stock
    Codes,
    Rosters,        \* answers of the exchange: sets of rows [code, stock, day]
    Pages,          \* answers of the other source: sequences of [page, total, codes]
    PageSize,
    Profiles,       \* answers of the sector service: [code |-> its sector or None]
    Lists,          \* official lists of constituents: [some codes |-> industry]
    Counts,         \* official numbers of constituents: [some industries |-> number]
    MaxFaults,      \* writes that fail, in all
    None

VARIABLES
    connect,        \* the membership file: [day, members]
    csv, json,      \* the industry file, and the edition its JSON file names
    locked,         \* who holds the industry files' lock
    run,            \* [refresher |-> where it is]
    reader,         \* [reader |-> where it is]
    faults,
    torn            \* a refresh died or failed to put back between the two files

hkvars == <<connect, csv, json, locked, run, reader, faults, torn>>

-----------------------------------------------------------------------------
\* build_sse_snapshot: stocks only, all of one day, each code once.
Shares(rows) == {r \in rows : r.stock}
Sound(rows) ==
    /\ Shares(rows) # {}
    /\ Cardinality({r.day : r \in Shares(rows)}) = 1
    /\ Cardinality({r.code : r \in Shares(rows)}) = Cardinality(Shares(rows))
Roster(rows) == [members |-> {r.code : r \in Shares(rows)}, day |-> (CHOOSE r \in Shares(rows) : TRUE).day]

\* The pages of the other source are those of one list, none cut or out of order.
Listed(pages) == UNION {pages[i].codes : i \in DOMAIN pages}
Complete(pages) ==
    LET total == pages[1].total IN
    /\ Cardinality(Listed(pages)) = total
    /\ Len(pages) = (total + PageSize - 1) \div PageSize
    /\ \A i \in DOMAIN pages :
          /\ pages[i].page = i /\ pages[i].total = total
          /\ LET rest == total - (i - 1) * PageSize
             IN Cardinality(pages[i].codes) = IF rest < PageSize THEN rest ELSE PageSize

\* validate_baseline: the list has as many constituents of each industry as the official numbers.
Baseline(list, counts) ==
    counts = [i \in {list[c] : c \in DOMAIN list} |-> Cardinality({c \in DOMAIN list : list[c] = i})]

\* build_crosswalk: a sector belongs to the industry the list gives its constituents.
Pairs(sectors, list, members) == {<<sectors[c], list[c]>> : c \in members \intersect DOMAIN list}
Sectors(pairs) == {p[1] : p \in pairs}
OneParent(pairs) == \A p, q \in pairs : p[1] = q[1] => p = q
Crosswalk(pairs) == [s \in Sectors(pairs) |-> (CHOOSE p \in pairs : p[1] = s)[2]]

Mapped(members, sectors, pairs) == [c \in members |-> Crosswalk(pairs)[sectors[c]]]

\* refresh: the industries of the members, None when anything disagrees.
Industries(members, sectors, list, counts) ==
    LET pairs == Pairs(sectors, list, members) IN
    IF /\ \A c \in members : sectors[c] # None
       /\ Baseline(list, counts) /\ OneParent(pairs)
       /\ {sectors[c] : c \in members} \subseteq Sectors(pairs)
    THEN Mapped(members, sectors, pairs) ELSE None

-----------------------------------------------------------------------------
NewRun == [pc |-> "new", rows |-> None, csv |-> None, json |-> None, passed |-> FALSE]
NewReader == [pc |-> "new", named |-> None, rows |-> None, members |-> {}]

Init ==
    /\ connect = None /\ csv = None /\ json = None /\ locked = None
    /\ run = [p \in Refreshers |-> NewRun] /\ reader = [p \in Readers |-> NewReader]
    /\ faults = 0 /\ torn = FALSE

At(p, pc) == run[p].pc = pc
Go(p, r) == run' = [run EXCEPT ![p] = r]
End(p) == Go(p, [NewRun EXCEPT !.pc = "done"])
Fault == faults < MaxFaults /\ faults' = faults + 1
pair == <<csv, json, torn>>

\* The official list; one file, replaced as a whole.
Members(p) ==
    /\ At(p, "new")
    /\ \/ \E rows \in Rosters :
             /\ Sound(rows) /\ connect' = Roster(rows)
             /\ Go(p, [NewRun EXCEPT !.pc = "fetch"])
       \/ End(p) /\ UNCHANGED connect
    /\ UNCHANGED <<pair, locked, reader, faults>>

\* The command that takes the list of the other source, page by page: it has no day.
PagedMembers(p) ==
    /\ At(p, "new") /\ End(p)
    /\ \E pages \in Pages : Complete(pages) /\ connect' = [members |-> Listed(pages), day |-> 0]
    /\ UNCHANGED <<pair, locked, reader, faults>>

\* load_connect_symbols and refresh up to the publication.
FetchIndustries(p) ==
    /\ At(p, "fetch")
    /\ \E sectors \in Profiles, list \in Lists, counts \in Counts :
          LET rows == Industries(connect.members, sectors, list, counts)
          IN IF rows = None THEN End(p) ELSE Go(p, [run[p] EXCEPT !.pc = "oldcsv", !.rows = rows])
    /\ UNCHANGED <<connect, pair, locked, reader, faults>>

\* publish_snapshot keeps the old files, one after the other, before it locks.
OldCsv(p) ==
    /\ At(p, "oldcsv") /\ Go(p, [run[p] EXCEPT !.pc = "oldjson", !.csv = csv])
    /\ UNCHANGED <<connect, pair, locked, reader, faults>>
OldJson(p) ==
    /\ At(p, "oldjson") /\ Go(p, [run[p] EXCEPT !.pc = "lock", !.json = json])
    /\ UNCHANGED <<connect, pair, locked, reader, faults>>

Lock(p) ==
    /\ At(p, "lock")
    /\ \/ locked = None /\ locked' = p /\ Go(p, [run[p] EXCEPT !.pc = "csv"])
       \/ locked # None /\ End(p) /\ UNCHANGED locked
    /\ UNCHANGED <<connect, pair, reader, faults>>

\* Another refresh that reaches the lock is one that may have replaced the files since.
Give(p) == /\ locked' = None
           /\ run' = [q \in Refreshers |->
                        IF q = p THEN [NewRun EXCEPT !.pc = "done"]
                        ELSE IF run[q].pc \in {"oldjson", "lock"} THEN [run[q] EXCEPT !.passed = TRUE] ELSE run[q]]

WriteCsv(p) ==
    /\ At(p, "csv")
    /\ \/ /\ csv' = run[p].rows /\ Go(p, [run[p] EXCEPT !.pc = "json"])
          /\ UNCHANGED <<json, torn, locked, faults>>
       \/ Fault /\ Give(p) /\ UNCHANGED pair
    /\ UNCHANGED <<connect, reader>>

WriteJson(p) ==
    /\ At(p, "json")
    /\ \/ json' = run[p].rows /\ torn' = FALSE /\ Give(p) /\ UNCHANGED <<csv, faults>>
       \/ Fault /\ Go(p, [run[p] EXCEPT !.pc = "backcsv"]) /\ UNCHANGED <<pair, locked>>
    /\ UNCHANGED <<connect, reader>>

BackCsv(p) ==
    /\ At(p, "backcsv")
    /\ \/ /\ csv' = run[p].csv /\ Go(p, [run[p] EXCEPT !.pc = "backjson"])
          /\ UNCHANGED <<json, torn, locked, faults>>
       \/ Fault /\ torn' = TRUE /\ Give(p) /\ UNCHANGED <<csv, json>>
    /\ UNCHANGED <<connect, reader>>

BackJson(p) ==
    /\ At(p, "backjson")
    /\ \/ json' = run[p].json /\ torn' = (torn \/ run[p].passed) /\ Give(p) /\ UNCHANGED <<csv, faults>>
       \/ Fault /\ torn' = TRUE /\ Give(p) /\ UNCHANGED <<csv, json>>
    /\ UNCHANGED <<connect, reader>>

Kill(p) ==
    /\ run[p].pc \notin {"new", "done"}
    /\ IF locked = p THEN Give(p) /\ torn' = (torn \/ run[p].pc \in {"json", "backcsv", "backjson"})
       ELSE End(p) /\ UNCHANGED <<locked, torn>>
    /\ UNCHANGED <<connect, csv, json, reader, faults>>

-----------------------------------------------------------------------------
\* An analysis: load_members reads the JSON file, the digest of the CSV file
\* and then its rows; load_connect_symbols comes after.
RAt(p, pc) == reader[p].pc = pc
RGo(p, r) == reader' = [reader EXCEPT ![p] = r]
files == <<connect, pair, locked, run, faults>>

ReadJson(p) ==
    /\ RAt(p, "new") /\ csv # None /\ json # None
    /\ RGo(p, [NewReader EXCEPT !.pc = "digest", !.named = json]) /\ UNCHANGED files
Digest(p) ==
    /\ RAt(p, "digest")
    /\ RGo(p, IF csv = reader[p].named THEN [reader[p] EXCEPT !.pc = "rows"] ELSE [NewReader EXCEPT !.pc = "failed"])
    /\ UNCHANGED files
ReadRows(p) ==
    /\ RAt(p, "rows")
    /\ RGo(p, IF csv = None THEN [NewReader EXCEPT !.pc = "failed"]
              ELSE [reader[p] EXCEPT !.pc = "connect", !.rows = csv])
    /\ UNCHANGED files
\* build_industry_data: peers are members by both files.
ReadConnect(p) ==
    /\ RAt(p, "connect")
    /\ RGo(p, [reader[p] EXCEPT !.pc = "done", !.members = DOMAIN reader[p].rows \intersect connect.members])
    /\ UNCHANGED files

Refresh(p) == \/ Members(p) \/ PagedMembers(p) \/ FetchIndustries(p) \/ OldCsv(p) \/ OldJson(p) \/ Lock(p) \/ WriteCsv(p)
              \/ WriteJson(p) \/ BackCsv(p) \/ BackJson(p) \/ Kill(p)
Read(p) == ReadJson(p) \/ Digest(p) \/ ReadRows(p) \/ ReadConnect(p)
Next == (\E p \in Refreshers : Refresh(p)) \/ (\E p \in Readers : Read(p))

Spec == Init /\ [][Next]_hkvars

-----------------------------------------------------------------------------
HKTypeOK ==
    /\ connect # None => connect.members \subseteq Codes /\ connect.members # {}
    /\ csv # None => DOMAIN csv \subseteq Codes
    /\ locked \in Refreshers \union {None} /\ faults \in 0 .. MaxFaults /\ torn \in BOOLEAN

\* The two files of the industries are one edition whenever no refresh is
\* between them, unless one died or failed there, or put back what another
\* replaced while it waited.
PairedAtRest == (locked = None /\ ~torn) => csv = json
\* What an analysis compares within is one edition that passed its checks.
PeersAgree ==
    \A p \in Readers : reader[p].pc = "done" =>
        /\ reader[p].members \subseteq DOMAIN reader[p].rows
        /\ \E list \in Lists, counts \in Counts :
              /\ Baseline(list, counts)
              /\ \A c \in DOMAIN reader[p].rows \intersect DOMAIN list : reader[p].rows[c] = list[c]
HKSafe == PairedAtRest /\ PeersAgree
=============================================================================
