---------------------------- MODULE KnowledgeBase ----------------------------
(***************************************************************************)
(* The knowledge base: collections of document chunks in a directory that  *)
(* the web server's engine searches and the commands of `rag` change, each *)
(* command in a process of its own with an engine of its own.  A chunk is  *)
(* stored under the hash of its whole text and its place in it; adding an  *)
(* id that is there changes nothing, one add is one transaction, and a     *)
(* handle of a collection that was deleted raises (external, as the engine *)
(* uses chromadb).                                                         *)
(***************************************************************************)
EXTENDS Integers, Sequences, FiniteSets

CONSTANTS
    Commands,       \* `rag` commands that may run, each once
    Names,          \* COLLECTION_NAMES, in their order
    Files,          \* the documents of a directory, in their order
    Texts,          \* what may be in them: [sections |-> how many, paragraphs |-> how many]
    Symbols,        \* codes a document may be ingested with
    Inside,         \* pairs of codes, the first a substring of the second
    Dates,          \* dates a document may be ingested with, 0 for none
    TopK,           \* how many chunks a search is asked for
    None

VARIABLES
    disk,           \* [file |-> the text in it]
    chunks,         \* [collection |-> the chunks stored in it]
    made,           \* [collection |-> how often it was created]: its identity
    gone,           \* the collections that were deleted and not made again
    handle,         \* [engine |-> [collection |-> the identity it caches]]
    installed,      \* sentence_transformers can be imported
    provider,       \* [engine |-> "model" or "keyword"]
    cmd,            \* [command |-> where it is]
    found,          \* what the web's search just answered
    cut             \* texts a clean deleted a chunk of (for the properties)

kbvars == <<disk, chunks, made, gone, handle, installed, provider, cmd, found, cut>>
base == <<chunks, made, gone>>

Collections == {Names[i] : i \in DOMAIN Names}
FileSet == {Files[i] : i \in DOMAIN Files}
Engines == Commands \union {"web"}

Idle == [pc |-> "new", kind |-> None, name |-> None, todo |-> <<>>, label |-> None,
         text |-> None, ids |-> {}, out |-> None]
NoLabel == [symbols |-> {}, date |-> 0]

\* The embedding a new process gets.
Embedding == IF installed THEN "model" ELSE "keyword"

Init ==
    /\ disk \in [FileSet -> Texts] /\ installed \in BOOLEAN
    /\ chunks = [c \in Collections |-> {}] /\ made = [c \in Collections |-> 1] /\ gone = {}
    /\ handle = [e \in Engines |-> made]
    /\ provider = [e \in Engines |-> Embedding]
    /\ cmd = [p \in Commands |-> Idle]
    /\ found = {} /\ cut = {}

-----------------------------------------------------------------------------
\* The chunkers: sections by their headings, paragraphs where there is one section
\* only, clusters of three paragraphs.  A blank text has none of them.
BySection(t) == t.sections
ByHeading(t) == IF t.sections > 1 THEN t.sections ELSE t.paragraphs
ByCluster(t) == (t.paragraphs + 2) \div 3
Pieces(c, t) == CASE c \in {"financial_filings", "academic"} -> ByHeading(t)
                  [] c = "policy_macro" -> ByCluster(t)
                  [] OTHER -> BySection(t)

Alive(e, c) == c \notin gone /\ handle[e][c] = made[c]
Id(k) == <<k.text, k.place>>
Ids(c) == {Id(k) : k \in chunks[c]}

\* ingest_text: the chunks of one text, all with the metadata of this ingest.
Document(c, text, label, by) ==
    {[text |-> text, place |-> i, label |-> label, vector |-> provider[by]] : i \in 1 .. Pieces(c, text)}
\* collection.add: ids that are stored stay what they are.
Added(c, new) == chunks[c] \union {k \in new : Id(k) \notin Ids(c)}

IsDuplicate(e, c, text) == Alive(e, c) /\ \E k \in chunks[c] : k.text = text

\* `symbol in meta["symbols"]`: the codes are stored as one string.
About(k, symbol) == \E s \in k.label.symbols : s = symbol \/ <<symbol, s>> \in Inside
Before(k, date) == k.label.date # 0 /\ k.label.date < date

At(p, pc) == cmd[p].pc = pc
Go(p, r) == cmd' = [cmd EXCEPT ![p] = r]
End(p, out) == Go(p, [cmd[p] EXCEPT !.pc = "done", !.todo = <<>>, !.ids = {}, !.out = out])

-----------------------------------------------------------------------------
\* RAGEngine(): a process takes handles of all collections and makes those that are gone.
Open(p) == /\ made' = [c \in Collections |-> IF c \in gone THEN made[c] + 1 ELSE made[c]]
           /\ gone' = {}
           /\ handle' = [handle EXCEPT ![p] = made']
           /\ provider' = [provider EXCEPT ![p] = Embedding]

\* rag ingest of a file keeps the label; of a directory it is dropped.
Ingest(p) ==
    /\ At(p, "new") /\ Open(p)
    /\ \E name \in Collections, symbols \in SUBSET Symbols, date \in Dates :
          \/ \E f \in FileSet :
                Go(p, [Idle EXCEPT !.pc = "load", !.kind = "ingest", !.name = name, !.todo = <<f>>,
                                   !.label = [symbols |-> symbols, date |-> date]])
          \/ /\ symbols = {} /\ date = 0
             /\ Go(p, [Idle EXCEPT !.pc = "load", !.kind = "ingest", !.name = name, !.todo = Files,
                                   !.label = NoLabel])
    /\ UNCHANGED <<disk, chunks, installed, cut>>

Next1(r) == [r EXCEPT !.pc = IF Len(r.todo) = 1 THEN "done" ELSE "load", !.todo = Tail(@)]

\* A file that cannot be read is an error of its own; the next one follows.
Load(p) ==
    /\ At(p, "load")
    /\ LET r == cmd[p] IN
       \/ Go(p, [r EXCEPT !.pc = "check", !.text = disk[Head(r.todo)]])
       \/ Go(p, [Next1(r) EXCEPT !.out = "error"])
    /\ UNCHANGED <<disk, base, handle, installed, provider, cut>>

\* A failure to look is taken for "not there".
Check(p) ==
    /\ At(p, "check")
    /\ LET r == cmd[p] IN
       Go(p, IF IsDuplicate(p, r.name, r.text) \/ Pieces(r.name, r.text) = 0 THEN Next1(r)
             ELSE [r EXCEPT !.pc = "add"])
    /\ UNCHANGED <<disk, base, handle, installed, provider, cut>>

\* Embedding and adding are not caught: the command ends with them.
Add(p) ==
    /\ At(p, "add")
    /\ LET r == cmd[p] IN
       \/ /\ Alive(p, r.name)
          /\ chunks' = [chunks EXCEPT ![r.name] = Added(r.name, Document(r.name, r.text, r.label, p))]
          /\ Go(p, Next1(r))
       \/ End(p, "raised") /\ UNCHANGED chunks
    /\ UNCHANGED <<disk, made, gone, handle, installed, provider, cut>>

\* rag clean --source: the collection is deleted and made anew.  A failure is
\* not shown: the command says that it cleaned.
CleanSource(p) ==
    /\ At(p, "new") /\ Open(p)
    /\ \E name \in Collections : Go(p, [Idle EXCEPT !.pc = "drop", !.kind = "source", !.name = name])
    /\ UNCHANGED <<disk, chunks, installed, cut>>

Drop(p) ==
    /\ At(p, "drop")
    /\ LET c == cmd[p].name IN
       \/ /\ c \notin gone
          /\ chunks' = [chunks EXCEPT ![c] = {}] /\ gone' = gone \union {c}
          /\ Go(p, [cmd[p] EXCEPT !.pc = "make"])
       \/ End(p, "error") /\ UNCHANGED <<chunks, gone>>
    /\ UNCHANGED <<disk, made, handle, installed, provider, cut>>

Make(p) ==
    /\ At(p, "make")
    /\ LET c == cmd[p].name IN
       /\ made' = [made EXCEPT ![c] = IF c \in gone THEN @ + 1 ELSE @] /\ gone' = gone \ {c}
       /\ handle' = [handle EXCEPT ![p][c] = made'[c]]
    /\ End(p, None)
    /\ UNCHANGED <<disk, chunks, installed, provider, cut>>

\* rag clean --symbol or --before: collection by collection.
Clean(p) ==
    /\ At(p, "new") /\ Open(p)
    /\ \/ \E s \in Symbols : Go(p, [Idle EXCEPT !.pc = "read", !.kind = "symbol", !.label = s, !.todo = Names])
       \/ \E d \in Dates \ {0} : Go(p, [Idle EXCEPT !.pc = "read", !.kind = "before", !.label = d, !.todo = Names])
    /\ UNCHANGED <<disk, chunks, installed, cut>>

Chosen(r, k) == IF r.kind = "symbol" THEN About(k, r.label) ELSE Before(k, r.label)
NextName(r) == [r EXCEPT !.pc = IF Len(r.todo) = 1 THEN "done" ELSE "read", !.todo = Tail(@), !.ids = {}]

ReadChunks(p) ==
    /\ At(p, "read")
    /\ LET r == cmd[p]
           c == Head(r.todo)
           ids == {Id(k) : k \in {k \in chunks[c] : Chosen(r, k)}}
       IN Go(p, IF Alive(p, c) /\ ids # {} THEN [r EXCEPT !.pc = "delete", !.ids = ids] ELSE NextName(r))
    /\ UNCHANGED <<disk, base, handle, installed, provider, cut>>

\* One chunk at a time; an exception leaves the rest of this collection.
DeleteChunk(p) ==
    /\ At(p, "delete")
    /\ LET r == cmd[p]
           c == Head(r.todo)
       IN \/ \E id \in r.ids :
                /\ Alive(p, c)
                /\ chunks' = [chunks EXCEPT ![c] = {k \in @ : Id(k) # id}]
                /\ cut' = cut \union {k.text : k \in {k \in chunks[c] : Id(k) = id}}
                /\ Go(p, IF r.ids = {id} THEN NextName(r) ELSE [r EXCEPT !.ids = @ \ {id}])
          \/ Go(p, NextName(r)) /\ UNCHANGED <<chunks, cut>>
    /\ UNCHANGED <<disk, made, gone, handle, installed, provider>>

\* The command is interrupted.
Kill(p) == /\ cmd[p].pc \notin {"new", "done"} /\ End(p, "killed")
           /\ UNCHANGED <<disk, base, handle, installed, provider, cut>>

-----------------------------------------------------------------------------
\* The model ranks what was stored without it last; a store that cannot filter by
\* the code it is asked for answers nothing.
ByVector(fit) ==
    LET known == {k \in fit : k.vector = "model"} IN
    {S \in SUBSET fit :
        /\ Cardinality(S) = IF Cardinality(fit) < TopK THEN Cardinality(fit) ELSE TopK
        /\ known \subseteq S \/ S \subseteq known} \union {{}}
\* Words find what shares one with the question.
ByWords(fit) == {S \in SUBSET fit : Cardinality(S) <= TopK}

\* A collection that was made anew since answers nothing.
Search ==
    /\ \E name \in Collections, s \in Symbols \union {None} :
          LET fit == {k \in chunks[name] : s = None \/ About(k, s)} IN
          found' \in IF ~Alive("web", name) THEN {{}}
                     ELSE IF provider["web"] = "model" THEN ByVector(fit) ELSE ByWords(fit)
    /\ UNCHANGED <<disk, base, handle, installed, provider, cmd, cut>>

\* A saved configuration builds the agent core anew, with the embedding there is.
Reload == /\ made' = [c \in Collections |-> IF c \in gone THEN made[c] + 1 ELSE made[c]] /\ gone' = {}
          /\ handle["web"] # made' /\ handle' = [handle EXCEPT !["web"] = made']
          /\ UNCHANGED <<disk, chunks, installed, provider, cmd, cut>>

\* A person edits a document, or installs the model.
Edit == /\ \E f \in FileSet, t \in Texts : disk' = [disk EXCEPT ![f] = t]
        /\ UNCHANGED <<base, handle, installed, provider, cmd, cut>>
Install == /\ ~installed /\ installed' = TRUE
           /\ UNCHANGED <<disk, base, handle, provider, cmd, cut>>

Step(p) == \/ Ingest(p) \/ Load(p) \/ Check(p) \/ Add(p)
           \/ CleanSource(p) \/ Drop(p) \/ Make(p) \/ Clean(p) \/ ReadChunks(p) \/ DeleteChunk(p) \/ Kill(p)
\* An answer is read where it is given.
Next == \/ ((\E p \in Commands : Step(p)) \/ Reload \/ Edit \/ Install) /\ found' = {}
        \/ Search

Spec == Init /\ [][Next]_kbvars

-----------------------------------------------------------------------------
Chunk == [text : Texts, place : Nat, label : [symbols : SUBSET Symbols, date : Dates], vector : {"model", "keyword"}]
KBTypeOK ==
    /\ \A c \in Collections : chunks[c] \subseteq Chunk /\ made[c] \in 1 .. Cardinality(Commands) + 1 /\ (c \in gone => chunks[c] = {})
    /\ \A e \in Engines, c \in Collections : handle[e][c] \in 1 .. made[c]
    /\ \A p \in Commands : cmd[p].pc \in {"new", "load", "check", "add", "drop", "make", "read", "delete", "done"}
    /\ found \subseteq Chunk /\ cut \subseteq Texts

\* A document is in a collection as a whole, with the metadata of one ingest,
\* however its ingests interleave or end, until a clean takes chunks of it.
StoredWhole ==
    \A c \in Collections, t \in Texts \ cut :
        LET of == {k \in chunks[c] : k.text = t}
        IN of # {} => /\ {k.place : k \in of} = 1 .. Pieces(c, t)
                      /\ Cardinality({<<k.label, k.vector>> : k \in of}) = 1
\* No chunk is stored twice.
StoredOnce == \A c \in Collections : Cardinality(chunks[c]) = Cardinality(Ids(c))
KBSafe == StoredWhole /\ StoredOnce

\* A chunk that goes was chosen by a command that cleans, as it is when it goes:
\* it is about the code, or from before the date, or its collection goes.
GoneWasMeant ==
    \A c \in Collections : \A k \in chunks[c] \ chunks'[c] :
        \/ c \in gone'
        \/ \E p \in Commands : cmd[p].kind \in {"symbol", "before"} /\ Chosen(cmd[p], k)
=============================================================================
