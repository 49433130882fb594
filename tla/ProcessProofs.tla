--------------------------- MODULE ProcessProofs ----------------------------
(***************************************************************************)
(* Proofs about one process, its files and the agent it runs: Generation,  *)
(* ConfigFile, Runtime, PlanGraph and ChatTurns, for any budgets,          *)
(* processes, generations, subscriptions, faults, plans, sessions and      *)
(* turns.  The five share no state; each has its own inductive invariant.  *)
(***************************************************************************)
EXTENDS Runtime, ConfigFile, Generation, PlanGraph, ChatTurns,
        FiniteSets, FiniteSetTheorems, WellFoundedInduction, TLAPS

-----------------------------------------------------------------------------
(* PlanGraph.  What falls with a failed step, and what a step waits for,   *)
(* are least closed sets; a plan is finite, so that the first of the steps *)
(* that ended badly can be told from its results.                          *)

\* There is a least number in every set of some.
LEMMA LeastOf ==
  ASSUME NEW T, T \subseteq Nat, T # {}
  PROVE  \E x \in T : \A y \in T : x <= y
<1> DEFINE R == OpToRel(<, Nat)
<1>1. IsWellFoundedOn(R, Nat)
  BY NatLessThanWellFounded
<1>2. \A x, y \in Nat : x < y => <<x, y>> \in R
  BY DEF OpToRel
<1> HIDE DEF R
<1>3. PICK x \in T : \A y \in T : <<y, x>> \notin R
  BY <1>1, WFMin, Zenon
<1>4. \A y \in T : y \in Nat /\ ~(y < x)
  BY <1>2, <1>3, Zenon
<1>5. x \in Nat /\ \A y \in T : x <= y
  BY <1>4
<1> QED BY <1>5

-----------------------------------------------------------------------------
(* The least closed sets of a plan.                                        *)

\* The steps that fall with a failed one are closed, pending, and lie within every
\* closed set.
LEMMA SkipsClosed ==
  ASSUME NEW st, NEW i \in Ids
  PROVE  /\ FallWith(st, i, Skips(st, i))
         /\ \A S \in SUBSET Ids : FallWith(st, i, S) => Skips(st, i) \subseteq S
         /\ \A j \in Skips(st, i) : j \in Ids /\ st[j] = "pending"
<1>1. FallWith(st, i, Skips(st, i))
  <2> SUFFICES ASSUME NEW j \in Ids, st[j] = "pending", dependsOn[j] \cap (Skips(st, i) \cup {i}) # {},
                      NEW S \in SUBSET Ids, FallWith(st, i, S)
               PROVE  j \in S
    BY DEF FallWith, Skips
  <2>1. dependsOn[j] \cap (S \cup {i}) # {}
    BY DEF Skips
  <2> QED BY <2>1 DEF FallWith
<1>2. \A S \in SUBSET Ids : FallWith(st, i, S) => Skips(st, i) \subseteq S
  BY DEF Skips
<1>3. FallWith(st, i, {j \in Ids : st[j] = "pending"})
  BY DEF FallWith
<1>4. {j \in Ids : st[j] = "pending"} \in SUBSET Ids
  OBVIOUS
<1>5. Skips(st, i) \subseteq {j \in Ids : st[j] = "pending"}
  BY <1>2, <1>3, <1>4
<1> QED BY <1>1, <1>2, <1>5

PlanShape == dependsOn \in [Ids -> SUBSET (Ids \cup {Unknown})]

\* What a step waits for holds its dependencies, lies within every closed set, and
\* holds what its members wait for.
LEMMA UpstreamClosed ==
  ASSUME PlanShape, NEW i \in Ids
  PROVE  /\ dependsOn[i] \subseteq Upstream(i)
         /\ \A S \in SUBSET (Ids \cup {Unknown}) : WaitsWithin(i, S) => Upstream(i) \subseteq S
         /\ \A j \in Upstream(i) \cap Ids : Upstream(j) \subseteq Upstream(i)
         /\ Upstream(i) \subseteq Ids \cup {Unknown}
<1>1. dependsOn[i] \subseteq Upstream(i)
  BY DEF Upstream, WaitsWithin, PlanShape
<1>2. \A S \in SUBSET (Ids \cup {Unknown}) : WaitsWithin(i, S) => Upstream(i) \subseteq S
  BY DEF Upstream
<1>3. ASSUME NEW j \in Upstream(i) \cap Ids, NEW k \in Upstream(j), NEW S \in SUBSET (Ids \cup {Unknown}), WaitsWithin(i, S)
      PROVE  k \in S
  <2>1. WaitsWithin(j, S)
    BY <1>3 DEF Upstream, WaitsWithin
  <2> QED BY <2>1, <1>3 DEF Upstream
<1>4. \A j \in Upstream(i) \cap Ids : Upstream(j) \subseteq Upstream(i)
  BY <1>3 DEF Upstream
<1> QED BY <1>1, <1>2, <1>4 DEF Upstream

-----------------------------------------------------------------------------
(* The inductive invariant of the execution of a plan.                     *)

\* The plan is what it was, and everything has its shape.
PlanShapes ==
  /\ PlanShape
  /\ candidates \in [Ids -> Matches]
  /\ status \in [Ids -> {"pending", "done", "failed", "skipped"}]
  /\ tool \in [Ids -> Tools \cup {NoTool}]
  /\ results \in Seq([step : Ids, status : {"success", "partial", "error"}])
  /\ node \in {"decide", "execute", "feedback", "end"}
  /\ pending = Ready(status)
  /\ node \in {"execute", "feedback"} => pending # {}
  /\ node = "end" => pending = {}

\* A step without a result may run; the one that is under way has it before feedback.
ResultsInv ==
  /\ \A i \in Ids : ResultsOf(i) # {} =>
       status[i] \in {"done", "failed"} \/ (node = "feedback" /\ i = CurrentStep)
  /\ \A i \in Ids : \A k, l \in ResultsOf(i) : k = l

\* A step that may still run waits for pending and finished ones only, what ran waited
\* for finished ones only, and every skipped one waits for a failed one.
CascadeInv ==
  /\ \A j \in Ids : status[j] = "pending" => \A d \in dependsOn[j] \cap Ids : status[d] \in {"pending", "done"}
  /\ \A j \in Ids : status[j] \in {"done", "failed"} => \A d \in dependsOn[j] : d \in Ids /\ status[d] = "done"
  /\ \A j \in Ids : status[j] = "skipped" => \E d \in Upstream(j) \cap Ids : status[d] = "failed"

PlanInv == PlanShapes /\ ResultsInv /\ CascadeInv

\* The first ready step is a ready step, and all it waits for is finished.
LEMMA CurrentStepReady ==
  ASSUME PlanShapes, CascadeInv, pending # {}
  PROVE  /\ CurrentStep \in Ids /\ status[CurrentStep] = "pending"
         /\ \A d \in dependsOn[CurrentStep] : d \in Ids /\ status[d] = "done"
<1>1. pending \subseteq Nat
  BY PlanAssumption DEF PlanShapes, Ready, Ids
<1>2. \E i \in pending : \A j \in pending : i <= j
  BY <1>1, LeastOf
<1>3. CurrentStep \in pending
  BY <1>2 DEF CurrentStep
<1> QED BY <1>3 DEF PlanShapes, Ready, Terminal, CascadeInv

LEMMA PlanInitInv == PlanInit => PlanInv
<1> SUFFICES ASSUME PlanInit PROVE PlanInv
  OBVIOUS
<1>1. PlanShapes
  BY DEF PlanInit, PlanShapes, PlanShape
<1>2. ResultsInv
  BY DEF PlanInit, ResultsInv, ResultsOf
<1>3. CascadeInv
  BY DEF PlanInit, CascadeInv
<1> QED BY <1>1, <1>2, <1>3 DEF PlanInv

\* Every tool a step may get is a registered one.
LEMMA ChoicesAreTools ==
  ASSUME candidates \in [Ids -> Matches], NEW i \in Ids
  PROVE  ToolChoices(i) \subseteq Tools \cup {NoTool}
<1>1. candidates[i] \in Seq(Tools)
  BY PlanAssumption
<1>2. KeywordFallback(i) \in Tools \cup {NoTool}
  BY <1>1 DEF KeywordFallback
<1>3. ASSUME NEW x, Candidate(i, x) PROVE x \in Tools
  BY <1>1, <1>3 DEF Candidate
<1>4. \A x, y : LLMSelect(i, x, y) \in Tools \cup {NoTool}
  BY <1>3 DEF LLMSelect
<1> QED BY <1>2, <1>4 DEF ToolChoices

LEMMA DecideNodeInv == PlanInv /\ DecideNode => PlanInv'
<1> SUFFICES ASSUME PlanInv, DecideNode PROVE PlanInv'
  OBVIOUS
<1> USE DEF PlanInv
<1>0. UNCHANGED <<dependsOn, candidates, status, pending, results>> /\ CurrentStep' = CurrentStep
  BY DEF DecideNode, givenPlan, CurrentStep
<1>1. tool' \in [Ids -> Tools \cup {NoTool}] /\ node' \in {"end", "feedback", "execute"}
      /\ (node' = "end" <=> pending = {})
  <2>1. CASE pending = {}
    BY <2>1 DEF DecideNode, PlanShapes
  <2>2. CASE pending # {}
    <3>1. CurrentStep \in Ids
      BY <2>2, CurrentStepReady
    <3>2. tool' \in [Ids -> Tools \cup {NoTool}]
      BY <2>2, <3>1, ChoicesAreTools DEF DecideNode, PlanShapes
    <3> QED BY <2>2, <3>2 DEF DecideNode, Route
  <2> QED BY <2>1, <2>2
<1>2. PlanShapes'
  BY <1>0, <1>1 DEF PlanShapes, PlanShape, Ready, Terminal
<1>3. ResultsInv'
  BY <1>0, <1>1 DEF ResultsInv, ResultsOf, DecideNode
<1>4. CascadeInv'
  BY <1>0 DEF CascadeInv, Upstream, WaitsWithin
<1> QED BY <1>2, <1>3, <1>4

LEMMA ExecuteNodeInv == PlanInv /\ ExecuteNode => PlanInv'
<1> SUFFICES ASSUME PlanInv, ExecuteNode PROVE PlanInv'
  OBVIOUS
<1> USE DEF PlanInv
<1>0. UNCHANGED <<dependsOn, candidates, status, tool, pending>> /\ CurrentStep' = CurrentStep
      /\ node = "execute" /\ node' = "feedback"
  BY DEF ExecuteNode, givenPlan, CurrentStep
<1>1. CurrentStep \in Ids /\ status[CurrentStep] = "pending" /\ ResultsOf(CurrentStep) = {}
  BY <1>0, CurrentStepReady DEF PlanShapes, ResultsInv
<1>2. PICK r \in {"success", "partial", "error"} : results' = Append(results, [step |-> CurrentStep, status |-> r])
  BY DEF ExecuteNode
<1>3. PlanShapes'
  BY <1>0, <1>1, <1>2 DEF PlanShapes, PlanShape, Ready, Terminal
<1>4. \A i \in Ids : ResultsOf(i)' = IF i = CurrentStep THEN {Len(results) + 1} ELSE ResultsOf(i)
  <2> SUFFICES ASSUME NEW i \in Ids
               PROVE  ResultsOf(i)' = IF i = CurrentStep THEN {Len(results) + 1} ELSE ResultsOf(i)
    OBVIOUS
  <2>1. Len(results') = Len(results) + 1 /\ Len(results) \in Nat
    BY <1>2 DEF PlanShapes
  <2>2. \A k \in 1..Len(results) : results'[k] = results[k]
    BY <1>2 DEF PlanShapes
  <2>3. results'[Len(results) + 1].step = CurrentStep
    BY <1>2 DEF PlanShapes
  <2> QED BY <1>1, <2>1, <2>2, <2>3 DEF ResultsOf
<1>5. ResultsInv'
  BY <1>0, <1>1, <1>4 DEF ResultsInv
<1>6. CascadeInv'
  BY <1>0 DEF CascadeInv, Upstream, WaitsWithin
<1> QED BY <1>3, <1>5, <1>6

\* The statuses after a failure: the step itself, and the ones that fall with it.
FailedStep(c) == [status EXCEPT ![c] = "failed"]

LEMMA CascadeStatus ==
  ASSUME PlanInv, NEW c \in Ids, status[c] = "pending",
         status' = CascadeSkip(FailedStep(c), c)
  PROVE  /\ status' \in [Ids -> {"pending", "done", "failed", "skipped"}]
         /\ status'[c] = "failed"
         /\ \A j \in Ids \ {c} : status'[j] = IF j \in Skips(FailedStep(c), c) THEN "skipped" ELSE status[j]
         /\ \A j \in Skips(FailedStep(c), c) : j \in Ids \ {c} /\ status[j] = "pending"
<1>1. \A j \in Skips(FailedStep(c), c) : j \in Ids /\ FailedStep(c)[j] = "pending"
  BY SkipsClosed, Zenon
<1>2. /\ \A j \in Ids \ {c} : FailedStep(c)[j] = status[j]
      /\ FailedStep(c)[c] = "failed"
      /\ FailedStep(c) \in [Ids -> {"pending", "done", "failed", "skipped"}]
  BY DEF FailedStep, PlanInv, PlanShapes
<1>3. \A j \in Skips(FailedStep(c), c) : j \in Ids \ {c} /\ status[j] = "pending"
  BY <1>1, <1>2
<1>4. \A j \in Ids : status'[j] = IF j \in Skips(FailedStep(c), c) THEN "skipped" ELSE FailedStep(c)[j]
  BY DEF CascadeSkip
<1>5. status' \in [Ids -> {"pending", "done", "failed", "skipped"}]
  BY <1>2 DEF CascadeSkip
<1> QED BY <1>2, <1>3, <1>4, <1>5

\* Every step that falls with step c waits for it.
LEMMA FallingWaits ==
  ASSUME PlanShape, NEW st, NEW c \in Ids
  PROVE  \A j \in Skips(st, c) : c \in Upstream(j)
<1> DEFINE G == {j \in Ids : c \in Upstream(j)}
<1>1. FallWith(st, c, G)
  <2> SUFFICES ASSUME NEW j \in Ids, NEW d \in dependsOn[j], d = c \/ d \in G
               PROVE  j \in G
    BY DEF FallWith
  <2>1. d \in Upstream(j)
    BY UpstreamClosed
  <2>2. CASE d = c
    BY <2>1, <2>2
  <2>3. CASE d \in G
    BY <2>1, <2>3, UpstreamClosed
  <2> QED BY <2>2, <2>3
<1>2. G \in SUBSET Ids
  OBVIOUS
<1> QED BY <1>1, <1>2, SkipsClosed

LEMMA FeedbackNodeInv == PlanInv /\ FeedbackNode => PlanInv'
<1> SUFFICES ASSUME PlanInv, FeedbackNode PROVE PlanInv'
  OBVIOUS
<1> USE DEF PlanInv
<1> DEFINE c == CurrentStep
<1> DEFINE F == Skips(FailedStep(c), c)
<1>0. UNCHANGED <<dependsOn, candidates, tool, results>> /\ pending' = Ready(status') /\ node = "feedback"
      /\ node' \in {"end", "decide"} /\ (node' = "end" <=> pending' = {})
  BY DEF FeedbackNode, givenPlan
<1>1. c \in Ids /\ status[c] = "pending" /\ \A d \in dependsOn[c] : d \in Ids /\ status[d] = "done"
  BY <1>0, CurrentStepReady DEF PlanShapes
<1>2. \/ status' = [status EXCEPT ![c] = "done"]
      \/ status' = CascadeSkip(FailedStep(c), c)
  BY DEF FeedbackNode, FailedStep
<1>3. status' \in [Ids -> {"pending", "done", "failed", "skipped"}] /\ status'[c] \in {"done", "failed"}
      /\ \A j \in Ids : status[j] # "pending" => status'[j] = status[j]
  <2>1. CASE status' = [status EXCEPT ![c] = "done"]
    BY <1>1, <2>1 DEF PlanShapes
  <2>2. CASE status' = CascadeSkip(FailedStep(c), c)
    BY <1>1, <2>2, CascadeStatus
  <2> QED BY <1>2, <2>1, <2>2
<1>4. PlanShapes'
  <2>1. Ready(status)' = Ready(status')
    BY <1>0 DEF Ready, Terminal
  <2> QED BY <1>0, <1>3, <2>1 DEF PlanShapes, PlanShape
<1>5. ResultsInv'
  <2>1. \A i \in Ids : ResultsOf(i)' = ResultsOf(i)
    BY <1>0 DEF ResultsOf
  <2>2. ASSUME NEW i \in Ids, ResultsOf(i) # {} PROVE status'[i] \in {"done", "failed"}
    BY <1>3, <2>2 DEF ResultsInv, PlanShapes
  <2> QED BY <1>0, <2>1, <2>2 DEF ResultsInv
<1>6. CascadeInv'
  <2>0. \A i \in Ids : Upstream(i)' = Upstream(i)
    BY <1>0 DEF Upstream, WaitsWithin
  <2>1. CASE status' = [status EXCEPT ![c] = "done"]
    <3>1. \A j \in Ids : status'[j] = IF j = c THEN "done" ELSE status[j]
      BY <2>1 DEF PlanShapes
    <3>2. ASSUME NEW j \in Ids, status'[j] = "pending", NEW d \in dependsOn[j] \cap Ids
          PROVE  status'[d] \in {"pending", "done"}
      BY <3>1, <3>2 DEF CascadeInv
    <3>3. ASSUME NEW j \in Ids, status'[j] \in {"done", "failed"}, NEW d \in dependsOn[j]
          PROVE  d \in Ids /\ status'[d] = "done"
      BY <1>1, <3>1, <3>3 DEF CascadeInv
    <3>4. ASSUME NEW j \in Ids, status'[j] = "skipped"
          PROVE  \E d \in Upstream(j) \cap Ids : status'[d] = "failed"
      <4>1. PICK d \in Upstream(j) \cap Ids : status[d] = "failed"
        BY <3>1, <3>4 DEF CascadeInv
      <4> QED BY <1>1, <3>1, <4>1
    <3> QED BY <1>0, <2>0, <3>2, <3>3, <3>4 DEF CascadeInv
  <2>2. CASE status' = CascadeSkip(FailedStep(c), c)
    <3>1. /\ status'[c] = "failed"
          /\ \A j \in Ids \ {c} : status'[j] = IF j \in F THEN "skipped" ELSE status[j]
          /\ \A j \in F : j \in Ids \ {c} /\ status[j] = "pending"
      BY <1>1, <2>2, CascadeStatus
    <3>2. FallWith(FailedStep(c), c, F)
      BY <1>1, SkipsClosed
    <3>3. ASSUME NEW j \in Ids, status'[j] = "pending", NEW d \in dependsOn[j] \cap Ids
          PROVE  status'[d] \in {"pending", "done"}
      <4>1. j # c /\ j \notin F /\ status[j] = "pending"
        BY <3>1, <3>3
      <4>2. FailedStep(c)[j] = "pending"
        BY <4>1 DEF FailedStep, PlanShapes
      <4>3. d # c /\ d \notin F
        BY <3>2, <3>3, <4>1, <4>2 DEF FallWith
      <4> QED BY <3>1, <3>3, <4>1, <4>3 DEF CascadeInv
    <3>4. ASSUME NEW j \in Ids, status'[j] \in {"done", "failed"}, NEW d \in dependsOn[j]
          PROVE  d \in Ids /\ status'[d] = "done"
      <4>1. d \in Ids /\ status[d] = "done"
        BY <1>1, <3>1, <3>4 DEF CascadeInv
      <4> QED BY <1>3, <4>1
    <3>5. ASSUME NEW j \in Ids, status'[j] = "skipped"
          PROVE  \E d \in Upstream(j) \cap Ids : status'[d] = "failed"
      <4>1. CASE j \in F
        BY <1>1, <3>1, <4>1, FallingWaits DEF PlanShapes
      <4>2. CASE j \notin F
        <5>1. PICK d \in Upstream(j) \cap Ids : status[d] = "failed"
          BY <3>1, <3>5, <4>2 DEF CascadeInv
        <5> QED BY <1>3, <5>1
      <4> QED BY <4>1, <4>2
    <3> QED BY <1>0, <2>0, <3>3, <3>4, <3>5 DEF CascadeInv
  <2> QED BY <1>2, <2>1, <2>2
<1> QED BY <1>4, <1>5, <1>6

LEMMA PlanStepInv == PlanInv /\ [PlanNext]_planVars => PlanInv'
<1> SUFFICES ASSUME PlanInv, [PlanNext]_planVars PROVE PlanInv'
  OBVIOUS
<1>1. CASE UNCHANGED planVars
  <2>1. UNCHANGED <<dependsOn, candidates, status, tool, pending, results, node>>
    BY <1>1 DEF planVars
  <2>2. /\ Ready(status)' = Ready(status) /\ CurrentStep' = CurrentStep
        /\ \A i \in Ids : ResultsOf(i)' = ResultsOf(i) /\ Upstream(i)' = Upstream(i)
    BY <2>1 DEF Ready, Terminal, CurrentStep, ResultsOf, Upstream, WaitsWithin
  <2>3. PlanShapes' /\ ResultsInv'
    BY <2>1, <2>2 DEF PlanInv, PlanShapes, PlanShape, ResultsInv
  <2>4. CascadeInv'
    BY <2>1, <2>2 DEF PlanInv, CascadeInv
  <2> QED BY <2>3, <2>4 DEF PlanInv
<1> QED BY <1>1, DecideNodeInv, ExecuteNodeInv, FeedbackNodeInv DEF PlanNext, PlanEnded

-----------------------------------------------------------------------------
(* What the invariant says.                                                *)

\* Everything a finished step waits for is finished, and nothing that a step which may
\* still run waits for has failed or was skipped.
LEMMA UpstreamStatus ==
  ASSUME PlanInv, NEW i \in Ids
  PROVE  /\ (\A d \in dependsOn[i] : d \in Ids /\ status[d] = "done")
              => \A j \in Upstream(i) : j \in Ids /\ status[j] = "done"
         /\ status[i] = "pending" => \A j \in Upstream(i) \cap Ids : status[j] \in {"pending", "done"}
<1> USE DEF PlanInv, PlanShapes
<1>1. ASSUME \A d \in dependsOn[i] : d \in Ids /\ status[d] = "done"
      PROVE  \A j \in Upstream(i) : j \in Ids /\ status[j] = "done"
  <2> DEFINE S == {j \in Ids : status[j] = "done"}
  <2>1. WaitsWithin(i, S)
    BY <1>1 DEF WaitsWithin, CascadeInv, PlanShape
  <2> QED BY <2>1, UpstreamClosed
<1>2. ASSUME status[i] = "pending"
      PROVE  \A j \in Upstream(i) \cap Ids : status[j] \in {"pending", "done"}
  <2> DEFINE S == {j \in Ids : status[j] \in {"pending", "done"}} \cup {Unknown}
  <2>1. ASSUME NEW k \in Ids, status[k] \in {"pending", "done"} PROVE dependsOn[k] \subseteq S
    BY <2>1 DEF CascadeInv, PlanShape
  <2>2. WaitsWithin(i, S)
    BY <1>2, <2>1, PlanAssumption DEF WaitsWithin
  <2>3. Upstream(i) \subseteq S
    BY <2>2, UpstreamClosed
  <2> QED BY <2>3, PlanAssumption
<1> QED BY <1>1, <1>2

LEMMA PlanInvIsolated == PlanInv => FailureIsolated
<1> SUFFICES ASSUME PlanInv PROVE FailureIsolated
  OBVIOUS
<1> USE DEF PlanInv
<1>1. ASSUME NEW i \in Ids, ResultsOf(i) # {}, NEW j \in Upstream(i) PROVE j \in Ids /\ status[j] = "done"
  <2>1. \A d \in dependsOn[i] : d \in Ids /\ status[d] = "done"
    <3>1. CASE status[i] \in {"done", "failed"}
      BY <3>1 DEF CascadeInv
    <3>2. CASE node = "feedback" /\ i = CurrentStep
      BY <3>2, CurrentStepReady DEF PlanShapes
    <3> QED BY <1>1, <3>1, <3>2 DEF ResultsInv
  <2> QED BY <1>1, <2>1, UpstreamStatus
<1>2. ASSUME NEW i \in Ids, status[i] # "failed", NEW j \in Upstream(i) \cap Ids, status[j] = "failed"
      PROVE  status[i] = "skipped"
  <2>1. CASE status[i] = "done"
    BY <1>2, <2>1, UpstreamStatus DEF CascadeInv
  <2>2. CASE status[i] = "pending"
    BY <1>2, <2>2, UpstreamStatus
  <2> QED BY <1>2, <2>1, <2>2 DEF PlanShapes
<1>3. \A i \in Ids : status[i] = "skipped" => \E j \in Upstream(i) \cap Ids : status[j] = "failed"
  BY DEF CascadeInv
<1> QED BY <1>1, <1>2, <1>3 DEF FailureIsolated

\* Among the pending steps a step waits for there is one that waits for the fewest:
\* in a plan without circles it waits for no pending one, so it is ready.
LEMMA PlanInvForgetsNothing == PlanInv => NothingForgotten
<1> SUFFICES ASSUME PlanInv, node = "end", NEW i \in Ids, status[i] = "pending",
                    \A j \in Upstream(i) \cup {i} : j # Unknown /\ (j \in Ids => j \notin Upstream(j))
             PROVE  FALSE
  BY DEF NothingForgotten
<1> USE DEF PlanInv
<1> DEFINE W == {j \in Upstream(i) \cup {i} : j \in Ids /\ status[j] = "pending"}
<1> DEFINE size(j) == Cardinality(Upstream(j))
<1>1. IsFiniteSet(Ids \cup {Unknown})
  <2>1. 1 \in Int /\ N \in Int
    BY PlanAssumption
  <2>2. IsFiniteSet(Ids)
    BY <2>1, FS_Interval DEF Ids
  <2> QED BY <2>2, FS_AddElement
<1>2. \A j \in Ids : IsFiniteSet(Upstream(j)) /\ size(j) \in Nat
  BY <1>1, FS_Subset, FS_CardinalityType, UpstreamClosed DEF PlanShapes
<1>3. {size(j) : j \in W} \subseteq Nat /\ {size(j) : j \in W} # {}
  BY <1>2
<1>4. \E x \in {size(j) : j \in W} : \A y \in {size(j) : j \in W} : x <= y
  BY <1>3, LeastOf
<1>5. PICK j \in W : \A k \in W : size(j) <= size(k)
  BY <1>4
<1>6. PICK d \in dependsOn[j] : d \notin Terminal(status)
  BY <1>5 DEF PlanShapes, Ready
<1>7. d \in Upstream(j) /\ d \in Upstream(i)
  BY <1>5, <1>6, UpstreamClosed DEF PlanShapes
<1>8. d \in Ids /\ status[d] = "pending"
  BY <1>5, <1>6, <1>7, UpstreamClosed DEF CascadeInv, PlanShapes, Terminal
<1>9. d \in W /\ Upstream(d) \subseteq Upstream(j) /\ d \notin Upstream(d)
  BY <1>5, <1>7, <1>8, UpstreamClosed DEF PlanShapes
<1>10. size(d) <= size(j) /\ size(d) # size(j)
  BY <1>2, <1>5, <1>7, <1>9, FS_Subset
<1>11. size(j) \in Nat /\ size(d) \in Nat /\ size(j) <= size(d)
  BY <1>2, <1>5, <1>8, <1>9
<1> HIDE DEF size
<1> QED BY <1>10, <1>11

\* A tool runs only for steps that wait, however indirectly, for no failed step, a step
\* is skipped exactly when it waits for one, and a plan is left only when every pending
\* step waits for an unknown id or a circle (agent/graph.py, agent/executor.py).
THEOREM PlanSafeThm == PlanSpec => []PlanSafe
<1>1. PlanInv => PlanSafe
  <2>1. PlanInv => PlanTypeOK
    BY DEF PlanInv, PlanShapes, ResultsInv, PlanTypeOK, Ready
  <2> QED BY <2>1, PlanInvIsolated, PlanInvForgetsNothing DEF PlanSafe
<1> QED BY <1>1, PlanInitInv, PlanStepInv, PTL DEF PlanSpec


-----------------------------------------------------------------------------
(* The newest of some messages.                                            *)

\* Every message of S has a number as its id.
Numbered(S) == \A m \in S : m.id \in Nat

Later(m, S) == {k \in S : k.id > m.id}

LEMMA LaterFinite ==
  ASSUME NEW S, IsFiniteSet(S), NEW m
  PROVE  Later(m, S) \subseteq S /\ IsFiniteSet(Later(m, S)) /\ Cardinality(Later(m, S)) \in Nat
<1>1. Later(m, S) \subseteq S
  BY DEF Later
<1> QED BY <1>1, FS_Subset, FS_CardinalityType

LEMMA NewestLater ==
  ASSUME NEW S, NEW n
  PROVE  Newest(n, S) = {m \in S : Cardinality(Later(m, S)) < n}
BY DEF Newest, Later

LEMMA NewestFacts ==
  ASSUME NEW S, IsFiniteSet(S), Numbered(S), NEW n \in Nat
  PROVE  /\ Newest(n, S) \subseteq S /\ IsFiniteSet(Newest(n, S))
         /\ \A m \in Newest(n, S), k \in S : k.id > m.id => k \in Newest(n, S)
<1>1. Newest(n, S) \subseteq S /\ IsFiniteSet(Newest(n, S))
  BY FS_Subset DEF Newest
<1>2. ASSUME NEW m \in Newest(n, S), NEW k \in S, k.id > m.id
      PROVE  k \in Newest(n, S)
  <2>1. m \in S /\ Cardinality(Later(m, S)) < n
    BY NewestLater
  <2>2. Later(k, S) \subseteq Later(m, S)
    BY <1>2, <2>1 DEF Numbered, Later
  <2>3. Cardinality(Later(k, S)) <= Cardinality(Later(m, S))
    BY <2>2, LaterFinite, FS_Subset
  <2>4. Cardinality(Later(k, S)) \in Nat /\ Cardinality(Later(m, S)) \in Nat
    BY LaterFinite
  <2>5. Cardinality(Later(k, S)) < n
    BY <2>1, <2>3, <2>4
  <2> QED BY <1>2, <2>5, NewestLater
<1> QED BY <1>1, <1>2

\* There are never more of them than asked for: the oldest one has fewer after it.
LEMMA NewestBounded ==
  ASSUME NEW S, IsFiniteSet(S), Numbered(S), NEW n \in Nat,
         \A m, k \in S : m.id = k.id => m = k
  PROVE  Cardinality(Newest(n, S)) <= n /\ Cardinality(Newest(n, S)) \in Nat
<1>0. Newest(n, S) \subseteq S /\ IsFiniteSet(Newest(n, S)) /\ Cardinality(Newest(n, S)) \in Nat
  BY NewestFacts, FS_CardinalityType
<1>1. CASE Newest(n, S) = {}
  BY <1>0, <1>1, FS_EmptySet
<1>2. CASE Newest(n, S) # {}
  <2>1. {m.id : m \in Newest(n, S)} \subseteq Nat /\ {m.id : m \in Newest(n, S)} # {}
    BY <1>0, <1>2 DEF Numbered
  <2>2. \E x \in {m.id : m \in Newest(n, S)} : \A y \in {m.id : m \in Newest(n, S)} : x <= y
    BY <2>1, LeastOf
  <2>3. PICK m \in Newest(n, S) : \A k \in Newest(n, S) : m.id <= k.id
    BY <2>2
  <2>4. Cardinality(Later(m, S)) < n /\ Cardinality(Later(m, S)) \in Nat /\ IsFiniteSet(Later(m, S))
    BY <2>3, NewestLater, LaterFinite
  <2>5. Newest(n, S) \subseteq Later(m, S) \cup {m}
    BY <1>0, <2>3 DEF Numbered, Later
  <2>6. /\ IsFiniteSet(Later(m, S) \cup {m})
        /\ Cardinality(Later(m, S) \cup {m})
             = IF m \in Later(m, S) THEN Cardinality(Later(m, S)) ELSE Cardinality(Later(m, S)) + 1
    BY <2>4, FS_AddElement, Zenon
  <2>7. Cardinality(Newest(n, S)) <= Cardinality(Later(m, S) \cup {m})
    BY <2>5, <2>6, FS_Subset
  <2>8. Cardinality(Later(m, S) \cup {m}) \in Nat
    BY <2>6, FS_CardinalityType
  <2> QED BY <1>0, <2>4, <2>6, <2>7, <2>8
<1> QED BY <1>1, <1>2

\* What comes later than S and its newest: trimming before makes no difference.
LEMMA NewestOfNewest ==
  ASSUME NEW S, IsFiniteSet(S), Numbered(S), NEW New, IsFiniteSet(New), Numbered(New), NEW n \in Nat,
         \A m \in S, k \in New : m.id < k.id
  PROVE  Newest(n, Newest(n, S) \cup New) = Newest(n, S \cup New)
<1> DEFINE T == Newest(n, S)
<1>0. T \subseteq S /\ IsFiniteSet(T) /\ \A m \in T, k \in S : k.id > m.id => k \in T
  BY NewestFacts
<1>1. \A m \in T \cup New : Later(m, S \cup New) = Later(m, T \cup New)
  BY <1>0 DEF Numbered, Later
<1>2. ASSUME NEW m \in S, Cardinality(Later(m, S \cup New)) < n
      PROVE  m \in T
  <2>1. IsFiniteSet(S \cup New)
    BY FS_Union
  <2>2. Later(m, S) \subseteq Later(m, S \cup New)
    BY DEF Later
  <2>3. Cardinality(Later(m, S)) <= Cardinality(Later(m, S \cup New))
    BY <2>1, <2>2, LaterFinite, FS_Subset
  <2>4. Cardinality(Later(m, S)) \in Nat /\ Cardinality(Later(m, S \cup New)) \in Nat
    BY <2>1, LaterFinite
  <2>5. Cardinality(Later(m, S)) < n
    BY <1>2, <2>3, <2>4
  <2> QED BY <2>5, NewestLater
<1>3. Newest(n, T \cup New) = {m \in T \cup New : Cardinality(Later(m, T \cup New)) < n}
  BY NewestLater
<1>4. Newest(n, S \cup New) = {m \in S \cup New : Cardinality(Later(m, S \cup New)) < n}
  BY NewestLater
<1> HIDE DEF T
<1>5. {m \in T \cup New : Cardinality(Later(m, T \cup New)) < n}
        = {m \in S \cup New : Cardinality(Later(m, S \cup New)) < n}
  <2>1. \A m \in T \cup New : Cardinality(Later(m, S \cup New)) = Cardinality(Later(m, T \cup New))
    BY <1>1
  <2>2. \A m \in S \cup New : Cardinality(Later(m, S \cup New)) < n => m \in T \cup New
    BY <1>2
  <2> QED BY <1>0, <2>1, <2>2
<1> QED BY <1>3, <1>4, <1>5 DEF T

-----------------------------------------------------------------------------
(* The inductive invariant of the turns of a process.                      *)

Roles == {"user", "system", "assistant", "tool"}
RowSet == [id : Nat, sid : Sessions, turn : Turns, role : Roles]
MemorySet == [cached : BOOLEAN, active : BOOLEAN, messages : SUBSET RowSet]
TurnSet == [pc : Busy \cup {"new", "ended", "gone"}, sid : Sessions \cup {"none"},
            mode : {"none", "chat", "gold", "agent", "plan"}, alone : BOOLEAN, refine : BOOLEAN,
            snapshot : Nat, calls : Nat, said : SUBSET RowSet, fallback : BOOLEAN,
            ran : Nat, done : Nat, results : SUBSET RowSet]
EventTypes == {"title", "text", "artifact", "result", "error", "done"}

\* The rows have their shape, and their ids come from the counter.
RowsShape ==
  /\ stored \subseteq RowSet /\ IsFiniteSet(stored) /\ lastId \in Nat
  /\ \A m \in stored : m.id \in 1..lastId
  /\ \A m, k \in stored : m.id = k.id => m = k
  /\ memory \in [Sessions -> MemorySet]

TitleShape ==
  /\ DOMAIN title = Sessions
  /\ \A s \in Sessions : title[s].source \in {"fresh", "deleted", "local", "llm", "manual"}

TurnShape ==
  /\ turn \in [Turns -> TurnSet]
  /\ events \in [Turns -> Seq(EventTypes)]
  /\ artifacts \subseteq [sid : Sessions, mid : Nat, turn : Turns]

\* A memory is active while the manager has it, only sessions with a row have one, and
\* it holds messages of its session, no more than its window.
MemoryOK(s) ==
  /\ memory[s].cached = memory[s].active
  /\ memory[s].active => Live(s)
  /\ ~memory[s].active => memory[s].messages = {}
  /\ memory[s].messages \subseteq MessagesOf(s)
  /\ Cardinality(memory[s].messages) <= Window
MemoryInv == \A s \in Sessions : MemoryOK(s)

RowsLive == \A m \in stored : Live(m.sid)

\* Events without an error and a done, and events without one after the done.
Quiet(evs)    == \A i \in 1..Len(evs) : evs[i] \notin {"error", "done"}
EndsOnce(evs) == \A i \in 1..Len(evs) : evs[i] = "done" => i = Len(evs)

\* A turn that has begun has a session that once had a row, and as long as the turn is
\* under way and the row is there the session has its memory.
Place(t) ==
  /\ turn[t].pc = "new" => turn[t] = NewTurn
  /\ turn[t].pc # "new" => turn[t].sid \in Sessions /\ title[turn[t].sid].source # "fresh"
  /\ turn[t].pc \in Busy /\ Live(turn[t].sid) => memory[turn[t].sid].active

\* Nothing is sent after the done, and an error only at the end.
Telling(t) ==
  /\ turn[t].pc \in Busy \cup {"new"} => Quiet(events[t])
  /\ EndsOnce(events[t])

\* Steps are counted, and tool calls noted, by the turns that have a plan or a loop.
Counting(t) ==
  /\ turn[t].pc \in {"planning", "gold", "chat", "react"} => turn[t].done = 0
  /\ turn[t].pc = "planning" => turn[t].said = {}
  /\ turn[t].pc = "steps" => turn[t].fallback \/ turn[t].mode = "plan"

\* What the calls of a loop said is in the store.
SaidKept(t) ==
  turn[t].pc = "react" /\ memory[turn[t].sid].active
    => \A m \in turn[t].said : m \in stored /\ m.turn = t /\ m.sid = turn[t].sid

AnswerOf(t) == {m \in stored : m.turn = t /\ m.sid = turn[t].sid /\ m.role = "assistant"}

\* The answer is in the store from the moment the turn has given it.
Answered(t) ==
  turn[t].pc \in {"titling", "ended"} /\ Live(turn[t].sid) /\ (turn[t].mode # "plan" \/ turn[t].fallback)
    => AnswerOf(t) # {} \/ \E i \in 1..Len(events[t]) : events[t][i] = "error"

ResultsOwn(t) == turn[t].alone => \A m \in turn[t].results : m.turn = t

TurnInv(t) == Place(t) /\ Telling(t) /\ Counting(t) /\ SaidKept(t) /\ Answered(t) /\ ResultsOwn(t)

\* A turn that is still alone shares its session with no turn under way.
AloneInv ==
  \A t, u \in Turns :
    t # u /\ turn[t].pc \in Busy /\ turn[u].pc \in Busy /\ turn[t].sid = turn[u].sid => ~turn[t].alone

\* The tool messages of turn t among S that are later than m.
OwnLater(t, m, S) == {k \in S : k.role = "tool" /\ k.turn = t /\ k.id > m.id}

\* While a plan runs alone, a tool message of another turn that is still in the memory
\* is followed there by as many of the plan's own as it has finished steps.
OwnTools(t) ==
  turn[t].alone /\ turn[t].pc = "steps" /\ memory[turn[t].sid].active =>
    \A m \in memory[turn[t].sid].messages :
      m.role = "tool" /\ m.turn # t
        => turn[t].done <= Cardinality(OwnLater(t, m, memory[turn[t].sid].messages))

\* Every report belongs to a session with a row and to a turn that has begun, and one
\* of a turn that was alone to a message of that turn.
ReportOK(r) ==
  /\ Live(r.sid) /\ turn[r.turn].pc # "new"
  /\ turn[r.turn].alone => \E m \in stored : m.id = r.mid /\ m.turn = r.turn /\ m.sid = r.sid
ReportsInv == \A r \in artifacts : ReportOK(r)

ChatInv ==
  /\ RowsShape /\ TitleShape /\ TurnShape
  /\ MemoryInv /\ RowsLive
  /\ \A t \in Turns : TurnInv(t) /\ OwnTools(t)
  /\ AloneInv /\ ReportsInv /\ ContextRecent

-----------------------------------------------------------------------------
(* What a message added to a memory does.                                  *)

NewRows(mem, t, s, roles) == IF mem.active THEN Written(t, s, roles) ELSE {}

LEMMA WrittenFacts ==
  ASSUME lastId \in Nat, NEW t \in Turns, NEW s \in Sessions, NEW roles \in Seq(Roles)
  PROVE  /\ Written(t, s, roles) \subseteq RowSet /\ IsFiniteSet(Written(t, s, roles))
         /\ \A m \in Written(t, s, roles) :
              m.sid = s /\ m.turn = t /\ m.id \in Nat /\ lastId < m.id /\ m.id <= lastId + Len(roles)
         /\ \A m, k \in Written(t, s, roles) : m.id = k.id => m = k
         /\ \A i \in 1..Len(roles) : \E m \in Written(t, s, roles) : m.role = roles[i]
         /\ lastId + Len(roles) \in Nat
<1> DEFINE row(k) == [id |-> lastId + k, sid |-> s, turn |-> t, role |-> roles[k]]
<1>0. Len(roles) \in Nat /\ \A k \in 1..Len(roles) : roles[k] \in Roles
  OBVIOUS
<1>1. Written(t, s, roles) = {row(k) : k \in 1..Len(roles)}
  BY DEF Written
<1>2. IsFiniteSet(1..Len(roles))
  BY <1>0, FS_Interval
<1> DEFINE f == [k \in 1..Len(roles) |-> row(k)]
<1>3. {row(k) : k \in 1..Len(roles)} = {f[k] : k \in 1..Len(roles)}
  OBVIOUS
<1>4. f \in [1..Len(roles) -> {row(k) : k \in 1..Len(roles)}]
  OBVIOUS
<1>5. IsFiniteSet({row(k) : k \in 1..Len(roles)})
  <2>1. f \in Surjection(1..Len(roles), {row(k) : k \in 1..Len(roles)})
    BY <1>4 DEF Surjection
  <2> QED BY <1>2, <2>1, FS_Surjection
<1>6. \A k \in 1..Len(roles) : row(k) \in RowSet
  BY <1>0 DEF RowSet
<1>7. \A k \in 1..Len(roles) :
        /\ row(k).id = lastId + k /\ row(k).sid = s /\ row(k).turn = t /\ row(k).role = roles[k]
  OBVIOUS
<1>8. \A k, j \in 1..Len(roles) : row(k).id = row(j).id => k = j
  BY <1>0, <1>7
<1>9. \A m \in Written(t, s, roles) : \E k \in 1..Len(roles) : m = row(k)
  BY <1>1
<1>10. \A k \in 1..Len(roles) : row(k) \in Written(t, s, roles)
  BY <1>1
<1>11. IsFiniteSet(Written(t, s, roles))
  BY <1>1, <1>5
<1> HIDE DEF row, f
<1>12. Written(t, s, roles) \subseteq RowSet
  BY <1>6, <1>9
<1>13. \A m \in Written(t, s, roles) :
         m.sid = s /\ m.turn = t /\ m.id \in Nat /\ lastId < m.id /\ m.id <= lastId + Len(roles)
  BY <1>0, <1>7, <1>9
<1>14. \A m, k \in Written(t, s, roles) : m.id = k.id => m = k
  BY <1>8, <1>9
<1>15. \A i \in 1..Len(roles) : \E m \in Written(t, s, roles) : m.role = roles[i]
  BY <1>7, <1>10
<1> QED BY <1>0, <1>11, <1>12, <1>13, <1>14, <1>15

\* The rows New came to the store, and to the memory mem of session s, which became
\* the session's.
Wrote(mem, t, s, roles, New) ==
  /\ RowsShape'
  /\ stored' = stored \cup New /\ IsFiniteSet(New)
  /\ \A m \in New : m \in RowSet /\ m.sid = s /\ m.turn = t /\ m.id \in Nat /\ lastId < m.id
  /\ \A r \in Sessions \ {s} : memory'[r] = memory[r]
  /\ memory'[s].cached = mem.cached /\ memory'[s].active = mem.active
  /\ mem.active => memory'[s].messages = Newest(Window, mem.messages \cup New)
  /\ ~mem.active => memory'[s].messages = {}
  /\ memory'[s].messages \subseteq mem.messages \cup New
  /\ IsFiniteSet(mem.messages \cup New) /\ Numbered(mem.messages \cup New)
  /\ Cardinality(memory'[s].messages) <= Window
  /\ mem.active => \A i \in 1..Len(roles) : \E m \in New : m.role = roles[i]
  /\ ~mem.active => New = {}

LEMMA AddToEffect ==
  ASSUME RowsShape, NEW t \in Turns, NEW s \in Sessions, NEW roles \in Seq(Roles),
         NEW mem \in MemorySet, mem.messages \subseteq MessagesOf(s), ~mem.active => mem.messages = {},
         AddTo(mem, t, s, roles)
  PROVE  Wrote(mem, t, s, roles, NewRows(mem, t, s, roles))
<1> SUFFICES ASSUME NEW New, New = NewRows(mem, t, s, roles)
             PROVE  Wrote(mem, t, s, roles, New)
  OBVIOUS
<1>1. CASE mem.active
  <2>0. New = Written(t, s, roles)
    BY <1>1 DEF NewRows
  <2>1. /\ New \subseteq RowSet /\ IsFiniteSet(New)
        /\ \A m \in New : m.sid = s /\ m.turn = t /\ m.id \in Nat /\ lastId < m.id /\ m.id <= lastId + Len(roles)
        /\ \A m, k \in New : m.id = k.id => m = k
        /\ \A i \in 1..Len(roles) : \E m \in New : m.role = roles[i]
        /\ lastId + Len(roles) \in Nat
    BY <2>0, WrittenFacts DEF RowsShape
  <2> DEFINE S == mem.messages \cup New
  <2>2. mem.messages \subseteq stored
    BY DEF MessagesOf
  <2>3. IsFiniteSet(S) /\ Numbered(S) /\ \A m, k \in S : m.id = k.id => m = k
    <3>1. IsFiniteSet(mem.messages)
      BY <2>2, FS_Subset DEF RowsShape
    <3>2. IsFiniteSet(S)
      BY <2>1, <3>1, FS_Union
    <3>3. \A m \in mem.messages : m.id \in Nat /\ m.id <= lastId
      BY <2>2 DEF RowsShape
    <3>4. \A m, k \in mem.messages : m.id = k.id => m = k
      BY <2>2 DEF RowsShape
    <3>5. Numbered(S)
      BY <2>1, <3>3 DEF Numbered
    <3>6. \A m, k \in S : m.id = k.id => m = k
      BY <2>1, <3>3, <3>4 DEF RowsShape
    <3> QED BY <3>2, <3>5, <3>6
  <2>4. Newest(Window, S) \subseteq S /\ Cardinality(Newest(Window, S)) <= Window
    BY <2>3, NewestFacts, NewestBounded, ChatAssumption
  <2>5. /\ memory' = [memory EXCEPT ![s] = [mem EXCEPT !.messages = Newest(Window, S)]]
        /\ stored' = stored \cup New /\ lastId' = lastId + Len(roles)
    BY <1>1, <2>0 DEF AddTo
  <2>6. S \subseteq RowSet
    BY <2>1, <2>2 DEF RowsShape
  <2> HIDE DEF S
  <2>7. [mem EXCEPT !.messages = Newest(Window, S)] \in MemorySet
    BY <2>4, <2>6 DEF MemorySet
  <2>8. /\ memory' \in [Sessions -> MemorySet] /\ memory'[s].messages = Newest(Window, S)
        /\ memory'[s].cached = mem.cached /\ memory'[s].active = mem.active
        /\ \A r \in Sessions \ {s} : memory'[r] = memory[r]
    BY <2>5, <2>7 DEF RowsShape, MemorySet
  <2>9. /\ stored' \subseteq RowSet /\ IsFiniteSet(stored') /\ lastId' \in Nat
        /\ \A m \in stored' : m.id \in 1..lastId'
        /\ \A m, k \in stored' : m.id = k.id => m = k
    <3>1. IsFiniteSet(stored')
      BY <2>1, <2>5, FS_Union DEF RowsShape
    <3>2. Len(roles) \in Nat
      OBVIOUS
    <3>3. lastId' \in Nat /\ \A m \in stored' : m.id \in 1..lastId'
      BY <2>1, <2>5, <3>2 DEF RowsShape
    <3>4. \A m, k \in stored' : m.id = k.id => m = k
      BY <2>1, <2>5 DEF RowsShape
    <3> QED BY <2>1, <2>5, <3>1, <3>3, <3>4 DEF RowsShape
  <2>10. RowsShape'
    BY <2>8, <2>9 DEF RowsShape
  <2>11. stored' = stored \cup New /\ S = mem.messages \cup New
    BY <2>5 DEF S
  <2>12. \A m \in New : m \in RowSet /\ m.sid = s /\ m.turn = t /\ m.id \in Nat /\ lastId < m.id
    BY <2>1
  <2>13. memory'[s].messages \subseteq S /\ Cardinality(memory'[s].messages) <= Window
    BY <2>4, <2>8
  <2>14. IsFiniteSet(S) /\ Numbered(S) /\ memory'[s].messages = Newest(Window, S)
    BY <2>3, <2>8
  <2>15. IsFiniteSet(New) /\ \A i \in 1..Len(roles) : \E m \in New : m.role = roles[i]
    BY <2>1
  <2> QED BY <1>1, <2>8, <2>10, <2>11, <2>12, <2>13, <2>14, <2>15, Zenon DEF Wrote
<1>2. CASE ~mem.active
  <2>0. New = {}
    BY <1>2 DEF NewRows
  <2>1. memory' = [memory EXCEPT ![s] = mem] /\ stored' = stored /\ lastId' = lastId
    BY <1>2 DEF AddTo
  <2>2. memory' \in [Sessions -> MemorySet] /\ memory'[s] = mem /\ \A r \in Sessions \ {s} : memory'[r] = memory[r]
    BY <2>1 DEF RowsShape
  <2>3. RowsShape'
    BY <2>1, <2>2 DEF RowsShape
  <2>4. mem.messages = {} /\ Cardinality({}) = 0 /\ IsFiniteSet({})
    BY <1>2, FS_EmptySet
  <2>5. stored' = stored \cup New /\ mem.messages \cup New = {} /\ Numbered({})
    BY <2>0, <2>1, <2>4 DEF Numbered
  <2>6. Cardinality(memory'[s].messages) <= Window /\ memory'[s].messages = {}
    BY <2>2, <2>4, ChatAssumption
  <2>7. \A m \in New : m \in RowSet /\ m.sid = s /\ m.turn = t /\ m.id \in Nat /\ lastId < m.id
    BY <2>0
  <2>8. memory'[s].cached = mem.cached /\ memory'[s].active = mem.active
    BY <2>2
  <2> QED BY <1>2, <2>0, <2>2, <2>3, <2>4, <2>5, <2>6, <2>7, <2>8, Zenon DEF Wrote
<1> QED BY <1>1, <1>2, Zenon

\* No step but a deletion takes a row from a session.
LiveGrows == \A r \in Sessions : Live(r) => Live(r)'

LEMMA AddToMemory ==
  ASSUME RowsShape, MemoryInv, RowsLive, NEW t \in Turns, NEW s \in Sessions, NEW roles \in Seq(Roles),
         NEW mem \in MemorySet, mem.messages \subseteq MessagesOf(s), ~mem.active => mem.messages = {},
         mem.cached = mem.active, mem.active => Live(s)', LiveGrows,
         AddTo(mem, t, s, roles)
  PROVE  MemoryInv' /\ RowsLive'
<1> DEFINE New == NewRows(mem, t, s, roles)
<1>0. /\ RowsShape'
      /\ stored' = stored \cup New
      /\ \A m \in New : m \in RowSet /\ m.sid = s /\ m.turn = t /\ m.id \in Nat /\ lastId < m.id
      /\ \A r \in Sessions \ {s} : memory'[r] = memory[r]
      /\ memory'[s].cached = mem.cached /\ memory'[s].active = mem.active
      /\ ~mem.active => memory'[s].messages = {}
      /\ memory'[s].messages \subseteq mem.messages \cup New
      /\ Cardinality(memory'[s].messages) <= Window
      /\ ~mem.active => New = {}
  <2>1. Wrote(mem, t, s, roles, NewRows(mem, t, s, roles))
    BY AddToEffect
  <2> HIDE DEF New
  <2> QED BY <2>1 DEF Wrote, New
<1> HIDE DEF New
<1>1. New # {} => mem.active
  BY <1>0
<1>2. RowsLive'
  <2>1. \A m \in stored : m.sid \in Sessions
    BY DEF RowsShape, RowSet
  <2> QED BY <1>0, <1>1, <2>1 DEF RowsLive, LiveGrows, Live
<1>3. ASSUME NEW r \in Sessions PROVE MemoryOK(r)'
  <2>1. CASE r = s
    BY <1>0, <2>1 DEF MemoryOK, MessagesOf, Live
  <2>2. CASE r # s
    BY <1>0, <2>2 DEF MemoryInv, MemoryOK, LiveGrows, MessagesOf
  <2> QED BY <2>1, <2>2
<1> QED BY <1>2, <1>3 DEF MemoryInv

\* The newest messages stay the newest.
LEMMA AddToContext ==
  ASSUME RowsShape, NEW t \in Turns, NEW s \in Sessions, NEW roles \in Seq(Roles),
         NEW mem \in MemorySet, mem.active, mem.messages = Newest(Window, MessagesOf(s)),
         AddTo(mem, t, s, roles)
  PROVE  memory'[s].messages = Newest(Window, MessagesOf(s)')
<1> DEFINE New == NewRows(mem, t, s, roles)
<1>0. MessagesOf(s) \subseteq stored /\ IsFiniteSet(MessagesOf(s)) /\ Numbered(MessagesOf(s))
      /\ \A m \in MessagesOf(s) : m.id <= lastId
  <2>1. MessagesOf(s) \subseteq stored
    BY DEF MessagesOf
  <2> QED BY <2>1, FS_Subset DEF RowsShape, Numbered
<1>1. mem.messages \subseteq MessagesOf(s)
  BY <1>0, NewestFacts, ChatAssumption
<1>2. /\ stored' = stored \cup New
      /\ \A m \in New : m \in RowSet /\ m.sid = s /\ m.id \in Nat /\ lastId < m.id
      /\ memory'[s].messages = Newest(Window, mem.messages \cup New)
      /\ IsFiniteSet(mem.messages \cup New) /\ Numbered(mem.messages \cup New)
  <2>1. Wrote(mem, t, s, roles, NewRows(mem, t, s, roles))
    BY <1>1, AddToEffect
  <2> HIDE DEF New
  <2> QED BY <2>1 DEF Wrote, New
<1> HIDE DEF New
<1>3. MessagesOf(s)' = MessagesOf(s) \cup New
  BY <1>2 DEF MessagesOf
<1>4. IsFiniteSet(New) /\ Numbered(New)
  BY <1>2, FS_Subset DEF Numbered
<1>5. \A m \in MessagesOf(s), k \in New : m.id < k.id
  <2>1. \A m \in MessagesOf(s) : m.id \in Nat
    BY <1>0 DEF Numbered
  <2>2. \A k \in New : k.id \in Nat
    BY <1>4 DEF Numbered
  <2> QED BY <1>0, <1>2, <2>1, <2>2 DEF RowsShape
<1>6. Newest(Window, Newest(Window, MessagesOf(s)) \cup New) = Newest(Window, MessagesOf(s) \cup New)
  BY <1>0, <1>4, <1>5, NewestOfNewest, ChatAssumption
<1> QED BY <1>2, <1>3, <1>6

-----------------------------------------------------------------------------
(* What a step leaves as it was.                                           *)

\* No session that had a row is fresh again, no row that went comes back, and a
\* session with a row keeps its memory and its messages.
SessionsStay ==
  /\ \A r \in Sessions : title[r].source # "fresh" => title'[r].source # "fresh"
  /\ \A r \in Sessions : Live(r)' /\ title[r].source # "fresh" => Live(r)
  /\ \A m \in stored : Live(m.sid)' => m \in stored'
MemoryStays == \A r \in Sessions : Live(r)' /\ memory[r].active => memory'[r].active

\* A turn that does not move may lose its being alone, nothing else.
SameTurn(u) ==
  /\ turn'[u].pc = turn[u].pc /\ turn'[u].sid = turn[u].sid /\ turn'[u].mode = turn[u].mode
  /\ turn'[u].said = turn[u].said /\ turn'[u].fallback = turn[u].fallback
  /\ turn'[u].done = turn[u].done /\ turn'[u].results = turn[u].results
  /\ turn'[u].alone => turn[u].alone
  /\ turn[u].pc = "new" => turn'[u] = turn[u]
  /\ events'[u] = events[u]

LEMMA UnchangedTurn ==
  ASSUME NEW u, turn'[u] = turn[u], events'[u] = events[u]
  PROVE  SameTurn(u)
BY DEF SameTurn

LEMMA OtherTurn ==
  ASSUME NEW u \in Turns, TurnInv(u), SameTurn(u), SessionsStay, MemoryStays, MemoryInv'
  PROVE  TurnInv(u)'
<1>1. Place(u)'
  BY DEF TurnInv, Place, SameTurn, SessionsStay, MemoryStays, Live, Busy
<1>2. Telling(u)'
  BY DEF TurnInv, Telling, SameTurn
<1>5. Counting(u)'
  BY DEF TurnInv, Counting, SameTurn
<1>6. ResultsOwn(u)'
  BY DEF TurnInv, ResultsOwn, SameTurn
<1>3. SaidKept(u)'
  <2>1. SUFFICES ASSUME turn[u].pc = "react", memory'[turn[u].sid].active
                 PROVE  \A m \in turn[u].said : m \in stored' /\ m.turn = u /\ m.sid = turn[u].sid
    BY DEF SaidKept, SameTurn
  <2>2. turn[u].sid \in Sessions /\ title[turn[u].sid].source # "fresh"
    BY <2>1 DEF TurnInv, Place
  <2>3. Live(turn[u].sid)' /\ Live(turn[u].sid)
    <3>1. Live(turn[u].sid)'
      BY <2>1, <2>2 DEF MemoryInv, MemoryOK, SameTurn, Live
    <3> QED BY <2>2, <3>1 DEF SessionsStay, Live, SameTurn
  <2>4. memory[turn[u].sid].active
    BY <2>1, <2>3 DEF TurnInv, Place, Busy
  <2>5. \A m \in turn[u].said : m \in stored /\ m.turn = u /\ m.sid = turn[u].sid
    BY <2>1, <2>4 DEF TurnInv, SaidKept
  <2> QED BY <2>3, <2>5 DEF SessionsStay, Live, SameTurn
<1>4. Answered(u)'
  <2>1. SUFFICES ASSUME turn[u].pc \in {"titling", "ended"}, Live(turn[u].sid)',
                        turn[u].mode # "plan" \/ turn[u].fallback
                 PROVE  AnswerOf(u)' # {} \/ \E i \in 1..Len(events[u]) : events[u][i] = "error"
    BY DEF Answered, SameTurn, Live
  <2>2. Live(turn[u].sid)
    BY <2>1 DEF TurnInv, Place, SessionsStay, Live, SameTurn
  <2>3. AnswerOf(u) # {} \/ \E i \in 1..Len(events[u]) : events[u][i] = "error"
    BY <2>1, <2>2 DEF TurnInv, Answered
  <2>4. AnswerOf(u) \subseteq AnswerOf(u)'
    BY <2>1 DEF AnswerOf, SessionsStay, SameTurn, Live
  <2> QED BY <2>3, <2>4
<1> QED BY <1>1, <1>2, <1>3, <1>4, <1>5, <1>6 DEF TurnInv

LEMMA OtherTools ==
  ASSUME NEW u \in Turns, OwnTools(u), SameTurn(u),
         turn'[u].alone /\ turn[u].pc \in Busy => memory'[turn[u].sid] = memory[turn[u].sid]
  PROVE  OwnTools(u)'
BY DEF OwnTools, SameTurn, Busy, OwnLater

LEMMA OldReport ==
  ASSUME NEW r, ReportOK(r), r.sid \in Sessions, r.turn \in Turns, Live(r.sid)', SessionsStay,
         turn'[r.turn].pc # "new", turn'[r.turn].alone => turn[r.turn].alone
  PROVE  ReportOK(r)'
BY DEF ReportOK, SessionsStay, Live

\* What a step of turn t leaves of the rows, the titles and the memories.
RowsKept(t) ==
  /\ RowsShape' /\ TitleShape' /\ MemoryInv' /\ RowsLive' /\ ContextRecent'
  /\ SessionsStay /\ MemoryStays
  /\ \A r \in Sessions \ {turn[t].sid} : memory'[r] = memory[r]

LEMMA OtherAlone ==
  ASSUME AloneInv,
         \A u \in Turns : turn'[u].pc \in Busy =>
           turn[u].pc \in Busy /\ turn'[u].sid = turn[u].sid /\ (turn'[u].alone => turn[u].alone)
  PROVE  AloneInv'
BY DEF AloneInv

\* A step of a turn that is under way: what remains to be shown is what it does to its
\* own state, to the rows and to the reports.
LEMMA OneTurn ==
  ASSUME ChatInv, NEW t \in Turns, turn[t].pc \in Busy, turn'[t].pc # "new",
         turn'[t].sid = turn[t].sid, turn'[t].alone = turn[t].alone,
         RowsKept(t), TurnShape',
         \A u \in Turns \ {t} : turn'[u] = turn[u] /\ events'[u] = events[u],
         Telling(t)', Counting(t)', SaidKept(t)', Answered(t)', ResultsOwn(t)', OwnTools(t)',
         \A r \in artifacts' : (r \in artifacts /\ Live(r.sid)') \/ ReportOK(r)'
  PROVE  ChatInv'
<1> USE DEF RowsKept
<1>1. \A u \in Turns : TurnInv(u) /\ OwnTools(u)
  BY DEF ChatInv
<1>2. TurnInv(t)'
  <2>1. Place(t)'
    BY <1>1 DEF TurnInv, Place, SessionsStay, MemoryStays, Live, Busy
  <2> QED BY <2>1 DEF TurnInv
<1>3. ASSUME NEW u \in Turns, u # t PROVE TurnInv(u)' /\ OwnTools(u)'
  <2>1. SameTurn(u)
    BY <1>3, UnchangedTurn
  <2>2. TurnInv(u)'
    BY <1>1, <2>1, OtherTurn
  <2>3. turn[u].alone /\ turn[u].pc \in Busy => turn[u].sid # turn[t].sid
    BY <1>3 DEF ChatInv, AloneInv
  <2>4. turn[u].pc \in Busy => turn[u].sid \in Sessions
    BY <1>1 DEF TurnInv, Place, Busy
  <2>5. turn'[u].alone /\ turn[u].pc \in Busy => memory'[turn[u].sid] = memory[turn[u].sid]
    BY <1>3, <2>3, <2>4
  <2> QED BY <1>1, <2>1, <2>2, <2>5, OtherTools
<1>4. AloneInv'
  <2>1. \A u \in Turns : turn'[u].pc \in Busy =>
           turn[u].pc \in Busy /\ turn'[u].sid = turn[u].sid /\ (turn'[u].alone => turn[u].alone)
    OBVIOUS
  <2> QED BY <2>1, OtherAlone DEF ChatInv
<1>5. ASSUME NEW r \in artifacts' PROVE ReportOK(r)'
  <2>1. CASE r \in artifacts /\ Live(r.sid)'
    <3>1. ReportOK(r) /\ r.sid \in Sessions /\ r.turn \in Turns
      BY <2>1 DEF ChatInv, ReportsInv, TurnShape
    <3>2. turn'[r.turn].pc # "new" /\ (turn'[r.turn].alone => turn[r.turn].alone)
      BY <3>1 DEF ReportOK
    <3> QED BY <2>1, <3>1, <3>2, OldReport
  <2>2. CASE ReportOK(r)'
    BY <2>2
  <2> QED BY <2>1, <2>2
<1>6. ReportsInv'
  BY <1>5 DEF ReportsInv
<1>7. \A u \in Turns : TurnInv(u)' /\ OwnTools(u)'
  BY <1>2, <1>3
<1> QED BY <1>4, <1>6, <1>7 DEF ChatInv

-----------------------------------------------------------------------------
(* The steps that write.                                                   *)

\* No turn that fell back to a plan takes that back.
FallbackStays == \A u \in Turns : turn[u].fallback => turn'[u].fallback /\ turn'[u].sid = turn[u].sid

\* The rest of the rows and of the memories stays.
LEMMA AddToRest ==
  ASSUME NEW t, NEW s, NEW roles, NEW mem, NEW New, memory[s].active => mem.active,
         Wrote(mem, t, s, roles, New)
  PROVE  /\ \A m \in stored : m \in stored'
         /\ \A r \in Sessions : memory[r].active => memory'[r].active
         /\ \A r \in Sessions \ {s} : memory'[r] = memory[r] /\ MessagesOf(r)' = MessagesOf(r)
<1>1. \A m \in stored : m \in stored'
  BY DEF Wrote
<1>2. \A r \in Sessions : memory[r].active => memory'[r].active
  BY DEF Wrote
<1>3. \A r \in Sessions \ {s} : memory'[r] = memory[r] /\ MessagesOf(r)' = MessagesOf(r)
  BY DEF Wrote, MessagesOf
<1> QED BY <1>1, <1>2, <1>3

\* The context of every session after some messages of one of them.
LEMMA ContextStays ==
  ASSUME RowsShape, MemoryInv, ContextRecent, FallbackStays,
         NEW t \in Turns, NEW s \in Sessions, NEW roles \in Seq(Roles),
         NEW mem \in MemorySet, mem.messages \subseteq MessagesOf(s), ~mem.active => mem.messages = {},
         mem.cached = mem.active, memory[s].active => mem.active,
         AddTo(mem, t, s, roles),
         \/ \E u \in Turns : turn'[u].sid = s /\ turn'[u].fallback
         \/ mem = Loaded(s)
  PROVE  ContextRecent'
<1>1. Wrote(mem, t, s, roles, NewRows(mem, t, s, roles))
  BY AddToEffect
<1>2. SUFFICES ASSUME NEW r \in Sessions, memory'[r].cached, \A u \in Turns : turn'[u].sid = r => ~turn'[u].fallback
               PROVE  memory'[r].messages = Newest(Window, MessagesOf(r)')
  BY DEF ContextRecent, MessagesOf
<1>3. \A u \in Turns : turn[u].sid = r => ~turn[u].fallback
  BY <1>2 DEF FallbackStays
<1>4. CASE r # s
  <2>1. memory'[r] = memory[r] /\ MessagesOf(r)' = MessagesOf(r)
    BY <1>1, <1>4, AddToRest
  <2> QED BY <1>2, <1>3, <2>1 DEF ContextRecent
<1>5. CASE r = s
  <2>1. mem = Loaded(s)
    BY <1>2, <1>5
  <2>2. mem.active
    BY <1>1, <1>2, <1>5 DEF Wrote
  <2>3. mem.messages = Newest(Window, MessagesOf(s))
    BY <1>3, <1>5, <2>1 DEF Loaded, ContextRecent
  <2> QED BY <1>5, <2>2, <2>3, AddToContext
<1> QED BY <1>4, <1>5

\* A turn under way adds messages to its session, maybe after it has cut its memory back.
LEMMA AddAfter ==
  ASSUME ChatInv, NEW t \in Turns, turn[t].pc \in Busy, NEW roles \in Seq(Roles),
         NEW s, s = turn[t].sid, NEW mem \in MemorySet, mem.messages \subseteq memory[s].messages,
         mem.cached = memory[s].cached, mem.active = memory[s].active,
         mem = memory[s] \/ (turn'[t].sid = s /\ turn'[t].fallback),
         AddTo(mem, t, s, roles), title' = title, FallbackStays,
         NEW New, New = NewRows(mem, t, s, roles)
  PROVE  s \in Sessions /\ Wrote(mem, t, s, roles, New) /\ RowsKept(t)
<1>0. RowsShape /\ TitleShape /\ MemoryInv /\ RowsLive /\ ContextRecent
  BY DEF ChatInv
<1>1. s \in Sessions /\ title[s].source # "fresh"
  BY DEF ChatInv, TurnInv, Place, Busy
<1>2. /\ mem.messages \subseteq MessagesOf(s) /\ (~mem.active => mem.messages = {})
      /\ mem.cached = mem.active /\ (mem.active => Live(s))
  BY <1>0, <1>1 DEF RowsShape, MemoryInv, MemoryOK
<1>4. Wrote(mem, t, s, roles, New)
  BY <1>0, <1>1, <1>2, AddToEffect
<1>5. \A r \in Sessions : Live(r)' = Live(r)
  BY DEF Live
<1>6. MemoryInv' /\ RowsLive'
  <2>1. LiveGrows /\ (mem.active => Live(s)')
    BY <1>1, <1>2, <1>5 DEF LiveGrows
  <2> QED BY <1>0, <1>1, <1>2, <2>1, AddToMemory
<1>7. ContextRecent'
  <2>1. mem.active /\ mem = memory[s] => mem = Loaded(s)
    BY <1>2 DEF Loaded
  <2>2. CASE mem.active \/ mem # memory[s]
    BY <1>0, <1>1, <1>2, <2>1, <2>2, ContextStays
  <2>3. CASE ~mem.active
    <3>1. \A r \in Sessions \ {s} : memory'[r] = memory[r] /\ MessagesOf(r)' = MessagesOf(r)
      BY <1>4, <2>3, AddToRest
    <3>2. ~memory'[s].cached
      BY <1>2, <1>4, <2>3 DEF Wrote
    <3>3. SUFFICES ASSUME NEW r \in Sessions, memory'[r].cached, \A u \in Turns : turn'[u].sid = r => ~turn'[u].fallback
                   PROVE  memory'[r].messages = Newest(Window, MessagesOf(r)')
      BY DEF ContextRecent, MessagesOf
    <3>4. r # s /\ \A u \in Turns : turn[u].sid = r => ~turn[u].fallback
      BY <3>2, <3>3 DEF FallbackStays
    <3> QED BY <1>0, <3>1, <3>3, <3>4 DEF ContextRecent
  <2> QED BY <2>2, <2>3
<1>8. SessionsStay /\ MemoryStays /\ \A r \in Sessions \ {s} : memory'[r] = memory[r]
  <2>1. /\ \A m \in stored : m \in stored'
        /\ \A r \in Sessions : memory[r].active => memory'[r].active
        /\ \A r \in Sessions \ {s} : memory'[r] = memory[r]
    BY <1>4, AddToRest
  <2> QED BY <1>5, <2>1 DEF SessionsStay, MemoryStays
<1>9. RowsShape' /\ TitleShape'
  BY <1>0, <1>4 DEF Wrote, TitleShape
<1> QED BY <1>1, <1>4, <1>6, <1>7, <1>8, <1>9 DEF RowsKept

LEMMA AddStep ==
  ASSUME ChatInv, NEW t \in Turns, turn[t].pc \in Busy, NEW roles \in Seq(Roles), Add(t, roles),
         title' = title, FallbackStays
  PROVE  /\ turn[t].sid \in Sessions
         /\ Wrote(memory[turn[t].sid], t, turn[t].sid, roles, Added(t, roles))
         /\ RowsKept(t)
<1>1. turn[t].sid \in Sessions /\ memory[turn[t].sid] \in MemorySet
  BY DEF ChatInv, TurnInv, Place, Busy, RowsShape
<1>2. AddTo(memory[turn[t].sid], t, turn[t].sid, roles)
  BY DEF Add
<1>3. Added(t, roles) = NewRows(memory[turn[t].sid], t, turn[t].sid, roles)
  BY DEF Added, NewRows
<1> QED BY <1>1, <1>2, <1>3, AddAfter

-----------------------------------------------------------------------------
(* Events, and the state of the turn that moves.                           *)

LEMMA QuietThenQuiet ==
  ASSUME NEW a \in Seq(EventTypes), NEW b \in Seq(EventTypes), Quiet(a), Quiet(b)
  PROVE  a \o b \in Seq(EventTypes) /\ Quiet(a \o b)
BY DEF Quiet

LEMMA QuietThenEnd ==
  ASSUME NEW a \in Seq(EventTypes), NEW b \in Seq(EventTypes), Quiet(a), EndsOnce(b)
  PROVE  a \o b \in Seq(EventTypes) /\ EndsOnce(a \o b)
BY DEF Quiet, EndsOnce

LEMMA NothingSent == <<>> \in Seq(EventTypes) /\ Quiet(<<>>) /\ EndsOnce(<<>>)
BY DEF Quiet, EndsOnce

LEMMA OneSent ==
  ASSUME NEW e \in EventTypes
  PROVE  <<e>> \in Seq(EventTypes) /\ EndsOnce(<<e>>) /\ (e \notin {"error", "done"} => Quiet(<<e>>))
<1>1. <<e>> \in Seq(EventTypes) /\ Len(<<e>>) = 1 /\ <<e>>[1] = e
  OBVIOUS
<1>2. \A i \in 1..1 : i = 1
  OBVIOUS
<1> QED BY <1>1, <1>2 DEF Quiet, EndsOnce

LEMMA QuietEnds ==
  ASSUME NEW a, Quiet(a)
  PROVE  EndsOnce(a)
BY DEF Quiet, EndsOnce

ReportShape == [sid : Sessions, mid : Nat, turn : Turns]

LEMMA Moved ==
  ASSUME TurnShape, NEW t \in Turns, NEW x \in TurnSet, turn' = [turn EXCEPT ![t] = x],
         NEW e \in Seq(EventTypes), events' = [events EXCEPT ![t] = e],
         artifacts' \subseteq ReportShape
  PROVE  /\ TurnShape' /\ turn'[t] = x /\ events'[t] = e
         /\ \A u \in Turns \ {t} : turn'[u] = turn[u] /\ events'[u] = events[u]
BY DEF TurnShape, ReportShape

\* The turn ends, or waits for its title first.
LEMMA Finishes ==
  ASSUME TurnShape, NEW t \in Turns, NEW changed \in TurnSet, Quiet(events[t]),
         NEW evs \in Seq(EventTypes), Quiet(evs), FinishTurn(t, changed, evs),
         artifacts' \subseteq ReportShape
  PROVE  /\ TurnShape' /\ Telling(t)'
         /\ turn'[t].pc \in {"titling", "ended"}
         /\ turn'[t].sid = changed.sid /\ turn'[t].alone = changed.alone /\ turn'[t].mode = changed.mode
         /\ turn'[t].fallback = changed.fallback /\ turn'[t].results = changed.results
         /\ \A u \in Turns \ {t} : turn'[u] = turn[u] /\ events'[u] = events[u]
<1> DEFINE x == [changed EXCEPT !.pc = IF changed.refine THEN "titling" ELSE "ended"]
           tail == IF changed.refine THEN <<>> ELSE <<"done">>
           e == events[t] \o evs \o tail
<1>0. /\ x \in TurnSet /\ x.pc = (IF changed.refine THEN "titling" ELSE "ended")
      /\ x.sid = changed.sid /\ x.alone = changed.alone /\ x.mode = changed.mode
      /\ x.fallback = changed.fallback /\ x.results = changed.results
  BY DEF TurnSet, Busy
<1>1. tail \in Seq(EventTypes) /\ EndsOnce(tail) /\ (changed.refine => Quiet(tail))
  BY NothingSent, OneSent DEF EventTypes
<1>2. events[t] \in Seq(EventTypes)
  BY DEF TurnShape
<1>3. events[t] \o evs \in Seq(EventTypes) /\ Quiet(events[t] \o evs)
  BY <1>2, QuietThenQuiet
<1>4. turn' = [turn EXCEPT ![t] = x] /\ events' = [events EXCEPT ![t] = e]
  BY DEF FinishTurn
<1> HIDE DEF x, tail
<1>5. e \in Seq(EventTypes) /\ EndsOnce(e) /\ (changed.refine => Quiet(e))
  BY <1>1, <1>3, QuietThenQuiet, QuietThenEnd
<1> HIDE DEF e
<1>6. /\ TurnShape' /\ turn'[t] = x /\ events'[t] = e
      /\ \A u \in Turns \ {t} : turn'[u] = turn[u] /\ events'[u] = events[u]
  BY <1>0, <1>4, <1>5, Moved
<1>7. Telling(t)'
  BY <1>0, <1>5, <1>6 DEF Telling, Busy
<1> QED BY <1>0, <1>6, <1>7

\* No session comes or goes.
TitlesKeep == \A r \in Sessions : (Live(r)' <=> Live(r)) /\ (title'[r].source = "fresh" => title[r].source = "fresh")

\* A step that writes no message and takes none.
LEMMA NoRows ==
  ASSUME ChatInv, NEW t, stored' = stored, lastId' = lastId, memory' = memory, TitleShape', TitlesKeep, FallbackStays
  PROVE  RowsKept(t)
<1>0. RowsShape /\ TitleShape /\ MemoryInv /\ RowsLive /\ ContextRecent
  BY DEF ChatInv
<1>1. RowsShape'
  BY <1>0 DEF RowsShape
<1>2. \A r \in Sessions : MessagesOf(r)' = MessagesOf(r)
  BY DEF MessagesOf
<1>3. \A r \in Sessions : Live(r)' <=> Live(r)
  BY DEF TitlesKeep
<1>4. MemoryInv'
  <2>1. SUFFICES ASSUME NEW r \in Sessions PROVE MemoryOK(r)'
    BY DEF MemoryInv
  <2>2. MemoryOK(r)
    BY <1>0 DEF MemoryInv
  <2> QED BY <1>2, <1>3, <2>2 DEF MemoryOK
<1>5. RowsLive'
  <2>1. \A m \in stored : m.sid \in Sessions
    BY <1>0 DEF RowsShape, RowSet
  <2> QED BY <1>0, <1>3, <2>1 DEF RowsLive, Live
<1>6. ContextRecent'
  <2>1. SUFFICES ASSUME NEW r \in Sessions, memory[r].cached, \A u \in Turns : turn'[u].sid = r => ~turn'[u].fallback
                 PROVE  memory[r].messages = Newest(Window, MessagesOf(r))
    BY DEF ContextRecent, MessagesOf
  <2>2. \A u \in Turns : turn[u].sid = r => ~turn[u].fallback
    BY <2>1 DEF FallbackStays
  <2> QED BY <1>0, <2>1, <2>2 DEF ContextRecent
<1>7. SessionsStay /\ MemoryStays
  BY <1>3 DEF SessionsStay, MemoryStays, TitlesKeep
<1> QED BY <1>1, <1>4, <1>5, <1>6, <1>7 DEF RowsKept

LEMMA SameTitles ==
  ASSUME TitleShape, title' = title
  PROVE  TitlesKeep /\ TitleShape'
BY DEF TitleShape, TitlesKeep, Live

LEMMA SameEvents ==
  ASSUME TurnShape, NEW t \in Turns, events' = events
  PROVE  events' = [events EXCEPT ![t] = events[t]] /\ events[t] \in Seq(EventTypes)
BY DEF TurnShape

LEMMA SameReports ==
  ASSUME ChatInv, artifacts' = artifacts
  PROVE  /\ artifacts' \subseteq ReportShape
         /\ TitlesKeep => \A r \in artifacts' : (r \in artifacts /\ Live(r.sid)') \/ ReportOK(r)'
BY DEF ChatInv, TurnShape, ReportShape, ReportsInv, ReportOK, TitlesKeep

LEMMA FallbackKept ==
  ASSUME NEW t \in Turns, turn'[t].sid = turn[t].sid, turn[t].fallback => turn'[t].fallback,
         \A u \in Turns \ {t} : turn'[u] = turn[u]
  PROVE  FallbackStays
BY DEF FallbackStays

\* The facts about a turn under way that its steps start from.
LEMMA TurnFacts ==
  ASSUME ChatInv, NEW t \in Turns
  PROVE  /\ TurnShape /\ TitleShape /\ turn[t] \in TurnSet /\ events[t] \in Seq(EventTypes)
         /\ TurnInv(t) /\ OwnTools(t)
         /\ turn[t].pc \in Busy => turn[t].sid \in Sessions /\ Quiet(events[t])
BY DEF ChatInv, TurnShape, TurnInv, Place, Telling, Busy

LEMMA MemoryFinite ==
  ASSUME RowsShape, MemoryInv, NEW s \in Sessions
  PROVE  /\ memory[s].messages \subseteq RowSet /\ IsFiniteSet(memory[s].messages)
         /\ Cardinality(memory[s].messages) \in Nat
         /\ \A m \in memory[s].messages : m \in stored /\ m.sid = s /\ m.id \in Nat /\ m.id <= lastId
<1>1. memory[s].messages \subseteq stored /\ \A m \in memory[s].messages : m.sid = s
  BY DEF MemoryInv, MemoryOK, MessagesOf
<1>2. IsFiniteSet(memory[s].messages)
  BY <1>1, FS_Subset DEF RowsShape
<1>3. \A m \in memory[s].messages : m.id \in Nat /\ m.id <= lastId
  BY <1>1 DEF RowsShape
<1> QED BY <1>1, <1>2, <1>3, FS_CardinalityType DEF RowsShape

LEMMA MemoryFiniteNext ==
  ASSUME RowsShape', MemoryInv', NEW s \in Sessions
  PROVE  /\ memory'[s].messages \subseteq RowSet /\ IsFiniteSet(memory'[s].messages)
         /\ Numbered(memory'[s].messages)
         /\ \A m \in memory'[s].messages : m \in stored' /\ m.sid = s
<1>1. memory'[s].messages \subseteq stored' /\ \A m \in memory'[s].messages : m.sid = s
  BY DEF MemoryInv, MemoryOK, MessagesOf
<1>2. IsFiniteSet(memory'[s].messages)
  BY <1>1, FS_Subset DEF RowsShape
<1>3. \A m \in memory'[s].messages : m.id \in Nat
  BY <1>1 DEF RowsShape
<1> QED BY <1>1, <1>2, <1>3 DEF RowsShape, Numbered

LEMMA OwnLaterFinite ==
  ASSUME NEW t, NEW m, NEW S, IsFiniteSet(S)
  PROVE  /\ OwnLater(t, m, S) \subseteq S /\ IsFiniteSet(OwnLater(t, m, S))
         /\ Cardinality(OwnLater(t, m, S)) \in Nat
<1>1. OwnLater(t, m, S) \subseteq S
  BY DEF OwnLater
<1> QED BY <1>1, FS_Subset, FS_CardinalityType

\* A plan that has finished no step has no tool message to find.
LEMMA NoStepYet ==
  ASSUME NEW t \in Turns, RowsShape', MemoryInv', turn'[t].done = 0, turn'[t].sid \in Sessions
  PROVE  OwnTools(t)'
<1>1. IsFiniteSet(memory'[turn'[t].sid].messages)
  BY MemoryFiniteNext
<1>2. ASSUME NEW m PROVE 0 <= Cardinality(OwnLater(t, m, memory'[turn'[t].sid].messages))
  <2>1. Cardinality(OwnLater(t, m, memory'[turn'[t].sid].messages)) \in Nat
    BY <1>1, OwnLaterFinite
  <2> QED BY <2>1
<1> QED BY <1>2 DEF OwnTools, OwnLater

LEMMA Decided ==
  ASSUME ChatInv, NEW t \in Turns, turn[t].pc = "planning", NEW x \in TurnSet,
         x.pc \in {"chat", "gold", "react", "steps"}, x.pc = "steps" => x.mode = "plan",
         x.sid = turn[t].sid, x.alone = turn[t].alone, x.done = turn[t].done, x.said = turn[t].said,
         x.fallback = turn[t].fallback, x.results = turn[t].results,
         turn' = [turn EXCEPT ![t] = x], title' = title, artifacts' = artifacts, events' = events,
         (stored' = stored /\ lastId' = lastId /\ memory' = memory) \/ Add(t, <<"system">>)
  PROVE  ChatInv'
<1>1. /\ TurnShape /\ TitleShape /\ turn[t] \in TurnSet /\ events[t] \in Seq(EventTypes)
      /\ TurnInv(t) /\ turn[t].sid \in Sessions /\ Quiet(events[t]) /\ turn[t].pc \in Busy
  BY TurnFacts DEF Busy
<1>2. turn[t].done = 0 /\ turn[t].said = {}
  BY <1>1 DEF TurnInv, Counting
<1>3. artifacts' \subseteq ReportShape
  BY SameReports
<1>4. /\ TurnShape' /\ turn'[t] = x /\ events'[t] = events[t]
      /\ \A u \in Turns \ {t} : turn'[u] = turn[u] /\ events'[u] = events[u]
  BY <1>1, <1>3, SameEvents, Moved
<1>5. FallbackStays
  BY <1>4, FallbackKept
<1>6. TitlesKeep /\ TitleShape'
  BY <1>1, SameTitles
<1>7. RowsKept(t)
  <2>1. CASE stored' = stored /\ lastId' = lastId /\ memory' = memory
    BY <1>5, <1>6, <2>1, NoRows
  <2>2. CASE Add(t, <<"system">>)
    <3>1. <<"system">> \in Seq(Roles)
      BY DEF Roles
    <3> QED BY <1>1, <1>5, <2>2, <3>1, AddStep
  <2> QED BY <2>1, <2>2
<1>8. Telling(t)'
  BY <1>1, <1>4, QuietEnds DEF Telling
<1>9. Counting(t)' /\ Answered(t)'
  BY <1>2, <1>4 DEF Counting, Answered
<1>10. SaidKept(t)'
  BY <1>2, <1>4 DEF SaidKept
<1>11. ResultsOwn(t)'
  BY <1>1, <1>4 DEF TurnInv, ResultsOwn
<1>12. OwnTools(t)'
  <2>1. /\ RowsShape' /\ MemoryInv' /\ turn'[t].done = 0 /\ turn'[t].sid \in Sessions
    BY <1>1, <1>2, <1>4, <1>7 DEF RowsKept
  <2> QED BY <2>1, NoStepYet
<1>13. \A r \in artifacts' : (r \in artifacts /\ Live(r.sid)') \/ ReportOK(r)'
  BY <1>6, SameReports
<1> QED BY <1>1, <1>4, <1>7, <1>8, <1>9, <1>10, <1>11, <1>12, <1>13, OneTurn

LEMMA DecideKeeps ==
  ASSUME ChatInv, NEW t \in Turns, Decide(t)
  PROVE  ChatInv'
<1>0. turn[t].pc = "planning" /\ title' = title /\ artifacts' = artifacts /\ events' = events
  BY DEF Decide, Is
<1>1. turn[t] \in TurnSet /\ turn[t].sid \in Sessions /\ RowsShape /\ MemoryInv
  BY <1>0, TurnFacts DEF Busy, ChatInv
<1>2. Cardinality(memory[turn[t].sid].messages) \in Nat
  BY <1>1, MemoryFinite
<1>3. ASSUME NEW m \in {"chat", "gold"}, turn' = [turn EXCEPT ![t] = [@ EXCEPT !.pc = m, !.mode = m]],
             UNCHANGED <<stored, lastId, memory>>
      PROVE  ChatInv'
  <2>1. PICK x : x = [turn[t] EXCEPT !.pc = m, !.mode = m]
    OBVIOUS
  <2>2. /\ x \in TurnSet /\ x.pc = m
        /\ x.sid = turn[t].sid /\ x.alone = turn[t].alone /\ x.done = turn[t].done /\ x.said = turn[t].said
        /\ x.fallback = turn[t].fallback /\ x.results = turn[t].results
    BY <1>1, <2>1 DEF TurnSet, Busy
  <2> QED BY <1>0, <1>3, <2>1, <2>2, Decided
<1>4. ASSUME turn' = [turn EXCEPT ![t] = [@ EXCEPT !.pc = "react", !.mode = "agent",
                                              !.snapshot = Cardinality(memory[turn[t].sid].messages)]],
             UNCHANGED <<stored, lastId, memory>>
      PROVE  ChatInv'
  <2>1. PICK x : x = [turn[t] EXCEPT !.pc = "react", !.mode = "agent",
                                     !.snapshot = Cardinality(memory[turn[t].sid].messages)]
    OBVIOUS
  <2>2. /\ x \in TurnSet /\ x.pc = "react"
        /\ x.sid = turn[t].sid /\ x.alone = turn[t].alone /\ x.done = turn[t].done /\ x.said = turn[t].said
        /\ x.fallback = turn[t].fallback /\ x.results = turn[t].results
    BY <1>1, <1>2, <2>1 DEF TurnSet, Busy
  <2> QED BY <1>0, <1>4, <2>1, <2>2, Decided
<1>5. ASSUME turn' = [turn EXCEPT ![t] = [@ EXCEPT !.pc = "steps", !.mode = "plan"]],
             Add(t, <<"system">>)
      PROVE  ChatInv'
  <2>1. PICK x : x = [turn[t] EXCEPT !.pc = "steps", !.mode = "plan"]
    OBVIOUS
  <2>2. /\ x \in TurnSet /\ x.pc = "steps" /\ x.mode = "plan"
        /\ x.sid = turn[t].sid /\ x.alone = turn[t].alone /\ x.done = turn[t].done /\ x.said = turn[t].said
        /\ x.fallback = turn[t].fallback /\ x.results = turn[t].results
    BY <1>1, <2>1 DEF TurnSet, Busy
  <2> QED BY <1>0, <1>5, <2>1, <2>2, Decided
<1> QED BY <1>3, <1>4, <1>5 DEF Decide

\* What is saved as a report is a message of the turn in the store, and the turn has
\* begun: the report is as it should be.
LEMMA SavedShape ==
  ASSUME TurnShape, NEW t \in Turns, turn[t].sid \in Sessions, NEW ms, ms \subseteq RowSet, SaveReports(t, ms)
  PROVE  artifacts' \subseteq ReportShape
BY DEF SaveReports, TurnShape, ReportShape, RowSet

LEMMA SavedReports ==
  ASSUME ChatInv, NEW t \in Turns, turn[t].sid \in Sessions, title' = title,
         turn'[t].pc # "new", turn'[t].alone = turn[t].alone,
         NEW ms, SaveReports(t, ms),
         memory[turn[t].sid].active =>
           \A m \in ms : m \in stored' /\ m.sid = turn[t].sid /\ (turn[t].alone => m.turn = t)
  PROVE  \A r \in artifacts' : (r \in artifacts /\ Live(r.sid)') \/ ReportOK(r)'
<1>1. SUFFICES ASSUME NEW r \in artifacts' PROVE (r \in artifacts /\ Live(r.sid)') \/ ReportOK(r)'
  OBVIOUS
<1>2. CASE r \in artifacts
  BY <1>2 DEF ChatInv, ReportsInv, ReportOK, Live
<1>3. CASE r \notin artifacts
  <2>1. PICK m \in ms : /\ memory[turn[t].sid].active
                        /\ r = [sid |-> turn[t].sid, mid |-> m.id, turn |-> t]
    BY <1>3 DEF SaveReports
  <2>2. r.sid = turn[t].sid /\ r.mid = m.id /\ r.turn = t
    BY <2>1
  <2>3. Live(turn[t].sid)
    BY <2>1 DEF ChatInv, MemoryInv, MemoryOK
  <2> QED BY <2>1, <2>2, <2>3 DEF ReportOK, Live
<1> QED BY <1>2, <1>3

\* The answer is among the messages the step wrote, if the session is still there.
LEMMA AnswerWritten ==
  ASSUME NEW t \in Turns, TurnInv(t), turn[t].pc \in Busy, title' = title, NEW roles, NEW New,
         Wrote(memory[turn[t].sid], t, turn[t].sid, roles, New), turn'[t].sid = turn[t].sid,
         NEW i \in 1..Len(roles), roles[i] = "assistant"
  PROVE  Answered(t)'
<1>1. SUFFICES ASSUME Live(turn[t].sid)' PROVE AnswerOf(t)' # {}
  BY DEF Answered, Live
<1>2. memory[turn[t].sid].active
  BY <1>1 DEF TurnInv, Place, Live
<1>3. PICK m \in New : m.role = "assistant"
  BY <1>2 DEF Wrote
<1>4. m \in stored' /\ m.sid = turn[t].sid /\ m.turn = t
  BY DEF Wrote
<1> QED BY <1>3, <1>4 DEF AnswerOf

LEMMA ChatAnswerKeeps ==
  ASSUME ChatInv, NEW t \in Turns, ChatAnswer(t)
  PROVE  ChatInv'
<1>0. /\ Add(t, <<"assistant">>) /\ FinishTurn(t, turn[t], <<"text">>) /\ title' = title /\ artifacts' = artifacts
      /\ turn[t].pc = "chat" /\ turn[t].pc \in Busy
  BY DEF ChatAnswer, Is, Busy
<1>1. /\ TurnShape /\ TitleShape /\ turn[t] \in TurnSet /\ events[t] \in Seq(EventTypes)
      /\ TurnInv(t) /\ turn[t].sid \in Sessions /\ Quiet(events[t])
  BY <1>0, TurnFacts
<1>2. <<"text">> \in Seq(EventTypes) /\ Quiet(<<"text">>) /\ <<"assistant">> \in Seq(Roles)
  BY OneSent DEF EventTypes, Roles
<1>3. artifacts' \subseteq ReportShape
  BY SameReports, <1>0
<1>4. /\ TurnShape' /\ Telling(t)'
      /\ turn'[t].pc \in {"titling", "ended"}
      /\ turn'[t].sid = turn[t].sid /\ turn'[t].alone = turn[t].alone
      /\ turn'[t].fallback = turn[t].fallback /\ turn'[t].results = turn[t].results
      /\ \A u \in Turns \ {t} : turn'[u] = turn[u] /\ events'[u] = events[u]
  BY <1>0, <1>1, <1>2, <1>3, Finishes
<1>5. FallbackStays
  BY <1>4, FallbackKept
<1>6. /\ Wrote(memory[turn[t].sid], t, turn[t].sid, <<"assistant">>, Added(t, <<"assistant">>))
      /\ RowsKept(t)
  BY <1>0, <1>2, <1>5, AddStep
<1>7. Answered(t)'
  <2>1. 1 \in 1..Len(<<"assistant">>) /\ <<"assistant">>[1] = "assistant"
    OBVIOUS
  <2> QED BY <1>0, <1>1, <1>4, <1>6, <2>1, AnswerWritten
<1>8. Counting(t)' /\ SaidKept(t)' /\ OwnTools(t)'
  BY <1>4 DEF Counting, SaidKept, OwnTools
<1>9. ResultsOwn(t)'
  BY <1>1, <1>4 DEF TurnInv, ResultsOwn
<1>10. \A r \in artifacts' : (r \in artifacts /\ Live(r.sid)') \/ ReportOK(r)'
  BY <1>0, <1>1, SameTitles, SameReports
<1> QED BY <1>0, <1>4, <1>6, <1>7, <1>8, <1>9, <1>10, OneTurn

LEMMA GoldEvents ==
  /\ <<"text", "artifact", "done">> \in Seq(EventTypes)
  /\ EndsOnce(<<"text", "artifact", "done">>)
BY DEF EventTypes, EndsOnce

LEMMA GoldAnswerKeeps ==
  ASSUME ChatInv, NEW t \in Turns, GoldAnswer(t)
  PROVE  ChatInv'
<1>0. /\ Add(t, <<"assistant">>) /\ SaveReports(t, Added(t, <<"assistant">>)) /\ title' = title
      /\ turn[t].pc = "gold" /\ turn[t].pc \in Busy
      /\ turn' = [turn EXCEPT ![t].pc = "ended"]
      /\ events' = [events EXCEPT ![t] = @ \o <<"text", "artifact", "done">>]
  BY DEF GoldAnswer, Is, Busy
<1>1. /\ TurnShape /\ TitleShape /\ turn[t] \in TurnSet /\ events[t] \in Seq(EventTypes)
      /\ TurnInv(t) /\ turn[t].sid \in Sessions /\ Quiet(events[t])
  BY <1>0, TurnFacts
<1>2. RowsShape /\ <<"assistant">> \in Seq(Roles)
  BY DEF ChatInv, Roles
<1>3. FallbackStays
  BY <1>0, <1>1 DEF FallbackStays, TurnShape, TurnSet
<1>4. /\ Wrote(memory[turn[t].sid], t, turn[t].sid, <<"assistant">>, Added(t, <<"assistant">>))
      /\ RowsKept(t)
  BY <1>0, <1>2, <1>3, AddStep
<1>5. \A m \in Added(t, <<"assistant">>) : m \in stored' /\ m.sid = turn[t].sid /\ m.turn = t /\ m \in RowSet
  <2> DEFINE New == Added(t, <<"assistant">>)
  <2>1. Wrote(memory[turn[t].sid], t, turn[t].sid, <<"assistant">>, New)
    BY <1>4
  <2> HIDE DEF New
  <2>2. \A m \in New : m \in stored' /\ m.sid = turn[t].sid /\ m.turn = t /\ m \in RowSet
    BY <2>1 DEF Wrote
  <2> QED BY <2>2 DEF New
<1>6. artifacts' \subseteq ReportShape
  BY <1>0, <1>1, <1>5, SavedShape
<1>7. PICK x : x = [turn[t] EXCEPT !.pc = "ended"]
  OBVIOUS
<1>8. x \in TurnSet /\ x.pc = "ended" /\ x.sid = turn[t].sid /\ x.alone = turn[t].alone /\ x.results = turn[t].results
  BY <1>1, <1>7 DEF TurnSet
<1>9. PICK e : e = events[t] \o <<"text", "artifact", "done">>
  OBVIOUS
<1>10. e \in Seq(EventTypes) /\ EndsOnce(e)
  BY <1>1, <1>9, GoldEvents, QuietThenEnd
<1>11. /\ TurnShape' /\ turn'[t] = x /\ events'[t] = e
       /\ \A u \in Turns \ {t} : turn'[u] = turn[u] /\ events'[u] = events[u]
  <2>1. turn' = [turn EXCEPT ![t] = x] /\ events' = [events EXCEPT ![t] = e]
    BY <1>0, <1>7, <1>9
  <2> QED BY <1>1, <1>6, <1>8, <1>10, <2>1, Moved
<1>12. Answered(t)'
  <2>1. 1 \in 1..Len(<<"assistant">>) /\ <<"assistant">>[1] = "assistant"
    OBVIOUS
  <2>2. turn'[t].sid = turn[t].sid
    BY <1>8, <1>11
  <2> QED BY <1>0, <1>1, <1>4, <2>1, <2>2, AnswerWritten
<1>13. Telling(t)'
  BY <1>8, <1>10, <1>11 DEF Telling, Busy
<1>14. Counting(t)' /\ SaidKept(t)' /\ OwnTools(t)'
  BY <1>8, <1>11 DEF Counting, SaidKept, OwnTools
<1>15. ResultsOwn(t)'
  BY <1>1, <1>8, <1>11 DEF TurnInv, ResultsOwn
<1>16. \A r \in artifacts' : (r \in artifacts /\ Live(r.sid)') \/ ReportOK(r)'
  BY <1>0, <1>1, <1>5, <1>8, <1>11, SavedReports
<1> QED BY <1>0, <1>4, <1>8, <1>11, <1>12, <1>13, <1>14, <1>15, <1>16, OneTurn

LEMMA ReportedQuiet ==
  ASSUME NEW ms, NEW e \in {"text", "result"}
  PROVE  <<e>> \o Reported(ms) \in Seq(EventTypes) /\ Quiet(<<e>> \o Reported(ms))
<1>1. <<e>> \in Seq(EventTypes) /\ Quiet(<<e>>)
  BY OneSent DEF EventTypes
<1>2. <<"artifact">> \in Seq(EventTypes) /\ Quiet(<<"artifact">>)
  BY OneSent DEF EventTypes
<1>3. Reported(ms) \in Seq(EventTypes) /\ Quiet(Reported(ms))
  BY <1>2, NothingSent DEF Reported
<1> QED BY <1>1, <1>3, QuietThenQuiet

LEMMA AgentAnswerKeeps ==
  ASSUME ChatInv, NEW t \in Turns, AgentAnswer(t)
  PROVE  ChatInv'
<1>0. /\ Add(t, <<"assistant">>) /\ SaveReports(t, turn[t].said) /\ title' = title
      /\ turn[t].pc = "react" /\ turn[t].pc \in Busy
      /\ FinishTurn(t, turn[t], <<"text">> \o Reported(turn[t].said))
  BY DEF AgentAnswer, Is, Busy
<1>1. /\ TurnShape /\ TitleShape /\ turn[t] \in TurnSet /\ events[t] \in Seq(EventTypes)
      /\ TurnInv(t) /\ turn[t].sid \in Sessions /\ Quiet(events[t])
  BY <1>0, TurnFacts
<1>2. /\ <<"text">> \o Reported(turn[t].said) \in Seq(EventTypes)
      /\ Quiet(<<"text">> \o Reported(turn[t].said)) /\ <<"assistant">> \in Seq(Roles)
  BY ReportedQuiet DEF Roles
<1>3. artifacts' \subseteq ReportShape
  BY <1>0, <1>1, SavedShape DEF TurnSet
<1>4. /\ TurnShape' /\ Telling(t)'
      /\ turn'[t].pc \in {"titling", "ended"}
      /\ turn'[t].sid = turn[t].sid /\ turn'[t].alone = turn[t].alone
      /\ turn'[t].fallback = turn[t].fallback /\ turn'[t].results = turn[t].results
      /\ \A u \in Turns \ {t} : turn'[u] = turn[u] /\ events'[u] = events[u]
  BY <1>0, <1>1, <1>2, <1>3, Finishes
<1>5. FallbackStays
  BY <1>4, FallbackKept
<1>6. /\ Wrote(memory[turn[t].sid], t, turn[t].sid, <<"assistant">>, Added(t, <<"assistant">>))
      /\ RowsKept(t)
  BY <1>0, <1>2, <1>5, AddStep
<1>7. Answered(t)'
  <2>1. 1 \in 1..Len(<<"assistant">>) /\ <<"assistant">>[1] = "assistant"
    OBVIOUS
  <2> QED BY <1>0, <1>1, <1>4, <1>6, <2>1, AnswerWritten
<1>8. Counting(t)' /\ SaidKept(t)' /\ OwnTools(t)'
  BY <1>4 DEF Counting, SaidKept, OwnTools
<1>9. ResultsOwn(t)'
  BY <1>1, <1>4 DEF TurnInv, ResultsOwn
<1>10. \A r \in artifacts' : (r \in artifacts /\ Live(r.sid)') \/ ReportOK(r)'
  <2>1. \A m \in stored : m \in stored'
    BY <1>6 DEF Wrote
  <2>2. memory[turn[t].sid].active =>
          \A m \in turn[t].said : m \in stored' /\ m.sid = turn[t].sid /\ (turn[t].alone => m.turn = t)
    BY <1>0, <1>1, <2>1 DEF TurnInv, SaidKept
  <2>3. turn'[t].pc # "new"
    BY <1>4
  <2> QED BY <1>0, <1>1, <1>4, <2>2, <2>3, SavedReports
<1> QED BY <1>0, <1>4, <1>6, <1>7, <1>8, <1>9, <1>10, OneTurn

-----------------------------------------------------------------------------
(* The steps of a plan and the tool calls of a loop.                       *)

LEMMA ToolEndKeeps ==
  ASSUME ChatInv, NEW t \in Turns, ToolEnd(t)
  PROVE  ChatInv'
<1>0. /\ Add(t, <<"tool">>) /\ title' = title /\ artifacts' = artifacts /\ events' = events
      /\ turn[t].pc = "react" /\ turn[t].pc \in Busy
  BY DEF ToolEnd, Is, Busy
<1>1. /\ TurnShape /\ TitleShape /\ turn[t] \in TurnSet /\ events[t] \in Seq(EventTypes)
      /\ TurnInv(t) /\ turn[t].sid \in Sessions /\ Quiet(events[t])
  BY <1>0, TurnFacts
<1>2. <<"tool">> \in Seq(Roles)
  BY DEF Roles
<1> DEFINE New == Added(t, <<"tool">>)
<1>3. PICK said \in {{}, New} :
        turn' = [turn EXCEPT ![t].calls = @ + 1, ![t].said = @ \cup said]
  BY DEF ToolEnd
<1>4. PICK x : x = [turn[t] EXCEPT !.calls = turn[t].calls + 1, !.said = turn[t].said \cup said]
  OBVIOUS
<1>5. FallbackStays
  BY <1>1, <1>3 DEF FallbackStays, TurnShape, TurnSet
<1>6. Wrote(memory[turn[t].sid], t, turn[t].sid, <<"tool">>, New) /\ RowsKept(t)
  BY <1>0, <1>2, <1>5, AddStep
<1> HIDE DEF New
<1>7. /\ \A m \in New : m \in stored' /\ m.sid = turn[t].sid /\ m.turn = t /\ m \in RowSet
      /\ \A m \in stored : m \in stored'
      /\ memory'[turn[t].sid].active = memory[turn[t].sid].active
  BY <1>6 DEF Wrote
<1>8. /\ x \in TurnSet /\ x.pc = "react" /\ x.sid = turn[t].sid /\ x.alone = turn[t].alone
      /\ x.results = turn[t].results /\ x.done = turn[t].done /\ x.said = turn[t].said \cup said
  <2>1. PICK said1 : said1 = turn[t].said \cup said
    OBVIOUS
  <2>2. said1 \in SUBSET RowSet
    BY <1>1, <1>7, <2>1 DEF TurnSet
  <2>3. PICK calls1 \in Nat : calls1 = turn[t].calls + 1
    BY <1>1 DEF TurnSet
  <2>4. x = [turn[t] EXCEPT !.calls = calls1, !.said = said1]
    BY <1>4, <2>1, <2>3
  <2> QED BY <1>0, <1>1, <2>1, <2>2, <2>4 DEF TurnSet
<1>9. /\ TurnShape' /\ turn'[t] = x /\ events'[t] = events[t]
      /\ \A u \in Turns \ {t} : turn'[u] = turn[u] /\ events'[u] = events[u]
  <2>1. turn' = [turn EXCEPT ![t] = x]
    BY <1>3, <1>4
  <2>2. artifacts' \subseteq ReportShape
    BY <1>0, SameReports
  <2> QED BY <1>0, <1>1, <1>8, <2>1, <2>2, SameEvents, Moved
<1>10. Telling(t)'
  BY <1>1, <1>9, QuietEnds DEF Telling
<1>11. Counting(t)' /\ Answered(t)' /\ OwnTools(t)'
  BY <1>0, <1>1, <1>8, <1>9 DEF TurnInv, Counting, Answered, OwnTools
<1>12. SaidKept(t)'
  <2>1. memory[turn[t].sid].active =>
          \A m \in turn[t].said : m \in stored' /\ m.turn = t /\ m.sid = turn[t].sid
    BY <1>0, <1>1, <1>7 DEF TurnInv, SaidKept
  <2> QED BY <1>7, <1>8, <1>9, <2>1 DEF SaidKept
<1>13. ResultsOwn(t)'
  BY <1>1, <1>8, <1>9 DEF TurnInv, ResultsOwn
<1>14. \A r \in artifacts' : (r \in artifacts /\ Live(r.sid)') \/ ReportOK(r)'
  BY <1>0, <1>1, SameTitles, SameReports
<1> QED BY <1>0, <1>6, <1>8, <1>9, <1>10, <1>11, <1>12, <1>13, <1>14, OneTurn

LEMMA AgentFailKeeps ==
  ASSUME ChatInv, NEW t \in Turns, AgentFail(t)
  PROVE  ChatInv'
<1>0. /\ AddTo(CutBack(t), t, turn[t].sid, <<"system">>)
      /\ title' = title /\ artifacts' = artifacts /\ events' = events
      /\ turn[t].pc = "react" /\ turn[t].pc \in Busy
      /\ turn' = [turn EXCEPT ![t] = [@ EXCEPT !.pc = "steps", !.fallback = TRUE]]
  BY DEF AgentFail, Is, Busy
<1>1. /\ TurnShape /\ TitleShape /\ turn[t] \in TurnSet /\ events[t] \in Seq(EventTypes)
      /\ TurnInv(t) /\ turn[t].sid \in Sessions /\ Quiet(events[t])
  BY <1>0, TurnFacts
<1>2. PICK x : x = [turn[t] EXCEPT !.pc = "steps", !.fallback = TRUE]
  OBVIOUS
<1>3. /\ x \in TurnSet /\ x.pc = "steps" /\ x.fallback /\ x.sid = turn[t].sid /\ x.alone = turn[t].alone
      /\ x.results = turn[t].results /\ x.done = turn[t].done
  BY <1>1, <1>2 DEF TurnSet, Busy
<1>4. /\ TurnShape' /\ turn'[t] = x /\ events'[t] = events[t]
      /\ \A u \in Turns \ {t} : turn'[u] = turn[u] /\ events'[u] = events[u]
  <2>1. turn' = [turn EXCEPT ![t] = x]
    BY <1>0, <1>2
  <2>2. artifacts' \subseteq ReportShape
    BY <1>0, SameReports
  <2> QED BY <1>0, <1>1, <1>3, <2>1, <2>2, SameEvents, Moved
<1>5. FallbackStays
  BY <1>3, <1>4, FallbackKept
<1>6. RowsKept(t)
  <2>1. memory[turn[t].sid] \in MemorySet
    BY <1>1 DEF ChatInv, RowsShape
  <2>2. PICK mem : mem = CutBack(t)
    OBVIOUS
  <2>3. /\ mem.cached = memory[turn[t].sid].cached /\ mem.active = memory[turn[t].sid].active
        /\ mem.messages = Oldest(turn[t].snapshot, memory[turn[t].sid].messages)
    BY <2>1, <2>2 DEF CutBack, MemorySet
  <2>4. mem.messages \subseteq memory[turn[t].sid].messages
    BY <2>3 DEF Oldest
  <2>5. mem \in MemorySet
    <3>1. Oldest(turn[t].snapshot, memory[turn[t].sid].messages) \in SUBSET RowSet
      BY <2>1, <2>3, <2>4 DEF MemorySet
    <3> QED BY <2>1, <2>2, <3>1 DEF CutBack, MemorySet
  <2>6. <<"system">> \in Seq(Roles) /\ turn'[t].sid = turn[t].sid /\ turn'[t].fallback
    BY <1>3, <1>4 DEF Roles
  <2> QED BY <1>0, <1>5, <2>2, <2>3, <2>4, <2>5, <2>6, AddAfter
<1>7. Telling(t)'
  BY <1>1, <1>4, QuietEnds DEF Telling
<1>8. Counting(t)' /\ Answered(t)' /\ SaidKept(t)'
  BY <1>3, <1>4 DEF Counting, Answered, SaidKept
<1>9. OwnTools(t)'
  <2>1. RowsShape' /\ MemoryInv' /\ turn'[t].done = 0 /\ turn'[t].sid \in Sessions
    BY <1>0, <1>1, <1>3, <1>4, <1>6 DEF RowsKept, TurnInv, Counting
  <2> QED BY <2>1, NoStepYet
<1>10. ResultsOwn(t)'
  BY <1>1, <1>3, <1>4 DEF TurnInv, ResultsOwn
<1>11. \A r \in artifacts' : (r \in artifacts /\ Live(r.sid)') \/ ReportOK(r)'
  BY <1>0, <1>1, SameTitles, SameReports
<1> QED BY <1>0, <1>3, <1>4, <1>6, <1>7, <1>8, <1>9, <1>10, <1>11, OneTurn

\* A foreign message that is still in the memory is followed there by all of the turn's
\* own that were later, and by the new one.
LEMMA OwnLaterGrows ==
  ASSUME NEW S, IsFiniteSet(S), NEW New, IsFiniteSet(New), Numbered(S \cup New), NEW n \in Nat, NEW bound \in Nat,
         \A k \in S : k.id <= bound, NEW t, \A k \in New : k.turn = t /\ bound < k.id,
         NEW m \in Newest(n, S \cup New), m.turn # t
  PROVE  /\ m \in S
         /\ Cardinality(OwnLater(t, m, S)) <= Cardinality(OwnLater(t, m, Newest(n, S \cup New)))
         /\ \A x \in New : x.role = "tool" =>
              Cardinality(OwnLater(t, m, S)) + 1 <= Cardinality(OwnLater(t, m, Newest(n, S \cup New)))
<1> DEFINE Kept == Newest(n, S \cup New)
<1>1. /\ Kept \subseteq S \cup New /\ IsFiniteSet(Kept) /\ m \in Kept
      /\ \A k \in S \cup New : k.id > m.id => k \in Kept
  <2>1. IsFiniteSet(S \cup New)
    BY FS_Union
  <2> QED BY <2>1, NewestFacts
<1> HIDE DEF Kept
<1>2. m \in S
  BY <1>1
<1>3. OwnLater(t, m, S) \subseteq OwnLater(t, m, Kept)
  BY <1>1 DEF OwnLater
<1>4. /\ IsFiniteSet(OwnLater(t, m, Kept)) /\ Cardinality(OwnLater(t, m, Kept)) \in Nat
      /\ IsFiniteSet(OwnLater(t, m, S)) /\ Cardinality(OwnLater(t, m, S)) \in Nat
  BY <1>1, OwnLaterFinite
<1>5. Cardinality(OwnLater(t, m, S)) <= Cardinality(OwnLater(t, m, Kept))
  BY <1>3, <1>4, FS_Subset
<1>6. ASSUME NEW x \in New, x.role = "tool"
      PROVE  Cardinality(OwnLater(t, m, S)) + 1 <= Cardinality(OwnLater(t, m, Kept))
  <2>0. x.id \in Nat /\ m.id \in Nat /\ x.id > m.id /\ \A k \in S : k.id \in Nat
    BY <1>2 DEF Numbered
  <2>1. x \in OwnLater(t, m, Kept)
    BY <1>1, <1>6, <2>0 DEF OwnLater
  <2>2. x \notin S
    BY <2>0
  <2>3. x \notin OwnLater(t, m, S)
    BY <2>2 DEF OwnLater
  <2>4. /\ IsFiniteSet(OwnLater(t, m, S) \cup {x})
        /\ Cardinality(OwnLater(t, m, S) \cup {x}) = Cardinality(OwnLater(t, m, S)) + 1
    BY <1>4, <2>3, FS_AddElement, Zenon
  <2>5. OwnLater(t, m, S) \cup {x} \subseteq OwnLater(t, m, Kept)
    BY <1>3, <2>1
  <2>6. Cardinality(OwnLater(t, m, S) \cup {x}) <= Cardinality(OwnLater(t, m, Kept))
    BY <1>4, <2>5, FS_Subset
  <2> QED BY <1>4, <2>4, <2>6
<1> QED BY <1>2, <1>5, <1>6 DEF Kept

\* What a turn writes to the memory of its session, for the turns it shares it with.
LEMMA OwnAfterAdd ==
  ASSUME ChatInv, NEW t \in Turns, turn[t].sid \in Sessions, NEW roles, NEW New,
         Wrote(memory[turn[t].sid], t, turn[t].sid, roles, New), memory[turn[t].sid].active,
         NEW m \in memory'[turn[t].sid].messages, m.turn # t
  PROVE  /\ m \in memory[turn[t].sid].messages
         /\ Cardinality(OwnLater(t, m, memory[turn[t].sid].messages))
              <= Cardinality(OwnLater(t, m, memory'[turn[t].sid].messages))
         /\ \A x \in New : x.role = "tool" =>
              Cardinality(OwnLater(t, m, memory[turn[t].sid].messages)) + 1
                <= Cardinality(OwnLater(t, m, memory'[turn[t].sid].messages))
<1>1. PICK S : S = memory[turn[t].sid].messages
  OBVIOUS
<1>2. IsFiniteSet(S) /\ \A k \in S : k.id \in Nat /\ k.id <= lastId
  BY <1>1, MemoryFinite DEF ChatInv
<1>3. /\ memory'[turn[t].sid].messages = Newest(Window, S \cup New) /\ Numbered(S \cup New)
      /\ IsFiniteSet(New) /\ \A k \in New : k.turn = t /\ lastId < k.id
  BY <1>1 DEF Wrote
<1>4. lastId \in Nat /\ Window \in Nat
  BY ChatAssumption DEF ChatInv, RowsShape
<1> QED BY <1>1, <1>2, <1>3, <1>4, OwnLaterGrows

LEMMA StepRan ==
  ASSUME ChatInv, NEW t \in Turns, turn[t].pc = "steps", NEW roles \in Seq(Roles), NEW x \in TurnSet,
         Add(t, roles), turn' = [turn EXCEPT ![t] = x], title' = title, artifacts' = artifacts, events' = events,
         x.pc = "steps", x.sid = turn[t].sid, x.alone = turn[t].alone, x.mode = turn[t].mode,
         x.fallback = turn[t].fallback, x.results = turn[t].results,
         \/ x.done = turn[t].done
         \/ x.done = turn[t].done + 1 /\ 2 \in 1..Len(roles) /\ roles[2] = "tool"
  PROVE  ChatInv'
<1>1. /\ TurnShape /\ TitleShape /\ turn[t] \in TurnSet /\ events[t] \in Seq(EventTypes) /\ turn[t].pc \in Busy
      /\ TurnInv(t) /\ OwnTools(t) /\ turn[t].sid \in Sessions /\ Quiet(events[t])
  BY TurnFacts DEF Busy
<1>3. /\ TurnShape' /\ turn'[t] = x /\ events'[t] = events[t]
      /\ \A u \in Turns \ {t} : turn'[u] = turn[u] /\ events'[u] = events[u]
  <2>1. artifacts' \subseteq ReportShape
    BY SameReports
  <2> QED BY <1>1, <2>1, SameEvents, Moved
<1>4. FallbackStays
  BY <1>3, FallbackKept
<1> DEFINE New == Added(t, roles)
<1>5. Wrote(memory[turn[t].sid], t, turn[t].sid, roles, New) /\ RowsKept(t)
  BY <1>1, <1>4, AddStep
<1> HIDE DEF New
<1>6. Telling(t)'
  BY <1>1, <1>3, QuietEnds DEF Telling
<1>7. Counting(t)' /\ Answered(t)' /\ SaidKept(t)'
  BY <1>1, <1>3 DEF TurnInv, Counting, Answered, SaidKept
<1>8. ResultsOwn(t)'
  BY <1>1, <1>3 DEF TurnInv, ResultsOwn
<1>9. OwnTools(t)'
  <2>1. SUFFICES ASSUME turn[t].alone, memory'[turn[t].sid].active,
                        NEW m \in memory'[turn[t].sid].messages, m.role = "tool", m.turn # t
                 PROVE  x.done <= Cardinality(OwnLater(t, m, memory'[turn[t].sid].messages))
    BY <1>3 DEF OwnTools, OwnLater
  <2>2. memory[turn[t].sid].active
    BY <1>5, <2>1 DEF Wrote
  <2>3. /\ m \in memory[turn[t].sid].messages
        /\ Cardinality(OwnLater(t, m, memory[turn[t].sid].messages))
             <= Cardinality(OwnLater(t, m, memory'[turn[t].sid].messages))
        /\ \A k \in New : k.role = "tool" =>
             Cardinality(OwnLater(t, m, memory[turn[t].sid].messages)) + 1
               <= Cardinality(OwnLater(t, m, memory'[turn[t].sid].messages))
    BY <1>1, <1>5, <2>1, <2>2, OwnAfterAdd
  <2>4. turn[t].done <= Cardinality(OwnLater(t, m, memory[turn[t].sid].messages))
    BY <1>1, <2>1, <2>2, <2>3 DEF OwnTools
  <2>5. /\ Cardinality(OwnLater(t, m, memory[turn[t].sid].messages)) \in Nat
        /\ Cardinality(OwnLater(t, m, memory'[turn[t].sid].messages)) \in Nat
        /\ turn[t].done \in Nat
    <3>1. IsFiniteSet(memory[turn[t].sid].messages)
      BY <1>1, MemoryFinite DEF ChatInv
    <3>2. IsFiniteSet(memory'[turn[t].sid].messages)
      BY <1>1, <1>5, MemoryFiniteNext DEF RowsKept
    <3> QED BY <1>1, <3>1, <3>2, OwnLaterFinite DEF TurnSet
  <2>6. CASE x.done = turn[t].done
    BY <2>3, <2>4, <2>5, <2>6
  <2>7. CASE x.done = turn[t].done + 1 /\ 2 \in 1..Len(roles) /\ roles[2] = "tool"
    <3>1. \E k \in New : k.role = "tool"
      BY <1>5, <2>2, <2>7 DEF Wrote
    <3> QED BY <2>3, <2>4, <2>5, <2>7, <3>1
  <2> QED BY <2>6, <2>7
<1>10. \A r \in artifacts' : (r \in artifacts /\ Live(r.sid)') \/ ReportOK(r)'
  BY <1>1, SameTitles, SameReports
<1> QED BY <1>1, <1>3, <1>5, <1>6, <1>7, <1>8, <1>9, <1>10, OneTurn

LEMMA StepEndKeeps ==
  ASSUME ChatInv, NEW t \in Turns, StepEnd(t)
  PROVE  ChatInv'
<1>0. title' = title /\ artifacts' = artifacts /\ events' = events /\ turn[t].pc = "steps"
  BY DEF StepEnd, Is
<1>1. turn[t] \in TurnSet
  BY TurnFacts
<1>2. ASSUME Add(t, <<"system", "tool">>), turn' = [turn EXCEPT ![t].ran = @ + 1, ![t].done = @ + 1]
      PROVE  ChatInv'
  <2>1. PICK x : x = [turn[t] EXCEPT !.ran = turn[t].ran + 1, !.done = turn[t].done + 1]
    OBVIOUS
  <2>2. x \in TurnSet /\ x.done = turn[t].done + 1
    <3>1. turn[t].ran + 1 \in Nat /\ turn[t].done + 1 \in Nat
      BY <1>1 DEF TurnSet
    <3>2. PICK ran1 : ran1 = turn[t].ran + 1
      OBVIOUS
    <3>3. PICK done1 : done1 = turn[t].done + 1
      OBVIOUS
    <3>4. x = [turn[t] EXCEPT !.ran = ran1, !.done = done1]
      BY <2>1, <3>2, <3>3
    <3>5. ran1 \in Nat /\ done1 \in Nat
      BY <3>1, <3>2, <3>3
    <3> QED BY <1>1, <3>3, <3>4, <3>5 DEF TurnSet
  <2>3. /\ x.pc = "steps" /\ x.sid = turn[t].sid /\ x.alone = turn[t].alone /\ x.mode = turn[t].mode
        /\ x.fallback = turn[t].fallback /\ x.results = turn[t].results
    BY <1>0, <1>1, <2>1 DEF TurnSet
  <2>4. <<"system", "tool">> \in Seq(Roles) /\ 2 \in 1..Len(<<"system", "tool">>) /\ <<"system", "tool">>[2] = "tool"
    BY DEF Roles
  <2>5. turn' = [turn EXCEPT ![t] = x]
    BY <1>2, <2>1
  <2> QED BY <1>0, <1>2, <2>2, <2>3, <2>4, <2>5, StepRan
<1>3. ASSUME Add(t, <<"system", "system">>), turn' = [turn EXCEPT ![t].ran = @ + 1]
      PROVE  ChatInv'
  <2>1. PICK x : x = [turn[t] EXCEPT !.ran = turn[t].ran + 1]
    OBVIOUS
  <2>2. x \in TurnSet /\ x.done = turn[t].done
    BY <1>1, <2>1 DEF TurnSet
  <2>3. /\ x.pc = "steps" /\ x.sid = turn[t].sid /\ x.alone = turn[t].alone /\ x.mode = turn[t].mode
        /\ x.fallback = turn[t].fallback /\ x.results = turn[t].results
    BY <1>0, <1>1, <2>1 DEF TurnSet
  <2>4. <<"system", "system">> \in Seq(Roles)
    BY DEF Roles
  <2>5. turn' = [turn EXCEPT ![t] = x]
    BY <1>3, <2>1
  <2> QED BY <1>0, <1>3, <2>2, <2>3, <2>4, <2>5, StepRan
<1> QED BY <1>2, <1>3 DEF StepEnd

\* The results of a plan that ran alone are its own.
LEMMA PairedOwn ==
  ASSUME ChatInv, NEW t \in Turns, turn[t].pc = "steps", turn[t].sid \in Sessions, NEW roles, NEW New,
         Wrote(memory[turn[t].sid], t, turn[t].sid, roles, New), RowsKept(t)
  PROVE  /\ \A m \in Paired(t) : m \in stored' /\ m.sid = turn[t].sid /\ m \in RowSet
         /\ turn[t].alone => \A m \in Paired(t) : m.turn = t
<1> DEFINE M == memory'[turn[t].sid].messages
<1>0. M \subseteq RowSet /\ IsFiniteSet(M) /\ \A m \in M : m \in stored' /\ m.sid = turn[t].sid
  BY MemoryFiniteNext DEF RowsKept
<1>1. Paired(t) \subseteq ToolMessages(t) /\ ToolMessages(t) \subseteq M
  BY DEF Paired, Newest, ToolMessages
<1>2. ASSUME turn[t].alone, NEW m \in Paired(t) PROVE m.turn = t
  <2>1. SUFFICES ASSUME m.turn # t PROVE FALSE
    OBVIOUS
  <2>2. m \in M /\ m.role = "tool"
    BY <1>1 DEF ToolMessages
  <2>3. memory[turn[t].sid].active
    BY <2>2 DEF Wrote
  <2>4. /\ m \in memory[turn[t].sid].messages
        /\ Cardinality(OwnLater(t, m, memory[turn[t].sid].messages)) <= Cardinality(OwnLater(t, m, M))
    BY <2>1, <2>2, <2>3, OwnAfterAdd
  <2>5. turn[t].done <= Cardinality(OwnLater(t, m, memory[turn[t].sid].messages))
    BY <1>2, <2>1, <2>2, <2>3, <2>4 DEF ChatInv, OwnTools
  <2> HIDE DEF M
  <2>6. Cardinality(Later(m, ToolMessages(t))) < turn[t].done
    BY NewestLater DEF Paired
  <2>7. OwnLater(t, m, M) \subseteq Later(m, ToolMessages(t))
    BY DEF OwnLater, Later, ToolMessages, M
  <2>8. IsFiniteSet(ToolMessages(t))
    BY <1>0, <1>1, FS_Subset
  <2>9. /\ IsFiniteSet(Later(m, ToolMessages(t))) /\ Cardinality(Later(m, ToolMessages(t))) \in Nat
        /\ Cardinality(OwnLater(t, m, M)) <= Cardinality(Later(m, ToolMessages(t)))
    BY <2>7, <2>8, LaterFinite, FS_Subset
  <2>10. Cardinality(OwnLater(t, m, memory[turn[t].sid].messages)) \in Nat /\ turn[t].done \in Nat
    <3>1. IsFiniteSet(memory[turn[t].sid].messages)
      BY MemoryFinite DEF ChatInv
    <3> QED BY <3>1, OwnLaterFinite, TurnFacts DEF TurnSet
  <2>11. Cardinality(OwnLater(t, m, M)) \in Nat
    BY <1>0, OwnLaterFinite
  <2> QED BY <2>4, <2>5, <2>6, <2>9, <2>10, <2>11
<1> QED BY <1>0, <1>1, <1>2

LEMMA StepsAnswerKeeps ==
  ASSUME ChatInv, NEW t \in Turns, StepsAnswer(t)
  PROVE  ChatInv'
<1>0. PICK roles : roles = (IF turn[t].fallback THEN <<"system", "assistant">> ELSE <<"system">>)
  OBVIOUS
<1>1. PICK ms : ms = Paired(t)
  OBVIOUS
<1>2. PICK changed : changed = [turn[t] EXCEPT !.results = ms]
  OBVIOUS
<1>3. /\ Add(t, roles) /\ SaveReports(t, ms) /\ FinishTurn(t, changed, <<"result">> \o Reported(ms))
      /\ title' = title /\ turn[t].pc = "steps" /\ turn[t].pc \in Busy
  <2>1. Add(t, roles)
    BY <1>0 DEF StepsAnswer
  <2>2. SaveReports(t, ms)
    BY <1>1 DEF StepsAnswer
  <2>3. FinishTurn(t, changed, <<"result">> \o Reported(ms))
    BY <1>1, <1>2 DEF StepsAnswer
  <2>4. title' = title /\ turn[t].pc = "steps" /\ turn[t].pc \in Busy
    BY DEF StepsAnswer, Is, Busy
  <2> QED BY <2>1, <2>2, <2>3, <2>4
<1>4. /\ TurnShape /\ TitleShape /\ turn[t] \in TurnSet /\ events[t] \in Seq(EventTypes)
      /\ TurnInv(t) /\ turn[t].sid \in Sessions /\ Quiet(events[t])
  BY <1>3, TurnFacts
<1>5. roles \in Seq(Roles)
  <2>1. <<"system", "assistant">> \in Seq(Roles) /\ <<"system">> \in Seq(Roles)
    BY DEF Roles
  <2> QED BY <1>0, <2>1
<1>6. FallbackStays
  <2>1. turn' = [turn EXCEPT ![t] = [changed EXCEPT !.pc = IF changed.refine THEN "titling" ELSE "ended"]]
    BY <1>3 DEF FinishTurn
  <2>2. changed.fallback = turn[t].fallback /\ changed.sid = turn[t].sid /\ changed = [turn[t] EXCEPT !.results = ms]
    BY <1>2, <1>4 DEF TurnSet
  <2>3. turn'[t].fallback = turn[t].fallback /\ turn'[t].sid = turn[t].sid
    BY <1>4, <2>1, <2>2 DEF TurnShape, TurnSet
  <2> QED BY <1>4, <2>1, <2>3, FallbackKept DEF TurnShape
<1> DEFINE New == Added(t, roles)
<1>7. Wrote(memory[turn[t].sid], t, turn[t].sid, roles, New) /\ RowsKept(t)
  BY <1>3, <1>5, <1>6, AddStep
<1> HIDE DEF New
<1>8. /\ \A m \in ms : m \in stored' /\ m.sid = turn[t].sid /\ m \in RowSet
      /\ turn[t].alone => \A m \in ms : m.turn = t
  BY <1>1, <1>3, <1>4, <1>7, PairedOwn
<1>9. /\ changed \in TurnSet /\ changed.sid = turn[t].sid /\ changed.alone = turn[t].alone
      /\ changed.fallback = turn[t].fallback /\ changed.mode = turn[t].mode /\ changed.results = ms
  <2>1. ms \in SUBSET RowSet
    BY <1>8
  <2> QED BY <1>2, <1>4, <2>1 DEF TurnSet
<1>10. artifacts' \subseteq ReportShape
  BY <1>3, <1>4, <1>8, SavedShape
<1>11. <<"result">> \o Reported(ms) \in Seq(EventTypes) /\ Quiet(<<"result">> \o Reported(ms))
  BY ReportedQuiet
<1>12. /\ TurnShape' /\ Telling(t)'
       /\ turn'[t].pc \in {"titling", "ended"}
       /\ turn'[t].sid = turn[t].sid /\ turn'[t].alone = turn[t].alone /\ turn'[t].mode = turn[t].mode
       /\ turn'[t].fallback = turn[t].fallback /\ turn'[t].results = ms
       /\ \A u \in Turns \ {t} : turn'[u] = turn[u] /\ events'[u] = events[u]
  BY <1>3, <1>4, <1>9, <1>10, <1>11, Finishes
<1>13. Answered(t)'
  <2>1. CASE turn[t].fallback
    <3>1. 2 \in 1..Len(roles) /\ roles[2] = "assistant"
      BY <1>0, <2>1
    <3> QED BY <1>3, <1>4, <1>7, <1>12, <3>1, AnswerWritten
  <2>2. CASE ~turn[t].fallback
    <3>1. turn[t].mode = "plan"
      BY <1>3, <1>4, <2>2 DEF TurnInv, Counting
    <3> QED BY <1>12, <2>2, <3>1 DEF Answered
  <2> QED BY <2>1, <2>2
<1>14. Counting(t)' /\ SaidKept(t)' /\ OwnTools(t)'
  BY <1>12 DEF Counting, SaidKept, OwnTools
<1>15. ResultsOwn(t)'
  BY <1>8, <1>12 DEF ResultsOwn
<1>16. \A r \in artifacts' : (r \in artifacts /\ Live(r.sid)') \/ ReportOK(r)'
  BY <1>3, <1>4, <1>8, <1>12, SavedReports
<1> QED BY <1>3, <1>7, <1>12, <1>13, <1>14, <1>15, <1>16, OneTurn

-----------------------------------------------------------------------------
(* The ends that write nothing.                                            *)

\* A turn that ends, or goes away, after these events.
LEMMA EndsQuietly ==
  ASSUME ChatInv, NEW t \in Turns, turn[t].pc \in Busy, NEW end \in {"ended", "gone"},
         turn' = [turn EXCEPT ![t].pc = end], NEW e \in Seq(EventTypes), EndsOnce(e),
         events' = [events EXCEPT ![t] = e],
         stored' = stored, lastId' = lastId, memory' = memory, artifacts' = artifacts,
         TitlesKeep, TitleShape',
         end = "ended" => Answered(t)'
  PROVE  ChatInv'
<1>1. /\ TurnShape /\ turn[t] \in TurnSet /\ TurnInv(t) /\ turn[t].sid \in Sessions
  BY TurnFacts
<1>2. PICK x : x = [turn[t] EXCEPT !.pc = end]
  OBVIOUS
<1>3. /\ x \in TurnSet /\ x.pc = end /\ x.sid = turn[t].sid /\ x.alone = turn[t].alone
      /\ x.results = turn[t].results /\ x.fallback = turn[t].fallback
  BY <1>1, <1>2 DEF TurnSet
<1>4. /\ TurnShape' /\ turn'[t] = x /\ events'[t] = e
      /\ \A u \in Turns \ {t} : turn'[u] = turn[u] /\ events'[u] = events[u]
  <2>1. turn' = [turn EXCEPT ![t] = x]
    BY <1>2
  <2>2. artifacts' \subseteq ReportShape
    BY SameReports
  <2> QED BY <1>1, <1>3, <2>1, <2>2, Moved
<1>5. FallbackStays
  BY <1>3, <1>4, FallbackKept
<1>6. RowsKept(t)
  BY <1>5, NoRows
<1>7. Telling(t)'
  BY <1>3, <1>4 DEF Telling, Busy
<1>8. Counting(t)' /\ SaidKept(t)' /\ OwnTools(t)'
  BY <1>3, <1>4 DEF Counting, SaidKept, OwnTools
<1>9. Answered(t)'
  BY <1>3, <1>4 DEF Answered
<1>10. ResultsOwn(t)'
  BY <1>1, <1>3, <1>4 DEF TurnInv, ResultsOwn
<1>11. \A r \in artifacts' : (r \in artifacts /\ Live(r.sid)') \/ ReportOK(r)'
  BY SameReports
<1> QED BY <1>3, <1>4, <1>6, <1>7, <1>8, <1>9, <1>10, <1>11, OneTurn

LEMMA FailEvents ==
  ASSUME NEW a \in Seq(EventTypes), Quiet(a)
  PROVE  /\ a \o <<"error", "done">> \in Seq(EventTypes) /\ EndsOnce(a \o <<"error", "done">>)
         /\ \E i \in 1..Len(a \o <<"error", "done">>) : (a \o <<"error", "done">>)[i] = "error"
<1>1. <<"error", "done">> \in Seq(EventTypes) /\ EndsOnce(<<"error", "done">>)
  BY DEF EventTypes, EndsOnce
<1>2. Len(a) + 1 \in 1..Len(a \o <<"error", "done">>) /\ (a \o <<"error", "done">>)[Len(a) + 1] = "error"
  OBVIOUS
<1> QED BY <1>1, <1>2, QuietThenEnd

LEMMA FailKeeps ==
  ASSUME ChatInv, NEW t \in Turns, Fail(t)
  PROVE  ChatInv'
<1>0. /\ turn[t].pc \in Busy /\ turn' = [turn EXCEPT ![t].pc = "ended"]
      /\ title' = title /\ stored' = stored /\ lastId' = lastId /\ memory' = memory /\ artifacts' = artifacts
  BY DEF Fail, Busy
<1>1. PICK e : e = events[t] \o <<"error", "done">>
  OBVIOUS
<1>2. TitleShape /\ TurnShape /\ events[t] \in Seq(EventTypes) /\ Quiet(events[t])
  BY <1>0, TurnFacts
<1>3. e \in Seq(EventTypes) /\ EndsOnce(e) /\ \E i \in 1..Len(e) : e[i] = "error"
  BY <1>1, <1>2, FailEvents
<1>4. events' = [events EXCEPT ![t] = e]
  BY <1>1 DEF Fail
<1>5. Answered(t)'
  BY <1>2, <1>3, <1>4 DEF Answered, TurnShape
<1>6. TitlesKeep /\ TitleShape'
  BY <1>0, <1>2, SameTitles
<1> QED BY <1>0, <1>3, <1>4, <1>5, <1>6, EndsQuietly

LEMMA DisconnectKeeps ==
  ASSUME ChatInv, NEW t \in Turns, Disconnect(t)
  PROVE  ChatInv'
<1>0. /\ turn[t].pc \in Busy /\ turn' = [turn EXCEPT ![t].pc = "gone"] /\ events' = events
      /\ title' = title /\ stored' = stored /\ lastId' = lastId /\ memory' = memory /\ artifacts' = artifacts
  BY DEF Disconnect
<1>1. TitleShape /\ TurnShape /\ events[t] \in Seq(EventTypes) /\ Quiet(events[t])
  BY <1>0, TurnFacts
<1>2. EndsOnce(events[t]) /\ events' = [events EXCEPT ![t] = events[t]]
  BY <1>0, <1>1, SameEvents, QuietEnds
<1>3. TitlesKeep /\ TitleShape'
  BY <1>0, <1>1, SameTitles
<1> QED BY <1>0, <1>1, <1>2, <1>3, EndsQuietly

LEMMA RefineTitleKeeps ==
  ASSUME ChatInv, NEW t \in Turns, RefineTitle(t)
  PROVE  ChatInv'
<1>0. /\ turn[t].pc = "titling" /\ turn[t].pc \in Busy /\ turn' = [turn EXCEPT ![t].pc = "ended"]
      /\ stored' = stored /\ lastId' = lastId /\ memory' = memory /\ artifacts' = artifacts
  BY DEF RefineTitle, Is, Busy
<1>1. TitleShape /\ TurnShape /\ events[t] \in Seq(EventTypes) /\ Quiet(events[t]) /\ TurnInv(t)
      /\ turn[t].sid \in Sessions /\ turn[t] \in TurnSet
  BY <1>0, TurnFacts
<1>2. TitlesKeep /\ TitleShape'
  <2>1. CASE RetitleAutomatic(turn[t].sid, "llm")
    <3>1. PICK s \in Sessions : s = turn[t].sid
      BY <1>1
    <3>2. title' = [title EXCEPT ![s] = IF Live(s) /\ title[s].source # "manual"
                                        THEN [text |-> "llm", source |-> "llm"] ELSE title[s]]
      BY <2>1, <3>1 DEF RetitleAutomatic
    <3>3. DOMAIN title' = Sessions
      BY <1>1, <3>2 DEF TitleShape
    <3>4. ASSUME NEW r \in Sessions
          PROVE  title'[r] = title[r] \/ (Live(r) /\ title'[r].source = "llm")
      BY <1>1, <3>2 DEF TitleShape
    <3> QED BY <1>1, <3>3, <3>4 DEF TitlesKeep, TitleShape, Live
  <2>2. CASE title' = title
    BY <1>1, <2>2, SameTitles
  <2> QED BY <2>1, <2>2 DEF RefineTitle
<1>3. PICK b \in {<<"title", "done">>, <<"done">>} : events' = [events EXCEPT ![t] = @ \o b]
  BY DEF RefineTitle
<1>4. b \in Seq(EventTypes) /\ EndsOnce(b)
  <2>1. <<"title", "done">> \in Seq(EventTypes) /\ EndsOnce(<<"title", "done">>)
    BY DEF EventTypes, EndsOnce
  <2> QED BY <2>1, OneSent DEF EventTypes
<1>5. PICK e : e = events[t] \o b
  OBVIOUS
<1>6. e \in Seq(EventTypes) /\ EndsOnce(e) /\ events' = [events EXCEPT ![t] = e]
  BY <1>1, <1>3, <1>4, <1>5, QuietThenEnd
<1>7. Answered(t)'
  <2>1. SUFFICES ASSUME Live(turn[t].sid)', turn[t].mode # "plan" \/ turn[t].fallback
                 PROVE  AnswerOf(t)' # {}
    BY <1>0, <1>1 DEF Answered, TurnShape, TurnSet, Live
  <2>2. Live(turn[t].sid)
    <3>1. turn'[t].sid = turn[t].sid
      BY <1>0, <1>1 DEF TurnShape, TurnSet
    <3> QED BY <1>1, <1>2, <2>1, <3>1 DEF TitlesKeep, Live
  <2>3. AnswerOf(t) # {}
    BY <1>0, <1>1, <2>1, <2>2 DEF TurnInv, Answered, Quiet
  <2>4. AnswerOf(t)' = AnswerOf(t)
    BY <1>0, <1>1 DEF AnswerOf, TurnShape, TurnSet
  <2> QED BY <2>3, <2>4
<1> QED BY <1>0, <1>2, <1>6, <1>7, EndsQuietly

-----------------------------------------------------------------------------
(* A turn begins.                                                          *)

\* The session of a new turn: one that is there, or one that was never used.
LEMMA NewSession ==
  ASSUME TitleShape, NEW s \in Sessions, Live(s) \/ ((\E f \in Sessions : title[f] = Fresh) /\ s = FreshSession)
  PROVE  Live(s) \/ title[s].source = "fresh"
BY DEF FreshSession, Fresh

\* The titles after a turn has begun: its session has one, and no other has come or gone.
LEMMA BeginTitles ==
  ASSUME TitleShape, NEW s \in Sessions, Live(s) \/ title[s].source = "fresh", NEW t,
         NEW rows, rows = (IF Live(s) THEN title ELSE [title EXCEPT ![s] = [text |-> t, source |-> "local"]]),
         NEW msgs, title' = Refreshed(rows, msgs) \/ title' = rows
  PROVE  /\ TitleShape' /\ Live(s)'
         /\ \A r \in Sessions \ {s} : (Live(r)' <=> Live(r)) /\ (title'[r].source = "fresh" => title[r].source = "fresh")
<1>1. DOMAIN rows = Sessions /\ \A r \in Sessions \ {s} : rows[r] = title[r]
  BY DEF TitleShape
<1>2. rows[s].source \in {"local", "llm", "manual"}
  <2>1. CASE Live(s)
    BY <2>1 DEF TitleShape, Live
  <2>2. CASE ~Live(s)
    BY <2>2 DEF TitleShape
  <2> QED BY <2>1, <2>2
<1>3. DOMAIN title' = Sessions
  BY <1>1 DEF Refreshed
<1>4. \A r \in Sessions : /\ rows[r].source \in {"fresh", "deleted", "manual"} => title'[r].source = rows[r].source
                          /\ rows[r].source \notin {"fresh", "deleted", "manual"} =>
                               title'[r].source \in {rows[r].source, "local"}
  <2>1. CASE title' = Refreshed(rows, msgs)
    <3>1. ASSUME NEW r \in Sessions
          PROVE  /\ rows[r].source \in {"fresh", "deleted", "manual"} => Refreshed(rows, msgs)[r] = rows[r]
                 /\ rows[r].source \notin {"fresh", "deleted", "manual"} =>
                      Refreshed(rows, msgs)[r].source \in {rows[r].source, "local"}
      BY DEF Refreshed
    <3> QED BY <2>1, <3>1
  <2>2. CASE title' = rows
    BY <2>2
  <2> QED BY <2>1, <2>2
<1>5. \A r \in Sessions : rows[r].source \in {"fresh", "deleted", "local", "llm", "manual"}
  BY <1>1, <1>2 DEF TitleShape
<1>6. TitleShape'
  BY <1>3, <1>4, <1>5 DEF TitleShape
<1>7. Live(s)'
  BY <1>2, <1>4 DEF Live
<1>8. \A r \in Sessions \ {s} : (Live(r)' <=> Live(r)) /\ (title'[r].source = "fresh" => title[r].source = "fresh")
  BY <1>1, <1>4, <1>5 DEF Live
<1> QED BY <1>6, <1>7, <1>8

LEMMA LoadedFacts ==
  ASSUME RowsShape, MemoryInv, NEW s \in Sessions
  PROVE  /\ Loaded(s) \in MemorySet /\ Loaded(s).messages \subseteq MessagesOf(s)
         /\ Loaded(s).active /\ Loaded(s).cached
<1>1. CASE memory[s].cached
  BY <1>1 DEF Loaded, RowsShape, MemoryInv, MemoryOK
<1>2. CASE ~memory[s].cached
  <2>1. MessagesOf(s) \subseteq stored
    BY DEF MessagesOf
  <2>2. Newest(Window, MessagesOf(s)) \subseteq MessagesOf(s)
    BY DEF Newest
  <2>3. Loaded(s) = [cached |-> TRUE, active |-> TRUE, messages |-> Newest(Window, MessagesOf(s))]
    BY <1>2 DEF Loaded
  <2> QED BY <2>1, <2>2, <2>3 DEF MemorySet, RowsShape
<1> QED BY <1>1, <1>2

LEMMA BeginKeeps ==
  ASSUME ChatInv, NEW t \in Turns, NEW s \in Sessions, Begin(t, s)
  PROVE  ChatInv'
<1>0. /\ turn[t].pc = "new" /\ artifacts' = artifacts /\ AddTo(Loaded(s), t, s, <<"user">>)
      /\ Live(s) \/ ((\E f \in Sessions : title[f] = Fresh) /\ s = FreshSession)
  BY DEF Begin, Is
<1>1. /\ RowsShape /\ TitleShape /\ TurnShape /\ MemoryInv /\ RowsLive /\ ContextRecent /\ AloneInv /\ ReportsInv
      /\ \A u \in Turns : TurnInv(u) /\ OwnTools(u)
  BY DEF ChatInv
<1>2. turn[t] = NewTurn
  BY <1>0, <1>1 DEF TurnInv, Place
<1>3. Live(s) \/ title[s].source = "fresh"
  BY <1>0, <1>1, NewSession
<1>4. PICK rows : rows = (IF Live(s) THEN title ELSE [title EXCEPT ![s] = [text |-> t, source |-> "local"]])
  OBVIOUS
<1>5. PICK first : first = (t \in Streams /\ MessagesOf(s) = {})
  OBVIOUS
<1>6. PICK x : x = [NewTurn EXCEPT !.pc = "planning", !.sid = s, !.alone = (Beside(t, s) = {}),
                                   !.refine = first /\ rows[s].source # "manual"]
  OBVIOUS
<1>7. /\ title' = Refreshed(rows, stored') \/ title' = rows
      /\ turn' = [u \in Turns |-> IF u = t THEN x
                                  ELSE IF u \in Beside(t, s) THEN [turn[u] EXCEPT !.alone = FALSE] ELSE turn[u]]
      /\ events' = [events EXCEPT ![t] = IF first THEN <<"title">> ELSE <<>>]
  <2>1. title' = Refreshed(rows, stored') \/ title' = rows
    BY <1>4 DEF Begin
  <2>2. turn' = [u \in Turns |-> IF u = t THEN x
                                 ELSE IF u \in Beside(t, s) THEN [turn[u] EXCEPT !.alone = FALSE] ELSE turn[u]]
    BY <1>2, <1>4, <1>5, <1>6 DEF Begin
  <2>3. events' = [events EXCEPT ![t] = IF first THEN <<"title">> ELSE <<>>]
    BY <1>5 DEF Begin
  <2> QED BY <2>1, <2>2, <2>3
<1>8. /\ x \in TurnSet /\ x.pc = "planning" /\ x.sid = s /\ x.alone = (Beside(t, s) = {})
      /\ x.done = 0 /\ x.said = {} /\ x.results = {} /\ ~x.fallback
  <2>1. PICK refine \in BOOLEAN, alone \in BOOLEAN :
          refine = (first /\ rows[s].source # "manual") /\ alone = (Beside(t, s) = {})
    BY <1>5
  <2>2. x = [NewTurn EXCEPT !.pc = "planning", !.sid = s, !.alone = alone, !.refine = refine]
    BY <1>6, <2>1
  <2>3. NewTurn \in TurnSet
    BY DEF NewTurn, TurnSet
  <2>4. x \in TurnSet
    BY <2>2, <2>3 DEF TurnSet, Busy
  <2> QED BY <2>1, <2>2, <2>4 DEF NewTurn
<1>9. /\ TitleShape' /\ Live(s)'
      /\ \A r \in Sessions \ {s} : (Live(r)' <=> Live(r)) /\ (title'[r].source = "fresh" => title[r].source = "fresh")
  <2>1. PICK msgs : msgs = stored'
    OBVIOUS
  <2> QED BY <1>1, <1>3, <1>4, <1>7, <2>1, BeginTitles
<1>10. PICK mem : mem = Loaded(s)
  OBVIOUS
<1>11. /\ mem \in MemorySet /\ mem.messages \subseteq MessagesOf(s) /\ mem.active /\ mem.cached
       /\ mem.cached = mem.active
       /\ AddTo(mem, t, s, <<"user">>) /\ <<"user">> \in Seq(Roles)
  <2>1. /\ mem \in MemorySet /\ mem.messages \subseteq MessagesOf(s) /\ mem.active /\ mem.cached
        /\ AddTo(mem, t, s, <<"user">>)
    BY <1>0, <1>1, <1>10, LoadedFacts
  <2>2. mem.cached = mem.active
    BY <2>1 DEF MemorySet
  <2>3. <<"user">> \in Seq(Roles)
    BY DEF Roles
  <2> QED BY <2>1, <2>2, <2>3
<1>12. PICK New : New = NewRows(mem, t, s, <<"user">>)
  OBVIOUS
<1>13. Wrote(mem, t, s, <<"user">>, New)
  BY <1>1, <1>11, <1>12, AddToEffect
<1>14. /\ \A m \in stored : m \in stored'
       /\ \A r \in Sessions : memory[r].active => memory'[r].active
       /\ \A r \in Sessions \ {s} : memory'[r] = memory[r]
  BY <1>11, <1>13, AddToRest
<1>15. SessionsStay /\ MemoryStays
  BY <1>3, <1>9, <1>14 DEF SessionsStay, MemoryStays, Live
<1>16. RowsShape' /\ memory'[s].active
  BY <1>11, <1>13 DEF Wrote
<1>17. MemoryInv' /\ RowsLive'
  <2>1. LiveGrows
    BY <1>9 DEF LiveGrows
  <2> QED BY <1>1, <1>9, <1>11, <2>1, AddToMemory
<1>18. /\ turn'[t] = x /\ events'[t] = (IF first THEN <<"title">> ELSE <<>>)
       /\ turn' \in [Turns -> TurnSet] /\ events' \in [Turns -> Seq(EventTypes)]
  <2>1. ASSUME NEW u \in Turns PROVE turn[u] \in TurnSet /\ [turn[u] EXCEPT !.alone = FALSE] \in TurnSet
    BY <1>1 DEF TurnShape, TurnSet
  <2>2. turn' \in [Turns -> TurnSet] /\ turn'[t] = x
    BY <1>7, <1>8, <2>1
  <2>3. (IF first THEN <<"title">> ELSE <<>>) \in Seq(EventTypes)
    BY NothingSent, OneSent DEF EventTypes
  <2>4. events' \in [Turns -> Seq(EventTypes)] /\ events'[t] = (IF first THEN <<"title">> ELSE <<>>)
    BY <1>1, <1>7, <2>3 DEF TurnShape
  <2> QED BY <2>2, <2>4
<1>19. TurnShape'
  BY <1>0, <1>1, <1>18 DEF TurnShape
<1>20. ASSUME NEW u \in Turns \ {t}
       PROVE  SameTurn(u) /\ (turn'[u].alone => turn[u].alone /\ u \notin Beside(t, s))
  <2>1. events'[u] = events[u]
    BY <1>1, <1>7 DEF TurnShape
  <2>2. CASE u \in Beside(t, s)
    <3>1. turn[u] \in TurnSet /\ turn[u].pc # "new"
      BY <1>1, <2>2 DEF TurnShape, Beside, Busy
    <3>2. turn'[u] = [turn[u] EXCEPT !.alone = FALSE]
      BY <1>7, <2>2
    <3> QED BY <2>1, <3>1, <3>2 DEF SameTurn, TurnSet
  <2>3. CASE u \notin Beside(t, s)
    <3>1. turn'[u] = turn[u]
      BY <1>7, <2>3
    <3> QED BY <2>1, <2>3, <3>1, UnchangedTurn
  <2> QED BY <2>2, <2>3
<1>21. FallbackStays
  <2>1. ~turn[t].fallback
    BY <1>2 DEF NewTurn
  <2>2. \A u \in Turns \ {t} : turn'[u].fallback = turn[u].fallback /\ turn'[u].sid = turn[u].sid
    BY <1>20 DEF SameTurn
  <2> QED BY <2>1, <2>2 DEF FallbackStays
<1>22. ContextRecent'
  BY <1>1, <1>10, <1>11, <1>21, ContextStays
<1>23. ASSUME NEW u \in Turns \ {t} PROVE TurnInv(u)' /\ OwnTools(u)'
  <2>1. SameTurn(u) /\ (turn'[u].alone => turn[u].alone /\ u \notin Beside(t, s))
    BY <1>20
  <2>2. turn'[u].alone /\ turn[u].pc \in Busy => turn[u].sid \in Sessions \ {s}
    BY <1>1, <2>1 DEF Beside, TurnInv, Place, Busy
  <2>3. turn'[u].alone /\ turn[u].pc \in Busy => memory'[turn[u].sid] = memory[turn[u].sid]
    BY <1>14, <2>2
  <2>4. OwnTools(u)'
    BY <1>1, <2>1, <2>3, OtherTools
  <2>5. TurnInv(u)'
    BY <1>1, <1>15, <1>17, <2>1, OtherTurn
  <2> QED BY <2>4, <2>5
<1>24. TurnInv(t)' /\ OwnTools(t)'
  <2>1. Place(t)'
    BY <1>8, <1>9, <1>16, <1>18 DEF Place, Live
  <2>2. Telling(t)'
    <3>1. Quiet(<<>>) /\ Quiet(<<"title">>)
      BY NothingSent, OneSent DEF EventTypes
    <3>2. Quiet(events'[t])
      BY <1>18, <3>1
    <3> QED BY <3>2, QuietEnds DEF Telling
  <2>3. Counting(t)' /\ SaidKept(t)' /\ Answered(t)' /\ ResultsOwn(t)' /\ OwnTools(t)'
    BY <1>8, <1>18 DEF Counting, SaidKept, Answered, ResultsOwn, OwnTools
  <2> QED BY <2>1, <2>2, <2>3 DEF TurnInv
<1>25. AloneInv'
  <2>1. SUFFICES ASSUME NEW u \in Turns, NEW v \in Turns, u # v, turn'[u].pc \in Busy, turn'[v].pc \in Busy,
                        turn'[u].sid = turn'[v].sid, turn'[u].alone
                 PROVE  FALSE
    BY DEF AloneInv
  <2>2. CASE u = t
    <3>1. turn[v].pc \in Busy /\ turn[v].sid = s
      BY <1>8, <1>18, <1>20, <2>1, <2>2 DEF SameTurn
    <3> QED BY <1>8, <1>18, <2>1, <2>2, <3>1 DEF Beside
  <2>3. CASE v = t
    <3>1. turn[u].pc \in Busy /\ turn[u].sid = s /\ u \notin Beside(t, s)
      BY <1>8, <1>18, <1>20, <2>1, <2>3 DEF SameTurn
    <3> QED BY <2>1, <2>3, <3>1 DEF Beside
  <2>4. CASE u # t /\ v # t
    <3>1. turn[u].pc \in Busy /\ turn[v].pc \in Busy /\ turn[u].sid = turn[v].sid /\ turn[u].alone
      BY <1>20, <2>1, <2>4 DEF SameTurn
    <3> QED BY <1>1, <2>1, <3>1 DEF AloneInv
  <2> QED BY <2>2, <2>3, <2>4
<1>26. ReportsInv'
  <2>1. SUFFICES ASSUME NEW r \in artifacts PROVE ReportOK(r)'
    BY <1>0 DEF ReportsInv
  <2>2. ReportOK(r) /\ r.sid \in Sessions /\ r.turn \in Turns
    BY <1>1 DEF ReportsInv, TurnShape
  <2>3. r.turn # t
    BY <1>0, <2>2 DEF ReportOK
  <2>4. turn'[r.turn].pc # "new" /\ (turn'[r.turn].alone => turn[r.turn].alone)
    BY <1>20, <2>2, <2>3 DEF ReportOK, SameTurn
  <2>5. Live(r.sid)'
    BY <1>9, <2>2 DEF ReportOK, Live
  <2> QED BY <1>15, <2>2, <2>4, <2>5, OldReport
<1>27. \A u \in Turns : TurnInv(u)' /\ OwnTools(u)'
  BY <1>23, <1>24
<1> QED BY <1>9, <1>16, <1>17, <1>19, <1>22, <1>25, <1>26, <1>27 DEF ChatInv

-----------------------------------------------------------------------------
(* Titles, deletions and a restart.                                        *)

\* A step of no turn that comes or goes with no session.
LEMMA TitlesOnly ==
  ASSUME ChatInv, TitleShape', TitlesKeep,
         stored' = stored, lastId' = lastId, memory' = memory, artifacts' = artifacts, turn' = turn, events' = events
  PROVE  ChatInv'
<1>1. RowsKept(0)
  <2>1. FallbackStays
    BY DEF FallbackStays
  <2> QED BY <2>1, NoRows
<1>2. ASSUME NEW u \in Turns PROVE TurnInv(u)' /\ OwnTools(u)'
  <2>1. TurnInv(u) /\ OwnTools(u)
    BY DEF ChatInv
  <2>2. SameTurn(u)
    BY UnchangedTurn
  <2>3. TurnInv(u)'
    BY <1>1, <2>1, <2>2, OtherTurn DEF RowsKept
  <2> QED BY <2>1, <2>2, <2>3, OtherTools
<1>3. TurnShape' /\ AloneInv'
  BY DEF ChatInv, TurnShape, AloneInv
<1>4. ReportsInv'
  BY DEF ChatInv, ReportsInv, ReportOK, TitlesKeep, TurnShape
<1>5. \A u \in Turns : TurnInv(u)' /\ OwnTools(u)'
  BY <1>2
<1> QED BY <1>1, <1>3, <1>4, <1>5 DEF ChatInv, RowsKept

LEMMA RenameKeeps ==
  ASSUME ChatInv, NEW s \in Sessions, Rename(s)
  PROVE  ChatInv'
<1>1. TitleShape
  BY DEF ChatInv
<1>2. /\ Live(s) /\ title' = [title EXCEPT ![s] = [text |-> "manual", source |-> "manual"]]
      /\ stored' = stored /\ lastId' = lastId /\ memory' = memory /\ artifacts' = artifacts
      /\ turn' = turn /\ events' = events
  BY DEF Rename
<1>3. TitleShape' /\ TitlesKeep
  BY <1>1, <1>2 DEF TitleShape, TitlesKeep, Live
<1> QED BY <1>2, <1>3, TitlesOnly

LEMMA ListSessionsKeeps ==
  ASSUME ChatInv, ListSessions
  PROVE  ChatInv'
<1>1. TitleShape
  BY DEF ChatInv
<1>2. /\ title' = Refreshed(title, stored)
      /\ stored' = stored /\ lastId' = lastId /\ memory' = memory /\ artifacts' = artifacts
      /\ turn' = turn /\ events' = events
  BY DEF ListSessions
<1>3. \A r \in Sessions : /\ title[r].source \in {"fresh", "deleted", "manual"} => title'[r] = title[r]
                          /\ title[r].source \notin {"fresh", "deleted", "manual"} =>
                               title'[r].source \in {title[r].source, "local"}
  BY <1>2 DEF Refreshed
<1>4. DOMAIN title' = Sessions
  BY <1>2 DEF Refreshed
<1>5. TitleShape' /\ TitlesKeep
  BY <1>1, <1>3, <1>4 DEF TitleShape, TitlesKeep, Live
<1> QED BY <1>2, <1>5, TitlesOnly

LEMMA NoMemoryOK ==
  ASSUME NEW r, memory'[r] = NoMemory
  PROVE  MemoryOK(r)'
<1>1. ~memory'[r].cached /\ ~memory'[r].active /\ memory'[r].cached = memory'[r].active /\ memory'[r].messages = {}
  BY DEF NoMemory
<1>2. Cardinality({}) <= Window
  BY FS_EmptySet, ChatAssumption
<1>3. memory'[r].messages \subseteq MessagesOf(r)' /\ Cardinality(memory'[r].messages) <= Window
  BY <1>1, <1>2
<1> QED BY <1>1, <1>3 DEF MemoryOK

LEMMA DeleteKeeps ==
  ASSUME ChatInv, NEW s \in Sessions, Delete(s)
  PROVE  ChatInv'
<1>0. /\ Live(s) /\ title' = [title EXCEPT ![s] = Gone]
      /\ stored' = {m \in stored : m.sid # s} /\ artifacts' = {r \in artifacts : r.sid # s}
      /\ memory' = [memory EXCEPT ![s] = NoMemory]
      /\ lastId' = lastId /\ turn' = turn /\ events' = events
  BY DEF Delete, Invalidated
<1>1. /\ RowsShape /\ TitleShape /\ TurnShape /\ MemoryInv /\ RowsLive /\ ContextRecent /\ AloneInv /\ ReportsInv
      /\ \A u \in Turns : TurnInv(u) /\ OwnTools(u)
  BY DEF ChatInv
<1>2. TitleShape' /\ ~Live(s)' /\ title'[s].source # "fresh" /\ \A r \in Sessions \ {s} : title'[r] = title[r]
  BY <1>0, <1>1 DEF TitleShape, Live, Gone
<1>3. \A r \in Sessions : Live(r)' <=> Live(r) /\ r # s
  BY <1>2 DEF Live
<1>4. /\ memory' \in [Sessions -> MemorySet] /\ memory'[s] = NoMemory
      /\ \A r \in Sessions \ {s} : memory'[r] = memory[r]
  <2>1. NoMemory \in MemorySet
    BY DEF NoMemory, MemorySet
  <2> QED BY <1>0, <1>1, <2>1 DEF RowsShape
<1>5. RowsShape'
  <2>1. stored' \subseteq stored
    BY <1>0
  <2>2. IsFiniteSet(stored')
    BY <1>1, <2>1, FS_Subset DEF RowsShape
  <2> QED BY <1>0, <1>1, <1>4, <2>1, <2>2 DEF RowsShape
<1>6. \A r \in Sessions \ {s} : MessagesOf(r)' = MessagesOf(r)
  BY <1>0 DEF MessagesOf
<1>7. MemoryInv'
  <2>1. SUFFICES ASSUME NEW r \in Sessions PROVE MemoryOK(r)'
    BY DEF MemoryInv
  <2>2. CASE r = s
    BY <1>4, <2>2, NoMemoryOK
  <2>3. CASE r # s
    <3>1. MemoryOK(r) /\ memory'[r] = memory[r] /\ MessagesOf(r)' = MessagesOf(r) /\ (Live(r)' <=> Live(r))
      BY <1>1, <1>3, <1>4, <1>6, <2>3 DEF MemoryInv
    <3> QED BY <3>1 DEF MemoryOK
  <2> QED BY <2>2, <2>3
<1>8. RowsLive'
  BY <1>0, <1>1, <1>3 DEF RowsLive, RowsShape, RowSet, Live
<1>9. SessionsStay /\ MemoryStays
  <2>1. \A m \in stored : Live(m.sid)' => m \in stored'
    BY <1>0, <1>2
  <2>2. \A r \in Sessions : title[r].source # "fresh" => title'[r].source # "fresh"
    BY <1>2
  <2>3. \A r \in Sessions : Live(r)' => Live(r)
    BY <1>3
  <2>4. MemoryStays
    BY <1>3, <1>4 DEF MemoryStays
  <2> QED BY <2>1, <2>2, <2>3, <2>4 DEF SessionsStay
<1>10. ContextRecent'
  <2>1. SUFFICES ASSUME NEW r \in Sessions, memory'[r].cached, \A u \in Turns : turn[u].sid = r => ~turn[u].fallback
                 PROVE  memory'[r].messages = Newest(Window, MessagesOf(r)')
    BY <1>0 DEF ContextRecent, MessagesOf
  <2>2. r # s
    BY <1>4, <2>1 DEF NoMemory
  <2>3. memory'[r] = memory[r] /\ MessagesOf(r)' = MessagesOf(r)
    BY <1>4, <1>6, <2>2
  <2> QED BY <1>1, <2>1, <2>3 DEF ContextRecent
<1>11. ASSUME NEW u \in Turns PROVE TurnInv(u)' /\ OwnTools(u)'
  <2>1. SameTurn(u)
    BY <1>0, UnchangedTurn
  <2>2. TurnInv(u)'
    BY <1>1, <1>7, <1>9, <2>1, OtherTurn
  <2>3. OwnTools(u)'
    <3>1. CASE turn[u].sid = s
      BY <1>0, <1>4, <3>1 DEF OwnTools, NoMemory
    <3>2. CASE turn[u].sid # s
      <4>1. turn[u].pc \in Busy => memory'[turn[u].sid] = memory[turn[u].sid]
        BY <1>1, <1>4, <3>2 DEF TurnInv, Place, Busy
      <4> QED BY <1>1, <2>1, <4>1, OtherTools
    <3> QED BY <3>1, <3>2
  <2> QED BY <2>2, <2>3
<1>12. TurnShape' /\ AloneInv'
  BY <1>0, <1>1 DEF TurnShape, AloneInv
<1>13. ReportsInv'
  <2>1. SUFFICES ASSUME NEW r \in artifacts, r.sid # s PROVE ReportOK(r)'
    BY <1>0 DEF ReportsInv
  <2>2. ReportOK(r) /\ r.sid \in Sessions /\ r.turn \in Turns
    BY <1>1 DEF ReportsInv, TurnShape
  <2>3. Live(r.sid)' /\ turn'[r.turn].pc # "new" /\ (turn'[r.turn].alone => turn[r.turn].alone)
    BY <1>0, <1>3, <2>1, <2>2 DEF ReportOK
  <2> QED BY <1>9, <2>2, <2>3, OldReport
<1>14. \A u \in Turns : TurnInv(u)' /\ OwnTools(u)'
  BY <1>11
<1> QED BY <1>2, <1>5, <1>7, <1>8, <1>10, <1>12, <1>13, <1>14 DEF ChatInv

LEMMA RestartKeeps ==
  ASSUME ChatInv, RestartProcess
  PROVE  ChatInv'
<1>0. /\ memory' = [s \in Sessions |-> NoMemory]
      /\ turn' = [t \in Turns |-> IF turn[t].pc \in Busy THEN [turn[t] EXCEPT !.pc = "gone"] ELSE turn[t]]
      /\ title' = title /\ stored' = stored /\ lastId' = lastId /\ artifacts' = artifacts /\ events' = events
  BY DEF RestartProcess
<1>1. /\ RowsShape /\ TitleShape /\ TurnShape /\ MemoryInv /\ RowsLive /\ ContextRecent /\ AloneInv /\ ReportsInv
      /\ \A u \in Turns : TurnInv(u) /\ OwnTools(u)
  BY DEF ChatInv
<1>2. RowsShape' /\ TitleShape' /\ RowsLive'
  <2>1. NoMemory \in MemorySet
    BY DEF NoMemory, MemorySet
  <2>2. memory' \in [Sessions -> MemorySet]
    BY <1>0, <2>1
  <2> QED BY <1>0, <1>1, <2>2 DEF RowsShape, TitleShape, RowsLive, Live
<1>3. MemoryInv' /\ ContextRecent'
  <2>1. \A r \in Sessions : memory'[r] = NoMemory
    BY <1>0
  <2>2. MemoryInv'
    BY <2>1, NoMemoryOK DEF MemoryInv
  <2> QED BY <2>1, <2>2 DEF ContextRecent, NoMemory
<1>4. \A u \in Turns : turn[u] \in TurnSet
  BY <1>1 DEF TurnShape
<1>5. ASSUME NEW u \in Turns
      PROVE  /\ turn'[u] \in TurnSet /\ turn'[u].pc \notin Busy
             /\ turn'[u].sid = turn[u].sid /\ turn'[u].mode = turn[u].mode /\ turn'[u].fallback = turn[u].fallback
             /\ turn'[u].alone = turn[u].alone /\ turn'[u].results = turn[u].results
             /\ turn'[u] = turn[u] \/ (turn'[u].pc = "gone" /\ turn[u].pc \in Busy)
  <2>1. CASE turn[u].pc \in Busy
    <3>1. turn'[u] = [turn[u] EXCEPT !.pc = "gone"]
      BY <1>0, <2>1
    <3> QED BY <1>4, <2>1, <3>1 DEF TurnSet, Busy
  <2>2. CASE turn[u].pc \notin Busy
    <3>1. turn'[u] = turn[u]
      BY <1>0, <2>2
    <3> QED BY <1>4, <2>2, <3>1
  <2> QED BY <2>1, <2>2
<1>6. TurnShape'
  <2>1. turn' \in [Turns -> TurnSet]
    BY <1>0, <1>5
  <2> QED BY <1>0, <1>1, <2>1 DEF TurnShape
<1>7. ASSUME NEW u \in Turns PROVE TurnInv(u)' /\ OwnTools(u)'
  <2>0. TurnInv(u)
    BY <1>1
  <2>1. Place(u)'
    BY <1>0, <1>5, <2>0 DEF TurnInv, Place, Busy
  <2>2. Telling(u)'
    BY <1>0, <1>5, <2>0 DEF TurnInv, Telling, Busy
  <2>3. Counting(u)' /\ SaidKept(u)' /\ OwnTools(u)'
    BY <1>5 DEF Counting, SaidKept, OwnTools, Busy
  <2>4. Answered(u)'
    <3>1. CASE turn'[u] = turn[u]
      BY <1>0, <2>0, <3>1 DEF TurnInv, Answered, AnswerOf, Live
    <3>2. CASE turn'[u].pc = "gone"
      BY <3>2 DEF Answered
    <3> QED BY <1>5, <3>1, <3>2
  <2>5. ResultsOwn(u)'
    BY <1>5, <2>0 DEF TurnInv, ResultsOwn
  <2> QED BY <2>1, <2>2, <2>3, <2>4, <2>5 DEF TurnInv
<1>8. AloneInv'
  BY <1>5 DEF AloneInv
<1>9. ReportsInv'
  <2>1. SUFFICES ASSUME NEW r \in artifacts PROVE ReportOK(r)'
    BY <1>0 DEF ReportsInv
  <2>2. ReportOK(r) /\ r.turn \in Turns
    BY <1>1 DEF ReportsInv, TurnShape
  <2>3. turn'[r.turn].pc # "new" /\ turn'[r.turn].alone = turn[r.turn].alone
    BY <1>5, <2>2 DEF ReportOK
  <2> QED BY <1>0, <2>2, <2>3 DEF ReportOK, Live
<1>10. \A u \in Turns : TurnInv(u)' /\ OwnTools(u)'
  BY <1>7
<1> QED BY <1>2, <1>3, <1>6, <1>8, <1>9, <1>10 DEF ChatInv

-----------------------------------------------------------------------------
(* The theorems.                                                           *)

LEMMA ChatStarts == ChatInit => ChatInv
<1> SUFFICES ASSUME ChatInit PROVE ChatInv
  OBVIOUS
<1>0. /\ title = [s \in Sessions |-> Fresh] /\ stored = {} /\ lastId = 0 /\ artifacts = {}
      /\ memory = [s \in Sessions |-> NoMemory] /\ turn = [t \in Turns |-> NewTurn]
      /\ events = [t \in Turns |-> <<>>]
  BY DEF ChatInit
<1>1. NoMemory \in MemorySet /\ NewTurn \in TurnSet /\ <<>> \in Seq(EventTypes)
  BY NothingSent DEF NoMemory, MemorySet, NewTurn, TurnSet
<1>2. RowsShape /\ TurnShape
  BY <1>0, <1>1, FS_EmptySet DEF RowsShape, TurnShape
<1>3. TitleShape
  BY <1>0 DEF TitleShape, Fresh
<1>4. MemoryInv
  <2>1. Cardinality({}) <= Window
    BY FS_EmptySet, ChatAssumption
  <2>2. SUFFICES ASSUME NEW r \in Sessions PROVE MemoryOK(r)
    BY DEF MemoryInv
  <2>3. memory[r].cached = FALSE /\ memory[r].active = FALSE /\ memory[r].messages = {}
    BY <1>0 DEF NoMemory
  <2> QED BY <2>1, <2>3 DEF MemoryOK
<1>5. RowsLive /\ ReportsInv
  BY <1>0 DEF RowsLive, ReportsInv
<1>6. ContextRecent
  BY <1>0 DEF ContextRecent, NoMemory
<1>7. AloneInv
  BY <1>0 DEF AloneInv, NewTurn
<1>8. ASSUME NEW t \in Turns PROVE TurnInv(t) /\ OwnTools(t)
  <2>1. turn[t] = NewTurn /\ events[t] = <<>>
    BY <1>0
  <2>2. turn[t].pc = "new" /\ turn[t].alone = FALSE /\ turn[t].pc \notin Busy
    BY <2>1 DEF NewTurn, Busy
  <2>3. Place(t) /\ Counting(t) /\ SaidKept(t) /\ Answered(t) /\ ResultsOwn(t) /\ OwnTools(t)
    BY <2>1, <2>2 DEF Place, Counting, SaidKept, Answered, ResultsOwn, OwnTools
  <2>4. Telling(t)
    BY <2>1, NothingSent DEF Telling
  <2> QED BY <2>3, <2>4 DEF TurnInv
<1> QED BY <1>2, <1>3, <1>4, <1>5, <1>6, <1>7, <1>8 DEF ChatInv

LEMMA TurnStepKeeps ==
  ASSUME ChatInv, NEW t \in Turns, TurnStep(t)
  PROVE  ChatInv'
BY DecideKeeps, GoldAnswerKeeps, ChatAnswerKeeps, ToolEndKeeps, AgentAnswerKeeps, AgentFailKeeps, StepEndKeeps,
   StepsAnswerKeeps, FailKeeps, RefineTitleKeeps DEF TurnStep

LEMMA ChatStays == ChatInv /\ UNCHANGED chatVars => ChatInv'
<1> SUFFICES ASSUME ChatInv, UNCHANGED chatVars PROVE ChatInv'
  OBVIOUS
<1>1. /\ title' = title /\ stored' = stored /\ lastId' = lastId /\ artifacts' = artifacts
      /\ memory' = memory /\ turn' = turn /\ events' = events
  BY DEF chatVars
<1>2. TitlesKeep /\ TitleShape'
  BY <1>1, SameTitles DEF ChatInv
<1> QED BY <1>1, <1>2, TitlesOnly

LEMMA ChatKeeps == ChatInv /\ [ChatNext]_chatVars => ChatInv'
<1> SUFFICES ASSUME ChatInv, ChatNext PROVE ChatInv'
  BY ChatStays
<1>1. CASE \E t \in Turns : TurnStep(t)
  BY <1>1, TurnStepKeeps
<1>2. CASE \E t \in Turns : Disconnect(t)
  BY <1>2, DisconnectKeeps
<1>3. CASE \E t \in Turns, s \in Sessions : Begin(t, s)
  BY <1>3, BeginKeeps
<1>4. CASE \E s \in Sessions : Rename(s) \/ Delete(s)
  BY <1>4, RenameKeeps, DeleteKeeps
<1>5. CASE ListSessions
  BY <1>5, ListSessionsKeeps
<1>6. CASE RestartProcess
  BY <1>6, RestartKeeps
<1> QED BY <1>1, <1>2, <1>3, <1>4, <1>5, <1>6 DEF ChatNext

\* ChatInv says all that ChatSafe says.
LEMMA ChatMeans == ChatInv => ChatSafe
<1> SUFFICES ASSUME ChatInv PROVE ChatSafe
  OBVIOUS
<1>1. /\ RowsShape /\ TitleShape /\ TurnShape /\ MemoryInv /\ RowsLive /\ ContextRecent /\ ReportsInv
      /\ \A t \in Turns : TurnInv(t)
  BY DEF ChatInv
<1>2. ChatTypeOK
  <2>1. ASSUME NEW s \in Sessions PROVE IsFiniteSet(memory[s].messages) /\ Cardinality(memory[s].messages) <= Window
    BY <1>1, MemoryFinite DEF MemoryInv, MemoryOK
  <2>2. /\ \A m, k \in stored : m.id = k.id => m = k
        /\ \A m \in stored : m.id \in 1..lastId
    BY <1>1 DEF RowsShape
  <2>3. \A t \in Turns : \A i \in 1..Len(events[t]) : events[t][i] = "done" => i = Len(events[t])
    BY <1>1 DEF TurnInv, Telling, EndsOnce
  <2> QED BY <2>1, <2>2, <2>3 DEF ChatTypeOK
<1>3. NothingOfDeleted
  BY <1>1 DEF NothingOfDeleted, RowsLive, ReportsInv, ReportOK
<1>4. AnswerStored
  <2>1. SUFFICES ASSUME NEW t \in Turns, turn[t].pc = "ended", Live(turn[t].sid),
                        \A i \in 1..Len(events[t]) : events[t][i] # "error",
                        turn[t].mode # "plan" \/ turn[t].fallback
                 PROVE  \E m \in stored : m.turn = t /\ m.role = "assistant"
    BY DEF AnswerStored
  <2>2. AnswerOf(t) # {}
    BY <1>1, <2>1 DEF TurnInv, Answered
  <2> QED BY <2>2 DEF AnswerOf
<1>5. PairsOwnResults
  <2>1. \A t \in Turns : turn[t].alone => \A m \in turn[t].results : m.turn = t
    BY <1>1 DEF TurnInv, ResultsOwn
  <2>2. \A r \in artifacts :
          turn[r.turn].alone => \E m \in stored : m.id = r.mid /\ m.turn = r.turn /\ m.sid = r.sid
    BY <1>1 DEF ReportsInv, ReportOK
  <2> QED BY <2>1, <2>2 DEF PairsOwnResults
<1> QED BY <1>1, <1>2, <1>3, <1>4, <1>5 DEF ChatSafe

\* Whatever turns, listings, renames, deletions and restarts come in between at the
\* awaits: ids of messages are unique and a memory keeps its window, nothing of a
\* deleted session is stored, a turn is answered from the newest messages of its
\* session, an answer that was given is in the store, and the results and reports of a
\* turn that was alone in its session are its own.
THEOREM ChatSafeThm == ChatSpec => []ChatSafe
<1>1. ChatInit => ChatInv
  BY ChatStarts
<1>2. ChatInv /\ [ChatNext]_chatVars => ChatInv'
  BY ChatKeeps
<1>3. ChatInv => ChatSafe
  BY ChatMeans
<1> QED BY <1>1, <1>2, <1>3, PTL DEF ChatSpec

LEMMA ManualStep == ChatInv /\ [ChatNext]_chatVars => ManualStays
<1> SUFFICES ASSUME ChatInv, [ChatNext]_chatVars, NEW s \in Sessions, title[s].source = "manual"
             PROVE  title'[s] \in {title[s], Gone}
  BY DEF ManualStays
<1>0. TitleShape /\ TurnShape
  BY DEF ChatInv
<1>1. Live(s)
  BY DEF Live
<1>2. CASE UNCHANGED chatVars
  BY <1>2 DEF chatVars
<1>3. ASSUME NEW t \in Turns, TurnStep(t) PROVE title'[s] \in {title[s], Gone}
  <2>1. CASE RefineTitle(t)
    BY <1>0, <2>1 DEF RefineTitle, RetitleAutomatic, TitleShape
  <2>2. CASE title' = title
    BY <2>2
  <2> QED BY <1>3, <2>1, <2>2 DEF TurnStep, Decide, GoldAnswer, ChatAnswer, ToolEnd, AgentAnswer, AgentFail, StepEnd,
                                  StepsAnswer, Fail
<1>4. ASSUME NEW t \in Turns, NEW r \in Sessions, Begin(t, r) PROVE title'[s] \in {title[s], Gone}
  <2>1. PICK rows : rows = (IF Live(r) THEN title ELSE [title EXCEPT ![r] = [text |-> t, source |-> "local"]])
    OBVIOUS
  <2>2. title' = rows \/ title' = Refreshed(rows, stored')
    BY <1>4, <2>1 DEF Begin
  <2>3. rows[s] = title[s]
    BY <1>0, <1>1, <2>1 DEF TitleShape
  <2> QED BY <2>2, <2>3 DEF Refreshed
<1>5. ASSUME NEW r \in Sessions, Rename(r) \/ Delete(r) PROVE title'[s] \in {title[s], Gone}
  BY <1>0, <1>5 DEF Rename, Delete, TitleShape
<1>6. CASE ListSessions
  BY <1>6 DEF ListSessions, Refreshed
<1>7. CASE RestartProcess
  BY <1>7 DEF RestartProcess
<1>8. ASSUME NEW t \in Turns, Disconnect(t) PROVE title'[s] \in {title[s], Gone}
  BY <1>8 DEF Disconnect
<1> QED BY <1>2, <1>3, <1>4, <1>5, <1>6, <1>7, <1>8 DEF ChatNext

\* No turn, listing or refinement changes the title a person gave.
THEOREM ManualTitleThm == ChatSpec => ManualTitleStays
<1>1. ChatInit => ChatInv
  BY ChatStarts
<1>2. ChatInv /\ [ChatNext]_chatVars => ChatInv'
  BY ChatKeeps
<1>3. ChatInv /\ [ChatNext]_chatVars => ManualStays
  BY ManualStep
<1> QED BY <1>1, <1>2, <1>3, PTL DEF ChatSpec, ManualTitleStays

-----------------------------------------------------------------------------
(* Generation, for every budget, limit and number of retries.  The         *)
(* requests are counted by the attempts: one for each, and what comes      *)
(* before a recovery, which has no retries, is counted by Retries.         *)

Before == IF recovered THEN LargerOf(0, Retries) + 1 ELSE 0

CallInv ==
    /\ explicit \in Budgets \union {Unset} /\ limit \in Limits \union {Unset}
    /\ attempt \in Nat /\ calls \in Nat /\ recovered \in BOOLEAN
    /\ budget \in Nat \union {Unset} /\ response \in Response
    /\ protocol = "claude" /\ stage # "plan" => budget \in Nat
    /\ recovered => explicit = Unset
    /\ attempt <= Allowed
    /\ calls <= Before + attempt + (IF stage \in {"plan", "call"} THEN 0 ELSE 1)

USE CallAssumption

\* The smaller and the larger of two numbers.
LEMMA Chosen ==
    ASSUME NEW a \in Int, NEW b \in Int
    PROVE  /\ SmallerOf(a, b) \in {a, b} /\ SmallerOf(a, b) <= a /\ SmallerOf(a, b) <= b
           /\ LargerOf(a, b) \in {a, b} /\ LargerOf(a, b) >= a /\ LargerOf(a, b) >= b
BY DEF SmallerOf, LargerOf

\* A recovery asks for more than what was used and for no more than the limit.
LEMMA RecoveryGrows ==
    ASSUME NEW used \in Nat, NEW known \in Nat \union {Unset}, Recovery(used, known) # Unset
    PROVE  /\ Recovery(used, known) \in Nat /\ Recovery(used, known) > used
           /\ Recovery(used, known) <= IF known = Unset THEN AutoBudget ELSE known
<1> DEFINE ceiling   == IF known = Unset THEN AutoBudget ELSE known
           candidate == SmallerOf(LargerOf(AutoBudget, 2 * used), ceiling)
<1>1. ceiling \in Nat
  OBVIOUS
<1>2. LargerOf(AutoBudget, 2 * used) \in Nat
  BY DEF LargerOf
<1>3. candidate \in Nat /\ candidate <= ceiling
  BY <1>1, <1>2, Chosen
<1>4. Recovery(used, known) = candidate /\ candidate > used
  BY DEF Recovery
<1> QED  BY <1>3, <1>4

\* Every action keeps the invariant, the deadline and the limit.
LEMMA CallStep == ASSUME CallInv, CallNext PROVE CallInv' /\ DeadlineKeptNow /\ RecoveryGrowsNow
<1>0. LargerOf(0, Retries) \in Nat
  BY DEF LargerOf
<1>1. CASE Plan
  <2>1. Automatic(limit) \in Nat
    BY DEF Automatic, SmallerOf, CallInv
  <2>2. budget' \in Nat \union {Unset} /\ (protocol = "claude" => budget' \in Nat)
    BY <1>1, <2>1 DEF Plan, CallInv
  <2>3. CallInv'
    BY <1>0, <1>1, <2>2 DEF Plan, CallInv, Request, Before, Allowed
  <2> QED  BY <1>1, <2>3 DEF Plan, CallInv, DeadlineKeptNow, RecoveryGrowsNow, Request
<1>2. CASE Call
  <2>1. response' \in Response
    BY <1>2 DEF Call, CallInv
  <2>2. CallInv'
    BY <1>0, <1>2, <2>1 DEF Call, CallInv, Request, Before, Allowed
  <2> QED  BY <1>2, <2>2 DEF Call, CallInv, DeadlineKeptNow, RecoveryGrowsNow, Request, InTime
<1>3. CASE CallTooLate
  <2>1. CallInv'
    BY <1>0, <1>3 DEF CallTooLate, CallInv, Request, Before, Allowed
  <2> QED  BY <1>3, <2>1 DEF CallTooLate, CallInv, DeadlineKeptNow, RecoveryGrowsNow, Request
<1>4. CASE Failed
  <2>1. CallInv'
    BY <1>0, <1>4 DEF Failed, CallInv, Request, Before, Allowed
  <2>2. DeadlineKeptNow
    BY <1>4 DEF Failed, CallInv, DeadlineKeptNow, Patient
  <2> QED  BY <1>4, <2>1, <2>2 DEF Failed, CallInv, RecoveryGrowsNow, Request
<1>5. CASE Read
  <2>1. CASE Recoverable /\ RecoverOnce /\ Used > 0 /\ Recovery(Used, limit) # Unset
    <3>1. Used \in Nat
      BY <1>5, <2>1 DEF Used, CallInv, Response, Read
    <3>2. budget' = Recovery(Used, limit) /\ budget' \in Nat /\ budget' > Used
          /\ budget' <= IF limit = Unset THEN AutoBudget ELSE limit
      BY <1>5, <2>1, <3>1, RecoveryGrows DEF Read, CallInv
    <3>3. CallInv'
      BY <1>0, <1>5, <2>1, <3>2
      DEF Read, CallInv, Request, Before, Allowed, Recoverable, RecoverOnce
    <3> QED  BY <1>5, <2>1, <3>2, <3>3 DEF Read, CallInv, DeadlineKeptNow, RecoveryGrowsNow, Request
  <2>2. CASE ~(Recoverable /\ RecoverOnce /\ Used > 0 /\ Recovery(Used, limit) # Unset)
    <3>1. CallInv'
      BY <1>0, <1>5, <2>2 DEF Read, CallInv, Request, Before, Allowed
    <3> QED  BY <1>5, <2>2, <3>1 DEF Read, CallInv, DeadlineKeptNow, RecoveryGrowsNow, Request
  <2> QED  BY <2>1, <2>2
<1> QED  BY <1>1, <1>2, <1>3, <1>4, <1>5 DEF CallNext

\* The invariant says what RequestsBounded says.
LEMMA CallInvBounds == CallInv => RequestsBounded
<1>1. LargerOf(0, Retries) \in Nat
  BY DEF LargerOf
<1> QED  BY <1>1 DEF CallInv, RequestsBounded, Before, Allowed

\* It holds before the first request.
LEMMA CallInitInv == CallInit => CallInv
<1>1. LargerOf(0, Retries) \in Nat
  BY DEF LargerOf
<1>2. NoResponse \in Response
  BY DEF NoResponse, Response
<1> SUFFICES ASSUME CallInit PROVE CallInv
  OBVIOUS
<1>3. explicit \in Budgets \union {Unset} /\ limit \in Limits \union {Unset}
      /\ stage = "plan" /\ budget = Unset /\ attempt = 0 /\ calls = 0
      /\ recovered = FALSE /\ response = NoResponse
  BY DEF CallInit
<1>4. attempt <= Allowed /\ Before = 0
  BY <1>1, <1>3 DEF Before, Allowed
<1>5. calls <= Before + attempt + (IF stage \in {"plan", "call"} THEN 0 ELSE 1)
  BY <1>3, <1>4
<1>6. recovered \in BOOLEAN /\ (recovered => explicit = Unset) /\ response \in Response
  BY <1>2, <1>3
<1>7. attempt \in Nat /\ calls \in Nat /\ budget \in Nat \union {Unset}
      /\ (protocol = "claude" /\ stage # "plan" => budget \in Nat)
  BY <1>3
<1> QED  BY <1>3, <1>4, <1>5, <1>6, <1>7 DEF CallInv

\* An idle moment keeps it.
LEMMA CallStutter == CallInv /\ UNCHANGED callvars => CallInv'
BY DEF CallInv, callvars, Before, Allowed

\* However requests fail, and whatever the model answers, generate() pays for at most
\* retry_times + 2 requests.
THEOREM RequestsAreBounded == CallSpec => []RequestsBounded
<1>1. CallInv /\ [CallNext]_callvars => CallInv'
  BY CallStep, CallStutter
<1> QED  BY <1>1, CallInitInv, CallInvBounds, PTL DEF CallSpec

\* No request starts and no sleep ends after the deadline, and a recovery asks for more
\* than what ran dry and for no more than the model gives.
THEOREM CallIsKept == CallSpec => CallKept
<1>1. CallInv /\ [CallNext]_callvars => CallInv' /\ [DeadlineKeptNow /\ RecoveryGrowsNow]_callvars
  BY CallStep, CallStutter
<1> QED  BY <1>1, CallInitInv, PTL DEF CallSpec, CallKept

-----------------------------------------------------------------------------
(* ConfigFile: no save of a field is undone by a save of another, a page   *)
(* that is out of date or a second migration.  The steps need to know that *)
(* a request is made on a document that is there (nothing removes it),     *)
(* that a whole document comes with its revision, and that nothing is      *)
(* taken over twice: the mark goes with a document.                        *)

Document == [Fields -> Nat \union {NULL}]

ConfigInv ==
    /\ file \in Document \union {NULL} /\ marked \in BOOLEAN
    /\ doing \in [Processes -> {"idle", "update", "replace"}]
    /\ asked = [p \in Processes |-> asked[p]] /\ versioned = [p \in Processes |-> versioned[p]]
    /\ \A p \in Processes : \A f \in Fields :
          f \in DOMAIN asked[p] => asked[p][f] \in Nat \union {NULL}
    /\ (marked \/ \E p \in Processes : doing[p] # "idle") => file # NULL
    /\ \A p \in Processes : doing[p] = "replace" => versioned[p]

USE NullAssumption, ValuesAssumption

\* It holds before the first load.
LEMMA ConfigInitInv == ConfigInit => ConfigInv
<1> SUFFICES ASSUME ConfigInit PROVE ConfigInv
  OBVIOUS
<1>1. (CHOOSE h \in Values["hour"] : TRUE) \in Nat
  BY DEF Fields
<1>2. file \in Document \union {NULL}
  <2> HIDE DEF Fields
  <2> DEFINE h == CHOOSE h \in Values["hour"] : TRUE
  <2>1. Absent \in Document
    BY DEF Absent, Document
  <2>2. [Absent EXCEPT !["hour"] = h] \in Document
    BY <1>1, <2>1 DEF Document
  <2> QED  BY <2>1, <2>2 DEF ConfigInit
<1>3. doing = [p \in Processes |-> "idle"] /\ asked = [p \in Processes |-> <<>>]
      /\ versioned = [p \in Processes |-> TRUE] /\ marked = FALSE
  BY DEF ConfigInit
<1>4. doing \in [Processes -> {"idle", "update", "replace"}]
      /\ \A p \in Processes : doing[p] = "idle"
  BY <1>3
<1>5. asked = [p \in Processes |-> asked[p]] /\ versioned = [p \in Processes |-> versioned[p]]
  BY <1>3
<1>6. ASSUME NEW p \in Processes, NEW f \in Fields, f \in DOMAIN asked[p] PROVE FALSE
  <2>1. asked[p] = <<>>
    BY <1>3
  <2>2. DOMAIN <<>> = {}
    OBVIOUS
  <2> QED  BY <1>6, <2>1, <2>2 DEF Fields
<1>7. "idle" # "replace"
  OBVIOUS
<1> QED  BY <1>2, <1>3, <1>4, <1>5, <1>6, <1>7 DEF ConfigInv

\* A load leaves a document that says what it said, but for the hour of old settings.
LEMMA LoadKeeps ==
    ASSUME ConfigInv
    PROVE  /\ Migrated \in Document
           /\ file # NULL => \A f \in Fields :
                 \/ Migrated[f] = file[f]
                 \/ f = "hour" /\ file["hour"] = NULL /\ Legacy # NULL /\ ~marked
<1>1. LegacyHour \in Nat \union {NULL}
  BY DEF LegacyHour
<1>2. CASE file = NULL
  BY <1>1, <1>2 DEF Migrated, Document
<1>3. CASE file # NULL /\ LegacyHour # NULL /\ file["hour"] = NULL
  <2>1. Migrated = [file EXCEPT !["hour"] = LegacyHour]
    BY <1>3 DEF Migrated
  <2>2. file \in Document
    BY <1>3 DEF ConfigInv
  <2>3. Legacy # NULL /\ ~marked
    BY <1>3 DEF LegacyHour
  <2> QED  BY <1>1, <1>3, <2>1, <2>2, <2>3 DEF Document
<1>4. CASE file # NULL /\ (LegacyHour = NULL \/ file["hour"] # NULL)
  BY <1>4 DEF Migrated, ConfigInv
<1> QED  BY <1>2, <1>3, <1>4

\* A change writes the fields it names.
LEMMA OverKeeps ==
    ASSUME NEW doc \in Document, NEW change,
           \A f \in Fields : f \in DOMAIN change => change[f] \in Nat \union {NULL}
    PROVE  /\ Over(doc, change) \in Document
           /\ \A f \in Fields : f \notin DOMAIN change => Over(doc, change)[f] = doc[f]
BY DEF Over, Document

\* Defaults fill what a document leaves out.
LEMMA MergedDocument ==
    ASSUME NEW doc \in Document
    PROVE  Merged(doc) \in [Fields -> Nat] /\ \A f \in Fields : Merged(Merged(doc))[f] = Merged(doc)[f]
BY DEF Merged, Merge, Document

\* A document is there.
LEMMA DocumentIsThere == NULL \notin Document
BY DEF Document

\* A step of a request keeps what a request is, and touches no other request.
LEMMA RequestInv ==
    ASSUME ConfigInv, NEW p \in Processes,
           NEW d \in {"idle", "update", "replace"}, NEW change, NEW v,
           \A f \in Fields : f \in DOMAIN change => change[f] \in Nat \union {NULL},
           doing' = [doing EXCEPT ![p] = d],
           asked' = [asked EXCEPT ![p] = change],
           versioned' = [versioned EXCEPT ![p] = v],
           d = "replace" => v,
           file' \in Document, marked' \in BOOLEAN
    PROVE  ConfigInv'
<1>1. doing' \in [Processes -> {"idle", "update", "replace"}]
      /\ \A q \in Processes : doing'[q] = IF q = p THEN d ELSE doing[q]
  BY DEF ConfigInv
<1>2. asked' = [q \in Processes |-> asked'[q]]
      /\ \A q \in Processes : asked'[q] = IF q = p THEN change ELSE asked[q]
  BY DEF ConfigInv
<1>3. versioned' = [q \in Processes |-> versioned'[q]]
      /\ \A q \in Processes : versioned'[q] = IF q = p THEN v ELSE versioned[q]
  BY DEF ConfigInv
<1>4. \A q \in Processes : \A f \in Fields :
         f \in DOMAIN asked'[q] => asked'[q][f] \in Nat \union {NULL}
  <2> TAKE q \in Processes
  <2>1. CASE q = p
    BY <1>2, <2>1
  <2>2. CASE q # p
    BY <1>2, <2>2 DEF ConfigInv
  <2> QED  BY <2>1, <2>2
<1>5. \A q \in Processes : doing'[q] = "replace" => versioned'[q]
  BY <1>1, <1>3 DEF ConfigInv
<1> QED  BY <1>1, <1>2, <1>3, <1>4, <1>5, DocumentIsThere DEF ConfigInv

\* An answered request asks for nothing.
LEMMA ReplyInv ==
    ASSUME ConfigInv, NEW p \in Processes, Reply(p), UNCHANGED versioned,
           file' \in Document, marked' \in BOOLEAN
    PROVE  ConfigInv'
<1>1. DOMAIN <<>> = {}
  OBVIOUS
<1>2. \A f \in Fields : f \in DOMAIN <<>> => <<>>[f] \in Nat \union {NULL}
  BY <1>1
<1>3. versioned' = [versioned EXCEPT ![p] = versioned[p]]
  BY DEF ConfigInv
<1>4. doing' = [doing EXCEPT ![p] = "idle"] /\ asked' = [asked EXCEPT ![p] = <<>>]
  BY DEF Reply
<1> QED  BY <1>2, <1>3, <1>4, RequestInv

\* Only the requests changed, or nothing the proof is about.
LEMMA CalmInv ==
    ASSUME ConfigInv, UNCHANGED <<doing, asked, versioned>>,
           file' \in Document, marked' \in BOOLEAN
    PROVE  ConfigInv'
BY DocumentIsThere DEF ConfigInv

\* A step that leaves the document alone is allowed.
LEMMA SameAllowed == ASSUME file' = file PROVE NoUpdateLost /\ LegacyStayDead
BY DEF NoUpdateLost, LegacyStayDead

\* A value depends on what the document says of its field.
LEMMA FieldDecides ==
    ASSUME NEW d, NEW e, NEW f \in Fields, d[f] = e[f]
    PROVE  Merged(d)[f] = Merged(e)[f]
BY DEF Merged, Merge

\* The marks and the document a load leaves.
LEMMA LoadInv ==
    ASSUME ConfigInv, file' = Migrated, marked' \in {marked, marked \/ LegacyHour # NULL}
    PROVE  file' \in Document /\ marked' \in BOOLEAN
BY LoadKeeps DEF ConfigInv

\* Whoever loads, old settings come back at most once.
LEMMA LoadAllowed ==
    ASSUME ConfigInv, file' = Migrated
    PROVE  NoUpdateLost /\ LegacyStayDead
<1>1. NoUpdateLost
  <2> SUFFICES ASSUME file # NULL, NEW f \in Fields, Merged(file')[f] # Merged(file)[f]
               PROVE  f = "hour" /\ file["hour"] = NULL /\ Legacy # NULL /\ ~marked
    BY DEF NoUpdateLost
  <2>1. file'[f] # file[f]
    BY FieldDecides
  <2> QED  BY <2>1, LoadKeeps
<1>2. ASSUME marked PROVE file' = file
  <2>1. file # NULL /\ LegacyHour = NULL
    BY <1>2 DEF ConfigInv, LegacyHour
  <2> QED  BY <2>1 DEF Migrated
<1> QED  BY <1>1, <1>2, SameAllowed DEF LegacyStayDead

\* A save by process p on top of a document that shows the values of the file.
LEMMA SaveAllowed ==
    ASSUME ConfigInv, NEW p \in Processes, NEW base \in Document, doing[p] # "idle", Reply(p),
           \A f \in Fields : Merged(base)[f] = Merged(file)[f],
           file' = Over(base, asked[p])
    PROVE  file' \in Document /\ NoUpdateLost /\ LegacyStayDead
<1>1. file' \in Document /\ \A f \in Fields : f \notin DOMAIN asked[p] => file'[f] = base[f]
  BY OverKeeps DEF ConfigInv
<1>2. \A f \in Fields : Merged(file')[f] # Merged(file)[f] => f \in DOMAIN asked[p]
  <2> SUFFICES ASSUME NEW f \in Fields, f \notin DOMAIN asked[p]
               PROVE  Merged(file')[f] = Merged(file)[f]
    OBVIOUS
  <2> QED  BY <1>1, FieldDecides
<1>3. doing'[p] = "idle"
  BY DEF Reply, ConfigInv
<1>4. NoUpdateLost
  BY <1>2, <1>3 DEF NoUpdateLost
<1>5. LegacyStayDead
  BY <1>2 DEF LegacyStayDead, Fields
<1> QED  BY <1>1, <1>4, <1>5

\* Every action keeps the invariant and is allowed.
LEMMA StepKeeps == ASSUME ConfigInv, ConfigNext PROVE ConfigInv' /\ NoUpdateLost /\ LegacyStayDead
<1>1. ASSUME NEW p \in Processes, LoadCut(p) PROVE ConfigInv' /\ NoUpdateLost /\ LegacyStayDead
  BY <1>1, LoadInv, LoadAllowed, CalmInv DEF LoadCut, request
<1>2. ASSUME NEW p \in Processes, Show(p) PROVE ConfigInv' /\ NoUpdateLost /\ LegacyStayDead
  BY <1>2, LoadInv, LoadAllowed, CalmInv DEF Show, LoadWrites
<1>3. ASSUME NEW p \in Processes, Submit(p) PROVE ConfigInv' /\ NoUpdateLost /\ LegacyStayDead
  <2>1. PICK change \in Changes, v \in BOOLEAN :
           /\ Typed(change)
           /\ asked' = [asked EXCEPT ![p] = change]
           /\ versioned' = [versioned EXCEPT ![p] = v /\ p \in Servers]
    BY <1>3 DEF Submit
  <2>2. \A f \in Fields : f \in DOMAIN change => change[f] \in Nat \union {NULL}
    BY <2>1 DEF Typed
  <2>3. doing' = [doing EXCEPT ![p] = "update"] /\ LoadWrites
    BY <1>3 DEF Submit
  <2>4. "update" # "replace"
    OBVIOUS
  <2>5. ConfigInv'
    BY <2>1, <2>2, <2>3, <2>4, LoadInv, RequestInv DEF LoadWrites
  <2> QED  BY <2>3, <2>5, LoadAllowed DEF LoadWrites
<1>4. ASSUME NEW p \in Processes, SubmitFile(p) PROVE ConfigInv' /\ NoUpdateLost /\ LegacyStayDead
  <2>1. PICK change \in Changes :
           /\ \A f \in DOMAIN change : change[f] \in Values[f] \union {NULL}
           /\ asked' = [asked EXCEPT ![p] = change]
    BY <1>4 DEF SubmitFile
  <2>2. \A f \in Fields : f \in DOMAIN change => change[f] \in Nat \union {NULL}
    BY <2>1
  <2>3. doing' = [doing EXCEPT ![p] = "replace"] /\ LoadWrites
        /\ versioned' = [versioned EXCEPT ![p] = TRUE]
    BY <1>4 DEF SubmitFile
  <2>4. ConfigInv'
    BY <2>1, <2>2, <2>3, LoadInv, RequestInv DEF LoadWrites
  <2> QED  BY <2>3, <2>4, LoadAllowed DEF LoadWrites
<1>5. ASSUME NEW p \in Processes, Conflict(p) \/ WriteFails(p)
      PROVE  ConfigInv' /\ NoUpdateLost /\ LegacyStayDead
  <2>1. Reply(p) /\ UNCHANGED <<file, marked, versioned>> /\ doing[p] # "idle"
    BY <1>5 DEF Conflict, WriteFails
  <2>2. file \in Document /\ marked \in BOOLEAN
    BY <2>1 DEF ConfigInv
  <2> QED  BY <2>1, <2>2, ReplyInv, SameAllowed
<1>6. ASSUME NEW p \in Processes, Update(p) PROVE ConfigInv' /\ NoUpdateLost /\ LegacyStayDead
  <2>1. file' = Over(Merged(file), asked[p]) /\ Reply(p) /\ doing[p] # "idle"
        /\ UNCHANGED <<marked, versioned>>
    BY <1>6 DEF Update, Respond, Base
  <2>2. file \in Document /\ marked \in BOOLEAN
    BY <2>1 DEF ConfigInv
  <2>3. Merged(file) \in Document /\ \A f \in Fields : Merged(Merged(file))[f] = Merged(file)[f]
    BY <2>2, MergedDocument DEF Document
  <2>4. file' \in Document /\ NoUpdateLost /\ LegacyStayDead
    BY <2>1, <2>3, SaveAllowed
  <2> QED  BY <2>1, <2>2, <2>4, ReplyInv
<1>7. ASSUME NEW p \in Processes, Replace(p) PROVE ConfigInv' /\ NoUpdateLost /\ LegacyStayDead
  <2>1. file' = Over(page[p], asked[p]) /\ Reply(p) /\ doing[p] = "replace"
        /\ Current(p) /\ UNCHANGED <<marked, versioned>>
    BY <1>7 DEF Replace, Respond
  <2>2. file \in Document /\ marked \in BOOLEAN /\ page[p] = file
    BY <2>1 DEF ConfigInv, Current
  <2>3. file' \in Document /\ NoUpdateLost /\ LegacyStayDead
    BY <2>1, <2>2, SaveAllowed
  <2> QED  BY <2>1, <2>2, <2>3, ReplyInv
<1>8. ASSUME NEW s \in Servers, Restart(s) PROVE ConfigInv' /\ NoUpdateLost /\ LegacyStayDead
  BY <1>8, LoadInv, LoadAllowed, ReplyInv DEF Restart, LoadWrites, Processes
<1> QED  BY <1>1, <1>2, <1>3, <1>4, <1>5, <1>6, <1>7, <1>8 DEF ConfigNext

\* No save is lost to a save of another field, a page that is out of date or a second
\* migration, for any processes and values and whatever crashes.
THEOREM DocumentIsKept == ConfigSpec => DocumentKept
<1>1. ASSUME ConfigInv, [ConfigNext]_cvars
      PROVE  ConfigInv' /\ [NoUpdateLost /\ LegacyStayDead]_cvars
  <2>1. CASE ConfigNext
    BY <1>1, <2>1, StepKeeps
  <2>2. CASE UNCHANGED cvars
    BY <1>1, <2>2, DocumentIsThere DEF cvars, ConfigInv
  <2> QED  BY <1>1, <2>1, <2>2
<1> QED  BY <1>1, ConfigInitInv, PTL DEF ConfigSpec, DocumentKept

-----------------------------------------------------------------------------
(* Runtime.  RuntimeSafe is not inductive: that only one scheduler fires   *)
(* after a switch follows from where the switch is.  Phase says, for every *)
(* step of reload(), which generations can have a scheduler and which      *)
(* snapshot requests get; generations not built yet have none.             *)

\* Only the generation g may have a scheduler.
OnlyOf(g) == \A o \in Gens \ {g} : sched[o] = "none"
Nobody == \A o \in Gens : sched[o] = "none"

Phase ==
    /\ pc = "idle" => OnlyOf(snap) /\ sched[snap] \in {"none", "active"}
    /\ pc # "idle" => prev # cand /\ prev <= built /\ cand <= built
    /\ pc = "stop" => snap = prev /\ OnlyOf(prev)
    /\ pc = "start" => snap = prev /\ Nobody
    /\ pc = "swap" => snap = prev /\ OnlyOf(cand) /\ sched[cand] = IF want[cand] THEN "paused" ELSE "none"
    /\ pc = "activate" => snap = cand /\ OnlyOf(cand) /\ sched[cand] = IF want[cand] THEN "paused" ELSE "none"
    /\ pc = "undo" => snap = cand /\ Nobody
    /\ pc = "restore" => snap = prev /\ Nobody
    /\ snap <= built

IInv == RuntimeTypeOK /\ Phase

USE GensAssumption DEF SchedulerStates, Steps, Results

-----------------------------------------------------------------------------
\* The invariant implies the property the run checks.
LEMMA PhaseIsSafe == IInv => RuntimeSafe
BY DEF IInv, Phase, OnlyOf, Nobody, RuntimeTypeOK, RuntimeSafe, OnlyCommittedFires, NoSchedulerLeftBehind

\* It holds before the process starts.
LEMMA InitInv == Init => IInv
<1> SUFFICES ASSUME Init PROVE IInv
  OBVIOUS
<1>1. \A g \in Gens : sched[g] = IF g = 1 /\ want[1] THEN "active" ELSE "none"
  BY DEF Init
<1>2. RuntimeTypeOK
  BY DEF Init, RuntimeTypeOK
<1>3. Phase
  BY <1>1 DEF Init, Phase, OnlyOf
<1> QED  BY <1>2, <1>3 DEF IInv, Init

\* What starting and stopping a scheduler does to the others.
LEMMA StopsOne ==
    ASSUME RuntimeTypeOK, NEW g \in Gens, Stops(g)
    PROVE  /\ sched' \in [Gens -> SchedulerStates] /\ jobs' \in [Gens -> SUBSET Subs]
           /\ sched'[g] = "none" /\ \A o \in Gens \ {g} : sched'[o] = sched[o]
BY DEF RuntimeTypeOK, Stops

\* And starting one.
LEMMA StartsOne ==
    ASSUME RuntimeTypeOK, NEW g \in Gens, NEW mode \in {"paused", "active"}, sched[g] = "none", Starts(g, mode)
    PROVE  /\ sched' \in [Gens -> SchedulerStates] /\ jobs' \in [Gens -> SUBSET Subs]
           /\ sched'[g] = mode /\ \A o \in Gens \ {g} : sched'[o] = sched[o]
BY DEF RuntimeTypeOK, Starts

\* One step of reload() keeps the invariant.
LEMMA ReloadKeeps ==
    ASSUME IInv, Build \/ Stop \/ Start \/ Swap \/ Activate \/ Undo \/ Restore
    PROVE  IInv'
<1> USE DEF IInv, Phase, OnlyOf, Nobody
<1>1. CASE Build
  BY <1>1 DEF Build, Continue, Finish, RuntimeTypeOK
<1>2. CASE Stop
  <2>1. /\ sched' \in [Gens -> SchedulerStates] /\ jobs' \in [Gens -> SUBSET Subs]
        /\ sched'[prev] = "none" /\ \A o \in Gens \ {prev} : sched'[o] = sched[o]
    BY <1>2, StopsOne DEF Stop, StopPrevious, RuntimeTypeOK
  <2> QED  BY <1>2, <2>1 DEF Stop, Continue, Frame, RuntimeTypeOK
<1>3. CASE Start
  <2>1. CASE want[cand] /\ Starts(cand, "paused") /\ Continue("swap")
    <3>1. /\ sched' \in [Gens -> SchedulerStates] /\ jobs' \in [Gens -> SUBSET Subs]
          /\ sched'[cand] = "paused" /\ \A o \in Gens \ {cand} : sched'[o] = sched[o]
      BY <1>3, <2>1, StartsOne DEF Start, RuntimeTypeOK
    <3> QED  BY <1>3, <2>1, <3>1 DEF Start, Continue, Frame, RuntimeTypeOK
  <2>2. CASE ~want[cand] /\ UNCHANGED <<sched, jobs>> /\ Continue("swap")
    BY <1>3, <2>2 DEF Start, Continue, Frame, RuntimeTypeOK
  <2>3. CASE want[cand] /\ Stops(cand) /\ Continue("restore")
    <3>1. /\ sched' \in [Gens -> SchedulerStates] /\ jobs' \in [Gens -> SUBSET Subs]
          /\ sched'[cand] = "none" /\ \A o \in Gens \ {cand} : sched'[o] = sched[o]
      BY <1>3, <2>3, StopsOne DEF Start, RuntimeTypeOK
    <3> QED  BY <1>3, <2>3, <3>1 DEF Start, Continue, Frame, RuntimeTypeOK
  <2> QED  BY <1>3, <2>1, <2>2, <2>3 DEF Start, CandidateMode
<1>4. CASE Swap
  BY <1>4 DEF Swap, Continue, Frame, RuntimeTypeOK
<1>5. CASE Activate
  <2>1. CASE /\ sched' = IF want[cand] /\ sched[cand] = "paused"
                         THEN [sched EXCEPT ![cand] = "active"] ELSE sched
             /\ Finish("applied") /\ UNCHANGED jobs
    <3>1. /\ sched' \in [Gens -> SchedulerStates]
          /\ sched'[cand] \in {"none", "active"} /\ \A o \in Gens \ {cand} : sched'[o] = sched[o]
      BY <1>5, <2>1 DEF Activate, RuntimeTypeOK
    <3>2. /\ pc' = "idle" /\ last' = "applied" /\ snap' = snap /\ snap = cand
          /\ UNCHANGED <<built, want, enabled, jobs, cand, prev, holds>>
      BY <1>5, <2>1 DEF Activate, Finish, Frame
    <3>3. RuntimeTypeOK'
      BY <3>1, <3>2 DEF RuntimeTypeOK
    <3>4. Phase'
      BY <1>5, <3>1, <3>2 DEF Activate, RuntimeTypeOK
    <3> QED  BY <3>3, <3>4
  <2>2. CASE want[cand] /\ Stops(cand) /\ Continue("undo")
    <3>1. /\ sched' \in [Gens -> SchedulerStates] /\ jobs' \in [Gens -> SUBSET Subs]
          /\ sched'[cand] = "none" /\ \A o \in Gens \ {cand} : sched'[o] = sched[o]
      BY <2>2, StopsOne DEF RuntimeTypeOK
    <3> QED  BY <1>5, <2>2, <3>1 DEF Activate, Continue, Frame, RuntimeTypeOK
  <2> QED  BY <1>5, <2>1, <2>2 DEF Activate
<1>6. CASE Undo
  <2>1. /\ pc = "undo" /\ pc' = "restore" /\ snap = cand /\ snap' = prev /\ prev # cand
        /\ UNCHANGED <<built, want, enabled, jobs, sched, cand, prev, holds, last>>
    BY <1>6 DEF Undo, UndoTo, Continue, Frame
  <2>2. prev <= built
    BY <2>1
  <2>3. RuntimeTypeOK'
    BY <2>1 DEF RuntimeTypeOK
  <2>4. Phase'
    BY <2>1, <2>2
  <2> QED  BY <2>3, <2>4
<1>7. CASE Restore
  <2>1. CASE want[prev] /\ Starts(prev, "active") /\ Finish("kept")
    <3>1. /\ sched' \in [Gens -> SchedulerStates] /\ jobs' \in [Gens -> SUBSET Subs]
          /\ sched'[prev] = "active" /\ \A o \in Gens \ {prev} : sched'[o] = sched[o]
      BY <1>7, <2>1, StartsOne DEF Restore, RuntimeTypeOK
    <3> QED  BY <1>7, <2>1, <3>1 DEF Restore, Finish, Frame, RuntimeTypeOK
  <2>2. CASE ~want[prev] /\ UNCHANGED <<sched, jobs>> /\ Finish("kept")
    BY <1>7, <2>2 DEF Restore, Finish, Frame, RuntimeTypeOK
  <2>3. CASE want[prev] /\ Stops(prev) /\ Finish("unrestored")
    <3>1. /\ sched' \in [Gens -> SchedulerStates] /\ jobs' \in [Gens -> SUBSET Subs]
          /\ sched'[prev] = "none" /\ \A o \in Gens \ {prev} : sched'[o] = sched[o]
      BY <2>3, StopsOne DEF RuntimeTypeOK
    <3> QED  BY <1>7, <2>3, <3>1 DEF Restore, Finish, Frame, RuntimeTypeOK
  <2> QED  BY <1>7, <2>1, <2>2, <2>3 DEF Restore
<1> QED  BY <1>1, <1>2, <1>3, <1>4, <1>5, <1>6, <1>7

\* An edit changes subscriptions and jobs only.
LEMMA EditKeeps ==
    ASSUME IInv, NEW h \in Handlers, EditBegin(h) \/ EditCommit(h)
    PROVE  IInv'
<1>1. CASE EditBegin(h)
  BY <1>1 DEF EditBegin, IInv, Phase, OnlyOf, Nobody, RuntimeTypeOK
<1>2. CASE EditCommit(h)
  <2>1. UNCHANGED <<snap, built, want, sched, pc, prev, cand, last>>
    BY <1>2 DEF EditCommit
  <2>2. Phase'
    BY <2>1 DEF IInv, Phase, OnlyOf, Nobody
  <2>3. enabled' \in SUBSET Subs /\ holds[h] # None
    BY <1>2 DEF EditCommit, IInv, RuntimeTypeOK
  <2>4. jobs' \in [Gens -> SUBSET Subs]
    BY <1>2, <2>3 DEF EditCommit, IInv, RuntimeTypeOK
  <2>5. holds' \in [Handlers -> Gens \union {None}]
    BY <1>2 DEF EditCommit, IInv, RuntimeTypeOK
  <2> QED  BY <2>1, <2>2, <2>3, <2>4, <2>5 DEF IInv, RuntimeTypeOK
<1> QED  BY <1>1, <1>2

\* Every step keeps it.
LEMMA NextInv == IInv /\ [Next]_vars => IInv'
<1>1. CASE UNCHANGED vars
  BY <1>1 DEF vars, IInv, Phase, OnlyOf, Nobody, RuntimeTypeOK
<1> QED  BY <1>1, ReloadKeeps, EditKeeps DEF Next

\* Jobs fire from one scheduler at most, that of the snapshot requests get, at every step
\* of a switch and whatever fails; between switches no other scheduler is left.
THEOREM RuntimeIsSafe == Spec => []RuntimeSafe
<1>1. Spec => []IInv
  BY InitInv, NextInv, PTL DEF Spec
<1> QED  BY <1>1, PhaseIsSafe, PTL

\* A reload is applied whole or leaves requests where they were, and the snapshot it ends
\* with pushes as its configuration says, unless it reported that it could not.
THEOREM SwitchIsAlwaysWhole == Spec => SwitchIsWhole
<1> DEFINE Whole == pc # "idle" /\ pc' = "idle" =>
          /\ snap' = IF last' = "applied" THEN cand ELSE prev
          /\ last' # "unrestored" => (sched'[snap'] = "active" <=> want[snap'])
<1>1. ASSUME IInv, Next PROVE Whole
  <2> USE DEF IInv, Phase, OnlyOf, Nobody
  <2>1. CASE Build \/ Stop \/ Start \/ Swap \/ Undo
    BY <1>1, <2>1 DEF Build, Stop, Start, Swap, Undo, Continue, Finish
  <2>2. CASE Activate
    BY <1>1, <2>2 DEF Activate, Continue, Finish, Frame, RuntimeTypeOK
  <2>3. CASE Restore
    <3>1. CASE want[prev] /\ Starts(prev, "active") /\ Finish("kept")
      <4>1. sched'[prev] = "active"
        BY <1>1, <2>3, <3>1, StartsOne DEF Restore, RuntimeTypeOK
      <4> QED  BY <1>1, <2>3, <3>1, <4>1 DEF Restore, Finish, Frame
    <3>2. CASE ~want[prev] /\ UNCHANGED <<sched, jobs>> /\ Finish("kept")
      BY <1>1, <2>3, <3>2 DEF Restore, Finish, Frame, RuntimeTypeOK
    <3>3. CASE want[prev] /\ Stops(prev) /\ Finish("unrestored")
      BY <1>1, <2>3, <3>3 DEF Restore, Finish, Frame
    <3> QED  BY <2>3, <3>1, <3>2, <3>3 DEF Restore
  <2>4. CASE \E h \in Handlers : EditBegin(h) \/ EditCommit(h)
    BY <2>4 DEF EditBegin, EditCommit
  <2> QED  BY <1>1, <2>1, <2>2, <2>3, <2>4 DEF Next
<1>2. IInv /\ [Next]_vars => [Whole]_vars
  BY <1>1
<1>3. Spec => [][Whole]_vars
  BY <1>2, InitInv, NextInv, PTL DEF Spec
<1> QED  BY <1>3 DEF SwitchIsWhole
=============================================================================
