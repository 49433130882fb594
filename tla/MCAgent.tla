------------------------------- MODULE MCAgent -------------------------------
(***************************************************************************)
(* Small instances of the modules of the agent.  A behaviour belongs to    *)
(* one part, and the other stays in a first state.                         *)
(*   plan    three steps with every dependency relation and an unknown id; *)
(*           the second one may match no tool                              *)
(*   turns   two turns one after the other, the first one streamed and too *)
(*           vague for a title, fair                                       *)
(*   window  the two turns may overlap and overflow the memory; no title is *)
(*           refined, and nobody renames or goes away                      *)
(***************************************************************************)
EXTENDS PlanGraph, ChatTurns

CONSTANTS a, b, s1, t1, strange, unknown

VARIABLE part

AgentMatches == {<<>>, <<t1>>}

PlanOnly == <<dependsOn, candidates, status, tool, pending, results, node>>
ChatOnly == <<title, stored, lastId, artifacts, memory, turn, events>>

AgentInit ==
    /\ part \in {"plan", "turns", "window"}
    /\ PlanInit /\ candidates[1] # <<>> /\ candidates[3] # <<>>
    /\ part # "plan" => candidates[2] # <<>> /\ \A i \in Ids : dependsOn[i] = {}
    /\ ChatInit

AgentNext ==
    /\ \/ part = "plan" /\ PlanNext /\ UNCHANGED ChatOnly
       \/ /\ \/ part = "turns" /\ ChatNext
                                /\ \A t \in Turns : turn'[t].pc # "new" => turn'[t].alone
             \/ part = "window" /\ ChatNext /\ title'[s1].source # "manual" /\ ~turn'[a].refine
                                 /\ \A t \in Turns : ~Disconnect(t)
          /\ UNCHANGED PlanOnly
    /\ UNCHANGED part

AgentVars == <<part, PlanOnly, ChatOnly>>

AgentFairness ==
    /\ WF_PlanOnly(part = "plan" /\ (DecideNode \/ ExecuteNode \/ FeedbackNode))
    /\ \A t \in {a, b} : WF_ChatOnly(part = "turns" /\ TurnStep(t))

AgentSpec == AgentInit /\ [][AgentNext]_AgentVars /\ AgentFairness

-----------------------------------------------------------------------------
\* Every plan ends, whatever its dependencies are; every turn comes to an end, and
\* the last thing a stream says is that it is done.
AgentEnds ==
    /\ (part = "plan") ~> (part = "plan" /\ node = "end")
    /\ \A t \in {a, b} :
           (part = "turns" /\ turn[t].pc \in Busy)
           ~> (part = "turns" /\ \/ turn[t].pc = "gone"
                                 \/ events[t] # <<>> /\ events[t][Len(events[t])] = "done")
=============================================================================
