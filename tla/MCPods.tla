------------------------------- MODULE MCPods -------------------------------
(***************************************************************************)
(* The two controllers of Pods.  They share neither Pods nor variables, so *)
(* a behaviour has steps of one of them only.                              *)
(***************************************************************************)
EXTENDS MetaPodRoleLabeler, ComputeUpdateStrategy

VARIABLE controller

vars == <<leader, view, metaPods, metaCache, polling, poll, settled, troubles,
          sts, stsCache, pods, podCache, queued, update, cleared, changes, controller>>

Labeler == controller = "labeler"
Strategy == controller = "strategy"

Init == LabelerInit /\ StrategyInit /\ (Labeler \/ Strategy)

Next ==
    \/ Labeler /\ LabelerNext /\ UNCHANGED <<strategyVars, controller>>
    \/ Strategy /\ StrategyNext /\ UNCHANGED <<labelerVars, controller>>

(* The worker goes on, the informer delivers, a Pod in the queue gets its  *)
(* turn; the nodes elect a leader when there is none and learn of it, and  *)
(* Pods start.                                                             *)
LabelerFairness ==
    /\ WF_labelerVars(Labeler /\ getMetaRole) /\ WF_labelerVars(Labeler /\ Patch)
    /\ \A p \in MetaPods :
          /\ SF_labelerVars(Labeler /\ Reconcile(p)) /\ WF_labelerVars(Labeler /\ Deliver(p))
          /\ WF_labelerVars(Labeler /\ leader = NoPod /\ Elect(p))
          /\ WF_labelerVars(Labeler /\ Learn(p)) /\ WF_labelerVars(Labeler /\ StartPod(p))

(* The worker and the informers go on, and so do the StatefulSet           *)
(* controller and the kubelets.                                            *)
StrategyFairness ==
    /\ WF_strategyVars(Strategy /\ Read) /\ WF_strategyVars(Strategy /\ Delete)
    /\ WF_strategyVars(Strategy /\ DeliverSts) /\ WF_strategyVars(Strategy /\ DeliverPods)
    /\ WF_strategyVars(Strategy /\ StsObserves)
    /\ \A i \in Ordinals :
          /\ WF_strategyVars(Strategy /\ StsCreates(i)) /\ WF_strategyVars(Strategy /\ StsRolls(i))
          /\ WF_strategyVars(Strategy /\ PodEnds(i))

FairSpec == Init /\ [][Next]_vars /\ LabelerFairness /\ StrategyFairness

(* When elections, failures and replacements end, exactly the leader is    *)
(* labelled leader and all other meta Pods are labelled follower, although *)
(* a copy that is out of date may hide that a patch is needed, and a patch *)
(* may hit the successor of the Pod that was asked.                        *)
LabelsSettle == <>[](Labeler => LabelsRight)

(* After the last change the strategy comes to rest, and all Pods run the  *)
(* template of the StatefulSet: what the strategy deletes, in the worst    *)
(* case Pods that are up to date, is deleted finitely often.               *)
RolloutSettles == <>[](Strategy => AtRest)
=============================================================================
