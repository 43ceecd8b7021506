------------------------------ MODULE MCFanout ------------------------------
(***************************************************************************)
(* Instances of Fanout for TLC.  Campaign 1 is a panel campaign to all; 2  *)
(* is an automation, and 3 a campaign without a site or a retarget of 2.   *)
(***************************************************************************)
EXTENDS Fanout, TLC

CONSTANTS w1, w2, g1, s1, s2

OneWorker   == {w1}
TwoWorkers  == {w1, w2}
Everyone    == {s1, s2}
OneSite     == {g1}

Three       == {1, 2, 3}
AllOnSite   == [c \in Campaigns |-> g1]
ThirdSiteless == 1 :> g1 @@ 2 :> g1 @@ 3 :> NULL
NoSource    == [c \in Campaigns |-> NULL]
ThirdAfterSecond == 1 :> NULL @@ 2 :> NULL @@ 3 :> 2
ByKind      == [c \in Campaigns |-> IF SourceOf[c] # NULL THEN {} ELSE IF c = 1 THEN Everyone ELSE {s1}]

\* One of these scenes, the other campaigns being over: the panel campaign,
\* or the other two, for one subscriber.
Only(kinds) == [c \in Campaigns |->
  IF c \notin kinds THEN "cancelled"
  ELSE IF c \in Immediate \/ SourceOf[c] # NULL THEN "none" ELSE "scheduled"]
SceneInit(kinds) == InitWith(Only(kinds)) /\ (1 \in kinds \/ subscription[s2] = "future")
RaceInit == SceneInit({1}) \/ SceneInit({2, 3})
LiveInit == SceneInit({1}) \/ SceneInit({2}) \/ SceneInit({3})
RaceSpec == RaceInit /\ [][Next]_vars

\* With one campaign that is not over, Fairness says no more than this.
SceneFairness ==
  /\ \A w \in Workers : WF_vars(StageStep(w))
  /\ SF_vars(\E w \in Workers, c \in Campaigns : PickDue(w, c) \/ PickStuck(w, c))
  /\ SF_vars(\E c \in Campaigns : SendEngine(c) \/ \E w \in Workers : BeginSend(w, c))
  /\ SF_vars(\E w \in Workers, s \in Subscribers : Deliver(w, s))
  /\ WF_vars(Tick)
LiveSpec == LiveInit /\ [][Next]_vars /\ SceneFairness

Symmetry == Permutations(TwoWorkers)
=============================================================================
