-------------------------- MODULE MCFormalJourney --------------------------
(* FormalJourney for TLC: a journey of a few stages, or one task.           *)
EXTENDS FormalJourney, TLC

\* The assessments are the last stages, as in every published journey.
LastStages == {s \in 1..StageCount : s > StageCount \div 2}

\* Bound: a reviewer other than the first takes part in one stage at most.
StagesOfOthers ==
  {s \in Stages : \E v \in Versions :
     {reviewOwner[s][v], delegate[s][v]} \ {FirstReviewer, NoReviewer} # {}}
OthersInOneStage == Cardinality(StagesOfOthers) <= 1

=============================================================================
