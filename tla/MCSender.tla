------------------------------ MODULE MCSender ------------------------------
(***************************************************************************)
(* Instances of Sender for TLC.                                            *)
(***************************************************************************)
EXTENDS Sender, TLC

CONSTANTS w1, w2, c1, g1, s1

OneWorker  == {w1}
TwoWorkers == {w1, w2}

OneCampaign    == {c1}

\* One row of it.
OneRow         == {1}
RowCampaign    == 1 :> c1
RowDomain      == 1 :> g1
RowSubscriber  == 1 :> s1

\* Workers are interchangeable; rows are not (the candidate query orders ids).
WorkerSymmetry == Permutations(TwoWorkers)
=============================================================================
