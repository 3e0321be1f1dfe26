-------------------------- MODULE MCMachineUpload --------------------------
(* Instances of MachineUpload for TLC.                                      *)
EXTENDS MachineUpload, TLC

CONSTANTS a1, a2, a3, a4, g1, g2, p1, s1

\* Two attempts of one grant, one of a second grant for the same policy.
TwoGrants == g1 :> p1 @@ g2 :> p1
ThreeAttempts == a1 :> g1 @@ a2 :> g1 @@ a3 :> g2

\* One grant for a policy and one for a submission, two attempts each.
BothGrants == g1 :> p1 @@ g2 :> s1
FourAttempts == a1 :> g1 @@ a4 :> g1 @@ a2 :> g2 @@ a3 :> g2

\* One attempt of one grant for a submission.
OneSubmission == g1 :> s1
OneAttempt == a1 :> g1
=============================================================================
