------------------------ MODULE MCDocumentPipeline ------------------------
(* Instances of DocumentPipeline for TLC.                                   *)
EXTENDS DocumentPipeline, TLC

CONSTANTS d1, d2, p1, s1

\* Two uploads race for one policy.
PolicyOwner == d1 :> p1 @@ d2 :> p1
\* Two uploads race for one submission.
SubmissionOwner == d1 :> s1 @@ d2 :> s1
\* One document, for the delivery interleavings.
SingleSubmission == d1 :> s1

WorkerSymmetry == Permutations(Workers)
=============================================================================
