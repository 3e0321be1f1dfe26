------------------------- MODULE DocumentLifecycle -------------------------
(***************************************************************************)
(* What the document subsystem promises about the rows of the documents     *)
(* and policies tables, with nothing said about messages, workers or        *)
(* object stores: a document is accepted for an owner that may take it, is  *)
(* decided once, becomes uploaded only if its bytes are free of malware,    *)
(* and is archived only after it was decided.                               *)
(*                                                                         *)
(* The transitions are those of domain/document.rs (Document::create,       *)
(* scan_clean, scan_malicious, scan_failed, finalize_uploaded, archive)     *)
(* and of ArchivePolicy.  DocumentPipeline is shown to implement this.      *)
(***************************************************************************)
CONSTANTS Docs,          \* document ids, one per upload attempt
          Policies,      \* policies, the owners that can be archived
          Submissions,   \* evidence submissions, the other kind of owner
          OwnerOf,       \* the owner each document is uploaded for
          Malicious      \* the documents whose bytes hold malware

VARIABLES status,        \* upload_status of each row, "none" before the row
          archived,      \* documents.archived of each row
          retired        \* policies with archived_at set

vars == <<status, archived, retired>>

InProgress == {"pending", "finalizing"}
Terminal   == {"uploaded", "contains_virus", "failed"}
Status     == {"none"} \cup InProgress \cup Terminal

\* Rows of an owner; a current row is one that is not archived.
Rows(o)    == {d \in Docs : OwnerOf[d] = o /\ status[d] # "none"}
Current(o) == {d \in Rows(o) : ~archived[d]}

\* A policy takes one current document at a time, a submission one ever.
MayTake(o) == IF o \in Policies THEN o \notin retired /\ Current(o) = {}
                                ELSE Rows(o) = {}

Init == /\ status = [d \in Docs |-> "none"]
        /\ archived = [d \in Docs |-> FALSE]
        /\ retired = {}

Move(d, from, to) == /\ status[d] = from
                     /\ ~archived[d]
                     /\ status' = [status EXCEPT ![d] = to]
                     /\ UNCHANGED <<archived, retired>>

Accept(d) == MayTake(OwnerOf[d]) /\ Move(d, "none", "pending")

ScanClean(d)     == d \notin Malicious /\ Move(d, "pending", "finalizing")
ScanMalicious(d) == d \in Malicious /\ Move(d, "pending", "contains_virus")
ScanFailed(d)    == Move(d, "pending", "failed")
Finalize(d)      == Move(d, "finalizing", "uploaded")

Archive(d) == /\ status[d] \in Terminal
              /\ ~archived[d]
              /\ archived' = [archived EXCEPT ![d] = TRUE]
              /\ UNCHANGED <<status, retired>>

\* A policy is archived only when none of its documents is in progress.
Retire(p) == /\ p \notin retired
             /\ \A d \in Current(p) : status[d] \in Terminal
             /\ retired' = retired \cup {p}
             /\ UNCHANGED <<status, archived>>

Next == \/ \E d \in Docs : \/ Accept(d)
                           \/ ScanClean(d)
                           \/ ScanMalicious(d)
                           \/ ScanFailed(d)
                           \/ Finalize(d)
                           \/ Archive(d)
        \/ \E p \in Policies : Retire(p)

Spec == Init /\ [][Next]_vars

=============================================================================
