----------------------------- MODULE MCFsUpload -----------------------------
(* Small instances of FsUpload for TLC. *)
EXTENDS FsUpload

MCTwoFails == [n \in PartCounts |-> 2]
MCOneFail == [n \in PartCounts |-> 1]

\* A single-part upload whose complete_upload fails half way is what
\* MCFsUpload_bytesgone is about.
MCFailsIfMultipart == [n \in PartCounts |-> IF n = 1 THEN 0 ELSE 1]

MCDeletes == [n \in PartCounts |-> {"upload", "complete", "delete"}]
MCExpires == [n \in PartCounts |-> {"upload", "complete", "gc"}]

\* Deletions beside the sweep of one-part uploads, cancels beside the others.
MCSweeps == [n \in PartCounts |->
    {"upload", "complete", "gc", IF n = 1 THEN "delete" ELSE "cancel"}]
=============================================================================
