---------------------------- MODULE MCScanReview ----------------------------
(* A root with one file and a subdirectory with another: small enough for a  *)
(* scan to be assessed completely, to be retried and to be read meanwhile.   *)
EXTENDS ScanReview, TLC

CONSTANTS root, sub, a, b

MCSubDirs == root :> <<sub>> @@ sub :> << >>
MCFilesIn == root :> <<a>> @@ sub :> <<b>>
MCBarred == root :> << >> @@ sub :> << >>
MCBatteries == a :> 1 @@ b :> 2
MCEstimate == a :> 1 @@ b :> 2
MCNames == <<root, a, sub, b>>
MCSeverity == a :> 2 @@ b :> 1

\* Two files fit a page, a file and a boundary do not, and the root's boundary
\* is too long for any page.
MCLength ==
    [kind \in {"file", "subtree", "review"}, ref \in {root, sub, a, b} |->
        IF kind # "subtree" THEN 2 ELSE IF ref = root THEN 7 ELSE 3]
=============================================================================
