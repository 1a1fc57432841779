----------------------------- MODULE MCScanStep -----------------------------
(* A root with two files, one barred entry and one subdirectory with a third *)
(* file. `a` has two batteries and faults to locate, `b` two batteries, `c`  *)
(* is skipped by a rule.                                                     *)
EXTENDS ScanStep, TLC

CONSTANTS root, sub, link, a, b, c

MCDirs == {root, sub}
MCFiles == {a, b, c}
MCSubDirs == root :> <<sub>> @@ sub :> << >>
MCFilesIn == root :> <<c, a>> @@ sub :> <<b>>
MCFilesInOne == root :> <<a, b>> @@ sub :> <<c>>
MCBarred == root :> <<link>> @@ sub :> << >>
MCBatteries == a :> 2 @@ b :> 2 @@ c :> 0
MCEstimate == a :> 2 @@ b :> 4 @@ c :> 1
=============================================================================
