-------------------------- MODULE MCScanLifecycle ---------------------------
(* Three names, of which one may be a scan of an earlier release; two scans  *)
(* are kept.                                                                 *)
EXTENDS ScanLifecycle

MCIds == {1, 2, 3}
=============================================================================
