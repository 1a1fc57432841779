--------------------------- MODULE MCScanRequests ---------------------------
(* Two batteries, the first with a localization; a requested alias and two   *)
(* concrete models; one retry, backoffs of 1 and 2, and Retry-After values   *)
(* within and beyond what is supported.                                      *)
EXTENDS ScanRequests

CONSTANTS latest, m1, m2

MCModels == {m1, m2}
=============================================================================
