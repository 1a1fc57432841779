---------------------------- MODULE DurableCell ----------------------------
(* What a pair of checkpoint slots promises its callers: one durable cell.   *)
(* A store that is acknowledged holds; a store that is interrupted leaves    *)
(* either the value it replaced or the value it was writing, never a third   *)
(* one; and once anything was acknowledged the cell can always be read.      *)

CONSTANTS States,  \* the cursors a caller may store
          None     \* the value of a cell nothing was stored in

VARIABLES cell,    \* the durable value
          written, \* TRUE once a store was acknowledged
          got      \* what the last operation returned

cellVars == <<cell, written, got>>

CellInit ==
    /\ cell = None
    /\ written = FALSE
    /\ got = <<"idle">>

StoreAcked(s) ==
    /\ cell' = s
    /\ written' = TRUE
    /\ got' = <<"saved", s>>

\* An error return or a crash: the value may have reached the disk or not.
StoreInterrupted(s) ==
    /\ cell' \in {cell, s}
    /\ got' = <<"error">>
    /\ UNCHANGED written

\* Refused before anything was written.
StoreRefused ==
    /\ got' \in {<<"full">>, <<"corrupt">>, <<"error">>}
    /\ got' = <<"corrupt">> => ~written
    /\ UNCHANGED <<cell, written>>

Fetch ==
    /\ \/ got' = <<"loaded", cell>>
       \/ got' = <<"error">>
       \/ ~written /\ got' = <<"corrupt">>
    /\ UNCHANGED <<cell, written>>

CellNext ==
    \/ \E s \in States : StoreAcked(s) \/ StoreInterrupted(s)
    \/ StoreRefused
    \/ Fetch

CellSpec == CellInit /\ [][CellNext]_cellVars
=============================================================================
