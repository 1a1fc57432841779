------------------------------ MODULE MCJournal -----------------------------
(* Two versions of one record, a second record of the same file and a        *)
(* coverage event. `huge` exceeds the event bound. The limit leaves room for *)
(* three of the small lines, so ErrJournalFull is reached with one byte to   *)
(* spare and with none.                                                      *)
EXTENDS Journal, TLC

CONSTANTS rec1, rec1b, rec2, cover, huge, f, none

MCEvents == {rec1, rec1b, rec2, cover, huge}
MCSize == rec1 :> 2 @@ rec1b :> 2 @@ rec2 :> 3 @@ cover :> 2 @@ huge :> 4
MCRefOf == rec1 :> f @@ rec1b :> f @@ rec2 :> f @@ cover :> none @@ huge :> f
MCIdOf == rec1 :> 1 @@ rec1b :> 1 @@ rec2 :> 2 @@ cover :> 0 @@ huge :> 3
=============================================================================
