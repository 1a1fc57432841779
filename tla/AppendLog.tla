----------------------------- MODULE AppendLog ------------------------------
(* What the assessment journal promises: a log that only grows at its end.   *)
(* An entry is known by the offset its line ends at. An acknowledged append  *)
(* adds one entry after all others; an interrupted one adds it, adds nothing *)
(* or seals the log, and a sealed log never changes again.                   *)
EXTENDS Naturals

CONSTANT Events

VARIABLES log,     \* the entries: a set of [end |-> offset, ev |-> event]
          sealed   \* a torn line is at the tail

logVars == <<log, sealed>>

LogInit == log = {} /\ sealed = FALSE

Extend(e) ==
    \E x \in log' :
        /\ x.ev = e /\ x.end \in Nat
        /\ \A y \in log : y.end < x.end
        /\ log' = log \cup {x}

Grow ==
    /\ ~ sealed
    /\ \E e \in Events : Extend(e)
    /\ UNCHANGED sealed

Seal ==
    /\ ~ sealed
    /\ sealed' = TRUE
    /\ UNCHANGED log

LogSpec == LogInit /\ [][Grow \/ Seal]_logVars
=============================================================================
