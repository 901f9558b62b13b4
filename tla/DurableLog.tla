------------------------------ MODULE DurableLog ------------------------------
(***************************************************************************)
(* What a journal promises: records are issued in order, each is accepted  *)
(* or dropped, nothing is accepted after a drop, and the file receives     *)
(* what was accepted, in order and once each.  So the file is at every     *)
(* moment a prefix, without gaps, of what was issued.                      *)
(***************************************************************************)
EXTENDS Naturals, Sequences

CONSTANT LogLength  \* the number of records a behaviour issues at most

VARIABLES issued,   \* the number of records issued
          pending,  \* accepted and not in the file
          file,     \* the records in the file
          dropped   \* a record was dropped

logVars == <<issued, pending, file, dropped>>

Accept ==
    /\ ~dropped
    /\ issued < LogLength
    /\ issued' = issued + 1
    /\ pending' = Append(pending, issued + 1)
    /\ UNCHANGED <<file, dropped>>

Drop ==
    /\ issued < LogLength
    /\ issued' = issued + 1
    /\ dropped' = TRUE
    /\ UNCHANGED <<pending, file>>

Write ==
    /\ pending # <<>>
    /\ file' = Append(file, Head(pending))
    /\ pending' = Tail(pending)
    /\ UNCHANGED <<issued, dropped>>

Init ==
    /\ issued = 0
    /\ pending = <<>>
    /\ file = <<>>
    /\ dropped = FALSE

Next == Accept \/ Drop \/ Write

Spec == Init /\ [][Next]_logVars
=============================================================================
