------------------------------ MODULE MCAlarm ------------------------------
(* Alarm for TLC.  The copies that edits need multiply the states, so that  *)
(* a behaviour has one of three kinds: without edits; with edits of all     *)
(* alarms, for a short time; with edits of a single alarm.                  *)
EXTENDS Alarm

CONSTANT EditTime    \* the last second of a behaviour that edits all alarms

VARIABLE kind

MCInit == Init /\ kind \in {"no edits", "edits", "edits of one"}

MCNext ==
    /\ UNCHANGED kind
    /\ Next
    /\ \/ kind = "no edits" /\ UNCHANGED copy
       \/ kind = "edits" /\ now' <= EditTime
       \/ kind = "edits of one" /\ added' <= 1

MCSpec == MCInit /\ [][MCNext]_<<vars, kind>>
=============================================================================
