---------------------------- MODULE AlertReports ----------------------------
(***************************************************************************)
(* What the cloud, which keeps a state of its own for each alert, may take *)
(* for granted in the reports of the device: each comes once, an alert is  *)
(* answered for before it is both set and refused, it stops after it has   *)
(* started, and a refused one is neither set nor stopped.  It may still    *)
(* start: a timer that runs is not stopped before the refusal is reported. *)
(* One that rings as it is being stored starts before it is set.  Several  *)
(* alerts may stop at once.  excused says that the device has used an      *)
(* alert it had freed: it may then report anything.  DuerAlert.tla shows   *)
(* what implements this.                                                   *)
(***************************************************************************)
CONSTANT Alerts
VARIABLES
    asked,    \* the alerts the cloud has asked for
    said,     \* what was reported of each of them
    twice,    \* those of which something was reported twice
    excused

vars == <<asked, said, twice, excused>>

Answers == {"SET_ALERT_SUCCESS", "SET_ALERT_FAIL"}
Reports == Answers \cup {"ALERT_START", "ALERT_STOP"}

Init ==
    /\ asked = {}
    /\ said = [a \in Alerts |-> {}]
    /\ twice = {}
    /\ excused = FALSE

\* The report e makes sense to a cloud that was told what said[a] holds.
Fits(a, e) ==
    /\ e \notin said[a]
    /\ e \in Answers => said[a] \cap Answers = {}
    /\ "SET_ALERT_FAIL" \in said[a] => e = "ALERT_START"
    /\ e = "ALERT_STOP" => "ALERT_START" \in said[a]

Tell(told, e) ==
    /\ \A a \in told : Fits(a, e)
    /\ said' = [a \in Alerts |-> IF a \in told THEN said[a] \cup {e} ELSE said[a]]

\* The cloud asks for alerts, or is told of some it has asked for, or both.
Talk ==
    /\ ~excused /\ ~excused'
    /\ asked \subseteq asked' /\ asked' \subseteq Alerts
    /\ \E told \in SUBSET asked', e \in Reports : Tell(told, e)
    /\ twice' = twice

Lapse == excused' = TRUE

Next == Talk \/ Lapse
Spec == Init /\ [][Next]_vars
=============================================================================
