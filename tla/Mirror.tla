------------------------------- MODULE Mirror -------------------------------
(***************************************************************************)
(* What a detector of the device promises: an output (a mounted card, the  *)
(* routing of the line input, the power of the amplifier) that follows an  *)
(* input (a slot, a socket).  due says that the detector still has to look *)
(* at the input.  Each change of the input makes a look due; the output    *)
(* changes only while a look is due, and no look is due any more only when *)
(* the output is the input.  Detectors.tla shows what implements this.     *)
(***************************************************************************)
VARIABLES in, out, due

Init == due \/ out = in

\* The input changes; whatever the detector was doing, a look is due now.
Turn == in' # in /\ due' = TRUE /\ out' = out

\* The detector drives its output, with one look or with several.
Drive == due /\ due' = TRUE /\ out' # out /\ in' = in

\* The look is done: the output is the input.
Settle == due /\ due' = FALSE /\ out' = in /\ in' = in

vars == <<in, out, due>>
Next == Turn \/ Drive \/ Settle
Safety == Init /\ [][Next]_vars
Spec == Safety /\ WF_vars(Settle)
=============================================================================
