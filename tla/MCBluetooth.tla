---------------------------- MODULE MCBluetooth ----------------------------
(* Bluetooth for TLC.  The link and the sound, the AVRC keys, and keys that *)
(* nobody takes meet only in the queue: a behaviour exercises one of three  *)
(* slices, so that their numbers of states add up instead of multiplying.   *)
EXTENDS Bluetooth

VARIABLE slice    \* what this behaviour exercises

Plays(evts) == \E evt \in evts : PhonePlays(evt)
Reaches ==
    \/ PhoneConnects
    \/ \E how \in {"lost", "closed"} : ConnectionEnds(how)
    \/ \E evt \in {"LOST", "CLOSED"} : AttemptFails(evt)
Music == Sound \/ OnConnected
Tones == player_status_updated \/ ToneEnds

LinkTask == Link \/ Sound
KeyTask == OnConnected \/ Control
FullTask == Music \/ OnKey    \* keys without AVRC fill the queue of a phone that plays

LinkSlice == Reaches \/ Plays({"STARTED", "STOPPED"}) \/ a2d_rec_alarm_to \/ LinkTask \/ Tones
KeySlice == PhoneConnects \/ Remote \/ KeyTask
FullSlice ==
    \/ PhoneConnects \/ Plays({"STARTED", "SUSPENDED", "STOPPED"})
    \/ Key \/ FullTask \/ Tones

MCInit == Init /\ slice \in {"link", "keys", "full"}

MCNext ==
    /\ UNCHANGED slice
    /\ \/ slice = "link" /\ LinkSlice
       \/ slice = "keys" /\ KeySlice
       \/ slice = "full" /\ FullSlice

\* BtAppT /\ MCNext, of which TLC would evaluate every combination of steps.
MCBtAppT ==
    /\ UNCHANGED slice
    /\ \/ slice = "link" /\ LinkTask
       \/ slice = "keys" /\ KeyTask
       \/ slice = "full" /\ FullTask

MCSpec ==
    /\ MCInit
    /\ [][MCNext]_<<vars, slice>>
    /\ WF_<<vars, slice>>(MCBtAppT)
    /\ WF_<<vars, slice>>(player_status_updated /\ MCNext)
    /\ WF_<<vars, slice>>(a2d_rec_alarm_to /\ MCNext)
    /\ WF_<<vars, slice>>(ToneEnds /\ MCNext)
=============================================================================
