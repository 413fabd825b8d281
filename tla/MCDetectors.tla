---------------------------- MODULE MCDetectors ----------------------------
(***************************************************************************)
(* The three detectors share nothing but the player: a behaviour exercises *)
(* the slice chosen at its start, so that the numbers of states add up     *)
(* instead of multiplying.  The card and the keys meet in CardPeek, which  *)
(* pauses the player: it belongs to the slice of the card.                 *)
(***************************************************************************)
EXTENDS Detectors
CONSTANTS card1, card2
MCCards == {card1, card2}

VARIABLE slice
MCInit == Init /\ slice \in {"card", "line", "phones"}
          /\ (slice # "card" => slot = NoCard) /\ (slice # "line" => ~plug) /\ (slice # "phones" => hpLevel)
MCNext ==
  \/ slice = "card" /\ CardNext /\ UNCHANGED slice
  \/ slice = "line" /\ AuxNext /\ UNCHANGED slice
  \/ slice = "line" /\ KeyNext /\ UNCHANGED slice
  \/ slice = "phones" /\ SwapPhones /\ UNCHANGED slice
  \/ hp_timer_cb /\ UNCHANGED slice
MCSpec == MCInit /\ [][MCNext]_<<vars, slice>> /\ WF_<<vars, slice>>(hp_timer_cb /\ UNCHANGED slice)
=============================================================================
