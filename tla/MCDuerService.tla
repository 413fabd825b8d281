--------------------------- MODULE MCDuerService ---------------------------
(***************************************************************************)
(* DuerService for TLC.  MaxRetryNum = 4 gives up at the third QUIT in a   *)
(* row instead of the eighth; a queue of two fills as one of five does.    *)
(***************************************************************************)
EXTENDS DuerService
=============================================================================
