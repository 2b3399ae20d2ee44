--------------------------- MODULE MCDurableTurn ---------------------------
(* A conversation of two runs. A write may not repeat and is reviewed, a    *)
(* read may and is not; the review may allow a call at once, so a write     *)
(* nobody reviews brings nothing new.                                       *)
EXTENDS DurableTurn

CONSTANTS write, read

MCCall == {write, read}
MCWrites == {write}
=============================================================================
