-------------------------------- MODULE Clock --------------------------------
(* What the readers at a cutoff share.                                     *)
CONSTANT None   \* no value: null, NaN, infinite, not a number, or not stated

VARIABLE now    \* the clock
=============================================================================
