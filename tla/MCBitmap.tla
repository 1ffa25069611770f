------------------------------ MODULE MCBitmap ------------------------------
(* Small instance: both maps fit in half a block, as bitchunks_per_block     *)
(* requires.                                                                 *)
EXTENDS Bitmap, TLC

ASSUME SmallMapsAssumption == SmallMaps

=============================================================================
