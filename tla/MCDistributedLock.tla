------------------------- MODULE MCDistributedLock -------------------------
(* The instance of DistributedLock in units of a second (the saga's lock    *)
(* has a ttl of 15 s): three invocations that compete for one key.          *)
EXTENDS DistributedLock

CONSTANTS i1, i2, i3

MCOwner == {i1, i2, i3}
=============================================================================
