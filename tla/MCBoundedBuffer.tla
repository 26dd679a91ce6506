--------------------------- MODULE MCBoundedBuffer ---------------------------
(* Three producers and two consumers on a buffer of two slots: more callers *)
(* than permits on either side, and two that hold a permit contend for the  *)
(* mutex.                                                                   *)
EXTENDS BoundedBuffer

=============================================================================
