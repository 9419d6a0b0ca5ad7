------------------------------- MODULE MCTime -------------------------------
(***************************************************************************)
(* One client, since clients share the clock alone, with bits for bytes:   *)
(* seconds wrap around at 16.  The epoch is at 13 and the clock goes to 5, *)
(* past the wrap; numbers before it are negative if read as signed.  (In   *)
(* the code the radix is 256 and the epoch 2208988800, above 2^31 too.)    *)
(***************************************************************************)
EXTENDS Time

CONSTANT c1
=============================================================================
