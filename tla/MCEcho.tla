------------------------------- MODULE MCEcho -------------------------------
(***************************************************************************)
(* One client, since clients share nothing but the server process, which   *)
(* may be killed.  Its message fills a read buffer of two bytes twice and  *)
(* a part of the next: it may arrive whole and be read in several reads of *)
(* one loop, or in pieces.  (In the code it has 12 bytes, and the buffer   *)
(* 1024 at first.)                                                         *)
(***************************************************************************)
EXTENDS Echo

CONSTANT c1
=============================================================================
