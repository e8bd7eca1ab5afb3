------------------------------- MODULE MCTftp -------------------------------
(* Small instances of Tftp. *)
EXTENDS Tftp

MCSizes == 1..4
=============================================================================
