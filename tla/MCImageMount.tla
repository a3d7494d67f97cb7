---------------------------- MODULE MCImageMount ----------------------------
(* Small instances of ImageMount for TLC. *)
EXTENDS ImageMount
===============================================================================
