------------------------------ MODULE MCLMDBTxn ------------------------------
(* Small instances of LMDBTxn for TLC. *)
EXTENDS LMDBTxn

TwoKeys == {1, 2}
OneId == {1}
===============================================================================
