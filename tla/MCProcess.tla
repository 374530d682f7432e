------------------------------ MODULE MCProcess ------------------------------
(* Process on a small instance.                                              *)
EXTENDS Process
=============================================================================
