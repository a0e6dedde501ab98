----------------------------- MODULE MCHttpGrab -----------------------------
(* Instances of HttpGrab for TLC.                                          *)
EXTENDS HttpGrab

AllSettings == SUBSET Settings
=============================================================================
