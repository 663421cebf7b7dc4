------------------------------- MODULE MCSweep -------------------------------
(* Sweep with two requests of one and two tokens. *)
EXTENDS Sweep
OneAndTwo == <<1, 2>>
=============================================================================
