------------------------------ MODULE MCOpenClaw ------------------------------
(* Instance of OpenClaw for TLC. *)
EXTENDS OpenClaw
===============================================================================
