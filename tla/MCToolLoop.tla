----------------------------- MODULE MCToolLoop -----------------------------
(* ToolLoop for TLC; there is nothing symmetric about a single run.        *)
EXTENDS ToolLoop
=============================================================================
