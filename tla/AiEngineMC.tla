----------------------------- MODULE AiEngineMC -----------------------------
(* AiEngine on few cameras and requests. *)
EXTENDS AiEngine

Both == BOOLEAN
=============================================================================
