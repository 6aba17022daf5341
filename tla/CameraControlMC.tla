-------------------------- MODULE CameraControlMC --------------------------
(* CameraControl with Tuya cameras. *)
EXTENDS CameraControl, TLC

CONSTANTS tuya1, tuya2

TwoTuya == {tuya1, tuya2}

\* All on, not recorded, and switched off.
SomeSettings == {Flags, {"enabled", "ai"}, Services}
=============================================================================
