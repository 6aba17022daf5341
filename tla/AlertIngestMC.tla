--------------------------- MODULE AlertIngestMC ---------------------------
(* Small instances of AlertIngest for TLC. *)
EXTENDS AlertIngest

CONSTANT cam1

Fast == [enabled |-> TRUE, camera_id |-> NoCamera,
         trigger |-> "object_detected", object_classes |-> {},
         min_confidence |-> 50, channels |-> {"webhook", Realtime},
         cooldown_seconds |-> 1]
Quiet == [Fast EXCEPT !.enabled = FALSE]

Person == [camera_id |-> cam1, object_class |-> "person", confidence |-> 80]

OneConfig == {Fast}
SomeConfigs == {Fast, Quiet}
OneDetection == {Person}
=============================================================================
