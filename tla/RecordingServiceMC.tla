------------------------- MODULE RecordingServiceMC ------------------------
(* Small instances of RecordingService for TLC. *)
EXTENDS RecordingService

\* Requests for a camera one after the other, or in any order.
Both == BOOLEAN
Any == {TRUE}
=============================================================================
