---------------------------- MODULE IoUTrackerMC ----------------------------
(* IoUTracker on a row of boxes of which neighbours overlap enough. *)
EXTENDS IoUTracker

A == <<0, 0, 10, 10>>
B == <<4, 0, 14, 10>>      \* overlaps A and C by 43 %
C == <<8, 0, 18, 10>>      \* overlaps A by 11 %

Scene ==
    [xyxy : {A, B}, class_id : {0}, confidence : {50, 90}]
        \cup {[xyxy |-> C, class_id |-> 0, confidence |-> 50],
              [xyxy |-> B, class_id |-> 1, confidence |-> 90]}
=============================================================================
