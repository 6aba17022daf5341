----------------------------- MODULE EventFeed -----------------------------
(***************************************************************************)
(* What analysing cameras promises, without tasks, captures or an event    *)
(* loop: a camera has one feeder at a time, and only it sends events for   *)
(* the camera; who gave a camera up never sends again.  The events of a    *)
(* feeder are the tracks of its frames, each one once, and those of a      *)
(* frame before those of the next.  AiEngine implements it.                *)
(***************************************************************************)
EXTENDS Integers, Sequences

CONSTANTS
    Cameras, Feeders, Nobody,
    Frames, Tracks  \* numbers, from 1 on

VARIABLES
    feeder,     \* of a camera: who sends events for it, or Nobody
    spent,      \* the feeders that ever had a camera
    stream      \* of a feeder: the events <<frame, track>> it sent

feeds == <<feeder, spent, stream>>

Init ==
    /\ feeder = [c \in Cameras |-> Nobody]
    /\ spent = {}
    /\ stream = [f \in Feeders |-> <<>>]

Take(c, f) ==
    /\ feeder[c] = Nobody /\ f \notin spent
    /\ feeder' = [feeder EXCEPT ![c] = f]
    /\ spent' = spent \cup {f}
    /\ UNCHANGED stream

\* The feeders of some cameras are told to stop.
Give(C) ==
    /\ feeder' = [c \in Cameras |-> IF c \in C THEN Nobody ELSE feeder[c]]
    /\ UNCHANGED <<spent, stream>>

\* The tracks of a frame are counted down.
Follows(sent, event) ==
    IF sent = <<>>
    THEN event[1] = 1
    ELSE LET last == sent[Len(sent)]
         IN  IF last[2] > 1 THEN event = <<last[1], last[2] - 1>>
                            ELSE event[1] = last[1] + 1

Send(c) ==
    LET f == feeder[c]
    IN  /\ f # Nobody
        /\ \E event \in Frames \X Tracks :
              /\ Follows(stream[f], event)
              /\ stream' = [stream EXCEPT ![f] = Append(@, event)]
        /\ UNCHANGED <<feeder, spent>>

Next ==
    \/ \E c \in Cameras : Send(c) \/ \E f \in Feeders : Take(c, f)
    \/ \E C \in SUBSET Cameras : Give(C)

Spec == Init /\ [][Next]_feeds
=============================================================================
