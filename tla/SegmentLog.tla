----------------------------- MODULE SegmentLog ----------------------------
(***************************************************************************)
(* What recording promises, without processes, tasks or a registry: the    *)
(* directory of a camera is a log that one recorder at a time appends      *)
(* segments to.  Only the newest can be incomplete, no segment changes     *)
(* once it is complete, and only complete ones are told of, perhaps when   *)
(* the camera has been given up.  RecordingService implements it when the  *)
(* requests for a camera do not overlap.                                   *)
(***************************************************************************)
EXTENDS Sequences

CONSTANTS Cameras, Recorders, Nobody

VARIABLES
    holder,     \* of a camera: the recorder that has it, or Nobody
    writing,    \* the recorders that write
    log,        \* of a camera: its segments [writer, open]
    told        \* what was told of segments

segments == <<holder, writing, log, told>>

Complete(fs) == [n \in DOMAIN fs |-> [fs[n] EXCEPT !.open = FALSE]]

Init ==
    /\ holder = [c \in Cameras |-> Nobody]
    /\ writing = {}
    /\ log = [c \in Cameras |-> <<>>]
    /\ told = {}

\* A recorder without a camera gets a free one, and writes.
Take(c, r) ==
    /\ holder[c] = Nobody
    /\ \A d \in Cameras : holder[d] # r
    /\ holder' = [holder EXCEPT ![c] = r]
    /\ writing' = writing \cup {r}
    /\ UNCHANGED <<log, told>>

\* The next segment begins, which completes the one before.
Cut(c) ==
    /\ holder[c] \in writing
    /\ log' = [log EXCEPT ![c] =
                 Append(Complete(@), [writer |-> holder[c], open |-> TRUE])]
    /\ UNCHANGED <<holder, writing, told>>

\* Writing ends, by itself or because it is stopped.
End(c) ==
    /\ holder[c] \in writing
    /\ writing' = writing \ {holder[c]}
    /\ log' = [log EXCEPT ![c] = Complete(@)]
    /\ UNCHANGED <<holder, told>>

\* The camera is only given up by a recorder that writes no more.
Release(c) ==
    /\ holder[c] \notin writing \cup {Nobody}
    /\ holder' = [holder EXCEPT ![c] = Nobody]
    /\ UNCHANGED <<writing, log, told>>

\* A complete segment is told of, perhaps once more.
Tell(c) ==
    /\ \E n \in DOMAIN log[c] :
          /\ ~log[c][n].open
          /\ told' = told \cup {[camera |-> c, file |-> n, open |-> FALSE]}
    /\ UNCHANGED <<holder, writing, log>>

Next ==
    \E c \in Cameras : \/ \E r \in Recorders : Take(c, r)
                       \/ Cut(c) \/ End(c) \/ Release(c) \/ Tell(c)

Spec == Init /\ [][Next]_segments
=============================================================================
