----------------------------- MODULE IoUTracker -----------------------------
(***************************************************************************)
(* The ai-engine's tracker: update() gives every detection of a frame an   *)
(* id, that of the track it overlaps most or a new one, greedily by        *)
(* descending confidence, and drops the tracks that were not seen for too  *)
(* long.  One step is one turn of a loop of update().                      *)
(*                                                                         *)
(* Coordinates are integers and the overlap is an exact fraction: rounding *)
(* of floats is left out.                                                  *)
(***************************************************************************)
EXTENDS Integers, Sequences

CONSTANTS
    Detections,     \* what the detector may report: box, class, confidence in %
    max_age,        \* updates a track outlives without a detection
    MaxDetections,  \* bound of the detections of a frame
    MaxFrames       \* bound of the updates

Box == Int \X Int \X Int \X Int      \* corners <<x1, y1, x2, y2>>

Detection == [xyxy : Box, class_id : Int, confidence : Int]

ASSUME DetectionAssumption == Detections \subseteq Detection
ASSUME BoundAssumption ==
    max_age \in Nat /\ MaxDetections \in Nat /\ MaxFrames \in Nat

VARIABLES
    frame_idx,      \* the index of the next, or of the current, update
    busy,           \* is an update under way?
    detections,     \* ... its detections
    left,           \* ... those the matching has not looked at
    matched,        \* ... the ids found so far: index of a detection -> id
    before,         \* ... the tracks when it began
    _next_id,
    _active,        \* the tracks: id -> record
    sighting        \* what was last returned under an id: its class and frame

vars == <<frame_idx, busy, detections, left, matched, before, _next_id, _active,
          sighting>>

Track == [bbox : Box, class_id : Int, last_seen : Nat]

NoIds == [t \in {} |-> 0]

Put(f, x, y) == [z \in DOMAIN f \cup {x} |-> IF z = x THEN y ELSE f[z]]

----------------------------------------------------------------------------
(* Overlap *)

Least(a, b) == IF a <= b THEN a ELSE b
Most(a, b) == IF a >= b THEN a ELSE b

Width(a, b) == Most(0, Least(a[3], b[3]) - Most(a[1], b[1]))
Height(a, b) == Most(0, Least(a[4], b[4]) - Most(a[2], b[2]))

\* A fraction <<numerator, denominator>>.
_iou(a, b) ==
    LET inter == Width(a, b) * Height(a, b)
        union == Width(a, a) * Height(a, a) + Width(b, b) * Height(b, b) - inter
    IN IF inter <= 0 THEN <<0, 1>> ELSE <<inter, union>>

iou_threshold == <<3, 10>>

More(p, q) == p[1] * q[2] > q[1] * p[2]

----------------------------------------------------------------------------
Init ==
    /\ frame_idx = 0
    /\ busy = FALSE
    /\ detections = <<>>
    /\ left = {}
    /\ matched = NoIds
    /\ before = NoIds
    /\ _next_id = 1
    /\ _active = NoIds
    /\ sighting = NoIds

\* The pipeline calls update() once for every frame it got.
Update ==
    /\ ~busy
    /\ frame_idx < MaxFrames
    /\ busy' = TRUE
    /\ \E n \in 0 .. MaxDetections : detections' \in [1 .. n -> Detections]
    /\ left' = DOMAIN detections'
    /\ matched' = NoIds
    /\ before' = _active
    /\ UNCHANGED <<frame_idx, _next_id, _active, sighting>>

\* Mutant: in the order of the list.
IsNextInOrder(i) == \A j \in left : i <= j

\* sorted() is stable: of equals the first one.
IsNext(i) ==
    \A j \in left :
        \/ detections[j].confidence < detections[i].confidence
        \/ detections[j].confidence = detections[i].confidence /\ i <= j

Taken == {matched[i] : i \in DOMAIN matched}

\* Mutant: a track may be matched twice.
CandidatesTwice(i) ==
    {t \in DOMAIN _active :
        /\ _active[t].class_id = detections[i].class_id
        /\ More(_iou(_active[t].bbox, detections[i].xyxy), iou_threshold)}

Candidates(i) ==
    {t \in DOMAIN _active \ Taken :
        /\ _active[t].class_id = detections[i].class_id
        /\ More(_iou(_active[t].bbox, detections[i].xyxy), iou_threshold)}

\* The candidate with the largest overlap, of equals the first one in the
\* dictionary, which keeps its tracks in the order of their ids.
IsBest(t, i) ==
    LET overlap(u) == _iou(_active[u].bbox, detections[i].xyxy)
    IN /\ t \in Candidates(i)
       /\ \A u \in Candidates(i) : /\ ~More(overlap(u), overlap(t))
                                   /\ More(overlap(t), overlap(u)) \/ t <= u

\* Detection i is seen under id t.
See(i, t) ==
    /\ matched' = Put(matched, i, t)
    /\ _active' = Put(_active, t, [bbox |-> detections[i].xyxy,
                                   class_id |-> detections[i].class_id,
                                   last_seen |-> frame_idx])

\* The first loop: a detection takes over its best track, or none.
MatchNext(i) ==
    /\ i \in left
    /\ IsNext(i)
    /\ left' = left \ {i}
    /\ \/ \E t \in Candidates(i) : IsBest(t, i) /\ See(i, t)
       \/ Candidates(i) = {} /\ UNCHANGED <<matched, _active>>
    /\ UNCHANGED <<frame_idx, busy, detections, before, _next_id, sighting>>

\* Mutant: the number after the one that was handed out.
IdAfter == _next_id + 1

NewId == _next_id

\* The second loop: the next detection without a track gets a new one.
Spawn(i) ==
    /\ busy /\ left = {}
    /\ i \in DOMAIN detections \ DOMAIN matched
    /\ \A j \in DOMAIN detections \ DOMAIN matched : i <= j
    /\ See(i, NewId)
    /\ _next_id' = _next_id + 1
    /\ UNCHANGED <<frame_idx, busy, detections, left, before, sighting>>

\* Mutant: one update too many.
ExpiredLate(t) == frame_idx - _active[t].last_seen > max_age + 1

Expired(t) == frame_idx - _active[t].last_seen > max_age

\* The stale tracks go and the tracks of the frame are returned.
Return ==
    /\ busy /\ left = {}
    /\ DOMAIN matched = DOMAIN detections
    /\ _active' = [t \in {u \in DOMAIN _active : ~Expired(u)} |-> _active[t]]
    /\ sighting' = [t \in DOMAIN sighting \cup Taken |->
                      IF t \in Taken
                      THEN [class_id |-> _active[t].class_id, frame |-> frame_idx]
                      ELSE sighting[t]]
    /\ busy' = FALSE
    /\ frame_idx' = frame_idx + 1
    /\ detections' = <<>>
    /\ matched' = NoIds
    /\ before' = NoIds
    /\ UNCHANGED <<left, _next_id>>

Done == ~busy /\ frame_idx = MaxFrames

Next ==
    \/ Update
    \/ \E i \in DOMAIN detections : MatchNext(i) \/ Spawn(i)
    \/ Return
    \/ Done /\ UNCHANGED vars

Spec == Init /\ [][Next]_vars

----------------------------------------------------------------------------
(* Properties *)

\* Tracks, detections and ids have their types, and every id in use was
\* handed out by the counter.
TypeOK ==
    /\ frame_idx \in 0 .. MaxFrames
    /\ busy \in BOOLEAN
    /\ detections \in Seq(Detections)
    /\ left \subseteq DOMAIN detections
    /\ _next_id \in Nat \ {0}
    /\ DOMAIN matched \subseteq DOMAIN detections
    /\ \A i \in DOMAIN matched : matched[i] \in 1 .. (_next_id - 1)
    /\ DOMAIN _active \subseteq 1 .. (_next_id - 1)
    /\ \A t \in DOMAIN _active : _active[t] \in Track
    /\ DOMAIN before \subseteq 1 .. (_next_id - 1)
    /\ \A t \in DOMAIN before : before[t] \in Track
    /\ DOMAIN sighting \subseteq 1 .. (_next_id - 1)
    /\ \A t \in DOMAIN sighting :
          sighting[t] \in [class_id : Int, frame : Nat]

\* Two detections of a frame never share an id.
OneObjectEach ==
    \A i, j \in DOMAIN matched : matched[i] = matched[j] => i = j

\* How well detection i did: the overlap with the track it took over, or
\* the threshold when its track is new.
Got(i) ==
    IF matched[i] \in DOMAIN before
    THEN _iou(before[matched[i]].bbox, detections[i].xyxy)
    ELSE iou_threshold

\* "Greedy IoU matching by descending detection confidence", seen from the
\* result: when update() returns, no detection would rather have had another
\* track of its class, unless that track went to a detection that the
\* detector was at least as sure of. In particular no object gets a new id
\* while its old track is free.
NoEnvy ==
    busy /\ left = {} /\ DOMAIN matched = DOMAIN detections =>
        \A i \in DOMAIN detections : \A t \in DOMAIN before :
            /\ before[t].class_id = detections[i].class_id
            /\ More(_iou(before[t].bbox, detections[i].xyxy), Got(i))
            => \E j \in DOMAIN matched :
                  /\ matched[j] = t
                  /\ detections[j].confidence >= detections[i].confidence

\* An id stands for one object: when it is returned again it is for the same
\* class, and not after more than max_age updates without it, although ids of
\* dropped tracks are not remembered anywhere.
SameObject ==
    [][\A t \in DOMAIN sighting :
          /\ t \in DOMAIN sighting'
          /\ sighting'[t].class_id = sighting[t].class_id
          /\ sighting'[t].frame - sighting[t].frame <= max_age + 1]_vars
=============================================================================
