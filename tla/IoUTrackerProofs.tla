-------------------------- MODULE IoUTrackerProofs -------------------------
(***************************************************************************)
(* Safety of IoUTracker for every detector, frame rate and max_age.        *)
(*                                                                         *)
(* The invariant says what the loops of update() have established so far:  *)
(* a track that is not taken is as it was when the update began, and no    *)
(* detection that was looked at envies another one without the order of    *)
(* the confidences being the reason.                                       *)
(***************************************************************************)
EXTENDS IoUTracker, SequenceTheorems, TLAPS

Processed == DOMAIN detections \ left

\* What a detection made of an id.
Seen(i) == [bbox |-> detections[i].xyxy,
            class_id |-> detections[i].class_id,
            last_seen |-> frame_idx]

\* Between updates there is nothing left over.
IdleInv ==
    /\ ~busy => detections = <<>> /\ left = {} /\ DOMAIN matched = {}
    /\ busy => frame_idx < MaxFrames

\* Taken tracks hold their detection, free ones what they held before, and
\* while detections are matched there are no others.
TracksInv ==
    /\ DOMAIN matched \subseteq Processed
    /\ \A i \in DOMAIN matched :
          matched[i] \in DOMAIN _active /\ _active[matched[i]] = Seen(i)
    /\ busy => DOMAIN before \subseteq DOMAIN _active
    /\ busy => \A t \in DOMAIN before : t \notin Taken => _active[t] = before[t]
    /\ busy => DOMAIN _active \subseteq DOMAIN before \cup Taken
    /\ left # {} => DOMAIN _active \subseteq DOMAIN before

\* The detections left are no surer than those that were looked at.
OrderInv ==
    \A i \in Processed : \A j \in left :
        detections[i].confidence >= detections[j].confidence

\* How well a detection that was looked at did so far.
GotSoFar(i) ==
    IF i \in DOMAIN matched /\ matched[i] \in DOMAIN before
    THEN _iou(before[matched[i]].bbox, detections[i].xyxy)
    ELSE iou_threshold

Desired(i, t) ==
    /\ before[t].class_id = detections[i].class_id
    /\ More(_iou(before[t].bbox, detections[i].xyxy), GotSoFar(i))

EnvyInv ==
    busy => \A i \in Processed : \A t \in DOMAIN before : Desired(i, t) =>
        \E j \in DOMAIN matched :
            /\ matched[j] = t
            /\ detections[j].confidence >= detections[i].confidence

\* A track is of the class its id was returned for, and young enough.
SightingInv ==
    /\ \A t \in DOMAIN _active \cap DOMAIN sighting :
          /\ sighting[t].class_id = _active[t].class_id
          /\ frame_idx - sighting[t].frame <= max_age + 1
    /\ \A t \in DOMAIN _active : t \notin Taken =>
          t \in DOMAIN sighting /\ _active[t].last_seen = sighting[t].frame

IInv == /\ TypeOK /\ IdleInv /\ TracksInv /\ OneObjectEach
        /\ OrderInv /\ EnvyInv /\ SightingInv

----------------------------------------------------------------------------
(* Arithmetic *)

Positive == Int \X (Nat \ {0})

LEMMA ProductGrows ==
    ASSUME NEW a \in Nat, NEW b \in Nat, NEW c \in Nat, NEW d \in Nat,
           a <= c, b <= d
    PROVE  a * b <= c * d
<1>1. a * b <= c * b
    BY SMT
<1>2. c * b <= c * d
    BY SMT
<1>3. a * b \in Int /\ c * b \in Int /\ c * d \in Int
    OBVIOUS
<1> QED
    BY <1>1, <1>2, <1>3

LEMMA Sides ==
    ASSUME NEW a \in Box, NEW b \in Box
    PROVE  /\ Width(a, b) \in Nat /\ Height(a, b) \in Nat
           /\ Width(a, b) <= Width(a, a) /\ Width(a, b) <= Width(b, b)
           /\ Height(a, b) <= Height(a, a) /\ Height(a, b) <= Height(b, b)
    BY DEF Box, Width, Height, Most, Least

\* The overlap is a fraction with a positive denominator.
LEMMA Fraction ==
    ASSUME NEW a \in Box, NEW b \in Box
    PROVE  _iou(a, b) \in Positive
<1> DEFINE inter == Width(a, b) * Height(a, b)
           mine == Width(a, a) * Height(a, a)
           yours == Width(b, b) * Height(b, b)
<1>1. /\ Width(a, b) \in Nat /\ Height(a, b) \in Nat
      /\ Width(a, a) \in Nat /\ Height(a, a) \in Nat
      /\ Width(b, b) \in Nat /\ Height(b, b) \in Nat
    BY Sides
<1>2. inter \in Nat /\ mine \in Nat /\ yours \in Nat
    BY <1>1
<1>3. inter <= mine
    BY <1>1, Sides, ProductGrows
<1>4. inter <= yours
    BY <1>1, Sides, ProductGrows
<1>5. _iou(a, b) = IF inter <= 0 THEN <<0, 1>> ELSE <<inter, mine + yours - inter>>
    BY DEF _iou
<1> HIDE DEF inter, mine, yours
<1> QED
    BY <1>2, <1>3, <1>4, <1>5 DEF Positive

LEMMA Scaled ==
    ASSUME NEW a \in Int, NEW b \in Int, NEW k \in Nat \ {0}
    PROVE  /\ a > b <=> a * k > b * k
           /\ a >= b <=> a * k >= b * k
<1>1. ASSUME NEW x \in Int, NEW y \in Int, x > y PROVE x * k > y * k
    BY <1>1, SMT
<1>2. a > b => a * k > b * k
    BY <1>1
<1>3. b > a => b * k > a * k
    BY <1>1
<1>4. a = b => a * k = b * k
    OBVIOUS
<1>5. a * k \in Int /\ b * k \in Int
    OBVIOUS
<1> QED
    BY <1>2, <1>3, <1>4, <1>5

\* A better overlap than a better overlap is a better overlap.
LEMMA MoreTransitive ==
    ASSUME NEW p \in Positive, NEW q \in Positive, NEW r \in Positive,
           More(p, q), More(q, r)
    PROVE  More(p, r)
<1> DEFINE a == p[1]  b == p[2]  c == q[1]  d == q[2]  e == r[1]  f == r[2]
<1>0. /\ a \in Int /\ c \in Int /\ e \in Int
      /\ b \in Nat \ {0} /\ d \in Nat \ {0} /\ f \in Nat \ {0}
    BY DEF Positive
<1>1. a * d > c * b /\ c * f > e * d
    BY DEF More
<1> HIDE DEF a, b, c, d, e, f
<1>2. (a * d) * f > (c * b) * f
    BY <1>0, <1>1, Scaled
<1>3. (c * f) * b > (e * d) * b
    BY <1>0, <1>1, Scaled
<1>4. /\ (a * d) * f = (a * f) * d
      /\ (c * b) * f = (c * f) * b
      /\ (e * d) * b = (e * b) * d
    BY <1>0
<1>5. (a * f) * d > (e * b) * d
    BY <1>0, <1>2, <1>3, <1>4
<1>6. a * f > e * b
    BY <1>0, <1>5, Scaled
<1> QED
    BY <1>6 DEF More, a, b, e, f

----------------------------------------------------------------------------
(* The invariant *)

LEMMA PutFacts ==
    ASSUME NEW f, NEW x, NEW y
    PROVE  /\ DOMAIN Put(f, x, y) = DOMAIN f \cup {x}
           /\ Put(f, x, y)[x] = y
           /\ \A z \in DOMAIN f : z # x => Put(f, x, y)[z] = f[z]
    BY DEF Put

LEMMA InitInv == Init => IInv
<1> SUFFICES ASSUME Init PROVE IInv
    OBVIOUS
<1>1. TypeOK
    <2>1. /\ detections \in Seq(Detections)
          /\ DOMAIN detections = {} /\ DOMAIN NoIds = {}
        BY DEF Init, NoIds
    <2>2. frame_idx \in 0 .. MaxFrames
        BY BoundAssumption DEF Init
    <2>3. busy \in BOOLEAN
        BY DEF Init
    <2>4. /\ left \subseteq DOMAIN detections
          /\ _next_id \in Nat \ {0}
          /\ DOMAIN matched = {} /\ DOMAIN before = {}
          /\ DOMAIN _active = {} /\ DOMAIN sighting = {}
        BY <2>1 DEF Init
    <2> QED
        BY <2>1, <2>2, <2>3, <2>4 DEF TypeOK
<1>2. IdleInv /\ TracksInv /\ OneObjectEach /\ OrderInv /\ EnvyInv /\ SightingInv
    BY DEF Init, NoIds, IdleInv, TracksInv, OneObjectEach, OrderInv, EnvyInv,
           SightingInv, Processed
<1> QED
    BY <1>1, <1>2 DEF IInv

LEMMA UpdateInv == IInv /\ Update => IInv'
<1> SUFFICES ASSUME IInv, Update PROVE IInv'
    OBVIOUS
<1>1. PICK n \in 0 .. MaxDetections : detections' \in [1 .. n -> Detections]
    BY DEF Update
<1>2. detections' \in Seq(Detections) /\ DOMAIN detections' = 1 .. n
    BY <1>1, BoundAssumption
<1>3. /\ ~busy /\ busy' /\ DOMAIN matched = {} /\ DOMAIN matched' = {}
      /\ left' = DOMAIN detections' /\ before' = _active
      /\ UNCHANGED <<frame_idx, _next_id, _active, sighting>>
    BY DEF IInv, IdleInv, Update, NoIds
<1>4. Taken = {} /\ Taken' = {} /\ Processed' = {}
    BY <1>3 DEF Taken, Processed
<1>5. TypeOK'
    BY <1>2, <1>3 DEF IInv, TypeOK
<1>6. IdleInv' /\ OneObjectEach' /\ OrderInv' /\ EnvyInv'
    BY <1>3, <1>4 DEF Update, IdleInv, OneObjectEach, OrderInv, EnvyInv
<1>7. TracksInv'
    BY <1>3, <1>4 DEF TracksInv
<1>8. SightingInv'
    BY <1>3, <1>4 DEF IInv, SightingInv
<1> QED
    BY <1>5, <1>6, <1>7, <1>8 DEF IInv

\* What both loops do when detection i is seen under an id nobody took.
LEMMA SeeTracks ==
    ASSUME IInv, busy, UNCHANGED <<frame_idx, detections, before, busy>>,
           NEW i \in DOMAIN detections, i \notin DOMAIN matched,
           NEW t \in Nat, t \notin Taken, See(i, t)
    PROVE  /\ DOMAIN matched' = DOMAIN matched \cup {i}
           /\ matched'[i] = t
           /\ \A j \in DOMAIN matched : matched'[j] = matched[j]
           /\ Taken' = Taken \cup {t}
           /\ DOMAIN _active' = DOMAIN _active \cup {t}
           /\ _active'[t] = Seen(i)
           /\ \A u \in DOMAIN _active : u # t => _active'[u] = _active[u]
           /\ OneObjectEach'
           /\ \A j \in DOMAIN matched' :
                 matched'[j] \in DOMAIN _active' /\ _active'[matched'[j]] = Seen(j)
           /\ DOMAIN before \subseteq DOMAIN _active'
           /\ \A u \in DOMAIN before : u \notin Taken' => _active'[u] = before[u]
           /\ DOMAIN _active' \subseteq DOMAIN before \cup Taken'
<1>1. /\ DOMAIN matched' = DOMAIN matched \cup {i}
      /\ matched'[i] = t
      /\ \A j \in DOMAIN matched : matched'[j] = matched[j]
    <2>1. matched' = Put(matched, i, t)
        BY DEF See
    <2> QED
        BY <2>1 DEF Put
<1>2. /\ DOMAIN _active' = DOMAIN _active \cup {t}
      /\ _active'[t] = Seen(i)
      /\ \A u \in DOMAIN _active : u # t => _active'[u] = _active[u]
    <2>1. _active' = Put(_active, t, Seen(i))
        BY DEF See, Seen
    <2> QED
        BY <2>1 DEF Put
<1>3. Taken' = Taken \cup {t}
    BY <1>1 DEF Taken
<1>4. OneObjectEach'
    BY <1>1 DEF IInv, OneObjectEach, Taken
<1>5. \A j \in DOMAIN matched' :
         matched'[j] \in DOMAIN _active' /\ _active'[matched'[j]] = Seen(j)
    <2> TAKE j \in DOMAIN matched'
    <2>1. CASE j = i
        BY <2>1, <1>1, <1>2
    <2>2. CASE j # i
        <3>1. j \in DOMAIN matched /\ matched'[j] = matched[j] /\ matched[j] # t
            BY <2>2, <1>1 DEF Taken
        <3>2. matched[j] \in DOMAIN _active /\ _active[matched[j]] = Seen(j)
            BY <3>1 DEF IInv, TracksInv
        <3> QED
            BY <3>1, <3>2, <1>2
    <2> QED
        BY <2>1, <2>2
<1>6. /\ DOMAIN before \subseteq DOMAIN _active'
      /\ \A u \in DOMAIN before : u \notin Taken' => _active'[u] = before[u]
      /\ DOMAIN _active' \subseteq DOMAIN before \cup Taken'
    BY <1>2, <1>3 DEF IInv, TracksInv
<1> QED
    BY <1>1, <1>2, <1>3, <1>4, <1>5, <1>6

LEMMA MatchInv ==
    ASSUME IInv, NEW i \in DOMAIN detections, MatchNext(i)
    PROVE  IInv'
<1>0. /\ i \in left /\ IsNext(i) /\ left' = left \ {i} /\ busy
      /\ UNCHANGED <<frame_idx, busy, detections, before, _next_id, sighting>>
      /\ detections \in Seq(Detections) /\ left \subseteq DOMAIN detections
    BY DEF MatchNext, IInv, IdleInv, TypeOK
<1>1. i \notin DOMAIN matched /\ Processed' = Processed \cup {i}
    BY <1>0 DEF IInv, TracksInv, Processed
<1>2. \A j \in DOMAIN detections :
          detections[j] \in Detection /\ detections[j].confidence \in Int
    BY <1>0, DetectionAssumption DEF Detection
<1>3. OrderInv'
    <2>1. \A j \in left : detections[i].confidence >= detections[j].confidence
        BY <1>0, <1>2 DEF IsNext
    <2> QED
        BY <2>1, <1>0, <1>1 DEF IInv, OrderInv
<1>4. ASSUME NEW t \in DOMAIN before, t \in Taken,
             \A j \in DOMAIN matched : j \in DOMAIN matched' /\ matched'[j] = matched[j]
      PROVE  \E j \in DOMAIN matched' :
                 /\ matched'[j] = t
                 /\ detections[j].confidence >= detections[i].confidence
    <2>1. PICK j \in DOMAIN matched : matched[j] = t
        BY <1>4 DEF Taken
    <2>2. detections[j].confidence >= detections[i].confidence
        BY <1>0 DEF IInv, TracksInv, OrderInv
    <2> QED
        BY <1>4, <2>1, <2>2
\* Where i itself is left unsatisfied it is because of a taken track.
<1>5. ASSUME \A j \in DOMAIN matched : j \in DOMAIN matched' /\ matched'[j] = matched[j],
             DOMAIN matched' \subseteq DOMAIN matched \cup {i},
             \A t \in DOMAIN before : Desired(i, t)' => t \in Taken
      PROVE  EnvyInv'
    <2> SUFFICES ASSUME NEW k \in Processed', NEW t \in DOMAIN before, Desired(k, t)'
                 PROVE  \E j \in DOMAIN matched' :
                            /\ matched'[j] = t
                            /\ detections[j].confidence >= detections[k].confidence
        BY <1>0 DEF EnvyInv
    <2>1. CASE k = i
        BY <2>1, <1>4, <1>5
    <2>2. CASE k # i
        <3>1. k \in Processed /\ (k \in DOMAIN matched' <=> k \in DOMAIN matched)
            BY <2>2, <1>1, <1>5
        <3>2. Desired(k, t)
            BY <3>1, <1>0, <1>5 DEF Desired, GotSoFar
        <3>3. PICK j \in DOMAIN matched :
                  /\ matched[j] = t
                  /\ detections[j].confidence >= detections[k].confidence
            BY <3>1, <3>2, <1>0 DEF IInv, EnvyInv
        <3> QED
            BY <3>3, <1>5
    <2> QED
        BY <2>1, <2>2
<1>6. CASE Candidates(i) = {} /\ UNCHANGED <<matched, _active>>
    <2>1. Taken' = Taken
        BY <1>6 DEF Taken
    <2>2. TypeOK'
        BY <1>0, <1>6 DEF IInv, TypeOK
    <2>3. IdleInv' /\ OneObjectEach' /\ SightingInv'
        BY <1>0, <1>6, <2>1 DEF IInv, IdleInv, OneObjectEach, SightingInv
    <2>4. TracksInv'
        BY <1>0, <1>1, <1>6, <2>1 DEF IInv, TracksInv, Seen
    <2>5. \A t \in DOMAIN before : Desired(i, t)' => t \in Taken
        <3> SUFFICES ASSUME NEW t \in DOMAIN before, Desired(i, t)', t \notin Taken
                     PROVE  FALSE
            OBVIOUS
        <3>1. t \in DOMAIN _active /\ _active[t] = before[t]
            BY <1>0 DEF IInv, TracksInv
        <3>2. /\ before[t].class_id = detections[i].class_id
              /\ More(_iou(before[t].bbox, detections[i].xyxy), iou_threshold)
            BY <1>0, <1>1, <1>6 DEF Desired, GotSoFar
        <3> QED
            BY <3>1, <3>2, <1>6 DEF Candidates
    <2>6. EnvyInv'
        BY <1>5, <1>6, <2>5
    <2> QED
        BY <1>3, <2>2, <2>3, <2>4, <2>6 DEF IInv
<1>7. ASSUME NEW u \in Candidates(i), IsBest(u, i), See(i, u)
      PROVE  IInv'
    <2>1. /\ u \in DOMAIN _active /\ u \notin Taken /\ u \in 1 .. (_next_id - 1)
          /\ _active[u].class_id = detections[i].class_id
          /\ u \in DOMAIN before /\ _active[u] = before[u]
        BY <1>0, <1>7 DEF Candidates, IInv, TypeOK, TracksInv
    <2>2. u \in Nat
        BY <2>1
    <2>3. /\ DOMAIN matched' = DOMAIN matched \cup {i}
          /\ matched'[i] = u
          /\ \A j \in DOMAIN matched : matched'[j] = matched[j]
          /\ Taken' = Taken \cup {u}
          /\ DOMAIN _active' = DOMAIN _active \cup {u}
          /\ _active'[u] = Seen(i)
          /\ \A t \in DOMAIN _active : t # u => _active'[t] = _active[t]
        BY <1>0, <1>1, <1>7, <2>1, <2>2, SeeTracks
    <2>4. Seen(i) \in Track
        BY <1>0, <1>2 DEF Seen, Track, Detection, IInv, TypeOK
    <2>5. TypeOK'
        BY <1>0, <2>1, <2>3, <2>4 DEF IInv, TypeOK
    <2>6. OneObjectEach'
        BY <1>0, <1>1, <1>7, <2>1, <2>2, SeeTracks
    <2>7. TracksInv'
        <3>1. /\ \A j \in DOMAIN matched' :
                     matched'[j] \in DOMAIN _active' /\ _active'[matched'[j]] = Seen(j)
              /\ DOMAIN before \subseteq DOMAIN _active'
              /\ \A t \in DOMAIN before : t \notin Taken' => _active'[t] = before[t]
              /\ DOMAIN _active' \subseteq DOMAIN before \cup Taken'
            BY <1>0, <1>1, <1>7, <2>1, <2>2, SeeTracks
        <3>2. DOMAIN matched' \subseteq Processed'
            BY <1>1, <2>3 DEF IInv, TracksInv
        <3>3. DOMAIN _active' \subseteq DOMAIN before
            BY <1>0, <2>1, <2>3 DEF IInv, TracksInv
        <3> QED
            BY <1>0, <3>1, <3>2, <3>3 DEF TracksInv, Seen
    <2>8. SightingInv'
        <3>1. Seen(i).class_id = _active[u].class_id
            BY <2>1 DEF Seen
        <3> QED
            BY <1>0, <2>1, <2>3, <3>1 DEF IInv, SightingInv
    <2>9. \A t \in DOMAIN before : Desired(i, t)' => t \in Taken
        <3> SUFFICES ASSUME NEW t \in DOMAIN before, Desired(i, t)', t \notin Taken
                     PROVE  FALSE
            OBVIOUS
        <3> DEFINE overlap(v) == _iou(_active[v].bbox, detections[i].xyxy)
        <3>1. t \in DOMAIN _active /\ _active[t] = before[t]
            BY <1>0 DEF IInv, TracksInv
        <3>2. /\ before[t].class_id = detections[i].class_id
              /\ More(overlap(t), overlap(u))
            BY <1>0, <2>1, <2>3, <3>1 DEF Desired, GotSoFar
        <3>3. More(overlap(u), iou_threshold)
            BY <1>7 DEF Candidates
        <3>4. /\ overlap(t) \in Positive /\ overlap(u) \in Positive
              /\ iou_threshold \in Positive
            <4>1. _active[t].bbox \in Box /\ _active[u].bbox \in Box
                BY <2>1, <3>1 DEF IInv, TypeOK, Track
            <4>2. detections[i].xyxy \in Box
                BY <1>2 DEF Detection
            <4> QED
                BY <4>1, <4>2, Fraction DEF iou_threshold, Positive
        <3>5. More(overlap(t), iou_threshold)
            BY <3>2, <3>3, <3>4, MoreTransitive
        <3>6. t \in Candidates(i)
            BY <3>1, <3>2, <3>5 DEF Candidates
        <3> QED
            BY <1>7, <3>2, <3>6 DEF IsBest
    <2>10. EnvyInv'
        BY <1>5, <2>3, <2>9
    <2>11. IdleInv'
        BY <1>0 DEF IInv, IdleInv
    <2> QED
        BY <1>3, <2>5, <2>6, <2>7, <2>8, <2>10, <2>11 DEF IInv
<1> QED
    BY <1>6, <1>7 DEF MatchNext

LEMMA SpawnInv ==
    ASSUME IInv, NEW i \in DOMAIN detections, Spawn(i)
    PROVE  IInv'
<1> DEFINE t == _next_id
<1>0. /\ busy /\ left = {} /\ i \notin DOMAIN matched /\ See(i, t)
      /\ _next_id' = t + 1 /\ t \in Nat \ {0}
      /\ UNCHANGED <<frame_idx, busy, detections, left, before, sighting>>
      /\ detections \in Seq(Detections)
    BY DEF Spawn, NewId, IInv, TypeOK
<1>1. /\ t \notin Taken /\ t \notin DOMAIN _active
      /\ t \notin DOMAIN before /\ t \notin DOMAIN sighting
    BY <1>0 DEF IInv, TypeOK, Taken
<1>2. /\ DOMAIN matched' = DOMAIN matched \cup {i}
      /\ matched'[i] = t
      /\ \A j \in DOMAIN matched : matched'[j] = matched[j]
      /\ Taken' = Taken \cup {t}
      /\ DOMAIN _active' = DOMAIN _active \cup {t}
      /\ _active'[t] = Seen(i)
      /\ \A u \in DOMAIN _active : u # t => _active'[u] = _active[u]
    BY <1>0, <1>1, SeeTracks
<1> HIDE DEF t
<1>3. TypeOK'
    <2>1. Seen(i) \in Track
        BY <1>0, DetectionAssumption DEF Seen, Track, Detection, IInv, TypeOK
    <2>2. 1 .. (t - 1) \subseteq 1 .. ((t + 1) - 1) /\ t \in 1 .. ((t + 1) - 1)
        BY <1>0
    <2>3. \A j \in DOMAIN matched' : matched'[j] \in 1 .. (_next_id' - 1)
        BY <1>0, <1>2, <2>2 DEF IInv, TypeOK, t
    <2>4. /\ DOMAIN _active' \subseteq 1 .. (_next_id' - 1)
          /\ \A u \in DOMAIN _active' : _active'[u] \in Track
        BY <1>0, <1>2, <2>1, <2>2 DEF IInv, TypeOK, t
    <2>5. /\ DOMAIN before' \subseteq 1 .. (_next_id' - 1)
          /\ DOMAIN sighting' \subseteq 1 .. (_next_id' - 1)
        BY <1>0, <2>2 DEF IInv, TypeOK, t
    <2> QED
        BY <1>0, <1>2, <2>3, <2>4, <2>5 DEF IInv, TypeOK
<1>4. OneObjectEach'
    BY <1>0, <1>1, SeeTracks DEF t
<1>5. TracksInv'
    <2>1. /\ \A j \in DOMAIN matched' :
                 matched'[j] \in DOMAIN _active' /\ _active'[matched'[j]] = Seen(j)
          /\ DOMAIN before \subseteq DOMAIN _active'
          /\ \A u \in DOMAIN before : u \notin Taken' => _active'[u] = before[u]
          /\ DOMAIN _active' \subseteq DOMAIN before \cup Taken'
        BY <1>0, <1>1, SeeTracks DEF t
    <2>2. DOMAIN matched' \subseteq Processed'
        BY <1>0, <1>2 DEF IInv, TracksInv, Processed
    <2> QED
        BY <1>0, <2>1, <2>2 DEF TracksInv, Seen
<1>6. EnvyInv'
    <2> SUFFICES ASSUME NEW k \in Processed, NEW u \in DOMAIN before, Desired(k, u)'
                 PROVE  \E j \in DOMAIN matched' :
                            /\ matched'[j] = u
                            /\ detections[j].confidence >= detections[k].confidence
        BY <1>0 DEF EnvyInv, Processed
    <2>1. Desired(k, u)
        BY <1>0, <1>1, <1>2 DEF Desired, GotSoFar
    <2>2. PICK j \in DOMAIN matched :
              /\ matched[j] = u
              /\ detections[j].confidence >= detections[k].confidence
        BY <1>0, <2>1 DEF IInv, EnvyInv
    <2> QED
        BY <1>2, <2>2
<1>7. SightingInv'
    BY <1>0, <1>1, <1>2 DEF IInv, SightingInv
<1>8. IdleInv' /\ OrderInv'
    BY <1>0 DEF IInv, IdleInv, OrderInv
<1> QED
    BY <1>3, <1>4, <1>5, <1>6, <1>7, <1>8 DEF IInv

\* An id that is returned again is for the class it stood for, and recent.
LEMMA ReturnSighting ==
    ASSUME IInv, Return
    PROVE  /\ DOMAIN sighting \subseteq DOMAIN sighting'
           /\ \A t \in DOMAIN sighting :
                 /\ sighting'[t].class_id = sighting[t].class_id
                 /\ sighting'[t].frame - sighting[t].frame <= max_age + 1
           /\ \A t \in DOMAIN _active :
                 /\ t \in DOMAIN sighting'
                 /\ sighting'[t].class_id = _active[t].class_id
                 /\ sighting'[t].frame = _active[t].last_seen
           /\ sighting' \in [DOMAIN sighting' -> [class_id : Int, frame : Nat]]
<1>0. /\ frame_idx \in Nat /\ max_age \in Nat
      /\ DOMAIN sighting' = DOMAIN sighting \cup Taken
      /\ \A t \in Taken : sighting'[t] =
            [class_id |-> _active[t].class_id, frame |-> frame_idx]
      /\ \A t \in DOMAIN sighting : t \notin Taken => sighting'[t] = sighting[t]
    BY BoundAssumption DEF Return, IInv, TypeOK
<1>1. \A t \in Taken : t \in DOMAIN _active /\ _active[t].last_seen = frame_idx
    <2> TAKE t \in Taken
    <2>1. PICK i \in DOMAIN matched : matched[i] = t
        BY DEF Taken
    <2>2. matched[i] \in DOMAIN _active /\ _active[matched[i]] = Seen(i)
        BY DEF IInv, TracksInv
    <2>3. Seen(i).last_seen = frame_idx
        BY DEF Seen
    <2> QED
        BY <2>1, <2>2, <2>3
<1>2. /\ \A t \in DOMAIN _active : _active[t] \in Track
      /\ \A t \in DOMAIN sighting : sighting[t] \in [class_id : Int, frame : Nat]
    BY DEF IInv, TypeOK
<1>3. \A t \in DOMAIN sighting' : sighting'[t] \in [class_id : Int, frame : Nat]
    BY <1>0, <1>1, <1>2 DEF Track
<1>4. \A t \in DOMAIN sighting :
         /\ sighting'[t].class_id = sighting[t].class_id
         /\ sighting'[t].frame - sighting[t].frame <= max_age + 1
    BY <1>0, <1>1, <1>2 DEF IInv, SightingInv
<1>5. \A t \in DOMAIN _active :
         /\ t \in DOMAIN sighting'
         /\ sighting'[t].class_id = _active[t].class_id
         /\ sighting'[t].frame = _active[t].last_seen
    BY <1>0, <1>1 DEF IInv, SightingInv
<1>6. sighting' = [t \in DOMAIN sighting' |-> sighting'[t]]
    BY DEF Return
<1> QED
    BY <1>0, <1>3, <1>4, <1>5, <1>6

LEMMA ReturnInv == IInv /\ Return => IInv'
<1> SUFFICES ASSUME IInv, Return PROVE IInv'
    OBVIOUS
<1>0. /\ busy /\ left = {} /\ left' = {} /\ busy' = FALSE /\ detections' = <<>>
      /\ matched' = NoIds /\ before' = NoIds /\ frame_idx' = frame_idx + 1
      /\ _next_id' = _next_id /\ frame_idx \in 0 .. MaxFrames
      /\ frame_idx < MaxFrames
      /\ _active' = [t \in {u \in DOMAIN _active : ~Expired(u)} |-> _active[t]]
      /\ DOMAIN matched' = {} /\ DOMAIN before' = {} /\ max_age \in Nat
    BY BoundAssumption DEF Return, IInv, IdleInv, TypeOK, NoIds
<1>1. /\ DOMAIN _active' \subseteq DOMAIN _active
      /\ \A t \in DOMAIN _active' :
            /\ _active'[t] = _active[t]
            /\ _active[t] \in Track
            /\ frame_idx - _active[t].last_seen <= max_age
    <2>1. \A t \in DOMAIN _active' : t \in DOMAIN _active /\ ~Expired(t)
        BY <1>0
    <2>2. \A t \in DOMAIN _active' : _active'[t] = _active[t] /\ _active[t] \in Track
        BY <1>0, <2>1 DEF IInv, TypeOK
    <2>3. \A t \in DOMAIN _active' : frame_idx - _active[t].last_seen <= max_age
        BY <1>0, <2>1, <2>2 DEF Expired, Track
    <2> QED
        BY <2>1, <2>2, <2>3
<1>2. Taken \subseteq 1 .. (_next_id - 1) /\ Taken' = {} /\ Processed' = {}
    BY <1>0 DEF Taken, Processed, IInv, TypeOK
<1>3. TypeOK'
    <2>1. /\ DOMAIN sighting' \subseteq 1 .. (_next_id - 1)
          /\ \A t \in DOMAIN sighting' :
                sighting'[t] \in [class_id : Int, frame : Nat]
        BY <1>2, ReturnSighting DEF Return, IInv, TypeOK
    <2>2. /\ frame_idx' \in 0 .. MaxFrames
          /\ detections' \in Seq(Detections)
          /\ left' \subseteq DOMAIN detections'
          /\ DOMAIN matched' \subseteq DOMAIN detections'
        BY <1>0, BoundAssumption
    <2>3. /\ DOMAIN _active' \subseteq 1 .. (_next_id' - 1)
          /\ \A t \in DOMAIN _active' : _active'[t] \in Track
        BY <1>0, <1>1 DEF IInv, TypeOK
    <2> QED
        BY <1>0, <2>1, <2>2, <2>3 DEF IInv, TypeOK
<1>4. IdleInv' /\ OneObjectEach' /\ OrderInv' /\ EnvyInv'
    BY <1>0 DEF IdleInv, OneObjectEach, OrderInv, EnvyInv
<1>5. TracksInv'
    BY <1>0 DEF TracksInv
<1>6. SightingInv'
    <2>1. \A t \in DOMAIN _active' :
              /\ t \in DOMAIN sighting'
              /\ sighting'[t].class_id = _active'[t].class_id
              /\ sighting'[t].frame = _active'[t].last_seen
        BY <1>1, ReturnSighting
    <2>2. \A t \in DOMAIN _active' :
              frame_idx' - sighting'[t].frame <= max_age + 1
        BY <1>0, <1>1, <2>1 DEF Track
    <2> QED
        BY <2>1, <2>2 DEF SightingInv
<1> QED
    BY <1>3, <1>4, <1>5, <1>6 DEF IInv

LEMMA StutterInv == IInv /\ UNCHANGED vars => IInv'
<1> SUFFICES ASSUME IInv, UNCHANGED vars PROVE IInv'
    OBVIOUS
<1>1. Taken' = Taken /\ Processed' = Processed
    BY DEF vars, Taken, Processed
<1>2. TypeOK' /\ IdleInv' /\ OneObjectEach'
    BY DEF vars, IInv, TypeOK, IdleInv, OneObjectEach
<1>3. TracksInv' /\ OrderInv' /\ SightingInv'
    BY <1>1 DEF vars, IInv, TracksInv, OrderInv, SightingInv, Seen
<1>4. EnvyInv'
    BY <1>1 DEF vars, IInv, EnvyInv, Desired, GotSoFar
<1> QED
    BY <1>2, <1>3, <1>4 DEF IInv

LEMMA StepInv == IInv /\ [Next]_vars => IInv'
    BY UpdateInv, MatchInv, SpawnInv, ReturnInv, StutterInv DEF Next

LEMMA Invariant == Spec => []IInv
<1> QED
    BY InitInv, StepInv, PTL DEF Spec

----------------------------------------------------------------------------
(* Theorems *)

\* The tracker's variables have their types, whatever the detector reports,
\* and no id is in use that the counter did not hand out.
THEOREM TrackerTypes == Spec => []TypeOK
<1>1. IInv => TypeOK
    BY DEF IInv
<1> QED
    BY <1>1, Invariant, PTL

\* update() never returns two detections of a frame under one id, for any
\* number of detections, tracks and frames.
THEOREM OneObjectTheorem == Spec => []OneObjectEach
<1>1. IInv => OneObjectEach
    BY DEF IInv
<1> QED
    BY <1>1, Invariant, PTL

\* The greedy loop of update() gives a stable assignment: what a detection
\* would rather have went to one that the detector was as sure of.
THEOREM NoEnvyTheorem == Spec => []NoEnvy
<1>1. IInv => NoEnvy
    <2> SUFFICES ASSUME IInv, busy, left = {}, DOMAIN matched = DOMAIN detections,
                        NEW i \in DOMAIN detections, NEW t \in DOMAIN before,
                        before[t].class_id = detections[i].class_id,
                        More(_iou(before[t].bbox, detections[i].xyxy), Got(i))
                 PROVE  \E j \in DOMAIN matched :
                            /\ matched[j] = t
                            /\ detections[j].confidence >= detections[i].confidence
        BY DEF NoEnvy
    <2>1. i \in Processed /\ Desired(i, t)
        BY DEF Processed, Desired, Got, GotSoFar
    <2> QED
        BY <2>1 DEF IInv, EnvyInv
<1> QED
    BY <1>1, Invariant, PTL

\* An id that update() returns again is for the same class and not older than
\* max_age + 1 updates, for any number of frames: the counter never returns to
\* an id, and a track that is dropped does not come back.
THEOREM SameObjectTheorem == Spec => SameObject
<1> DEFINE A == \A t \in DOMAIN sighting :
                   /\ t \in DOMAIN sighting'
                   /\ sighting'[t].class_id = sighting[t].class_id
                   /\ sighting'[t].frame - sighting[t].frame <= max_age + 1
<1>1. IInv /\ [Next]_vars => [A]_vars
    <2> SUFFICES ASSUME IInv, Next PROVE A \/ UNCHANGED vars
        OBVIOUS
    <2>1. CASE Return
        BY <2>1, ReturnSighting
    <2>2. CASE UNCHANGED sighting
        <3>1. \A t \in DOMAIN sighting : sighting[t].frame \in Nat /\ max_age \in Nat
            BY BoundAssumption DEF IInv, TypeOK
        <3> QED
            BY <2>2, <3>1
    <2>3. CASE UNCHANGED vars
        BY <2>3
    <2> QED
        BY <2>1, <2>2, <2>3 DEF Next, Update, MatchNext, Spawn
<1> QED
    BY <1>1, Invariant, PTL DEF Spec, SameObject

=============================================================================
