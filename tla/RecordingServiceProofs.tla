----------------------- MODULE RecordingServiceProofs ----------------------
(***************************************************************************)
(* Safety of RecordingService for every set of cameras and requests.       *)
(*                                                                         *)
(* A recorder's phase says what its ffmpeg and its watcher can be doing;   *)
(* the registry holds recorders that are running.  When the requests for a *)
(* camera do not overlap, at most one of its recorders is between the      *)
(* check of the registry and the end of its stop, and it is found in the   *)
(* registry whenever no request is under way.                              *)
(***************************************************************************)
EXTENDS RecordingService, SequenceTheorems, TLAPS

\* How far the coroutines of a recorder are.
PhaseInv ==
    \A s \in Starts :
        /\ phase[s] \in {"idle", "rejected", "failed", "spawning"} =>
              proc[s] = "none" /\ watcher[s] = "none" /\ batch[s] = {}
        /\ phase[s] \in {"spawning", "running"} \cup StopPhases \cup {"stopped", "crashed"} =>
              camera[s] \in Cameras
        /\ phase[s] = "running" =>
              proc[s] \in {"running", "exited"} /\ watcher[s] # "none"
        /\ phase[s] = "terminating" => proc[s] \in {"signalled", "exited"}
        /\ phase[s] = "killing" => proc[s] \in {"killed", "exited"}
        /\ phase[s] \in StopPhases => watcher[s] # "none"
        /\ phase[s] \in {"joining", "stopped", "crashed"} => proc[s] = "exited"
        /\ phase[s] = "stopped" => watcher[s] = "done" /\ batch[s] = {}

\* While the service is up a registered recorder is not being stopped, and it
\* is registered for its own camera.
RegistryInv ==
    \A c \in Cameras : registry[c] # NoRecorder =>
        /\ camera[registry[c]] = c
        /\ service = "up" => phase[registry[c]] = "running"
        /\ phase[registry[c]] \in {"running", "stopped", "crashed"} \cup StopPhases

RInv == TypeOK /\ PhaseInv /\ RegistryInv

LEMMA ClosedTyped ==
    ASSUME NEW fs \in Seq(File), NEW s \in Starts
    PROVE  /\ Closed(fs, s) \in Seq(File)
           /\ Len(Closed(fs, s)) = Len(fs)
           /\ DOMAIN Closed(fs, s) = DOMAIN fs
<1>1. ASSUME NEW n \in DOMAIN fs PROVE [fs[n] EXCEPT !.open = FALSE] \in File
    <2>1. n \in 1 .. Len(fs) /\ fs[n] \in File
        OBVIOUS
    <2> QED
        BY <2>1 DEF File
<1>2. Closed(fs, s) \in [1 .. Len(fs) -> File]
    BY <1>1 DEF Closed
<1> QED
    BY <1>2

LEMMA RInit == Init => RInv
<1> SUFFICES ASSUME Init PROVE RInv
    OBVIOUS
<1>1. TypeOK
    BY BoundAssumption DEF Init, TypeOK
<1>2. PhaseInv /\ RegistryInv
    BY DEF Init, PhaseInv, RegistryInv, StopPhases
<1> QED
    BY <1>1, <1>2 DEF RInv

\* The files of a camera keep their type whatever ffmpeg does.
LEMMA FilesTyped ==
    ASSUME TypeOK, NEW s \in Starts, NextSegment(s) \/ ProcExit(s)
    PROVE  /\ files' \in [Cameras -> Seq(File)]
           /\ \A c \in Cameras : /\ Len(files'[c]) <= MaxFiles
                                 /\ DOMAIN files[c] \subseteq DOMAIN files'[c]
<1> DEFINE d == camera[s]
<1>0. files \in [Cameras -> Seq(File)]
    BY DEF TypeOK
<1>1. d \in Cameras
    BY DEF TypeOK, NextSegment, ProcExit, Alive
<1>2. /\ Closed(files[d], s) \in Seq(File)
      /\ Len(Closed(files[d], s)) = Len(files[d])
      /\ DOMAIN Closed(files[d], s) = DOMAIN files[d]
    BY <1>0, <1>1, ClosedTyped
<1>3. CASE NextSegment(s)
    <2> DEFINE new == Append(Closed(files[d], s), [writer |-> s, open |-> TRUE])
    <2>1. [writer |-> s, open |-> TRUE] \in File
        BY DEF File
    <2>2. /\ new \in Seq(File)
          /\ Len(new) = Len(files[d]) + 1
        BY <1>2, <2>1, AppendProperties
    <2>3. /\ Len(files[d]) < MaxFiles
          /\ files' = [files EXCEPT ![d] = new]
        BY <1>3 DEF NextSegment
    <2>4. Len(new) <= MaxFiles /\ DOMAIN files[d] \subseteq DOMAIN new
        BY <1>0, <1>1, <2>2, <2>3, BoundAssumption
    <2> HIDE DEF new
    <2> QED
        BY <1>0, <1>1, <2>2, <2>3, <2>4 DEF TypeOK
<1>4. CASE ProcExit(s)
    <2>1. files' = [files EXCEPT ![d] = Closed(files[d], s)]
        BY <1>4 DEF ProcExit
    <2> QED
        BY <1>0, <1>1, <1>2, <2>1 DEF TypeOK
<1> QED
    BY <1>3, <1>4

\* ffmpeg's steps.
LEMMA FfmpegStep ==
    ASSUME RInv, NEW s \in Starts, NextSegment(s) \/ ProcExit(s),
           UNCHANGED overlap
    PROVE  RInv'
<1>1. /\ files' \in [Cameras -> Seq(File)]
      /\ \A c \in Cameras : /\ Len(files'[c]) <= MaxFiles
                            /\ DOMAIN files[c] \subseteq DOMAIN files'[c]
    BY FilesTyped DEF RInv
<1>2. /\ UNCHANGED <<service, registry, camera, watcher, batch, seen, posted>>
      /\ \/ UNCHANGED <<phase, proc>>
         \/ /\ Alive(s)
            /\ proc' = [proc EXCEPT ![s] = "exited"]
            /\ phase' = phase
    BY DEF NextSegment, ProcExit, Alive
<1>3. \A t \in Starts : watcher[t] = "reporting" => camera[t] \in Cameras
    BY DEF RInv, PhaseInv, TypeOK, StopPhases
<1>4. TypeOK'
    BY <1>1, <1>2, <1>3 DEF RInv, TypeOK, Alive
<1>5. PhaseInv'
    BY <1>2 DEF RInv, TypeOK, PhaseInv, StopPhases, Alive
<1>6. RegistryInv'
    BY <1>2 DEF RInv, TypeOK, RegistryInv, StopPhases, Alive
<1> QED
    BY <1>4, <1>5, <1>6 DEF RInv

\* The watcher's steps.
LEMMA WatchStep ==
    ASSUME RInv, NEW s \in Starts, WatcherStep(s), UNCHANGED overlap
    PROVE  RInv'
<1>0. /\ camera[s] \in Cameras
      /\ phase[s] \in {"running"} \cup StopPhases \cup {"stopped", "crashed"}
    BY DEF WatcherStep, Poll, Report, RInv, PhaseInv, TypeOK, StopPhases
<1>1. CASE Poll(s)
    <2>1. Candidates(s) \subseteq DOMAIN files[camera[s]]
        BY DEF Candidates
    <2>2. DOMAIN files[camera[s]] \subseteq 1 .. MaxFiles
        BY <1>0, BoundAssumption DEF RInv, TypeOK
    <2>3. TypeOK'
        <3>0. UNCHANGED <<service, registry, camera, phase, proc, seen, files, posted>>
            BY <1>1 DEF Poll
        <3>1. CASE UNCHANGED batch /\ watcher' = [watcher EXCEPT ![s] = "done"]
            BY <3>0, <3>1 DEF RInv, TypeOK
        <3>2. CASE /\ Candidates(s) # {}
                   /\ batch' = [batch EXCEPT ![s] = Candidates(s)]
                   /\ watcher' = [watcher EXCEPT ![s] = "reporting"]
            <4>1. batch' \in [Starts -> SUBSET (1 .. MaxFiles)]
                BY <2>1, <2>2, <3>2 DEF RInv, TypeOK
            <4>2. \A t \in Starts : watcher'[t] = "reporting" =>
                      batch'[t] # {} /\ batch'[t] \subseteq DOMAIN files[camera[t]]
                BY <2>1, <3>2 DEF RInv, TypeOK
            <4> QED
                BY <3>0, <3>2, <4>1, <4>2 DEF RInv, TypeOK
        <3> QED
            BY <1>1, <3>1, <3>2 DEF Poll
    <2>4. PhaseInv' /\ RegistryInv'
        BY <1>0, <1>1 DEF Poll, RInv, PhaseInv, RegistryInv, TypeOK, StopPhases
    <2> QED
        BY <2>3, <2>4 DEF RInv
<1>2. CASE Report(s)
    <2>1. PICK n \in batch[s] :
              /\ seen' = [seen EXCEPT ![s] = @ \cup {n}]
              /\ posted' \in {posted, posted \cup {PostOf(s, n)}}
              /\ batch' = [batch EXCEPT ![s] = @ \ {n}]
              /\ watcher' = [watcher EXCEPT ![s] = IF batch[s] = {n} THEN "polling"
                                                                     ELSE "reporting"]
        BY <1>2 DEF Report
    <2>2. /\ watcher[s] = "reporting"
          /\ UNCHANGED <<service, registry, camera, phase, proc, files>>
        BY <1>2 DEF Report
    <2>3. PostOf(s, n) \in Post
        <3>1. n \in 1 .. MaxFiles /\ n \in DOMAIN files[camera[s]]
            BY <2>1, <2>2 DEF RInv, TypeOK
        <3>2. files[camera[s]][n] \in File
            BY <1>0, <3>1 DEF RInv, TypeOK
        <3> QED
            BY <1>0, <3>1, <3>2 DEF PostOf, Post, File
    <2>4. TypeOK'
        <3>1. /\ seen' \in [Starts -> SUBSET (1 .. MaxFiles)]
              /\ batch' \in [Starts -> SUBSET (1 .. MaxFiles)]
              /\ watcher' \in [Starts -> {"none", "polling", "reporting", "done"}]
            BY <2>1 DEF RInv, TypeOK
        <3>2. posted' \subseteq Post
            BY <2>1, <2>3 DEF RInv, TypeOK
        <3>3. \A t \in Starts : watcher'[t] = "reporting" =>
                  batch'[t] # {} /\ batch'[t] \subseteq DOMAIN files[camera[t]]
            BY <2>1, <2>2 DEF RInv, TypeOK
        <3> QED
            BY <2>2, <3>1, <3>2, <3>3 DEF RInv, TypeOK
    <2>5. PhaseInv' /\ RegistryInv'
        BY <1>0, <2>1, <2>2 DEF RInv, PhaseInv, RegistryInv, TypeOK, StopPhases
    <2> QED
        BY <2>4, <2>5 DEF RInv
<1> QED
    BY <1>1, <1>2 DEF WatcherStep

LEMMA RNext == RInv /\ [Next]_vars => RInv'
<1> SUFFICES ASSUME RInv, [Next]_vars PROVE RInv'
    OBVIOUS
<1>0. UNCHANGED overlap
    BY DEF Next, vars
<1> USE NullAssumption, <1>0 DEF RInv, StopPhases
<1>1. ASSUME NEW s \in Starts, NEW c \in Cameras, start_recorder(s, c) PROVE RInv'
    <2>1. TypeOK'
        BY <1>1 DEF start_recorder, Make, TypeOK, PhaseInv
    <2>2. PhaseInv'
        BY <1>1 DEF start_recorder, Make, TypeOK, PhaseInv
    <2>3. RegistryInv'
        BY <1>1 DEF start_recorder, Make, TypeOK, PhaseInv, RegistryInv
    <2> QED
        BY <2>1, <2>2, <2>3
<1>2. ASSUME NEW s \in Starts, Spawned(s) PROVE RInv'
    BY <1>2 DEF Spawned, Register, TypeOK, PhaseInv, RegistryInv
<1>3. ASSUME NEW s \in Starts, SpawnFails(s) PROVE RInv'
    BY <1>3 DEF SpawnFails, TypeOK, PhaseInv, RegistryInv
<1>4. ASSUME NEW s \in Starts, ExitSeen(s) PROVE RInv'
    BY <1>4 DEF ExitSeen, TypeOK, PhaseInv, RegistryInv
<1>5. ASSUME NEW s \in Starts, Join(s) PROVE RInv'
    BY <1>5 DEF Join, TypeOK, PhaseInv, RegistryInv
<1>6. ASSUME NEW s \in Starts, WatcherStep(s) PROVE RInv'
    BY <1>6, WatchStep
<1>7. ASSUME NEW s \in Starts, NextSegment(s) \/ ProcExit(s) PROVE RInv'
    BY <1>7, FfmpegStep
<1>12. ASSUME NEW s \in Starts, Kill(s) PROVE RInv'
    BY <1>12 DEF Kill, TypeOK, PhaseInv, RegistryInv
<1>13. ASSUME NEW s \in Starts, KillFails(s) PROVE RInv'
    BY <1>13 DEF KillFails, TypeOK, PhaseInv, RegistryInv
<1>8. ASSUME NEW c \in Cameras, stop_recorder(c) PROVE RInv'
    BY <1>8 DEF stop_recorder, BeginStop, TypeOK, PhaseInv, RegistryInv
<1>9. CASE Shutdown
    BY <1>9 DEF Shutdown, BeginStop, TypeOK, PhaseInv, RegistryInv
<1>10. CASE ShutdownDone
    BY <1>10 DEF ShutdownDone, TypeOK, PhaseInv, RegistryInv
<1>11. CASE UNCHANGED vars
    BY <1>11 DEF vars, TypeOK, PhaseInv, RegistryInv
<1> QED
    BY <1>1, <1>2, <1>3, <1>4, <1>5, <1>6, <1>7, <1>8, <1>9, <1>10, <1>11,
       <1>12, <1>13 DEF Next, RecorderStep

LEMMA RInvariant == Spec => []RInv
BY RInit, RNext, PTL DEF Spec

\* Every variable keeps its type.
THEOREM RecordingTypes == Spec => []TypeOK
<1>1. RInv => TypeOK
    BY DEF RInv
<1> QED
    BY <1>1, RInvariant, PTL

\* A recorder whose stop has returned writes and reports nothing any more.
THEOREM StopTheorem == Spec => []StoppedIsDead
<1>1. RInv => StoppedIsDead
    BY DEF RInv, PhaseInv, StoppedIsDead
<1> QED
    BY <1>1, RInvariant, PTL

----------------------------------------------------------------------------
(* Requests for a camera one after the other *)

Busy(s) == phase[s] \in {"spawning"} \cup StopPhases

\* A recorder that runs is registered; while the service is up one that is
\* being spawned or stopped is not, and is the only one of its camera.
SerialInv ==
    /\ \A s \in Starts : phase[s] = "running" => registry[camera[s]] = s
    /\ service = "up" =>
          \A s \in Starts : Busy(s) =>
              /\ registry[camera[s]] = NoRecorder
              /\ \A t \in Starts : Busy(t) /\ camera[t] = camera[s] => t = s
    /\ service # "up" =>
          \A s \in Starts :
              /\ phase[s] \notin {"spawning", "running"}
              /\ phase[s] \in StopPhases => registry[camera[s]] = s
    /\ service = "down" => \A s \in Starts : phase[s] \notin StopPhases

LEMMA SerialInit == Init => SerialInv
BY DEF Init, SerialInv, Busy, StopPhases

LEMMA SerialNext ==
    ASSUME RInv, RInv', ~overlap => SerialInv, [Next]_vars
    PROVE  ~overlap' => SerialInv'
<1> SUFFICES ASSUME ~overlap, SerialInv PROVE SerialInv'
    BY DEF Next, vars
<1> USE NullAssumption DEF RInv, TypeOK, SerialInv, Busy, StopPhases
<1>1. ASSUME NEW s \in Starts, NEW c \in Cameras, start_recorder(s, c)
      PROVE  SerialInv'
    BY <1>1 DEF start_recorder, Make, Settled, PhaseInv, RegistryInv
<1>2. ASSUME NEW s \in Starts, Spawned(s) PROVE SerialInv'
    BY <1>2 DEF Spawned, Register, PhaseInv, RegistryInv
<1>3. ASSUME NEW s \in Starts, SpawnFails(s) PROVE SerialInv'
    BY <1>3 DEF SpawnFails
<1>4. ASSUME NEW s \in Starts, ExitSeen(s) PROVE SerialInv'
    BY <1>4 DEF ExitSeen
<1>5. ASSUME NEW s \in Starts, Kill(s) \/ KillFails(s) PROVE SerialInv'
    BY <1>5 DEF Kill, KillFails
<1>6. ASSUME NEW s \in Starts, Join(s) PROVE SerialInv'
    BY <1>6 DEF Join
<1>7. ASSUME UNCHANGED <<service, registry, camera, phase>> PROVE SerialInv'
    BY <1>7
<1>8. ASSUME NEW c \in Cameras, stop_recorder(c) PROVE SerialInv'
    BY <1>8 DEF stop_recorder, BeginStop, Settled, PhaseInv, RegistryInv
<1>9. CASE Shutdown
    BY <1>9 DEF Shutdown, BeginStop, Settled, PhaseInv, RegistryInv
<1>10. CASE ShutdownDone
    <2>1. \A s \in Starts : phase[s] \notin StopPhases
        <3>1. SUFFICES ASSUME NEW s \in Starts, phase[s] \in StopPhases
                       PROVE  FALSE
            OBVIOUS
        <3>2. camera[s] \in Cameras
            BY <3>1 DEF PhaseInv
        <3>3. registry[camera[s]] = s
            BY <1>10, <3>1 DEF ShutdownDone
        <3>4. phase[s] \in {"stopped", "crashed"}
            BY <1>10, <3>2, <3>3 DEF ShutdownDone
        <3> QED
            BY <3>1, <3>4
    <2> QED
        BY <1>10, <2>1 DEF ShutdownDone
<1>11. ASSUME NEW s \in Starts,
              WatcherStep(s) \/ NextSegment(s) \/ ProcExit(s) \/ UNCHANGED vars
       PROVE  UNCHANGED <<service, registry, camera, phase>>
    BY <1>11 DEF WatcherStep, Poll, Report, NextSegment, ProcExit, vars
<1> QED
    BY <1>1, <1>2, <1>3, <1>4, <1>5, <1>6, <1>7, <1>8, <1>9, <1>10, <1>11
       DEF Next, RecorderStep, vars

LEMMA SerialInvariant == Spec => [](RInv /\ (~overlap => SerialInv))
<1>1. Init => RInv /\ (~overlap => SerialInv)
    BY RInit, SerialInit
<1>2. /\ RInv /\ (~overlap => SerialInv)
      /\ [Next]_vars
      => (RInv /\ (~overlap => SerialInv))'
    BY RNext, SerialNext
<1> QED
    BY <1>1, <1>2, PTL DEF Spec

\* No two ffmpegs write a camera's directory, as long as the requests for
\* the camera are made one after the other.
THEOREM OneProcessTheorem == Spec => []OneProcessSerially
<1>1. RInv /\ (~overlap => SerialInv) => OneProcessSerially
    <2> SUFFICES ASSUME RInv, SerialInv, NEW s \in Starts, NEW t \in Starts,
                        Alive(s), Alive(t), camera[s] = camera[t]
                 PROVE  s = t
        BY DEF OneProcessSerially, OneProcess
    <2>1. /\ phase[s] \in {"running", "terminating", "killing"}
          /\ phase[t] \in {"running", "terminating", "killing"}
        BY DEF Alive, RInv, TypeOK, PhaseInv, StopPhases
    <2>2. s # NoRecorder /\ t # NoRecorder
        BY NullAssumption
    <2> QED
        BY <2>1, <2>2 DEF SerialInv, Busy, StopPhases
<1> QED
    BY <1>1, SerialInvariant, PTL

\* ... and each of them can be reached to be stopped.
THEOREM NoLeakTheorem == Spec => []NoLeak
<1>1. RInv /\ (~overlap => SerialInv) => NoLeak
    BY DEF NoLeak, RInv, TypeOK, PhaseInv, SerialInv, Alive, StopPhases
<1> QED
    BY <1>1, SerialInvariant, PTL

\* ... and none outlives the service.
THEOREM ShutdownTheorem == Spec => []NothingSurvivesShutdown
<1>1. RInv /\ (~overlap => SerialInv) => NothingSurvivesShutdown
    BY DEF NothingSurvivesShutdown, RInv, TypeOK, PhaseInv, SerialInv, Alive,
           StopPhases
<1> QED
    BY <1>1, SerialInvariant, PTL

----------------------------------------------------------------------------
(* The log of segments *)

\* A file is only incomplete while the ffmpeg that writes it is alive, and it
\* is the newest then.
LogInv ==
    \A c \in Cameras : \A n \in DOMAIN files[c] :
        files[c][n].open =>
            /\ n = Len(files[c])
            /\ Alive(files[c][n].writer)
            /\ camera[files[c][n].writer] = c

\* What a watcher has in hand were not the newest files when it listed them,
\* and files do not go away.
BatchInv ==
    \A s \in Starts : watcher[s] = "reporting" =>
        \A n \in batch[s] : n \in Nat /\ n < Len(files[camera[s]])

LInv == RInv /\ BatchInv /\ (~overlap => SerialInv /\ LogInv)

\* Whoever has a camera is alone with it, and HolderOf finds it.
HolderFound ==
    \A c \in Cameras :
        /\ HolderOf(c) \in Starts \cup {NoRecorder}
        /\ \A s \in Starts : HolderOf(c) = s <=> Holds(s) /\ camera[s] = c

LEMMA HolderDef == RInv /\ SerialInv => HolderFound
<1> SUFFICES ASSUME RInv, SerialInv, NEW c \in Cameras
             PROVE  /\ HolderOf(c) \in Starts \cup {NoRecorder}
                    /\ \A s \in Starts : HolderOf(c) = s <=> Holds(s) /\ camera[s] = c
    BY DEF HolderFound
<1>1. \A s, t \in Starts : Holds(s) /\ Holds(t) /\ camera[s] = camera[t] => s = t
    BY NullAssumption DEF Holds, SerialInv, Busy, StopPhases, RInv, TypeOK, PhaseInv
<1>2. CASE \E s \in Starts : Holds(s) /\ camera[s] = c
    <2>1. PICK s \in Starts : Holds(s) /\ camera[s] = c
        BY <1>2
    <2>2. HolderOf(c) = CHOOSE t \in Starts : Holds(t) /\ camera[t] = c
        BY <1>2 DEF HolderOf
    <2>3. HolderOf(c) \in Starts /\ Holds(HolderOf(c)) /\ camera[HolderOf(c)] = c
        BY <2>1, <2>2
    <2> QED
        BY <1>1, <2>3
<1>3. CASE ~ \E s \in Starts : Holds(s) /\ camera[s] = c
    BY <1>3, NullAssumption DEF HolderOf
<1> QED
    BY <1>2, <1>3

LEMMA HolderDefNext == (RInv /\ SerialInv)' => HolderFound'
BY HolderDef, PTL

\* A live ffmpeg belongs to a recorder that has its camera.
LEMMA AliveHolds ==
    ASSUME RInv, NEW s \in Starts, Alive(s) PROVE Holds(s) /\ camera[s] \in Cameras
BY DEF RInv, TypeOK, PhaseInv, Alive, Holds, StopPhases

\* A writer's own file is the only one that can be incomplete.
LEMMA ClosedIsComplete ==
    ASSUME RInv, SerialInv, LogInv, NEW s \in Starts, Alive(s)
    PROVE  Closed(files[camera[s]], s) = Log!Complete(files[camera[s]])
<1> DEFINE c == camera[s]
<1>1. c \in Cameras /\ HolderOf(c) = s
    BY AliveHolds, HolderDef DEF HolderFound
<1>2. \A n \in DOMAIN files[c] : files[c][n].open => files[c][n].writer = s
    <2> SUFFICES ASSUME NEW n \in DOMAIN files[c], files[c][n].open
                 PROVE  files[c][n].writer = s
        OBVIOUS
    <2>1. files[c] \in Seq(File)
        BY <1>1 DEF RInv, TypeOK
    <2>2. n \in 1 .. Len(files[c]) /\ files[c][n] \in File
        BY <2>1
    <2>0. files[c][n].writer \in Starts
        BY <2>2 DEF File
    <2>3. Alive(files[c][n].writer) /\ camera[files[c][n].writer] = c
        BY <1>1 DEF LogInv
    <2> QED
        BY <1>1, <2>0, <2>3, AliveHolds, HolderDef DEF HolderFound
<1>3. ASSUME NEW n \in DOMAIN files[c], files[c][n].writer # s
      PROVE  files[c][n] = [files[c][n] EXCEPT !.open = FALSE]
    <2>1. files[c] \in Seq(File)
        BY <1>1 DEF RInv, TypeOK
    <2>2. n \in 1 .. Len(files[c]) /\ files[c][n] \in File
        BY <2>1
    <2> QED
        BY <1>2, <1>3, <2>2 DEF File
<1> QED
    BY <1>3 DEF Closed, Log!Complete

LEMMA CompleteDef ==
    ASSUME NEW fs \in Seq(File)
    PROVE  /\ Log!Complete(fs) \in Seq(File)
           /\ Len(Log!Complete(fs)) = Len(fs)
           /\ \A n \in 1 .. Len(fs) : ~Log!Complete(fs)[n].open
<1>1. ASSUME NEW n \in 1 .. Len(fs)
      PROVE  /\ [fs[n] EXCEPT !.open = FALSE] \in File
             /\ ~[fs[n] EXCEPT !.open = FALSE].open
    <2>1. fs[n] \in File
        OBVIOUS
    <2> QED
        BY <2>1 DEF File
<1>2. Log!Complete(fs) \in [1 .. Len(fs) -> File]
    BY <1>1 DEF Log!Complete
<1> QED
    BY <1>1, <1>2 DEF Log!Complete

\* What ffmpeg's next segment makes of a directory.
LEMMA CutDef ==
    ASSUME NEW fs \in Seq(File), NEW s \in Starts,
           NEW gs, gs = Append(Log!Complete(fs), [writer |-> s, open |-> TRUE])
    PROVE  /\ gs \in Seq(File)
           /\ Len(gs) = Len(fs) + 1
           /\ \A n \in 1 .. Len(fs) : ~gs[n].open
           /\ gs[Len(fs) + 1].writer = s
<1> DEFINE new == [writer |-> s, open |-> TRUE]
           done == Log!Complete(fs)
<1>1. new \in File /\ new.writer = s
    BY DEF File
<1>2. /\ done \in Seq(File)
      /\ Len(done) = Len(fs)
      /\ \A n \in 1 .. Len(fs) : ~done[n].open
    BY CompleteDef
<1> HIDE DEF new, done
<1>3. gs = Append(done, new)
    BY DEF new, done
<1>4. /\ gs \in Seq(File)
      /\ Len(gs) = Len(done) + 1
      /\ \A n \in 1 .. Len(done) : gs[n] = done[n]
      /\ gs[Len(done) + 1] = new
    <2>1. /\ Len(Append(done, new)) = Len(done) + 1
          /\ Append(done, new) \in Seq(File)
          /\ \A n \in 1 .. Len(done) : Append(done, new)[n] = done[n]
          /\ Append(done, new)[Len(done) + 1] = new
        BY <1>1, <1>2, AppendProperties
    <2> QED
        BY <1>3, <2>1
<1> QED
    BY <1>1, <1>2, <1>4

\* The steps that change a directory, in the terms of the log.
LEMMA FileSteps ==
    ASSUME RInv, SerialInv, LogInv, NEW s \in Starts
    PROVE  /\ NextSegment(s) =>
                 /\ camera[s] \in Cameras
                 /\ files' = [files EXCEPT ![camera[s]] =
                                Append(Log!Complete(@), [writer |-> s, open |-> TRUE])]
           /\ ProcExit(s) =>
                 /\ camera[s] \in Cameras
                 /\ files' = [files EXCEPT ![camera[s]] = Log!Complete(@)]
<1>1. NextSegment(s) \/ ProcExit(s) => Alive(s)
    BY DEF NextSegment, ProcExit, Alive
<1>2. Alive(s) => /\ camera[s] \in Cameras
                  /\ Closed(files[camera[s]], s) = Log!Complete(files[camera[s]])
    BY AliveHolds, ClosedIsComplete
<1> QED
    BY <1>1, <1>2 DEF NextSegment, ProcExit

LEMMA LogNext ==
    ASSUME RInv, SerialInv, LogInv, [Next]_vars
    PROVE  LogInv'
<1>0. files \in [Cameras -> Seq(File)]
    BY DEF RInv, TypeOK
<1>1. ASSUME NEW s \in Starts, NextSegment(s) PROVE LogInv'
    <2> DEFINE c == camera[s]
    <2>1. /\ c \in Cameras
          /\ files' = [files EXCEPT ![c] =
                         Append(Log!Complete(@), [writer |-> s, open |-> TRUE])]
          /\ UNCHANGED <<proc, camera>>
          /\ Alive(s)
        BY <1>1, FileSteps DEF NextSegment, Alive
    <2>2. /\ files'[c] \in Seq(File)
          /\ Len(files'[c]) = Len(files[c]) + 1
          /\ \A n \in 1 .. Len(files[c]) : ~files'[c][n].open
          /\ files'[c][Len(files[c]) + 1].writer = s
        BY <1>0, <2>1, CutDef
    <2>3. ASSUME NEW d \in Cameras, NEW n \in DOMAIN files'[d], files'[d][n].open
          PROVE  /\ n = Len(files'[d])
                 /\ Alive(files[d][n].writer)'
                 /\ camera'[files'[d][n].writer] = d
        <3>1. CASE d = c
            <4>1. n \in 1 .. Len(files[c]) + 1
                BY <2>2, <3>1
            <4>2. Len(files[c]) \in Nat
                BY <1>0, <2>1
            <4>3. n = Len(files[c]) + 1
                BY <2>2, <2>3, <3>1, <4>1, <4>2
            <4> QED
                BY <2>1, <2>2, <3>1, <4>3 DEF Alive
        <3>2. CASE d # c
            <4>1. files'[d] = files[d]
                BY <1>0, <2>1, <3>2
            <4>2. /\ n = Len(files[d])
                  /\ Alive(files[d][n].writer)
                  /\ camera[files[d][n].writer] = d
                BY <2>3, <4>1 DEF LogInv
            <4> QED
                BY <2>1, <4>1, <4>2 DEF Alive
        <3> QED
            BY <3>1, <3>2
    <2> QED
        BY <2>3 DEF LogInv
<1>2. ASSUME NEW s \in Starts, ProcExit(s) PROVE LogInv'
    <2> DEFINE c == camera[s]
    <2>1. /\ c \in Cameras
          /\ files' = [files EXCEPT ![c] = Log!Complete(@)]
          /\ proc' = [proc EXCEPT ![s] = "exited"]
          /\ UNCHANGED camera
        BY <1>2, FileSteps DEF ProcExit
    <2>2. /\ Len(files'[c]) = Len(files[c])
          /\ files'[c] \in Seq(File)
          /\ \A n \in 1 .. Len(files[c]) : ~files'[c][n].open
        BY <1>0, <2>1, CompleteDef
    <2>3. ASSUME NEW d \in Cameras, NEW n \in DOMAIN files'[d], files'[d][n].open
          PROVE  /\ n = Len(files'[d])
                 /\ Alive(files[d][n].writer)'
                 /\ camera'[files'[d][n].writer] = d
        <3>1. d # c
            BY <2>2, <2>3
        <3>2. files'[d] = files[d]
            BY <1>0, <2>1, <3>1
        <3>3. /\ n = Len(files[d])
              /\ Alive(files[d][n].writer)
              /\ camera[files[d][n].writer] = d
            BY <2>3, <3>2 DEF LogInv
        <3>4. files[d][n].writer # s
            BY <3>1, <3>3
        <3>5. files[d][n] \in File
            BY <1>0, <2>3, <3>2
        <3>6. proc'[files[d][n].writer] = proc[files[d][n].writer]
            BY <2>1, <3>4, <3>5 DEF File, RInv, TypeOK
        <3> QED
            BY <2>1, <3>2, <3>3, <3>6 DEF Alive
    <2> QED
        BY <2>3 DEF LogInv
<1>3. ASSUME UNCHANGED files,
             \A w \in Starts : Alive(w) => Alive(w)' /\ camera'[w] = camera[w]
      PROVE  LogInv'
    <2>1. \A c \in Cameras : \A n \in DOMAIN files[c] : files[c][n].writer \in Starts
        <3> SUFFICES ASSUME NEW c \in Cameras, NEW n \in DOMAIN files[c]
                     PROVE  files[c][n].writer \in Starts
            OBVIOUS
        <3>1. files[c][n] \in File
            BY <1>0
        <3> QED
            BY <3>1 DEF File
    <2> QED
        BY <1>3, <2>1 DEF LogInv
<1>4. ASSUME NEW s \in Starts, NEW c \in Cameras, start_recorder(s, c) PROVE LogInv'
    BY <1>3, <1>4, AliveHolds DEF start_recorder, Make, Alive, Holds, StopPhases, RInv, TypeOK
<1>5. ASSUME NEW s \in Starts,
             \/ Spawned(s) \/ SpawnFails(s) \/ ExitSeen(s)
             \/ Kill(s) \/ KillFails(s) \/ Join(s) \/ WatcherStep(s)
      PROVE  LogInv'
    BY <1>3, <1>5 DEF Spawned, SpawnFails, ExitSeen, Kill, KillFails, Join,
                      WatcherStep, Poll, Report, Alive, RInv, TypeOK
<1>6. ASSUME NEW c \in Cameras, stop_recorder(c) PROVE LogInv'
    BY <1>3, <1>6 DEF stop_recorder, BeginStop, Alive
<1>7. CASE Shutdown
    BY <1>3, <1>7 DEF Shutdown, BeginStop, Alive
<1>8. CASE ShutdownDone \/ UNCHANGED vars
    BY <1>3, <1>8 DEF ShutdownDone, Alive, vars
<1> QED
    BY <1>1, <1>2, <1>4, <1>5, <1>6, <1>7, <1>8 DEF Next, RecorderStep

\* A directory never gets shorter.
LEMMA FilesGrow ==
    ASSUME RInv, NEW s \in Starts, NextSegment(s) \/ ProcExit(s)
    PROVE  \A c \in Cameras : Len(files[c]) <= Len(files'[c])
<1> DEFINE c == camera[s]
           fs == Closed(files[c], s)
<1>1. c \in Cameras /\ files \in [Cameras -> Seq(File)]
    BY AliveHolds DEF RInv, TypeOK, NextSegment, ProcExit, Alive
<1>2. fs \in Seq(File) /\ Len(fs) = Len(files[c])
    BY <1>1, ClosedTyped
<1>3. \A x : Len(Append(fs, x)) = Len(fs) + 1
    BY <1>2
<1>4. files' = [files EXCEPT ![c] = fs]
      \/ \E x : files' = [files EXCEPT ![c] = Append(fs, x)]
    BY DEF NextSegment, ProcExit
<1> HIDE DEF fs
<1>5. \A d \in Cameras : Len(files[d]) \in Nat
    BY <1>1
<1> QED
    BY <1>1, <1>2, <1>3, <1>4, <1>5

LEMMA BatchNext == ASSUME RInv, BatchInv, [Next]_vars PROVE BatchInv'
<1>0. \A s \in Starts : watcher[s] = "reporting" => camera[s] \in Cameras
    BY DEF RInv, PhaseInv, TypeOK, StopPhases
<1>1. ASSUME NEW s \in Starts, NEW c \in Cameras, start_recorder(s, c) PROVE BatchInv'
    BY <1>1 DEF start_recorder, Make, RInv, TypeOK, PhaseInv, BatchInv
<1>2. ASSUME NEW s \in Starts,
             \/ Spawned(s) \/ SpawnFails(s) \/ ExitSeen(s)
             \/ Kill(s) \/ KillFails(s) \/ Join(s)
      PROVE  BatchInv'
    BY <1>2 DEF Spawned, SpawnFails, ExitSeen, Kill, KillFails, Join, RInv, TypeOK,
                BatchInv
<1>5. CASE (\E c \in Cameras : stop_recorder(c)) \/ Shutdown \/ ShutdownDone
           \/ UNCHANGED vars
    BY <1>5 DEF stop_recorder, Shutdown, ShutdownDone, vars, RInv, TypeOK, BatchInv
<1>3. ASSUME NEW s \in Starts, NextSegment(s) \/ ProcExit(s) PROVE BatchInv'
    <2>1. \A c \in Cameras : Len(files[c]) <= Len(files'[c])
        BY <1>3, FilesGrow
    <2>2. UNCHANGED <<camera, watcher, batch>>
        BY <1>3 DEF NextSegment, ProcExit
    <2>3. \A c \in Cameras : Len(files[c]) \in Nat /\ Len(files'[c]) \in Nat
        BY <1>3, FilesTyped DEF RInv, TypeOK
    <2> QED
        BY <1>0, <2>1, <2>2, <2>3 DEF BatchInv
<1>4. ASSUME NEW s \in Starts, WatcherStep(s) PROVE BatchInv'
    <2>1. camera[s] \in Cameras
        BY <1>4 DEF WatcherStep, Poll, Report, RInv, PhaseInv, TypeOK, StopPhases
    <2>2. \A n \in Candidates(s) : n \in Nat /\ n < Len(files[camera[s]])
        BY <2>1 DEF Candidates, RInv, TypeOK
    <2> QED
        BY <1>4, <2>2 DEF WatcherStep, Poll, Report, RInv, TypeOK, BatchInv
<1> QED
    BY <1>1, <1>2, <1>3, <1>4, <1>5 DEF Next, RecorderStep

LEMMA LInvariant == Spec => []LInv
<1>1. Init => LInv
    BY RInit, SerialInit DEF Init, LInv, LogInv, BatchInv
<1>2. LInv /\ [Next]_vars => LInv'
    <2> SUFFICES ASSUME LInv, [Next]_vars PROVE LInv'
        OBVIOUS
    <2>1. RInv' /\ BatchInv' /\ (~overlap' => SerialInv')
        BY RNext, BatchNext, SerialNext DEF LInv
    <2>2. overlap' = overlap
        BY DEF Next, vars
    <2>3. ~overlap' => LogInv'
        BY <2>2, LogNext DEF LInv
    <2> QED
        BY <2>1, <2>3 DEF LInv
<1> QED
    BY <1>1, <1>2, PTL DEF Spec

\* Every step is a step of the log, or none.
LEMMA LogStep ==
    ASSUME LInv, LInv', [Next]_vars, ~overlap
    PROVE  [Log!Next]_(Log!segments)
<1> DEFINE H == [c \in Cameras |-> HolderOf(c)]
           W == {s \in Starts : Alive(s)}
<1>0. /\ RInv /\ SerialInv /\ LogInv /\ BatchInv /\ RInv' /\ SerialInv'
      /\ files \in [Cameras -> Seq(File)]
    BY DEF LInv, RInv, TypeOK, Next, vars
<1>1. /\ \A c \in Cameras : /\ HolderOf(c) \in Starts \cup {NoRecorder}
                            /\ HolderOf(c)' \in Starts \cup {NoRecorder}
      /\ \A c \in Cameras, s \in Starts :
            /\ HolderOf(c) = s <=> Holds(s) /\ camera[s] = c
            /\ HolderOf(c)' = s <=> Holds(s)' /\ camera'[s] = c
    BY <1>0, HolderDef, HolderDefNext DEF HolderFound
<1>2. ASSUME NEW s \in Starts, Alive(s) \/ Holds(s)
      PROVE  camera[s] \in Cameras /\ HolderOf(camera[s]) = s
    BY <1>0, <1>1, <1>2, AliveHolds DEF Holds, RInv, PhaseInv, StopPhases
<1>3. ASSUME \A s \in Starts : /\ Holds(s)' <=> Holds(s)
                               /\ Holds(s) => camera'[s] = camera[s]
      PROVE  H' = H
    BY <1>1, <1>3
<1>4. ASSUME NEW s \in Starts, Spawned(s) PROVE Log!Next
    <2> DEFINE c == camera[s]
    <2>1. c \in Cameras /\ ~Holds(s)
        BY <1>0, <1>4 DEF Spawned, Holds, StopPhases, RInv, PhaseInv
    <2>2. \A t \in Starts : ~(Holds(t) /\ camera[t] = c)
        BY <1>0, <1>4, NullAssumption
           DEF Spawned, Holds, StopPhases, SerialInv, Busy, RInv, TypeOK
    <2>3. /\ H[c] = NoRecorder
          /\ \A d \in Cameras : H[d] # s
        BY <1>1, <2>1, <2>2
    <2>4. /\ UNCHANGED <<files, posted, camera>>
          /\ \A t \in Starts : /\ Holds(t)' <=> t = s \/ Holds(t)
                               /\ Alive(t)' <=> t = s \/ Alive(t)
        BY <1>0, <1>4 DEF Spawned, Holds, Alive, StopPhases, RInv, TypeOK
    <2>5. H' = [H EXCEPT ![c] = s]
        <3>1. \A d \in Cameras : d # c => HolderOf(d)' = HolderOf(d)
            BY <1>1, <2>4
        <3>2. \A d \in Cameras : d = c => HolderOf(d)' = s
            BY <1>1, <2>1, <2>4
        <3> QED
            BY <3>1, <3>2
    <2>6. W' = W \cup {s}
        BY <2>4
    <2>7. Log!Take(c, s)
        BY <2>3, <2>4, <2>5, <2>6 DEF Log!Take
    <2> QED
        BY <2>1, <2>7 DEF Log!Next
<1>5. ASSUME NEW s \in Starts, NextSegment(s) PROVE Log!Next
    <2> DEFINE c == camera[s]
    <2>1. /\ Alive(s)
          /\ UNCHANGED <<phase, proc, camera, posted>>
          /\ files' = [files EXCEPT ![c] =
                         Append(Log!Complete(@), [writer |-> s, open |-> TRUE])]
        BY <1>0, <1>5, FileSteps DEF NextSegment, Alive
    <2>2. c \in Cameras /\ H[c] = s /\ H[c] \in W
        BY <1>2, <2>1
    <2>3. H' = H /\ W' = W
        BY <1>3, <2>1 DEF Holds, Alive
    <2>4. Log!Cut(c)
        BY <2>1, <2>2, <2>3 DEF Log!Cut
    <2> QED
        BY <2>2, <2>4 DEF Log!Next
<1>6. ASSUME NEW s \in Starts, ProcExit(s) PROVE Log!Next
    <2> DEFINE c == camera[s]
    <2>1. /\ Alive(s)
          /\ UNCHANGED <<camera, posted>>
          /\ files' = [files EXCEPT ![c] = Log!Complete(@)]
        BY <1>0, <1>6, FileSteps DEF ProcExit, Alive
    <2>2. \A t \in Starts : /\ Holds(t)' <=> Holds(t)
                            /\ Alive(t)' <=> t # s /\ Alive(t)
        BY <1>0, <1>6 DEF ProcExit, Holds, Alive, StopPhases, RInv, TypeOK
    <2>3. c \in Cameras /\ H[c] = s /\ H[c] \in W
        BY <1>2, <2>1
    <2>4. H' = H
        BY <1>3, <2>1, <2>2
    <2>5. W' = W \ {s}
        BY <2>2
    <2>6. Log!End(c)
        BY <2>1, <2>3, <2>4, <2>5 DEF Log!End
    <2> QED
        BY <2>3, <2>6 DEF Log!Next
<1>7. ASSUME NEW s \in Starts, Join(s) \/ KillFails(s) PROVE Log!Next
    <2> DEFINE c == camera[s]
    <2>1. /\ Holds(s) /\ ~Alive(s)
          /\ UNCHANGED <<proc, camera, files, posted>>
          /\ \A t \in Starts : Holds(t)' <=> t # s /\ Holds(t)
        BY <1>0, <1>7 DEF Join, KillFails, Holds, Alive, StopPhases, RInv, TypeOK, PhaseInv
    <2>2. c \in Cameras /\ H[c] = s /\ s # NoRecorder
        BY <1>2, <2>1, NullAssumption
    <2>3. H' = [H EXCEPT ![c] = NoRecorder]
        <3>1. \A d \in Cameras : d # c => HolderOf(d)' = HolderOf(d)
            BY <1>1, <2>1
        <3>2. \A d \in Cameras : d = c => HolderOf(d)' = NoRecorder
            BY <1>1, <2>1, <2>2
        <3> QED
            BY <3>1, <3>2
    <2>4. W' = W
        BY <2>1 DEF Alive
    <2>5. Log!Release(c)
        BY <2>1, <2>2, <2>3, <2>4 DEF Log!Release
    <2> QED
        BY <2>2, <2>5 DEF Log!Next
<1>8. ASSUME NEW s \in Starts, Report(s)
      PROVE  Log!Next \/ UNCHANGED Log!segments
    <2> DEFINE c == camera[s]
    <2>1. PICK n \in batch[s] : posted' \in {posted, posted \cup {PostOf(s, n)}}
        BY <1>8 DEF Report
    <2>2. /\ watcher[s] = "reporting"
          /\ UNCHANGED <<phase, proc, camera, files>>
        BY <1>8 DEF Report
    <2>4. c \in Cameras
        BY <1>0, <2>2 DEF RInv, TypeOK, PhaseInv, StopPhases
    <2>5. H' = H /\ W' = W
        BY <1>3, <2>2 DEF Holds, Alive
    <2>6. n \in DOMAIN files[c] /\ n \in Nat /\ n < Len(files[c])
        BY <1>0, <2>1, <2>2 DEF BatchInv, RInv, TypeOK
    <2>7. files[c][n].open = FALSE
        <3>1. files[c][n] \in File
            BY <1>0, <2>4, <2>6
        <3> QED
            BY <1>0, <2>4, <2>6, <3>1 DEF LogInv, File
    <2>8. CASE posted' = posted
        BY <2>2, <2>5, <2>8 DEF Log!segments
    <2>9. CASE posted' = posted \cup {PostOf(s, n)}
        <3>1. Log!Tell(c)
            BY <2>2, <2>4, <2>5, <2>6, <2>7, <2>9 DEF Log!Tell, PostOf
        <3> QED
            BY <2>4, <3>1 DEF Log!Next
    <2> QED
        BY <2>1, <2>8, <2>9
<1>9. ASSUME UNCHANGED <<files, posted>>,
             \A s \in Starts : /\ Holds(s)' <=> Holds(s)
                               /\ Alive(s)' <=> Alive(s)
                               /\ Holds(s) => camera'[s] = camera[s]
      PROVE  UNCHANGED Log!segments
    BY <1>3, <1>9 DEF Log!segments
<1>10. ASSUME NEW s \in Starts, NEW c \in Cameras, start_recorder(s, c)
       PROVE  UNCHANGED Log!segments
    BY <1>0, <1>9, <1>10 DEF start_recorder, Make, Holds, Alive, StopPhases, RInv, TypeOK
<1>11. ASSUME NEW s \in Starts, SpawnFails(s) \/ ExitSeen(s) \/ Kill(s) \/ Poll(s)
       PROVE  UNCHANGED Log!segments
    BY <1>0, <1>9, <1>11 DEF SpawnFails, ExitSeen, Kill, Poll, Holds, Alive, StopPhases,
                           RInv, TypeOK
<1>12. ASSUME NEW c \in Cameras, stop_recorder(c) PROVE UNCHANGED Log!segments
    BY <1>0, <1>9, <1>12, NullAssumption
       DEF stop_recorder, BeginStop, Holds, Alive, StopPhases, RInv, TypeOK, RegistryInv
<1>13. CASE Shutdown
    BY <1>0, <1>9, <1>13, NullAssumption
       DEF Shutdown, BeginStop, Holds, Alive, StopPhases, RInv, TypeOK, RegistryInv
<1>14. CASE ShutdownDone \/ UNCHANGED vars
    BY <1>9, <1>14 DEF ShutdownDone, vars, Holds, Alive
<1> QED
    BY <1>4, <1>5, <1>6, <1>7, <1>8, <1>10, <1>11, <1>12, <1>13, <1>14
       DEF Next, RecorderStep, WatcherStep

\* One request after the other, the service is the log of segments: one writer
\* for a camera, and only complete files are told of.
THEOREM LogTheorem == Spec => ImplementsLog
<1>1. Init => (~overlap => Log!Init)
    <2> SUFFICES ASSUME Init PROVE Log!Init
        OBVIOUS
    <2>1. \A c \in Cameras : HolderOf(c) = NoRecorder
        BY DEF Init, HolderOf, Holds, StopPhases
    <2>2. {s \in Starts : Alive(s)} = {}
        BY DEF Init, Alive
    <2> QED
        BY <2>1, <2>2 DEF Init, Log!Init
<1>2. LInv /\ LInv' /\ [Next]_vars => [~overlap => Log!Next]_(Log!segments)
    BY LogStep
<1> QED
    BY <1>1, <1>2, LInvariant, PTL DEF Spec, ImplementsLog

=============================================================================
