-------------------------- MODULE RecordingService -------------------------
(***************************************************************************)
(* The recording-service: a registry of recorders, one ffmpeg child and    *)
(* one watcher task per recorder, and the segment files they share through *)
(* the camera's directory.                                                 *)
(*                                                                         *)
(* The service is one asyncio process: what runs between two awaits is one *)
(* step here.  ffmpeg and the callers of the HTTP API are external.  Every *)
(* start request makes at most one CameraRecorder, so a recorder is named  *)
(* after its request.                                                      *)
(***************************************************************************)
EXTENDS Integers, Sequences

CONSTANTS
    Cameras,
    Starts,         \* POST /recorders/start requests, and their recorders
    MaxFiles,       \* bound of the files of a camera
    Overlaps,       \* may requests for one camera overlap?
    NoRecorder, NoCamera

ASSUME BoundAssumption == MaxFiles \in Nat /\ Overlaps \subseteq BOOLEAN

ASSUME NullAssumption == NoRecorder \notin Starts /\ NoCamera \notin Cameras

VARIABLES
    service,    \* "up", "stopping" (lifespan shutdown) or "down"
    registry,   \* _recorders: camera -> recorder
    camera,     \* of a recorder: its camera
    phase,      \* ... how far start() or stop() is
    proc,       \* ... its ffmpeg: "none", "running", "signalled" (SIGTERM),
                \*     "killed" (SIGKILL), "exited"
    watcher,    \* ... its task: "none", "polling", "reporting", "done"
    batch,      \* ... the files the watcher's loop still has to report
    seen,       \* ... the files it will not report again
    files,      \* of a camera: its files in name order
    posted,     \* the metadata POSTs that were sent
    overlap     \* do the callers let requests for one camera overlap?

vars == <<service, registry, camera, phase, proc, watcher, batch, seen, files,
          posted, overlap>>

Alive(s) == proc[s] \in {"running", "signalled", "killed"}
StopPhases == {"terminating", "killing", "joining"}
StopRequested(s) == phase[s] \in StopPhases \cup {"stopped", "crashed"}

----------------------------------------------------------------------------
Init ==
    /\ service = "up"
    /\ registry = [c \in Cameras |-> NoRecorder]
    /\ camera = [s \in Starts |-> NoCamera]
    /\ phase = [s \in Starts |-> "idle"]
    /\ proc = [s \in Starts |-> "none"]
    /\ watcher = [s \in Starts |-> "none"]
    /\ batch = [s \in Starts |-> {}]
    /\ seen = [s \in Starts |-> {}]
    /\ files = [c \in Cameras |-> <<>>]
    /\ posted = {}
    /\ overlap \in Overlaps

----------------------------------------------------------------------------
(* The HTTP handlers *)

\* No request for the camera is under way.
Settled(c) ==
    \A s \in Starts : camera[s] = c => phase[s] \notin {"spawning"} \cup StopPhases

\* A recorder of the camera, and of the directory that all of its recorders
\* share; start() awaits create_subprocess_exec.
Make(s, c) ==
    /\ camera' = [camera EXCEPT ![s] = c]
    /\ phase' = [phase EXCEPT ![s] = "spawning"]

\* Mutant: no look at the registry.
start_anyway(s, c) ==
    /\ service = "up"
    /\ phase[s] = "idle"
    /\ overlap \/ Settled(c)
    /\ Make(s, c)
    /\ UNCHANGED <<service, registry, proc, watcher, batch, seen, files, posted>>

\* A request for a camera that is in the registry is refused (409).
start_recorder(s, c) ==
    /\ service = "up"
    /\ phase[s] = "idle"
    /\ overlap \/ Settled(c)
    /\ IF registry[c] = NoRecorder
       THEN Make(s, c)
       ELSE phase' = [phase EXCEPT ![s] = "rejected"] /\ UNCHANGED camera
    /\ UNCHANGED <<service, registry, proc, watcher, batch, seen, files, posted>>

\* Over whatever is there.
Register(s) == registry' = [registry EXCEPT ![camera[s]] = s]

\* ffmpeg is spawned, the watcher task created, and only now the recorder is
\* put in the registry.
Spawned(s) ==
    /\ phase[s] = "spawning"
    /\ phase' = [phase EXCEPT ![s] = "running"]
    /\ proc' = [proc EXCEPT ![s] = "running"]
    /\ watcher' = [watcher EXCEPT ![s] = "polling"]
    /\ Register(s)
    /\ UNCHANGED <<service, camera, batch, seen, files, posted>>

\* create_subprocess_exec raises: the handler answers 500.
SpawnFails(s) ==
    /\ phase[s] = "spawning"
    /\ phase' = [phase EXCEPT ![s] = "failed"]
    /\ UNCHANGED <<service, registry, camera, proc, watcher, batch, seen, files,
                   posted>>

\* The part of CameraRecorder.stop() before its first await: SIGTERM for an
\* ffmpeg that runs.
BeginStop(S) ==
    /\ phase' = [s \in Starts |->
                   IF s \notin S THEN phase[s]
                   ELSE IF proc[s] = "running" THEN "terminating" ELSE "joining"]
    /\ proc' = [s \in Starts |-> IF s \in S /\ proc[s] = "running"
                                 THEN "signalled" ELSE proc[s]]

\* The recorder leaves the registry first; a request that finds none (404)
\* changes nothing.
stop_recorder(c) ==
    /\ service = "up"
    /\ overlap \/ Settled(c)
    /\ registry[c] # NoRecorder
    /\ registry' = [registry EXCEPT ![c] = NoRecorder]
    /\ BeginStop({registry[c]})
    /\ UNCHANGED <<service, camera, watcher, batch, seen, files, posted>>

\* lifespan: once the requests are answered, every registered recorder is
\* stopped, and the process ends when all of these calls are over.
Shutdown ==
    /\ service = "up"
    /\ \A c \in Cameras : Settled(c)
    /\ service' = "stopping"
    /\ BeginStop({registry[c] : c \in Cameras} \ {NoRecorder})
    /\ UNCHANGED <<registry, camera, watcher, batch, seen, files, posted>>

\* Mutant: the stops are not awaited.
ShutdownAtOnce ==
    /\ service = "stopping"
    /\ service' = "down"
    /\ watcher' = [s \in Starts |-> IF watcher[s] = "none" THEN "none" ELSE "done"]
    /\ UNCHANGED <<registry, camera, phase, proc, batch, seen, files, posted>>

\* Tasks that are still there are cancelled with the event loop; children
\* are not killed.
ShutdownDone ==
    /\ service = "stopping"
    /\ \A c \in Cameras : registry[c] # NoRecorder =>
                              phase[registry[c]] \in {"stopped", "crashed"}
    /\ service' = "down"
    /\ watcher' = [s \in Starts |-> IF watcher[s] = "none" THEN "none" ELSE "done"]
    /\ UNCHANGED <<registry, camera, phase, proc, batch, seen, files, posted>>

----------------------------------------------------------------------------
(* The rest of CameraRecorder.stop() *)

\* A file is complete once its writer has gone on to another or is gone.
Closed(fs, s) ==
    [n \in DOMAIN fs |-> IF fs[n].writer = s THEN [fs[n] EXCEPT !.open = FALSE]
                                             ELSE fs[n]]

\* wait_for(proc.wait(), timeout=10) returns, or the wait() after a kill.
ExitSeen(s) ==
    /\ phase[s] \in {"terminating", "killing"}
    /\ proc[s] = "exited"
    /\ phase' = [phase EXCEPT ![s] = "joining"]
    /\ UNCHANGED <<service, registry, camera, proc, watcher, batch, seen, files,
                   posted>>

\* Mutant: the timeout gives up on the process.
KillForgotten(s) ==
    /\ phase[s] = "terminating"
    /\ proc[s] = "signalled"
    /\ phase' = [phase EXCEPT ![s] = "joining"]
    /\ UNCHANGED <<service, registry, camera, proc, watcher, batch, seen, files,
                   posted>>

\* ... or times out: SIGKILL.
Kill(s) ==
    /\ phase[s] = "terminating"
    /\ proc[s] = "signalled"
    /\ phase' = [phase EXCEPT ![s] = "killing"]
    /\ proc' = [proc EXCEPT ![s] = "killed"]
    /\ UNCHANGED <<service, registry, camera, watcher, batch, seen, files, posted>>

\* The timeout met the exit: kill() raises ProcessLookupError out of stop(),
\* and the handler answers 500. The watcher is left to find the stop event.
KillFails(s) ==
    /\ phase[s] = "terminating"
    /\ proc[s] = "exited"
    /\ phase' = [phase EXCEPT ![s] = "crashed"]
    /\ UNCHANGED <<service, registry, camera, proc, watcher, batch, seen, files,
                   posted>>

\* The watcher is cancelled and awaited.
Join(s) ==
    /\ phase[s] = "joining"
    /\ phase' = [phase EXCEPT ![s] = "stopped"]
    /\ watcher' = [watcher EXCEPT ![s] = "done"]
    /\ batch' = [batch EXCEPT ![s] = {}]
    /\ UNCHANGED <<service, registry, camera, proc, seen, files, posted>>

----------------------------------------------------------------------------
(* _watch_segments *)

\* Mutant: only the file before the newest is looked at.
CandidatesLatest(s) == {n \in {Len(files[camera[s]]) - 1} \ seen[s] : n > 0}

\* Mutant: the newest file is not left out.
CandidatesAll(s) == (DOMAIN files[camera[s]]) \ seen[s]

\* sorted(glob(...))[:-1], less what was reported.
Candidates(s) == (DOMAIN files[camera[s]]) \ (seen[s] \cup {Len(files[camera[s]])})

\* One turn of the loop: it ends when the stop event is set.
Poll(s) ==
    /\ watcher[s] = "polling"
    /\ IF StopRequested(s)
       THEN /\ watcher' = [watcher EXCEPT ![s] = "done"]
            /\ UNCHANGED batch
       ELSE /\ Candidates(s) # {}
            /\ batch' = [batch EXCEPT ![s] = Candidates(s)]
            /\ watcher' = [watcher EXCEPT ![s] = "reporting"]
    /\ UNCHANGED <<service, registry, camera, phase, proc, seen, files, posted>>

\* The metadata of a file, as it is when it is sent.
PostOf(s, n) == [camera |-> camera[s], file |-> n,
                 open |-> files[camera[s]][n].open]

\* Mutant: the loop goes on when there is nothing left.
ReportEndless(s) ==
    /\ watcher[s] = "reporting"
    /\ \E n \in batch[s] :
          /\ \A k \in batch[s] : n <= k
          /\ seen' = [seen EXCEPT ![s] = @ \cup {n}]
          /\ batch' = [batch EXCEPT ![s] = @ \ {n}]
    /\ UNCHANGED <<service, registry, camera, phase, proc, watcher, files, posted>>

\* The next file is marked as seen, then POSTed; a failed POST is logged.
Report(s) ==
    /\ watcher[s] = "reporting"
    /\ \E n \in batch[s] :
          /\ \A k \in batch[s] : n <= k
          /\ seen' = [seen EXCEPT ![s] = @ \cup {n}]
          /\ posted' \in {posted, posted \cup {PostOf(s, n)}}
          /\ batch' = [batch EXCEPT ![s] = @ \ {n}]
          /\ watcher' = [watcher EXCEPT ![s] = IF batch[s] = {n} THEN "polling"
                                                                 ELSE "reporting"]
    /\ UNCHANGED <<service, registry, camera, phase, proc, files>>

----------------------------------------------------------------------------
(* ffmpeg *)

\* The first segment, or the next one: the previous file is complete. An
\* ffmpeg that is slow to obey SIGTERM goes on.
NextSegment(s) ==
    LET c == camera[s]
    IN /\ proc[s] \in {"running", "signalled"}
       /\ Len(files[c]) < MaxFiles
       /\ files' = [files EXCEPT ![c] =
                      Append(Closed(@, s), [writer |-> s, open |-> TRUE])]
       /\ UNCHANGED <<service, registry, camera, phase, proc, watcher, batch,
                      seen, posted>>

\* It ends on a signal, or by itself when the camera drops.
ProcExit(s) ==
    /\ Alive(s)
    /\ proc' = [proc EXCEPT ![s] = "exited"]
    /\ files' = [files EXCEPT ![camera[s]] = Closed(@, s)]
    /\ UNCHANGED <<service, registry, camera, phase, watcher, batch, seen, posted>>

----------------------------------------------------------------------------
RecorderStep(s) ==
    \/ Spawned(s) \/ SpawnFails(s) \/ ExitSeen(s) \/ Kill(s)
    \/ KillFails(s) \/ Join(s)

WatcherStep(s) == Poll(s) \/ Report(s)

Done == service = "down"

Next ==
    /\ \/ \E s \in Starts : \/ \E c \in Cameras : start_recorder(s, c)
                            \/ RecorderStep(s)
                            \/ WatcherStep(s)
                            \/ NextSegment(s)
                            \/ ProcExit(s)
       \/ \E c \in Cameras : stop_recorder(c)
       \/ Shutdown
       \/ ShutdownDone
       \/ Done /\ UNCHANGED vars
    /\ UNCHANGED overlap

Spec == Init /\ [][Next]_vars

\* The event loop runs every task that can go on; the 10 s timer fires. Of
\* ffmpeg nothing is assumed: it may hang (nobody reads its stderr) for ever.
Fairness == \A s \in Starts : /\ WF_vars(RecorderStep(s) /\ UNCHANGED overlap)
                              /\ WF_vars(WatcherStep(s) /\ UNCHANGED overlap)

FairSpec == Spec /\ Fairness

----------------------------------------------------------------------------
(* Properties *)

File == [writer : Starts, open : BOOLEAN]
Post == [camera : Cameras, file : 1 .. MaxFiles, open : BOOLEAN]

\* The registry, the recorders and the files have their types; a recorder
\* that ever ran has a camera, and what its watcher has in hand are files of
\* that camera.
TypeOK ==
    /\ service \in {"up", "stopping", "down"}
    /\ registry \in [Cameras -> Starts \cup {NoRecorder}]
    /\ camera \in [Starts -> Cameras \cup {NoCamera}]
    /\ phase \in [Starts -> {"idle", "rejected", "failed", "spawning", "running",
                             "terminating", "killing", "joining", "stopped",
                             "crashed"}]
    /\ proc \in [Starts -> {"none", "running", "signalled", "killed", "exited"}]
    /\ watcher \in [Starts -> {"none", "polling", "reporting", "done"}]
    /\ batch \in [Starts -> SUBSET (1 .. MaxFiles)]
    /\ seen \in [Starts -> SUBSET (1 .. MaxFiles)]
    /\ files \in [Cameras -> Seq(File)]
    /\ \A c \in Cameras : Len(files[c]) <= MaxFiles
    /\ posted \subseteq Post
    /\ overlap \in BOOLEAN
    /\ \A s \in Starts :
          /\ proc[s] # "none" => camera[s] \in Cameras
          /\ watcher[s] = "reporting" =>
                batch[s] # {} /\ batch[s] \subseteq DOMAIN files[camera[s]]

\* A stop that was answered has really stopped the recorder: its ffmpeg is
\* gone and its watcher reports nothing any more, whether ffmpeg obeyed the
\* SIGTERM, was killed after 10 s, or had died before.
StoppedIsDead ==
    \A s \in Starts : phase[s] = "stopped" =>
        proc[s] = "exited" /\ watcher[s] = "done" /\ batch[s] = {}

\* recorder.py: "Spawns one ffmpeg process per camera".
OneProcess ==
    \A s, t \in Starts :
        Alive(s) /\ Alive(t) /\ camera[s] = camera[t] => s = t

\* ... which is so when the requests for a camera come one after the other,
\* whatever they are and whenever ffmpeg dies.
OneProcessSerially == ~overlap => OneProcess

\* Then every ffmpeg that runs can be reached: through the registry or by the
\* stop() that is under way. A process that is not could never be stopped.
NoLeak ==
    ~overlap => \A s \in Starts : Alive(s) =>
        registry[camera[s]] = s \/ phase[s] \in StopPhases

\* The recorder that has a camera, from its ffmpeg's first step to the end of
\* its stop.
Holds(s) == phase[s] \in {"running"} \cup StopPhases

HolderOf(c) ==
    IF \E s \in Starts : Holds(s) /\ camera[s] = c
    THEN CHOOSE s \in Starts : Holds(s) /\ camera[s] = c
    ELSE NoRecorder

Log == INSTANCE SegmentLog
    WITH Recorders <- Starts, Nobody <- NoRecorder,
         holder <- [c \in Cameras |-> HolderOf(c)],
         writing <- {s \in Starts : Alive(s)}, log <- files, told <- posted

\* Then the service is what it is for, a log of segments: a camera has one
\* writer, and the next one only when its ffmpeg is gone; a listing's "all but
\* the newest" (recorder.py: "Skip the most recent file") are files nobody
\* writes any more, also when the reports come long after the listing, so
\* that no metadata of an incomplete file is ever sent.
ImplementsLog ==
    /\ ~overlap => Log!Init
    /\ [][~overlap => Log!Next]_(Log!segments)

\* The lifespan leaves no ffmpeg behind that goes on recording.
NothingSurvivesShutdown ==
    ~overlap /\ service = "down" => \A s \in Starts : ~Alive(s)

\* recorder.py: "After each segment is closed on disk, the recorder POSTs
\* metadata to the backend". As long as its recorder is left running, a file
\* that is not the newest of its camera comes to be dealt with, however many
\* come at once.
OldFilesAreReported ==
    \A s \in Starts : \A n \in 1 .. MaxFiles :
        (phase[s] = "running" /\ n < Len(files[camera[s]]))
            ~> (n \in seen[s] \/ phase[s] # "running" \/ service = "down")
=============================================================================
