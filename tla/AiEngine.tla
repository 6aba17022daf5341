------------------------------ MODULE AiEngine ------------------------------
(***************************************************************************)
(* The ai-engine: a registry of camera pipelines, one task per pipeline on *)
(* one event loop, and the detection events the pipelines POST.            *)
(*                                                                         *)
(* What runs between two awaits has the event loop for itself: `loop` is   *)
(* the pipeline that does, and while there is one neither requests nor     *)
(* other pipelines go on.  cap.read() and infer() block, they are not      *)
(* awaits.  Every start request makes at most one pipeline, so a pipeline  *)
(* is named after its request.  What a frame shows, and the tracks it is   *)
(* given (IoUTracker), is how many events it makes.                        *)
(***************************************************************************)
EXTENDS Integers, Sequences

CONSTANTS
    Cameras,
    Starts,         \* POST /pipelines/start requests, and their pipelines
    MaxFrames,      \* bound of the frames of a pipeline that show something
    MaxTracks,      \* bound of the tracks in a frame
    Speeds,         \* may inference outlast the period of a frame?
    NoPipeline, NoCamera

ASSUME BoundAssumption ==
    MaxFrames \in Nat /\ MaxTracks \in Nat \ {0} /\ Speeds \subseteq BOOLEAN

ASSUME NullAssumption == NoPipeline \notin Starts /\ NoCamera \notin Cameras

VARIABLES
    service,    \* "up", "stopping" (lifespan shutdown) or "down"
    registry,   \* _pipelines: camera -> pipeline
    asked,      \* the cameras for which a stop request waits to be handled
    loop,       \* the pipeline the event loop runs
    camera,     \* of a pipeline: its camera
    task,       \* ... its task: "none", "refused", "created", "running",
                \*     "sleeping", "posting" or "done"
    stop,       \* ... its _stop event
    cancelled,  \* ... was its task cancelled?
    capture,    \* ... its VideoCapture: "none", "open" or "released"
    frame,      \* ... its frames that showed something
    tracks,     \* ... the tracks of the last one that are still to be sent
    posted,     \* ... the events it sent, as <<frame, track>>
    idle,       \* flips with a turn that awaits nothing
    slow        \* may inference outlast the period of a frame?

requests == <<service, registry, asked>>
control == <<camera, stop, cancelled>>
work == <<capture, frame, tracks, posted, idle>>
vars == <<requests, loop, control, task, work, slow>>

Free == loop = NoPipeline
Live(s) == task[s] \in {"created", "running", "sleeping", "posting"}
Registered == {registry[c] : c \in Cameras} \ {NoPipeline}

----------------------------------------------------------------------------
Init ==
    /\ service = "up"
    /\ registry = [c \in Cameras |-> NoPipeline]
    /\ asked = {}
    /\ loop = NoPipeline
    /\ camera = [s \in Starts |-> NoCamera]
    /\ task = [s \in Starts |-> "none"]
    /\ stop = [s \in Starts |-> FALSE]
    /\ cancelled = [s \in Starts |-> FALSE]
    /\ capture = [s \in Starts |-> "none"]
    /\ frame = [s \in Starts |-> 0]
    /\ tracks = [s \in Starts |-> 0]
    /\ posted = [s \in Starts |-> <<>>]
    /\ idle = FALSE
    /\ slow \in Speeds

----------------------------------------------------------------------------
(* The HTTP handlers *)

\* Mutant: the registry is not looked at.
start_over(s, c) ==
    /\ service = "up" /\ Free
    /\ task[s] = "none"
    /\ camera' = [camera EXCEPT ![s] = c]
    /\ task' = [task EXCEPT ![s] = "created"]
    /\ registry' = [registry EXCEPT ![c] = s]
    /\ UNCHANGED <<service, asked, loop, stop, cancelled, work>>

\* 409, or the task is created and registered without an await in between.
start_pipeline(s, c) ==
    /\ service = "up" /\ Free
    /\ task[s] = "none"
    /\ camera' = [camera EXCEPT ![s] = c]
    /\ IF registry[c] # NoPipeline
       THEN /\ task' = [task EXCEPT ![s] = "refused"]
            /\ UNCHANGED registry
       ELSE /\ task' = [task EXCEPT ![s] = "created"]
            /\ registry' = [registry EXCEPT ![c] = s]
    /\ UNCHANGED <<service, asked, loop, stop, cancelled, work>>

\* A stop request reaches the service.
AskStop(c) ==
    /\ service = "up"
    /\ asked' = asked \cup {c}
    /\ UNCHANGED <<service, registry, loop, control, task, work>>

\* Mutant: the event is set, and the task has to find out.
EndAllNoCancel(S) ==
    /\ stop' = [s \in Starts |-> stop[s] \/ s \in S]
    /\ UNCHANGED cancelled

\* pipe.stop() and task.cancel(), which does nothing to a finished task.
EndAll(S) ==
    /\ stop' = [s \in Starts |-> stop[s] \/ s \in S]
    /\ cancelled' = [s \in Starts |-> cancelled[s] \/ (s \in S /\ Live(s))]

\* 404 when there is none.
stop_pipeline(c) ==
    /\ service = "up" /\ Free
    /\ c \in asked
    /\ asked' = asked \ {c}
    /\ registry' = [registry EXCEPT ![c] = NoPipeline]
    /\ EndAll({registry[c]} \ {NoPipeline})
    /\ UNCHANGED <<service, loop, camera, task, work>>

\* lifespan: the requests were answered; every registered pipeline is ended.
Shutdown ==
    /\ service = "up" /\ Free
    /\ asked = {}
    /\ service' = "stopping"
    /\ EndAll(Registered)
    /\ UNCHANGED <<registry, asked, loop, camera, task, work>>

\* gather returned. asyncio.run cancels the tasks that are still there, those
\* of pipelines that were stopped just before, and waits for them.
ShutdownDone ==
    /\ service = "stopping" /\ Free
    /\ \A s \in Registered : task[s] = "done"
    /\ service' = "down"
    /\ task' = [s \in Starts |-> IF Live(s) THEN "done" ELSE task[s]]
    /\ capture' = [s \in Starts |-> IF capture[s] = "open" THEN "released"
                                                           ELSE capture[s]]
    /\ UNCHANGED <<registry, asked, loop, control, frame, tracks, posted, idle>>

----------------------------------------------------------------------------
(* CameraPipeline.run *)

\* Mutant: no `finally`.
FinishKeepsCapture(s) ==
    /\ task' = [task EXCEPT ![s] = "done"]
    /\ loop' = NoPipeline
    /\ UNCHANGED capture

\* The coroutine ends, and releases a capture that it opened.
Finish(s) ==
    /\ task' = [task EXCEPT ![s] = "done"]
    /\ loop' = NoPipeline
    /\ capture' = [capture EXCEPT ![s] = IF @ = "open" THEN "released" ELSE @]

\* It awaits, and the event loop is free.
Await(s, state) ==
    /\ task' = [task EXCEPT ![s] = state]
    /\ loop' = NoPipeline

\* The loop turns, unless its event is set.
Turn(s) ==
    IF stop[s]
    THEN Finish(s)
    ELSE /\ task' = [task EXCEPT ![s] = "running"]
         /\ loop' = s
         /\ UNCHANGED capture

\* Whatever the backend and its hints: the source opens or it does not.
_open_capture == {"open", "none"}

\* How many objects a frame shows.
infer == 0 .. MaxTracks

\* The first step of the task. The loop runs what is ready in the order it
\* became ready: a pipeline of this camera that was cancelled while it slept
\* was there before.
Begin(s) ==
    /\ Free
    /\ task[s] = "created" /\ ~cancelled[s]
    /\ \A t \in Starts : camera[t] = camera[s] /\ cancelled[t] =>
                             task[t] \in {"posting", "done"}
    /\ \E cap \in _open_capture :
          IF cap = "open"
          THEN /\ capture' = [capture EXCEPT ![s] = cap]
               /\ task' = [task EXCEPT ![s] = "running"]
               /\ loop' = s
          ELSE Finish(s)
    /\ UNCHANGED <<requests, control, frame, tracks, posted, idle>>

\* CancelledError where the task awaits. httpx closes its connection first,
\* which takes further turns of the event loop.
Cancel(s) ==
    /\ Free
    /\ cancelled[s]
    /\ task[s] \in {"created", "sleeping", "posting"}
    /\ Finish(s)
    /\ UNCHANGED <<requests, control, frame, tracks, posted, idle>>

\* asyncio.sleep is over.
Wake(s) ==
    /\ Free
    /\ task[s] = "sleeping" /\ ~cancelled[s]
    /\ Turn(s)
    /\ UNCHANGED <<requests, control, frame, tracks, posted, idle>>

\* Mutant: `continue` without the sleep.
ReadFailsBusily(s) ==
    /\ loop = s
    /\ idle' = ~idle
    /\ UNCHANGED <<requests, control, loop, task, capture, frame, tracks, posted>>

\* cap.read() has no frame: half a second later it is asked again, for ever.
ReadFails(s) ==
    /\ loop = s
    /\ Await(s, "sleeping")
    /\ UNCHANGED <<requests, control, work>>

\* A frame that shows nothing; no await when its period is over.
EmptyFrame(s) ==
    /\ loop = s
    /\ \/ Await(s, "sleeping") /\ UNCHANGED idle
       \/ slow /\ idle' = ~idle /\ UNCHANGED <<task, loop>>
    /\ UNCHANGED <<requests, control, capture, frame, tracks, posted>>

\* infer() or the tracker raises.
InferRaises(s) ==
    /\ loop = s
    /\ Finish(s)
    /\ UNCHANGED <<requests, control, frame, tracks, posted, idle>>

\* The next track of a frame is POSTed.
PostNext(s, f, n) ==
    /\ tracks' = [tracks EXCEPT ![s] = n - 1]
    /\ posted' = [posted EXCEPT ![s] = Append(@, <<f, n>>)]
    /\ Await(s, "posting")

\* Mutant: frames without detections are dispatched as well.
DispatchAlways(s) ==
    /\ loop = s
    /\ frame[s] < MaxFrames
    /\ frame' = [frame EXCEPT ![s] = @ + 1]
    /\ \E n \in infer : PostNext(s, frame[s] + 1, n)
    /\ UNCHANGED <<requests, control, capture, idle>>

\* A frame with n tracks; they are sent one after the other.
Dispatch(s) ==
    /\ loop = s
    /\ frame[s] < MaxFrames
    /\ frame' = [frame EXCEPT ![s] = @ + 1]
    /\ \E n \in infer \ {0} : PostNext(s, frame[s] + 1, n)
    /\ UNCHANGED <<requests, control, capture, idle>>

\* The answer, whatever its status, an HTTPError or the 10 s timeout: the
\* event is not sent again. After the last one the loop turns, at once when
\* the period is over.
PostReturns(s) ==
    /\ Free
    /\ task[s] = "posting" /\ ~cancelled[s]
    /\ IF tracks[s] > 0
       THEN PostNext(s, frame[s], tracks[s]) /\ UNCHANGED capture
       ELSE /\ \/ Turn(s)
               \/ Await(s, "sleeping") /\ UNCHANGED capture
            /\ UNCHANGED <<tracks, posted>>
    /\ UNCHANGED <<requests, control, frame, idle>>

----------------------------------------------------------------------------
PipelineStep(s) ==
    /\ \/ Begin(s) \/ Cancel(s) \/ Wake(s) \/ PostReturns(s)
       \/ ReadFails(s) \/ EmptyFrame(s) \/ InferRaises(s) \/ Dispatch(s)
    /\ UNCHANGED slow

StopStep(c) == stop_pipeline(c) /\ UNCHANGED slow
ShutdownStep == ShutdownDone /\ UNCHANGED slow

Done == service = "down"

Next ==
    \/ \E s \in Starts : \/ \E c \in Cameras : start_pipeline(s, c) /\ UNCHANGED slow
                         \/ PipelineStep(s)
    \/ \E c \in Cameras : \/ AskStop(c) /\ UNCHANGED slow
                          \/ StopStep(c)
    \/ Shutdown /\ UNCHANGED slow
    \/ ShutdownStep
    \/ Done /\ UNCHANGED vars

Spec == Init /\ [][Next]_vars

\* The event loop runs what is ready in the order it became ready, so that
\* what is ready again and again has its turn; sleeps and POSTs end.
Fairness ==
    /\ \A s \in Starts : SF_vars(PipelineStep(s))
    /\ \A c \in Cameras : SF_vars(StopStep(c))
    /\ SF_vars(ShutdownStep)

FairSpec == Spec /\ Fairness

----------------------------------------------------------------------------
(* Properties *)

Tasks == {"none", "refused", "created", "running", "sleeping", "posting", "done"}

\* The registry and the pipelines have their types; the pipeline that has the
\* event loop is the one that runs.
TypeOK ==
    /\ service \in {"up", "stopping", "down"}
    /\ registry \in [Cameras -> Starts \cup {NoPipeline}]
    /\ asked \subseteq Cameras
    /\ loop \in Starts \cup {NoPipeline}
    /\ camera \in [Starts -> Cameras \cup {NoCamera}]
    /\ task \in [Starts -> Tasks]
    /\ stop \in [Starts -> BOOLEAN]
    /\ cancelled \in [Starts -> BOOLEAN]
    /\ capture \in [Starts -> {"none", "open", "released"}]
    /\ frame \in [Starts -> 0 .. MaxFrames]
    /\ tracks \in [Starts -> 0 .. MaxTracks]
    /\ posted \in [Starts -> Seq((1 .. MaxFrames) \X (1 .. MaxTracks))]
    /\ idle \in BOOLEAN
    /\ slow \in BOOLEAN
    /\ \A s \in Starts : task[s] = "running" <=> loop = s

\* main.py: "Pipeline already running for that camera." However starts and
\* stops follow one another, a camera is analysed by one pipeline: a second
\* one was told to stop, and has the camera still open only while it is
\* caught in a POST.
OnePipeline ==
    \A s, t \in Starts : s # t /\ camera[s] = camera[t] =>
        /\ Live(s) /\ Live(t) => stop[s] \/ stop[t]
        /\ capture[s] = "open" /\ capture[t] = "open" =>
               \E u \in {s, t} : stop[u] /\ task[u] = "posting"

\* A pipeline that has ended, by its stop, an exception or the shutdown,
\* holds no camera device or stream.
EndedIsReleased ==
    \A s \in Starts : ~Live(s) => capture[s] # "open"

\* Once its stop was answered a pipeline sends nothing any more, not even the
\* rest of the tracks of the frame it is at.
QuietAfterStop ==
    [][\A s \in Starts : stop[s] => posted'[s] = posted[s]]_vars

Feed == INSTANCE EventFeed
    WITH Feeders <- Starts, Nobody <- NoPipeline,
         Frames <- 1 .. MaxFrames, Tracks <- 1 .. MaxTracks,
         feeder <- [c \in Cameras |->
                      IF registry[c] \in Starts /\ ~stop[registry[c]]
                      THEN registry[c] ELSE NoPipeline],
         spent <- {s \in Starts : task[s] \notin {"none", "refused"}},
         stream <- posted

\* The engine is what it is for, a feed of events: those of a camera come from
\* the pipeline that is registered for it, whatever its predecessors still
\* wait for, every track of a frame is sent once, and before the next frame,
\* wherever the event loop goes between two POSTs.
ImplementsFeed == Feed!Spec

\* While inference keeps up with the frames, what is asked to stop stops: a
\* stop request is handled however many pipelines there are and whatever
\* their cameras do, its pipeline lets go of the camera, and a shutdown ends.
StopsGoThrough ==
    /\ \A c \in Cameras : c \in asked ~> (c \notin asked \/ slow)
    /\ \A s \in Starts : stop[s] ~> (capture[s] # "open" \/ slow)
    /\ service = "stopping" ~> (service = "down" \/ slow)
=============================================================================
