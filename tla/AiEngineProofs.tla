--------------------------- MODULE AiEngineProofs ---------------------------
(***************************************************************************)
(* Safety of AiEngine for every set of cameras and start requests.         *)
(*                                                                         *)
(* A pipeline that lives and was not stopped is the registered one of its  *)
(* camera, so there is one at most.  A pipeline that was stopped is        *)
(* cancelled, and its next step is its last.  A capture is opened only     *)
(* when those that were stopped before are done or caught in a POST.       *)
(***************************************************************************)
EXTENDS AiEngine, SequenceTheorems, TLAPS

\* What lives and was not stopped is registered; what is registered was
\* started.
RegistryInv ==
    /\ \A s \in Starts : Live(s) /\ ~stop[s] => registry[camera[s]] = s
    /\ \A c \in Cameras : registry[c] # NoPipeline =>
           task[registry[c]] \notin {"none", "refused"}

\* How the task, its event, its cancellation and its capture go together.
TaskInv ==
    \A s \in Starts :
        /\ stop[s] => task[s] \notin {"none", "refused"}
        /\ stop[s] /\ Live(s) => cancelled[s]
        /\ cancelled[s] => stop[s] /\ task[s] # "running"
        /\ Live(s) => camera[s] \in Cameras
        /\ capture[s] = "open" => task[s] \in {"running", "sleeping", "posting"}
        /\ tracks[s] > 0 => frame[s] > 0

\* Of two open captures of a camera one waits in a POST to be let go.
CaptureInv ==
    \A s, t \in Starts :
        /\ s # t /\ camera[s] = camera[t]
        /\ capture[s] = "open" /\ capture[t] = "open"
        => \E u \in {s, t} : stop[u] /\ task[u] = "posting"

IInv == TypeOK /\ RegistryInv /\ TaskInv /\ CaptureInv

LEMMA InitInv == Init => IInv
<1> SUFFICES ASSUME Init PROVE IInv
    OBVIOUS
<1> USE BoundAssumption, NullAssumption DEF Init
<1>1. TypeOK
    <2>1. posted \in [Starts -> Seq((1 .. MaxFrames) \X (1 .. MaxTracks))]
        OBVIOUS
    <2>2. \A s \in Starts : task[s] = "running" <=> loop = s
        OBVIOUS
    <2>3. /\ frame \in [Starts -> 0 .. MaxFrames]
          /\ tracks \in [Starts -> 0 .. MaxTracks]
        OBVIOUS
    <2> QED
        BY <2>1, <2>2, <2>3 DEF TypeOK, Tasks
<1>2. RegistryInv
    BY DEF RegistryInv, Live
<1>3. TaskInv
    BY DEF TaskInv, Live
<1>4. CaptureInv
    BY DEF CaptureInv
<1> QED
    BY <1>1, <1>2, <1>3, <1>4 DEF IInv

----------------------------------------------------------------------------
(* The steps of a pipeline *)

\* What a step of a pipeline leaves alone.
Frame(s) ==
    /\ UNCHANGED <<requests, control, slow>>
    /\ \A t \in Starts \ {s} :
          /\ task'[t] = task[t]
          /\ capture'[t] = capture[t]
          /\ frame'[t] = frame[t]
          /\ tracks'[t] = tracks[t]
          /\ posted'[t] = posted[t]

\* What it does: who was cancelled ends, who ends has released its capture,
\* and a capture is opened only by Begin.
Effect(s) ==
    /\ Live(s)
    /\ task'[s] \in {"running", "sleeping", "posting", "done"}
    /\ cancelled[s] => task'[s] = "done" /\ posted'[s] = posted[s]
    /\ capture'[s] = "open" =>
          /\ task'[s] # "done"
          /\ \/ capture[s] = "open"
             \/ \A t \in Starts : camera[t] = camera[s] /\ cancelled[t] =>
                                      task[t] \in {"posting", "done"}

LEMMA StepTypes ==
    ASSUME IInv, NEW s \in Starts, PipelineStep(s)
    PROVE  TypeOK' /\ (tracks'[s] > 0 => frame'[s] > 0)
<1> USE BoundAssumption, NullAssumption
<1> DEFINE E == (1 .. MaxFrames) \X (1 .. MaxTracks)
<1>1. /\ loop \in {s, NoPipeline}
      /\ \A t \in Starts : task[t] = "running" => t = s
    BY DEF PipelineStep, Begin, Cancel, Wake, PostReturns, ReadFails, EmptyFrame,
           InferRaises, Dispatch, Free, IInv, TypeOK
<1>2. ASSUME NEW f \in 1 .. MaxFrames, NEW n \in 1 .. MaxTracks, PostNext(s, f, n)
      PROVE  /\ tracks' \in [Starts -> 0 .. MaxTracks]
             /\ posted' \in [Starts -> Seq(E)]
             /\ task' = [task EXCEPT ![s] = "posting"] /\ loop' = NoPipeline
    <2>1. <<f, n>> \in E
        OBVIOUS
    <2>2. posted[s] \in Seq(E)
        BY DEF IInv, TypeOK
    <2>3. Append(posted[s], <<f, n>>) \in Seq(E)
        BY <2>1, <2>2, AppendProperties
    <2> QED
        BY <1>2, <2>3 DEF PostNext, Await, IInv, TypeOK
<1>3. CASE Begin(s) \/ Cancel(s) \/ Wake(s) \/ ReadFails(s) \/ EmptyFrame(s)
             \/ InferRaises(s)
    <2>1. UNCHANGED <<requests, control, frame, tracks, posted>> /\ idle' \in BOOLEAN
        BY <1>3 DEF Begin, Cancel, Wake, ReadFails, EmptyFrame, InferRaises, work,
                    IInv, TypeOK
    <2>2. \/ task' = [task EXCEPT ![s] = "running"] /\ loop' = s
          \/ /\ \E l \in {"sleeping", "posting", "done"} : task' = [task EXCEPT ![s] = l]
             /\ loop' = NoPipeline
          \/ UNCHANGED <<task, loop>>
        BY <1>3 DEF Begin, Cancel, Wake, ReadFails, EmptyFrame, InferRaises, Turn,
                    Finish, Await
    <2>3. capture' \in [Starts -> {"none", "open", "released"}]
        <3>1. \/ UNCHANGED capture
              \/ \E cap \in {"none", "open", "released"} :
                     capture' = [capture EXCEPT ![s] = cap]
            BY <1>3 DEF Begin, Cancel, Wake, ReadFails, EmptyFrame, InferRaises, Turn,
                        Finish, Await, _open_capture, work, IInv, TypeOK
        <3> QED
            BY <3>1 DEF IInv, TypeOK
    <2>4. slow' = slow
        BY DEF PipelineStep
    <2> QED
        BY <1>1, <2>1, <2>2, <2>3, <2>4
        DEF requests, control, IInv, TypeOK, TaskInv, Tasks
<1>4. CASE Dispatch(s)
    <2>1. PICK n \in infer \ {0} : PostNext(s, frame[s] + 1, n)
        BY <1>4 DEF Dispatch
    <2>2. n \in 1 .. MaxTracks /\ frame[s] + 1 \in 1 .. MaxFrames
        BY <1>4 DEF Dispatch, infer, IInv, TypeOK
    <2>3. /\ tracks' \in [Starts -> 0 .. MaxTracks]
          /\ posted' \in [Starts -> Seq(E)]
          /\ task' = [task EXCEPT ![s] = "posting"] /\ loop' = NoPipeline
        BY <1>2, <2>1, <2>2
    <2>4. frame' \in [Starts -> 0 .. MaxFrames] /\ frame'[s] > 0
        BY <1>4, <2>2 DEF Dispatch, IInv, TypeOK
    <2>5. UNCHANGED <<requests, control, capture, idle, slow>>
        BY <1>4 DEF Dispatch, PipelineStep
    <2> QED
        BY <1>1, <2>3, <2>4, <2>5 DEF requests, control, IInv, TypeOK, Tasks
<1>5. CASE PostReturns(s)
    <2>1. UNCHANGED <<requests, control, frame, idle, slow>>
        BY <1>5 DEF PostReturns, PipelineStep
    <2>2. CASE tracks[s] > 0
        <3>1. PostNext(s, frame[s], tracks[s]) /\ UNCHANGED capture
            BY <1>5, <2>2 DEF PostReturns
        <3>2. tracks[s] \in 1 .. MaxTracks /\ frame[s] \in 1 .. MaxFrames
            BY <2>2 DEF IInv, TypeOK, TaskInv
        <3>3. /\ tracks' \in [Starts -> 0 .. MaxTracks]
              /\ posted' \in [Starts -> Seq(E)]
              /\ task' = [task EXCEPT ![s] = "posting"] /\ loop' = NoPipeline
            BY <1>2, <3>1, <3>2
        <3> QED
            BY <1>1, <2>1, <3>1, <3>2, <3>3 DEF requests, control, IInv, TypeOK, Tasks
    <2>3. CASE ~(tracks[s] > 0)
        <3>1. /\ UNCHANGED <<tracks, posted>>
              /\ Turn(s) \/ (Await(s, "sleeping") /\ UNCHANGED capture)
            BY <1>5, <2>3 DEF PostReturns
        <3>2. \/ task' = [task EXCEPT ![s] = "running"] /\ loop' = s
              \/ /\ \E l \in {"sleeping", "done"} : task' = [task EXCEPT ![s] = l]
                 /\ loop' = NoPipeline
            BY <3>1 DEF Turn, Finish, Await
        <3>3. capture' \in [Starts -> {"none", "open", "released"}]
            BY <3>1 DEF Turn, Finish, IInv, TypeOK
        <3>4. /\ task' \in [Starts -> Tasks]
              /\ loop' \in Starts \cup {NoPipeline}
              /\ \A t \in Starts : task'[t] = "running" <=> loop' = t
            <4>1. task \in [Starts -> Tasks]
                BY DEF IInv, TypeOK
            <4>2. task' \in [Starts -> Tasks] /\ loop' \in Starts \cup {NoPipeline}
                BY <3>2, <4>1 DEF Tasks
            <4>3. \A t \in Starts \ {s} : task'[t] # "running" /\ loop' # t
                BY <1>1, <3>2, <4>1
            <4>4. task'[s] = "running" <=> loop' = s
                BY <3>2, <4>1
            <4> QED
                BY <4>2, <4>3, <4>4
        <3> QED
            BY <2>1, <3>1, <3>3, <3>4 DEF requests, control, IInv, TypeOK, TaskInv
    <2> QED
        BY <2>2, <2>3
<1> QED
    BY <1>3, <1>4, <1>5 DEF PipelineStep

LEMMA StepEffect ==
    ASSUME IInv, NEW s \in Starts, PipelineStep(s)
    PROVE  Frame(s) /\ Effect(s)
<1> USE NullAssumption
<1>1. slow' = slow
    BY DEF PipelineStep
<1>2. loop = s => task[s] = "running" /\ ~cancelled[s] /\ ~stop[s]
    BY DEF IInv, TypeOK, TaskInv, Live
<1>3. CASE Begin(s)
    BY <1>1, <1>3 DEF Begin, Finish, _open_capture, Frame, Effect, Live, requests,
                      control, IInv, TypeOK
<1>4. CASE Cancel(s) \/ InferRaises(s)
    BY <1>1, <1>2, <1>4 DEF Cancel, InferRaises, Finish, Frame, Effect, Live, requests,
                            control, IInv, TypeOK
<1>5. CASE Wake(s)
    BY <1>1, <1>5 DEF Wake, Turn, Finish, Frame, Effect, Live, requests, control,
                      IInv, TypeOK
<1>6. CASE ReadFails(s) \/ EmptyFrame(s)
    BY <1>1, <1>2, <1>6 DEF ReadFails, EmptyFrame, Await, Frame, Effect, Live, requests,
                            control, work, IInv, TypeOK
<1>7. CASE Dispatch(s)
    BY <1>1, <1>2, <1>7 DEF Dispatch, PostNext, Await, Frame, Effect, Live, requests,
                            control, IInv, TypeOK
<1>8. CASE PostReturns(s)
    <2>1. UNCHANGED <<requests, control, frame, idle>> /\ task[s] = "posting"
              /\ ~cancelled[s]
        BY <1>8 DEF PostReturns
    <2>2. \/ PostNext(s, frame[s], tracks[s]) /\ UNCHANGED capture
          \/ Turn(s) /\ UNCHANGED <<tracks, posted>>
          \/ Await(s, "sleeping") /\ UNCHANGED <<tracks, posted, capture>>
        BY <1>8 DEF PostReturns
    <2> QED
        BY <1>1, <2>1, <2>2 DEF PostNext, Turn, Finish, Await, Frame, Effect, Live,
                                requests, control, IInv, TypeOK
<1> QED
    BY <1>3, <1>4, <1>5, <1>6, <1>7, <1>8 DEF PipelineStep

LEMMA PipelineKeeps ==
    ASSUME IInv, NEW s \in Starts, PipelineStep(s)
    PROVE  IInv'
<1>1. Frame(s) /\ Effect(s)
    BY StepEffect
<1>2. TypeOK' /\ (tracks'[s] > 0 => frame'[s] > 0)
    BY StepTypes
<1>3. RegistryInv'
    BY <1>1 DEF Frame, Effect, Live, requests, control, IInv, RegistryInv, TypeOK
<1>4. TaskInv'
    <2> SUFFICES ASSUME NEW t \in Starts
                 PROVE  /\ stop'[t] => task'[t] \notin {"none", "refused"}
                        /\ stop'[t] /\ Live(t)' => cancelled'[t]
                        /\ cancelled'[t] => stop'[t] /\ task'[t] # "running"
                        /\ Live(t)' => camera'[t] \in Cameras
                        /\ capture'[t] = "open" =>
                               task'[t] \in {"running", "sleeping", "posting"}
                        /\ tracks'[t] > 0 => frame'[t] > 0
        BY DEF TaskInv
    <2>1. CASE t = s
        BY <1>1, <1>2, <2>1 DEF Frame, Effect, Live, control, IInv, TaskInv
    <2>2. CASE t # s
        BY <1>1, <2>2 DEF Frame, Live, control, IInv, TaskInv
    <2> QED
        BY <2>1, <2>2
<1>5. CaptureInv'
    <2>1. ASSUME NEW t \in Starts \ {s}, camera[t] = camera[s],
                 capture'[s] = "open", capture'[t] = "open"
          PROVE  \E u \in {s, t} : stop'[u] /\ task'[u] = "posting"
        <3>1. /\ capture[t] = "open" /\ task'[t] = task[t] /\ stop' = stop
              /\ task'[s] # "done" /\ ~cancelled[s] /\ Live(s) /\ ~stop[s]
            BY <1>1, <2>1 DEF Frame, Effect, control, IInv, TaskInv
        <3>2. CASE capture[s] = "open"
            BY <2>1, <3>1, <3>2 DEF IInv, CaptureInv
        <3>3. CASE capture[s] # "open"
            <4>1. Live(t) /\ task[t] # "done"
                BY <3>1 DEF IInv, TaskInv, Live
            <4>2. stop[t] /\ cancelled[t]
                BY <2>1, <3>1, <4>1 DEF IInv, RegistryInv, TaskInv
            <4> QED
                BY <1>1, <2>1, <3>1, <3>3, <4>1, <4>2 DEF Effect
        <3> QED
            BY <3>2, <3>3
    <2> QED
        BY <1>1, <2>1 DEF CaptureInv, Frame, control, IInv
<1> QED
    BY <1>2, <1>3, <1>4, <1>5 DEF IInv

----------------------------------------------------------------------------
(* The handlers *)

LEMMA EndAllKeeps ==
    ASSUME IInv, NEW S \in SUBSET Starts, EndAll(S), Free,
           \A s \in S : task[s] \notin {"none", "refused"},
           \A s \in Starts : Live(s) /\ ~stop'[s] => registry'[camera[s]] = s,
           registry' \in [Cameras -> Starts \cup {NoPipeline}],
           \A c \in Cameras : registry'[c] \in {registry[c], NoPipeline},
           service' \in {"up", "stopping"}, asked' \subseteq Cameras,
           UNCHANGED <<loop, camera, task, work, slow>>
    PROVE  IInv'
<1>1. TypeOK'
    BY DEF IInv, TypeOK, EndAll, Live, work
<1>2. RegistryInv'
    BY DEF IInv, RegistryInv, Live, TypeOK
<1>3. TaskInv'
    <2>1. \A s \in Starts : task[s] # "running"
        BY NullAssumption DEF Free, IInv, TypeOK
    <2> QED
        BY <2>1 DEF IInv, TaskInv, EndAll, Live, TypeOK, work
<1>4. CaptureInv'
    BY DEF IInv, CaptureInv, EndAll, TypeOK, work
<1> QED
    BY <1>1, <1>2, <1>3, <1>4 DEF IInv

LEMMA StartKeeps ==
    ASSUME IInv, NEW s \in Starts, NEW c \in Cameras, start_pipeline(s, c), slow' = slow
    PROVE  IInv'
<1> USE NullAssumption
<1>1. /\ UNCHANGED <<service, asked, loop, stop, cancelled, work, slow>>
      /\ task[s] = "none" /\ Free
      /\ camera' = [camera EXCEPT ![s] = c]
      /\ ~stop[s] /\ ~cancelled[s] /\ capture[s] # "open"
    BY DEF start_pipeline, IInv, TaskInv
<1>2. \/ /\ registry[c] = NoPipeline
         /\ task' = [task EXCEPT ![s] = "created"]
         /\ registry' = [registry EXCEPT ![c] = s]
      \/ /\ task' = [task EXCEPT ![s] = "refused"]
         /\ registry' = registry
    BY DEF start_pipeline
<1>3. TypeOK'
    <2>1. /\ task' \in [Starts -> Tasks]
          /\ \A t \in Starts : task'[t] = "running" <=> loop' = t
        BY <1>1, <1>2 DEF IInv, TypeOK, Tasks, Free
    <2>2. /\ registry' \in [Cameras -> Starts \cup {NoPipeline}]
          /\ camera' \in [Starts -> Cameras \cup {NoCamera}]
        <3>1. /\ registry \in [Cameras -> Starts \cup {NoPipeline}]
              /\ camera \in [Starts -> Cameras \cup {NoCamera}]
            BY DEF IInv, TypeOK
        <3>2. [camera EXCEPT ![s] = c] \in [Starts -> Cameras \cup {NoCamera}]
            BY <3>1
        <3>3. [registry EXCEPT ![c] = s] \in [Cameras -> Starts \cup {NoPipeline}]
            BY <3>1
        <3> QED
            BY <1>1, <1>2, <3>1, <3>2, <3>3
    <2> QED
        BY <1>1, <2>1, <2>2 DEF IInv, TypeOK, work
<1>4. RegistryInv'
    <2>1. ASSUME NEW t \in Starts, Live(t)', ~stop'[t]
          PROVE  registry'[camera'[t]] = t
        <3>1. CASE t = s
            BY <1>1, <1>2, <2>1, <3>1 DEF Live, IInv, TypeOK
        <3>2. CASE t # s
            <4>1. Live(t) /\ ~stop[t] /\ camera'[t] = camera[t] /\ camera[t] \in Cameras
                BY <1>1, <1>2, <2>1, <3>2 DEF Live, IInv, TypeOK, TaskInv
            <4>2. registry[camera[t]] = t
                BY <4>1 DEF IInv, RegistryInv
            <4> QED
                BY <1>2, <4>1, <4>2 DEF IInv, TypeOK
        <3> QED
            BY <3>1, <3>2
    <2>2. ASSUME NEW d \in Cameras, registry'[d] # NoPipeline
          PROVE  task'[registry'[d]] \notin {"none", "refused"}
        BY <1>1, <1>2, <2>2 DEF IInv, RegistryInv, TypeOK
    <2> QED
        BY <2>1, <2>2 DEF RegistryInv
<1>5. TaskInv'
    BY <1>1, <1>2 DEF IInv, TaskInv, TypeOK, Live, work
<1>6. CaptureInv'
    BY <1>1, <1>2 DEF IInv, CaptureInv, TypeOK, work
<1> QED
    BY <1>3, <1>4, <1>5, <1>6 DEF IInv

LEMMA StopKeeps ==
    ASSUME IInv, NEW c \in Cameras, stop_pipeline(c), slow' = slow
    PROVE  IInv'
<1> USE NullAssumption
<1> DEFINE S == {registry[c]} \ {NoPipeline}
<1>1. /\ EndAll(S) /\ Free /\ service' = service /\ service = "up"
      /\ asked' = asked \ {c}
      /\ registry' = [registry EXCEPT ![c] = NoPipeline]
      /\ UNCHANGED <<loop, camera, task, work, slow>>
    BY DEF stop_pipeline
<1>2. S \in SUBSET Starts /\ \A s \in S : task[s] \notin {"none", "refused"}
    BY DEF IInv, TypeOK, RegistryInv
<1>3. ASSUME NEW s \in Starts, Live(s), ~stop'[s]
      PROVE  registry'[camera[s]] = s
    <2>1. ~stop[s] /\ s \notin S
        BY <1>1, <1>3 DEF EndAll, IInv, TypeOK
    <2>2. registry[camera[s]] = s /\ camera[s] \in Cameras
        BY <1>3, <2>1 DEF IInv, RegistryInv, TaskInv
    <2>3. camera[s] # c
        BY <2>1, <2>2
    <2> QED
        BY <1>1, <2>2, <2>3 DEF IInv, TypeOK
<1>4. /\ registry' \in [Cameras -> Starts \cup {NoPipeline}]
      /\ \A d \in Cameras : registry'[d] \in {registry[d], NoPipeline}
      /\ service' \in {"up", "stopping"} /\ asked' \subseteq Cameras
    BY <1>1 DEF IInv, TypeOK
<1> HIDE DEF S
<1> QED
    BY <1>1, <1>2, <1>3, <1>4, EndAllKeeps

LEMMA ShutdownKeeps ==
    ASSUME IInv, Shutdown, slow' = slow
    PROVE  IInv'
<1>1. /\ EndAll(Registered) /\ Free /\ service' = "stopping"
      /\ UNCHANGED <<registry, asked, loop, camera, task, work, slow>>
    BY DEF Shutdown
<1>2. /\ Registered \in SUBSET Starts
      /\ \A s \in Registered : task[s] \notin {"none", "refused"}
    BY DEF Registered, IInv, TypeOK, RegistryInv
<1>3. \A s \in Starts : Live(s) /\ ~stop'[s] => registry'[camera[s]] = s
    BY <1>1 DEF EndAll, IInv, TypeOK, RegistryInv
<1>4. /\ registry' \in [Cameras -> Starts \cup {NoPipeline}]
      /\ \A d \in Cameras : registry'[d] \in {registry[d], NoPipeline}
      /\ service' \in {"up", "stopping"} /\ asked' \subseteq Cameras
    BY <1>1 DEF IInv, TypeOK
<1> QED
    BY <1>1, <1>2, <1>3, <1>4, EndAllKeeps

LEMMA DownKeeps ==
    ASSUME IInv, ShutdownDone, slow' = slow
    PROVE  IInv'
<1> USE NullAssumption
<1>1. /\ UNCHANGED <<registry, asked, loop, control, frame, tracks, posted, idle, slow>>
      /\ Free /\ service' = "down"
      /\ task' = [s \in Starts |-> IF Live(s) THEN "done" ELSE task[s]]
      /\ capture' = [s \in Starts |-> IF capture[s] = "open" THEN "released"
                                                             ELSE capture[s]]
    BY DEF ShutdownDone
<1>2. \A s \in Starts : ~Live(s)' /\ capture'[s] # "open"
    BY <1>1 DEF Live, IInv, TypeOK, Tasks
<1>3. TypeOK'
    BY <1>1 DEF IInv, TypeOK, Tasks, control, Free, Live
<1>4. RegistryInv'
    BY <1>1, <1>2 DEF IInv, RegistryInv, TypeOK, control, Live
<1>5. TaskInv'
    BY <1>1, <1>2 DEF IInv, TaskInv, TypeOK, control, Live
<1>6. CaptureInv'
    BY <1>2 DEF CaptureInv
<1> QED
    BY <1>3, <1>4, <1>5, <1>6 DEF IInv

LEMMA InvariantStep == IInv /\ [Next]_vars => IInv'
<1> SUFFICES ASSUME IInv, [Next]_vars PROVE IInv'
    OBVIOUS
<1>1. ASSUME NEW s \in Starts, NEW c \in Cameras, start_pipeline(s, c), UNCHANGED slow
      PROVE  IInv'
    BY <1>1, StartKeeps
<1>2. ASSUME NEW s \in Starts, PipelineStep(s) PROVE IInv'
    BY <1>2, PipelineKeeps
<1>3. ASSUME NEW c \in Cameras, AskStop(c), UNCHANGED slow PROVE IInv'
    BY <1>3 DEF AskStop, IInv, TypeOK, RegistryInv, TaskInv, CaptureInv, Live, control,
                work
<1>4. ASSUME NEW c \in Cameras, StopStep(c) PROVE IInv'
    BY <1>4, StopKeeps DEF StopStep
<1>5. CASE Shutdown /\ UNCHANGED slow
    BY <1>5, ShutdownKeeps
<1>6. CASE ShutdownStep
    BY <1>6, DownKeeps DEF ShutdownStep
<1>7. CASE UNCHANGED vars
    BY <1>7 DEF vars, requests, control, work, IInv, TypeOK, RegistryInv, TaskInv,
                CaptureInv, Live
<1> QED
    BY <1>1, <1>2, <1>3, <1>4, <1>5, <1>6, <1>7 DEF Next, Done

LEMMA Invariant == Spec => []IInv
    BY InitInv, InvariantStep, PTL DEF Spec

----------------------------------------------------------------------------
(* The theorems *)

\* The registry, the tasks and the event loop keep their types, and whoever
\* has the loop is the pipeline that runs.
THEOREM EngineTypes == Spec => []TypeOK
<1>1. IInv => TypeOK
    BY DEF IInv
<1> QED
    BY <1>1, Invariant, PTL

\* main.py answers 409 for a camera that has a pipeline: however many starts
\* and stops there are, a camera has one pipeline that was not stopped, and a
\* second one has its capture open only while it is caught in a POST.
THEOREM OnePipelineTheorem == Spec => []OnePipeline
<1>1. IInv => OnePipeline
    <2> SUFFICES ASSUME IInv, NEW s \in Starts, NEW t \in Starts,
                        s # t, camera[s] = camera[t]
                 PROVE  /\ Live(s) /\ Live(t) => stop[s] \/ stop[t]
                        /\ capture[s] = "open" /\ capture[t] = "open" =>
                               \E u \in {s, t} : stop[u] /\ task[u] = "posting"
        BY DEF OnePipeline
    <2>1. Live(s) /\ Live(t) => stop[s] \/ stop[t]
        BY DEF IInv, RegistryInv
    <2>2. capture[s] = "open" /\ capture[t] = "open" =>
              \E u \in {s, t} : stop[u] /\ task[u] = "posting"
        BY DEF IInv, CaptureInv
    <2> QED
        BY <2>1, <2>2
<1> QED
    BY <1>1, Invariant, PTL

\* The `finally` of run() and the shutdown leave no capture open behind a
\* pipeline that has ended.
THEOREM ReleaseTheorem == Spec => []EndedIsReleased
<1>1. IInv => EndedIsReleased
    BY DEF IInv, TaskInv, EndedIsReleased, Live
<1> QED
    BY <1>1, Invariant, PTL

\* stop_pipeline is answered before its task has ended; nothing is POSTed by
\* the task from then on.
THEOREM QuietTheorem == Spec => QuietAfterStop
<1> DEFINE Quiet == \A s \in Starts : stop[s] => posted'[s] = posted[s]
<1>1. IInv /\ [Next]_vars => [Quiet]_vars
    <2> SUFFICES ASSUME IInv, Next PROVE Quiet
        BY DEF vars
    <2>1. ASSUME NEW s \in Starts, PipelineStep(s), NEW t \in Starts, stop[t]
          PROVE  posted'[t] = posted[t]
        <3>1. Frame(s) /\ Effect(s)
            BY <2>1, StepEffect
        <3>2. CASE t = s
            BY <2>1, <3>1, <3>2 DEF Effect, IInv, TaskInv
        <3>3. CASE t # s
            BY <3>1, <3>3 DEF Frame
        <3> QED
            BY <3>2, <3>3
    <2>2. CASE posted' = posted
        BY <2>2
    <2> QED
        BY <2>1, <2>2 DEF Next, start_pipeline, AskStop, StopStep, stop_pipeline, Shutdown,
                          ShutdownStep, ShutdownDone, Done, vars, work
<1> QED
    BY <1>1, Invariant, PTL DEF Spec, QuietAfterStop

----------------------------------------------------------------------------
(* The feed of events *)

\* The last event of a pipeline is of its last frame, and says which of the
\* tracks are still to be sent; between two frames there are none.
StreamOf(s) ==
    /\ task[s] \in {"none", "refused", "created"} => frame[s] = 0
    /\ task[s] \in {"none", "refused", "created", "running", "sleeping"} =>
          tracks[s] = 0
    /\ frame[s] = 0 => posted[s] = <<>>
    /\ frame[s] # 0 =>
          /\ Len(posted[s]) > 0
          /\ posted[s][Len(posted[s])] = <<frame[s], tracks[s] + 1>>

\* Everybody is registered for its own camera, if at all.
OwnCamera == \A c \in Cameras : registry[c] # NoPipeline => camera[registry[c]] = c

FInv == IInv /\ OwnCamera /\ \A s \in Starts : StreamOf(s)

\* The event that PostNext sends is the one that is due.
LEMMA EventIsNext ==
    ASSUME IInv, NEW s \in Starts, StreamOf(s),
           NEW f \in 1 .. MaxFrames, NEW n \in 1 .. MaxTracks, PostNext(s, f, n),
           frame'[s] = f,
           \/ tracks[s] > 0 /\ f = frame[s] /\ n = tracks[s]
           \/ tracks[s] = 0 /\ f = frame[s] + 1
    PROVE  StreamOf(s)' /\ Feed!Follows(posted[s], <<f, n>>)
<1> DEFINE sent == posted[s]
           event == <<f, n>>
<1>0. /\ frame[s] \in Nat /\ tracks[s] \in Nat /\ f \in Nat /\ n \in Nat
      /\ sent \in Seq((1 .. MaxFrames) \X (1 .. MaxTracks))
      /\ Len(sent) \in Nat
    BY BoundAssumption DEF IInv, TypeOK
<1>1. /\ posted'[s] = Append(sent, event)
      /\ tracks'[s] = n - 1
      /\ task'[s] = "posting"
    BY DEF PostNext, Await, IInv, TypeOK
<1>2. /\ Len(posted'[s]) = Len(sent) + 1
      /\ posted'[s][Len(sent) + 1] = event
    <2> HIDE DEF event
    <2>1. /\ Len(Append(sent, event)) = Len(sent) + 1
          /\ Append(sent, event)[Len(sent) + 1] = event
        BY <1>0
    <2> QED
        BY <1>1, <2>1
<1>3. StreamOf(s)'
    <2>1. frame'[s] # 0 /\ tracks'[s] + 1 = n
        BY <1>0, <1>1
    <2>2. posted'[s][Len(posted'[s])] = <<frame'[s], tracks'[s] + 1>>
        BY <1>2, <2>1
    <2>3. Len(posted'[s]) > 0
        BY <1>0, <1>2
    <2> QED
        BY <1>1, <2>1, <2>2, <2>3 DEF StreamOf
<1>4. Feed!Follows(posted[s], <<f, n>>)
    <2>1. CASE frame[s] = 0
        BY <1>0, <2>1 DEF StreamOf, IInv, TaskInv, Feed!Follows
    <2>2. CASE frame[s] # 0
        <3>1. /\ sent # <<>>
              /\ sent[Len(sent)] = <<frame[s], tracks[s] + 1>>
            BY <1>0, <2>2 DEF StreamOf
        <3>2. CASE tracks[s] > 0
            <4>1. tracks[s] + 1 > 1 /\ (tracks[s] + 1) - 1 = tracks[s]
                BY <1>0, <3>2
            <4> QED
                BY <1>0, <3>1, <3>2, <4>1 DEF Feed!Follows
        <3>3. CASE tracks[s] = 0
            BY <1>0, <3>1, <3>3 DEF Feed!Follows
        <3> QED
            BY <1>0, <3>2, <3>3
    <2> QED
        BY <2>1, <2>2
<1> QED
    BY <1>3, <1>4

\* A step of a pipeline sends the event that is due, or none.
LEMMA StreamStep ==
    ASSUME IInv, NEW s \in Starts, StreamOf(s), PipelineStep(s)
    PROVE  /\ StreamOf(s)'
           /\ \/ posted' = posted
              \/ /\ Live(s) /\ ~stop[s]
                 /\ \E event \in (1 .. MaxFrames) \X (1 .. MaxTracks) :
                       /\ Feed!Follows(posted[s], event)
                       /\ posted' = [posted EXCEPT ![s] = Append(@, event)]
<1> USE BoundAssumption, NullAssumption
<1>0. loop = s => task[s] = "running" /\ Live(s) /\ ~stop[s]
    BY DEF IInv, TypeOK, TaskInv, Live
<1>1. CASE Begin(s) \/ Cancel(s) \/ Wake(s) \/ ReadFails(s) \/ EmptyFrame(s)
             \/ InferRaises(s)
    <2>1. UNCHANGED <<frame, tracks, posted>>
        BY <1>1 DEF Begin, Cancel, Wake, ReadFails, EmptyFrame, InferRaises, work
    <2>2. task'[s] \in {task[s], "running", "sleeping", "done"}
        BY <1>1 DEF Begin, Cancel, Wake, ReadFails, EmptyFrame, InferRaises, Turn,
                    Finish, Await, IInv, TypeOK
    <2>3. task'[s] \in {"running", "sleeping"} => tracks[s] = 0
        BY <1>0, <1>1 DEF Begin, Cancel, Wake, ReadFails, EmptyFrame, InferRaises, Turn,
                    Finish, Await, IInv, TypeOK, StreamOf
    <2> QED
        BY <2>1, <2>2, <2>3 DEF StreamOf
<1>2. CASE Dispatch(s)
    <2>1. PICK n \in infer \ {0} : PostNext(s, frame[s] + 1, n)
        BY <1>2 DEF Dispatch
    <2>2. n \in 1 .. MaxTracks /\ frame[s] + 1 \in 1 .. MaxFrames
        BY <1>2 DEF Dispatch, infer, IInv, TypeOK
    <2>3. frame'[s] = frame[s] + 1 /\ tracks[s] = 0 /\ Live(s) /\ ~stop[s]
        BY <1>0, <1>2 DEF Dispatch, IInv, TypeOK, StreamOf
    <2>4. StreamOf(s)' /\ Feed!Follows(posted[s], <<frame[s] + 1, n>>)
        BY <2>1, <2>2, <2>3, EventIsNext
    <2>5. posted' = [posted EXCEPT ![s] = Append(@, <<frame[s] + 1, n>>)]
        BY <2>1 DEF PostNext
    <2>6. <<frame[s] + 1, n>> \in (1 .. MaxFrames) \X (1 .. MaxTracks)
        BY <2>2
    <2> QED
        BY <2>3, <2>4, <2>5, <2>6
<1>3. CASE PostReturns(s)
    <2>1. task[s] = "posting" /\ ~cancelled[s] /\ UNCHANGED frame
        BY <1>3 DEF PostReturns
    <2>2. Live(s) /\ ~stop[s]
        BY <2>1 DEF Live, IInv, TaskInv
    <2>3. CASE tracks[s] > 0
        <3>1. PostNext(s, frame[s], tracks[s])
            BY <1>3, <2>3 DEF PostReturns
        <3>2. tracks[s] \in 1 .. MaxTracks /\ frame[s] \in 1 .. MaxFrames
            BY <2>3 DEF IInv, TypeOK, TaskInv
        <3>3. StreamOf(s)' /\ Feed!Follows(posted[s], <<frame[s], tracks[s]>>)
            BY <2>1, <2>3, <3>1, <3>2, EventIsNext
        <3>4. posted' = [posted EXCEPT ![s] = Append(@, <<frame[s], tracks[s]>>)]
            BY <3>1 DEF PostNext
        <3>5. <<frame[s], tracks[s]>> \in (1 .. MaxFrames) \X (1 .. MaxTracks)
            BY <3>2
        <3> QED
            BY <2>2, <3>3, <3>4, <3>5
    <2>4. CASE ~(tracks[s] > 0)
        <3>1. /\ UNCHANGED <<tracks, posted>>
              /\ Turn(s) \/ Await(s, "sleeping")
            BY <1>3, <2>4 DEF PostReturns
        <3>2. task'[s] \in {"running", "sleeping", "done"} /\ tracks[s] = 0
            BY <2>4, <3>1 DEF Turn, Finish, Await, IInv, TypeOK
        <3> QED
            BY <2>1, <3>1, <3>2 DEF StreamOf
    <2> QED
        BY <2>3, <2>4
<1> QED
    BY <1>1, <1>2, <1>3 DEF PipelineStep

LEMMA FeedInit == Init => FInv
<1> SUFFICES ASSUME Init PROVE FInv
    OBVIOUS
<1>1. OwnCamera
    BY DEF Init, OwnCamera
<1>2. \A s \in Starts : StreamOf(s)
    BY DEF Init, StreamOf
<1> QED
    BY <1>1, <1>2, InitInv DEF FInv

\* A step that sends nothing and leaves the frames alone.
LEMMA StreamsStay ==
    ASSUME NEW s \in Starts, StreamOf(s), UNCHANGED <<frame, tracks, posted>>,
           \/ task'[s] \in {task[s], "done"}
           \/ task[s] = "none" /\ task'[s] \in {"created", "refused"}
    PROVE  StreamOf(s)'
BY DEF StreamOf

\* The pipelines of all cameras but those of a set stay registered.
LEMMA OwnCameraStays ==
    ASSUME OwnCamera, UNCHANGED camera,
           \A c \in Cameras : registry'[c] \in {registry[c], NoPipeline}
    PROVE  OwnCamera'
BY DEF OwnCamera

LEMMA FeedInvariantStep == FInv /\ [Next]_vars => FInv'
<1> SUFFICES ASSUME FInv, [Next]_vars PROVE FInv'
    OBVIOUS
<1> USE NullAssumption
<1>0. IInv /\ OwnCamera /\ (\A s \in Starts : StreamOf(s)) /\ IInv'
    BY InvariantStep DEF FInv
<1> SUFFICES OwnCamera' /\ \A s \in Starts : StreamOf(s)'
    BY <1>0 DEF FInv
<1>1. ASSUME NEW s \in Starts, NEW c \in Cameras, start_pipeline(s, c)
      PROVE  OwnCamera' /\ \A t \in Starts : StreamOf(t)'
    <2>1. /\ UNCHANGED <<frame, tracks, posted>>
          /\ task[s] = "none"
          /\ camera' = [camera EXCEPT ![s] = c]
          /\ \/ /\ registry[c] = NoPipeline
                /\ task' = [task EXCEPT ![s] = "created"]
                /\ registry' = [registry EXCEPT ![c] = s]
             \/ /\ task' = [task EXCEPT ![s] = "refused"]
                /\ registry' = registry
        BY <1>1 DEF start_pipeline, work
    <2>2. ASSUME NEW t \in Starts PROVE StreamOf(t)'
        <3>1. \/ task'[t] \in {task[t], "done"}
              \/ task[t] = "none" /\ task'[t] \in {"created", "refused"}
            BY <1>0, <2>1 DEF IInv, TypeOK
        <3> QED
            BY <1>0, <2>1, <3>1, StreamsStay
    <2>3. ASSUME NEW d \in Cameras, registry'[d] # NoPipeline
          PROVE  camera'[registry'[d]] = d
        <3>1. CASE registry'[d] = s
            BY <1>0, <2>1, <2>3, <3>1 DEF IInv, TypeOK, RegistryInv
        <3>2. CASE registry'[d] # s
            <4>1. registry'[d] = registry[d]
                BY <1>0, <2>1, <3>2 DEF IInv, TypeOK
            <4> QED
                BY <1>0, <2>1, <2>3, <3>2, <4>1 DEF IInv, TypeOK, OwnCamera
        <3> QED
            BY <3>1, <3>2
    <2> QED
        BY <2>2, <2>3 DEF OwnCamera
<1>2. ASSUME NEW s \in Starts, PipelineStep(s)
      PROVE  OwnCamera' /\ \A t \in Starts : StreamOf(t)'
    <2>1. Frame(s) /\ StreamOf(s)'
        BY <1>0, <1>2, StepEffect, StreamStep
    <2>2. \A t \in Starts \ {s} : StreamOf(t)'
        BY <1>0, <2>1 DEF Frame, StreamOf
    <2>3. OwnCamera'
        BY <1>0, <2>1, OwnCameraStays DEF Frame, requests, control
    <2> QED
        BY <2>1, <2>2, <2>3
<1>3. ASSUME NEW c \in Cameras, AskStop(c) \/ StopStep(c)
      PROVE  OwnCamera' /\ \A t \in Starts : StreamOf(t)'
    <2>1. UNCHANGED <<frame, tracks, posted, task, camera>>
        BY <1>3 DEF AskStop, StopStep, stop_pipeline, work, control
    <2>2. \A d \in Cameras : registry'[d] \in {registry[d], NoPipeline}
        BY <1>0, <1>3 DEF AskStop, StopStep, stop_pipeline, IInv, TypeOK
    <2>3. OwnCamera'
        BY <1>0, <2>1, <2>2, OwnCameraStays
    <2>4. \A s \in Starts : StreamOf(s)'
        BY <1>0, <2>1, StreamsStay
    <2> QED
        BY <2>3, <2>4
<1>4. CASE Shutdown \/ ShutdownStep
    <2>1. /\ UNCHANGED <<frame, tracks, posted, registry, camera>>
          /\ \A s \in Starts : task'[s] \in {task[s], "done"}
        BY <1>4 DEF Shutdown, ShutdownStep, ShutdownDone, work, control
    <2>2. OwnCamera'
        BY <1>0, <2>1, OwnCameraStays
    <2>3. \A s \in Starts : StreamOf(s)'
        BY <1>0, <2>1, StreamsStay
    <2> QED
        BY <2>2, <2>3
<1>5. CASE UNCHANGED vars
    <2>1. UNCHANGED <<frame, tracks, posted, registry, camera, task>>
        BY <1>5 DEF vars, requests, control, work
    <2>2. OwnCamera'
        BY <1>0, <2>1, OwnCameraStays
    <2>3. \A s \in Starts : StreamOf(s)'
        BY <1>0, <2>1, StreamsStay
    <2> QED
        BY <2>2, <2>3
<1> QED
    BY <1>1, <1>2, <1>3, <1>4, <1>5 DEF Next, Done

LEMMA FeedInvariant == Spec => []FInv
    BY FeedInit, FeedInvariantStep, PTL DEF Spec

\* What Feed is instantiated with.
feederOf == [c \in Cameras |-> IF registry[c] \in Starts /\ ~stop[registry[c]]
                               THEN registry[c] ELSE NoPipeline]
spentOf == {s \in Starts : task[s] \notin {"none", "refused"}}

LEMMA FeedNames ==
    /\ Feed!Next <=>
         \/ \E c \in Cameras : Feed!Send(c) \/ \E f \in Starts : Feed!Take(c, f)
         \/ \E C \in SUBSET Cameras : Feed!Give(C)
    /\ feederOf' = feederOf /\ spentOf' = spentOf /\ posted' = posted
         => UNCHANGED Feed!feeds
BY DEF Feed!Next, Feed!feeds, feederOf, spentOf

LEMMA Takes ==
    ASSUME FInv, NEW s \in Starts, NEW c \in Cameras, start_pipeline(s, c)
    PROVE  [Feed!Next]_(Feed!feeds)
<1> USE NullAssumption
<1>0. IInv
    BY DEF FInv
<1>1. /\ UNCHANGED <<stop, posted>> /\ task[s] = "none"
      /\ ~stop[s]
    BY <1>0 DEF start_pipeline, work, IInv, TaskInv
<1>2. CASE registry[c] # NoPipeline
    <2>1. registry' = registry /\ task' = [task EXCEPT ![s] = "refused"]
        BY <1>2 DEF start_pipeline
    <2>2. feederOf' = feederOf
        BY <1>1, <2>1 DEF feederOf
    <2>3. spentOf' = spentOf
        BY <1>0, <1>1, <2>1 DEF spentOf, IInv, TypeOK
    <2> QED
        BY <1>1, <2>2, <2>3, FeedNames
<1>3. CASE registry[c] = NoPipeline
    <2>1. /\ registry' = [registry EXCEPT ![c] = s]
          /\ task' = [task EXCEPT ![s] = "created"]
        BY <1>3 DEF start_pipeline
    <2>2. feederOf[c] = NoPipeline /\ s \notin spentOf
        BY <1>1, <1>3 DEF feederOf, spentOf
    <2>3. feederOf' = [feederOf EXCEPT ![c] = s]
        BY <1>0, <1>1, <2>1 DEF feederOf, IInv, TypeOK
    <2>4. spentOf' = spentOf \cup {s}
        BY <1>0, <1>1, <2>1 DEF spentOf, IInv, TypeOK
    <2>5. Feed!Take(c, s)
        BY <1>1, <2>2, <2>3, <2>4 DEF Feed!Take, feederOf, spentOf
    <2> QED
        BY <2>5, FeedNames
<1> QED
    BY <1>2, <1>3

\* Pipelines that were ended give their cameras up, and no other pipeline does.
LEMMA Gives ==
    ASSUME FInv, NEW C \in SUBSET Cameras, UNCHANGED <<task, posted>>,
           \A c \in Cameras \ C : registry'[c] = registry[c],
           \A c \in C : \/ registry'[c] = NoPipeline
                        \/ registry'[c] \in Starts /\ stop'[registry'[c]],
           \A c \in Cameras \ C : registry[c] \in Starts
                                  => stop'[registry[c]] = stop[registry[c]]
    PROVE  [Feed!Next]_(Feed!feeds)
<1>1. spentOf' = spentOf
    BY DEF spentOf
<1>2. feederOf' = [c \in Cameras |-> IF c \in C THEN NoPipeline ELSE feederOf[c]]
    BY NullAssumption DEF feederOf
<1>3. Feed!Give(C)
    BY <1>1, <1>2 DEF Feed!Give, feederOf, spentOf
<1> QED
    BY <1>3, FeedNames

LEMMA Sends ==
    ASSUME FInv, NEW s \in Starts, PipelineStep(s)
    PROVE  [Feed!Next]_(Feed!feeds)
<1> USE NullAssumption
<1>0. IInv /\ StreamOf(s)
    BY DEF FInv
<1>1. Frame(s) /\ Effect(s)
    BY <1>0, StepEffect
<1>2. feederOf' = feederOf
    BY <1>1 DEF Frame, requests, control, feederOf
<1>3. spentOf' = spentOf
    BY <1>1 DEF Frame, Effect, Live, spentOf
<1>4. CASE posted' = posted
    BY <1>2, <1>3, <1>4, FeedNames
<1>5. ASSUME Live(s), ~stop[s],
             NEW event \in (1 .. MaxFrames) \X (1 .. MaxTracks),
             Feed!Follows(posted[s], event),
             posted' = [posted EXCEPT ![s] = Append(@, event)]
      PROVE  [Feed!Next]_(Feed!feeds)
    <2>1. camera[s] \in Cameras /\ registry[camera[s]] = s
        BY <1>0, <1>5 DEF IInv, TaskInv, RegistryInv
    <2>2. feederOf[camera[s]] = s /\ s # NoPipeline
        BY <1>5, <2>1 DEF feederOf
    <2>3. Feed!Send(camera[s])
        BY <1>2, <1>3, <1>5, <2>1, <2>2 DEF Feed!Send, feederOf, spentOf
    <2> QED
        BY <2>1, <2>3, FeedNames
<1> QED
    BY <1>0, <1>4, <1>5, StreamStep

LEMMA FeedStep == FInv /\ [Next]_vars => [Feed!Next]_(Feed!feeds)
<1> SUFFICES ASSUME FInv, [Next]_vars PROVE [Feed!Next]_(Feed!feeds)
    OBVIOUS
<1> USE NullAssumption
<1>0. IInv /\ OwnCamera
    BY DEF FInv
<1>1. ASSUME NEW s \in Starts, NEW c \in Cameras, start_pipeline(s, c)
      PROVE  [Feed!Next]_(Feed!feeds)
    BY <1>1, Takes
<1>2. ASSUME NEW s \in Starts, PipelineStep(s) PROVE [Feed!Next]_(Feed!feeds)
    BY <1>2, Sends
<1>3. ASSUME NEW c \in Cameras, StopStep(c) PROVE [Feed!Next]_(Feed!feeds)
    <2>1. /\ registry' = [registry EXCEPT ![c] = NoPipeline]
          /\ stop' = [s \in Starts |-> stop[s] \/ s \in {registry[c]} \ {NoPipeline}]
          /\ UNCHANGED <<task, posted>>
        BY <1>3 DEF StopStep, stop_pipeline, EndAll, work
    <2>2. \A d \in Cameras \ {c} : registry'[d] = registry[d]
        BY <1>0, <2>1 DEF IInv, TypeOK
    <2>3. registry'[c] = NoPipeline
        BY <1>0, <2>1 DEF IInv, TypeOK
    <2>4. ASSUME NEW d \in Cameras \ {c}, registry[d] \in Starts
          PROVE  stop'[registry[d]] = stop[registry[d]]
        <3>1. camera[registry[d]] = d
            BY <1>0, <2>4 DEF OwnCamera
        <3>2. registry[c] # NoPipeline => registry[d] # registry[c]
            BY <1>0, <3>1 DEF OwnCamera
        <3>3. registry[d] \notin {registry[c]} \ {NoPipeline}
            BY <3>2
        <3>4. stop[registry[d]] \in BOOLEAN
            BY <1>0, <2>4 DEF IInv, TypeOK
        <3> QED
            BY <2>1, <2>4, <3>3, <3>4
    <2>5. \A d \in {c} : \/ registry'[d] = NoPipeline
                         \/ registry'[d] \in Starts /\ stop'[registry'[d]]
        BY <2>3
    <2>6. {c} \in SUBSET Cameras
        OBVIOUS
    <2> QED
        BY <1>3, <2>1, <2>2, <2>4, <2>5, <2>6, Gives
<1>4. CASE Shutdown
    <2>1. /\ UNCHANGED <<registry, task, posted>>
          /\ stop' = [s \in Starts |-> stop[s] \/ s \in Registered]
        BY <1>4 DEF Shutdown, EndAll, work
    <2>2. ASSUME NEW c \in Cameras
          PROVE  \/ registry'[c] = NoPipeline
                 \/ registry'[c] \in Starts /\ stop'[registry'[c]]
        <3>1. registry'[c] = registry[c] /\ registry[c] \in Starts \cup {NoPipeline}
            BY <1>0, <2>1 DEF IInv, TypeOK
        <3>2. registry[c] # NoPipeline => registry[c] \in Registered
            BY DEF Registered
        <3>3. registry[c] # NoPipeline => stop'[registry[c]]
            BY <2>1, <3>1, <3>2
        <3> QED
            BY <3>1, <3>3
    <2>3. Cameras \in SUBSET Cameras /\ Cameras \ Cameras = {}
        OBVIOUS
    <2> QED
        BY <2>1, <2>2, <2>3, Gives
<1>5. CASE ShutdownStep
    <2>1. /\ UNCHANGED <<registry, stop, posted>>
          /\ task' = [s \in Starts |-> IF Live(s) THEN "done" ELSE task[s]]
        BY <1>5 DEF ShutdownStep, ShutdownDone, control
    <2>2. feederOf' = feederOf /\ spentOf' = spentOf
        BY <2>1 DEF feederOf, spentOf, Live
    <2> QED
        BY <2>1, <2>2, FeedNames
<1>6. ASSUME UNCHANGED <<registry, stop, posted, task>>
      PROVE  [Feed!Next]_(Feed!feeds)
    <2>1. feederOf' = feederOf /\ spentOf' = spentOf
        BY <1>6 DEF feederOf, spentOf
    <2> QED
        BY <1>6, <2>1, FeedNames
<1>7. ASSUME NEW c \in Cameras, AskStop(c) PROVE [Feed!Next]_(Feed!feeds)
    BY <1>6, <1>7 DEF AskStop, control, work
<1>8. CASE UNCHANGED vars
    BY <1>6, <1>8 DEF vars, requests, control, work
<1> QED
    BY <1>1, <1>2, <1>3, <1>4, <1>5, <1>7, <1>8 DEF Next, Done

\* Whatever starts, stops and shutdowns do to tasks that wait in a POST, what
\* the API gets is EventFeed: the events of a camera come from the pipeline
\* that is registered for it, every track of a frame once and in its order.
THEOREM FeedTheorem == Spec => ImplementsFeed
<1>1. Init => Feed!Init
    BY NullAssumption DEF Init, Feed!Init
<1> QED
    BY <1>1, FeedInvariant, FeedStep, PTL DEF Spec, ImplementsFeed, Feed!Spec

=============================================================================
