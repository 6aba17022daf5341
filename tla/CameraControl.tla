--------------------------- MODULE CameraControl ---------------------------
(***************************************************************************)
(* The backend's control of the recording-service and the ai-engine: the   *)
(* camera requests of CameraService, which write a row and then tell the   *)
(* services what changed, and the Celery task that refreshes the streams   *)
(* of Tuya cameras. The services remember what runs in memory only.        *)
(*                                                                         *)
(* Nothing compares the rows with what runs: a request compares the row it *)
(* loaded with the one it writes. PostgreSQL is at READ COMMITTED and an   *)
(* UPDATE carries the changed columns only.                                *)
(***************************************************************************)
EXTENDS Naturals, FiniteSets

CONSTANTS
    Cameras,        \* camera ids: a UUID is never used twice
    Tuya,           \* those with protocol "tuya", which no request changes
    Settings,       \* the combinations of flags operators choose
    Requests,       \* POST, PATCH and DELETE requests
    MaxFaults       \* bound of the calls, transactions and processes lost

CONSTANTS NoOne, NoCamera, Beat

ASSUME TuyaAssumption == Tuya \subseteq Cameras
ASSUME NullAssumption ==
    /\ NoOne \notin Requests \cup {Beat}
    /\ Beat \notin Requests
    /\ NoCamera \notin Cameras
ASSUME FaultAssumption == MaxFaults \in Nat

\* "recording" stands for the service and for the flag record_continuous,
\* "ai" for the ai-engine and for detection_enabled.
Services == {"recording", "ai"}
Flags == {"enabled"} \cup Services

ASSUME SettingsAssumption == Settings \subseteq SUBSET Flags

VARIABLES
    state,          \* is a camera's row there: "unborn", "live", "gone"
    row,            \* the committed flags of a camera
    lock,           \* the transaction that holds its row lock
    running,        \* the services that have a recorder or pipeline for it
    pc, on,         \* of a request: where it is, its camera
    old, new,       \* ... the flags it loaded, those it writes
    start, stop,    \* ... the services it is to start and stop
    pass, batch,    \* the Tuya task: where it is, the cameras it has left
    cur,            \* ... the one it pushes
    faults,         \* how much has gone wrong so far
    troubled        \* cameras with a fault or with overlapping requests

rows == <<state, row>>
local == <<pc, on, old, new, start, stop>>
task == <<pass, batch, cur>>
vars == <<rows, lock, running, local, task, faults, troubled>>

----------------------------------------------------------------------------
Wants(flags) == {s \in Services : "enabled" \in flags /\ s \in flags}

\* What should run for a camera.
Target(c) == IF state[c] = "live" THEN Wants(row[c]) ELSE {}

Busy(r) == pc[r] \notin {"idle", "done"}
Working(c) == (\E r \in Requests : Busy(r) /\ on[r] = c) \/ c \in batch

\* Any cameras may be there, with what they want running and nobody at work.
Init ==
    /\ state \in [Cameras -> {"unborn", "live"}]
    /\ row \in [Cameras -> Settings \cup {{}}]
    /\ \A c \in Cameras :
          row[c] \in (IF state[c] = "unborn" THEN {{}} ELSE Settings)
    /\ lock = [c \in Cameras |-> NoOne]
    /\ running = [c \in Cameras |-> Target(c)]
    /\ pc = [r \in Requests |-> "idle"]
    /\ on = [r \in Requests |-> NoCamera]
    /\ old = [r \in Requests |-> {}]
    /\ new = [r \in Requests |-> {}]
    /\ start = [r \in Requests |-> {}]
    /\ stop = [r \in Requests |-> {}]
    /\ pass = "idle" /\ batch = {} /\ cur = NoCamera
    /\ faults = 0
    /\ troubled = {}

Fault(S) ==
    /\ faults < MaxFaults
    /\ faults' = faults + 1
    /\ troubled' = troubled \cup S

NoFault == UNCHANGED <<faults, troubled>>

Goto(r, l) == pc' = [pc EXCEPT ![r] = l]

\* A request takes up a camera; whoever else has it in hand overlaps.
Take(r, c, l) ==
    /\ pc[r] = "idle"
    /\ Goto(r, l)
    /\ on' = [on EXCEPT ![r] = c]
    /\ troubled' = troubled \cup (IF Working(c) THEN {c} ELSE {})
    /\ UNCHANGED <<rows, running, task, faults>>

----------------------------------------------------------------------------
(* The requests *)

\* create: the INSERT is flushed, nobody sees the row before the commit.
create(r, c) ==
    /\ state[c] = "unborn" /\ ~Working(c)
    /\ \E flags \in Settings : new' = [new EXCEPT ![r] = flags]
    /\ old' = [old EXCEPT ![r] = {}]
    /\ Take(r, c, "resolving")
    /\ UNCHANGED <<lock, start, stop>>

\* update: the row is loaded and its payload applied in memory. A payload
\* that changes no column at all would have no effect and is left out.
update(r, c) ==
    /\ state[c] = "live"
    /\ old' = [old EXCEPT ![r] = row[c]]
    /\ \E flags \in Settings : new' = [new EXCEPT ![r] = flags]
    /\ Take(r, c, "flushing")
    /\ UNCHANGED <<lock, start, stop>>

\* delete: both services are told to stop before the row is deleted.
delete(r, c) ==
    /\ state[c] = "live"
    /\ stop' = [stop EXCEPT ![r] = Services]
    /\ Take(r, c, "deleting: recording")
    /\ UNCHANGED <<lock, old, new, start>>

Release(r) ==
    lock' = [c \in Cameras |-> IF lock[c] = r THEN NoOne ELSE lock[c]]

\* The locals of a request go with its session.
Finish(r) ==
    /\ Goto(r, "done")
    /\ on' = [on EXCEPT ![r] = NoCamera]
    /\ old' = [old EXCEPT ![r] = {}]
    /\ new' = [new EXCEPT ![r] = {}]
    /\ start' = [start EXCEPT ![r] = {}]
    /\ stop' = [stop EXCEPT ![r] = {}]

\* The UPDATE waits for the row lock. A row that is gone by then fails the
\* flush (StaleDataError) and the request with it.
Flush(r) ==
    /\ pc[r] = "flushing"
    /\ lock[on[r]] = NoOne
    /\ \/ /\ state[on[r]] = "live"
          /\ lock' = [lock EXCEPT ![on[r]] = r]
          /\ Goto(r, "resolving")
          /\ UNCHANGED <<on, old, new, start, stop>>
       \/ state[on[r]] # "live" /\ Finish(r) /\ UNCHANGED lock
    /\ UNCHANGED <<rows, running, task, faults, troubled>>

\* The source of a Tuya camera cannot be had: the cloud is not configured,
\* refuses a token or a stream, or does not answer.
Unsourced(c) == c \in Tuya /\ Fault({c})

\* Mutant: enabled is forgotten in what the request compares.
ResolveIgnoresEnabled(r) ==
    /\ pc[r] = "resolving"
    /\ start' = [start EXCEPT ![r] = (new[r] \ old[r]) \cap Services]
    /\ stop' = [stop EXCEPT ![r] = (old[r] \ new[r]) \cap Services]
    /\ Goto(r, "recording")
    /\ UNCHANGED <<rows, lock, running, on, old, new, task, faults, troubled>>

\* _reconcile compares the flags it wrote with those it loaded. Without a
\* source nothing is started.
Resolve(r) ==
    LET starts == Wants(new[r]) \ Wants(old[r])
    IN /\ pc[r] = "resolving"
       /\ \/ NoFault /\ start' = [start EXCEPT ![r] = starts]
          \/ starts # {} /\ Unsourced(on[r]) /\ UNCHANGED start
       /\ stop' = [stop EXCEPT ![r] = Wants(old[r]) \ Wants(new[r])]
       /\ Goto(r, "recording")
       /\ UNCHANGED <<rows, lock, running, on, old, new, task>>

\* RecordingClient and AiEngineClient. A service that runs the camera answers
\* a start with 409, one that does not a stop with 404: nothing changes. A
\* call that is lost or refused is logged, and the request goes on.
Call(r, s) ==
    /\ \/ /\ running' = [running EXCEPT ![on[r]] =
                           (@ \cup (start[r] \cap {s})) \ (stop[r] \cap {s})]
          /\ NoFault
       \/ /\ s \in start[r] \cup stop[r]
          /\ Fault({on[r]})
          /\ UNCHANGED running
    /\ UNCHANGED <<rows, lock, on, old, new, start, stop, task>>

CallRecording(r) ==
    /\ \/ pc[r] = "recording" /\ Goto(r, "ai")
       \/ pc[r] = "deleting: recording" /\ Goto(r, "deleting: ai")
    /\ Call(r, "recording")

CallAi(r) ==
    /\ \/ pc[r] = "ai" /\ Goto(r, "written")
       \/ pc[r] = "deleting: ai" /\ Goto(r, "deleting: row")
    /\ Call(r, "ai")

\* The DELETE waits for the row lock; one that finds no row is let pass.
DeleteRow(r) ==
    /\ pc[r] = "deleting: row"
    /\ lock[on[r]] = NoOne
    /\ lock' = IF state[on[r]] = "live" THEN [lock EXCEPT ![on[r]] = r] ELSE lock
    /\ Goto(r, "deleted")
    /\ UNCHANGED <<rows, running, on, old, new, start, stop, task, faults,
                   troubled>>

\* get_session commits: the row is there, has the changed columns, is gone.
Commit(r) ==
    LET c == on[r]
    IN /\ \/ /\ pc[r] = "written"
             /\ state' = [state EXCEPT ![c] = "live"]
             /\ row' = [row EXCEPT ![c] = (@ \ (old[r] \ new[r]))
                                          \cup (new[r] \ old[r])]
          \/ /\ pc[r] = "deleted"
             /\ state' = [state EXCEPT ![c] = "gone"]
             /\ row' = [row EXCEPT ![c] = {}]
       /\ Release(r)
       /\ Finish(r)
       /\ UNCHANGED <<running, task, faults, troubled>>

\* An exception, a failed commit or a worker that dies: the row stays as it
\* was, what the services were told does not. The id of a camera that was
\* not created is not used again.
Rollback(r) ==
    /\ Busy(r)
    /\ Fault({on[r]})
    /\ state' = [state EXCEPT ![on[r]] = IF @ = "unborn" THEN "gone" ELSE @]
    /\ Release(r)
    /\ Finish(r)
    /\ UNCHANGED <<row, running, task>>

----------------------------------------------------------------------------
(* refresh_tuya_streams, every four minutes *)

\* list_enabled. A pass that fails before or here changes nothing.
List ==
    /\ pass = "idle"
    /\ batch' = {c \in Tuya : /\ state[c] = "live"
                              /\ {"enabled", "recording"} \subseteq row[c]}
    /\ batch' # {}
    /\ pass' = "looping"
    /\ troubled' = troubled \cup {c \in batch' : Working(c)}
    /\ UNCHANGED <<rows, lock, running, local, cur, faults>>

\* Mutant: the session is closed, the loop goes on.
EndPassGoesOn ==
    /\ Release(Beat)
    /\ batch' = {} /\ UNCHANGED <<pass, cur>>

EndPass ==
    /\ Release(Beat)
    /\ pass' = "idle" /\ batch' = {} /\ cur' = NoCamera

\* The next camera. Without a source it is skipped; the UPDATE of its url
\* waits for the row lock and keeps it. A row that is gone by then leaves
\* the session unusable: the rest of the pass is lost.
Allocate(c) ==
    /\ pass = "looping"
    /\ c \in batch
    /\ \/ /\ Unsourced(c)
          /\ batch' = batch \ {c}
          /\ UNCHANGED <<lock, pass, cur>>
       \/ /\ lock[c] \in {NoOne, Beat}
          /\ NoFault
          /\ \/ /\ state[c] = "live"
                /\ lock' = [lock EXCEPT ![c] = Beat]
                /\ pass' = "pushing" /\ cur' = c
                /\ UNCHANGED batch
             \/ state[c] # "live" /\ EndPass
    /\ UNCHANGED <<rows, running, local>>

\* Mutant: the push goes through _reconcile, which sees no change.
PushChanged ==
    /\ pass = "pushing"
    /\ NoFault
    /\ pass' = "looping" /\ batch' = batch \ {cur} /\ cur' = NoCamera
    /\ UNCHANGED <<rows, lock, running, local>>

\* recording.start, with the row lock held. Whether the camera is still to
\* be recorded is not looked at again.
Push ==
    /\ pass = "pushing"
    /\ \/ NoFault /\ running' = [running EXCEPT ![cur] = @ \cup {"recording"}]
       \/ Fault({cur}) /\ UNCHANGED running
    /\ pass' = "looping" /\ batch' = batch \ {cur} /\ cur' = NoCamera
    /\ UNCHANGED <<rows, lock, local>>

CommitPass ==
    /\ pass = "looping" /\ batch = {}
    /\ EndPass
    /\ NoFault
    /\ UNCHANGED <<rows, running, local>>

\* The worker dies.
BreakPass ==
    /\ pass # "idle"
    /\ EndPass
    /\ Fault({})
    /\ UNCHANGED <<rows, running, local>>

----------------------------------------------------------------------------
\* A service is restarted: it comes up with nothing to do.
Restart(s) ==
    /\ Fault({c \in Cameras : s \in running[c] \/ Working(c)})
    /\ running' = [c \in Cameras |-> running[c] \ {s}]
    /\ UNCHANGED <<rows, lock, local, task>>

RequestStep(r) ==
    \/ Flush(r) \/ Resolve(r) \/ CallRecording(r) \/ CallAi(r)
    \/ DeleteRow(r) \/ Commit(r)

TaskStep == List \/ (\E c \in Tuya : Allocate(c)) \/ Push \/ CommitPass

\* Nothing is under way, and nobody need ask for anything.
Done == pass = "idle" /\ ~\E r \in Requests : Busy(r)

Next ==
    \/ \E r \in Requests : \/ \E c \in Cameras : \/ create(r, c)
                                                 \/ update(r, c)
                                                 \/ delete(r, c)
                           \/ RequestStep(r)
                           \/ Rollback(r)
    \/ TaskStep
    \/ BreakPass
    \/ \E s \in Services : Restart(s)
    \/ Done /\ UNCHANGED vars

Spec == Init /\ [][Next]_vars

\* A request that runs goes on: its calls have timeouts, a row lock is held
\* by a transaction that ends. Celery beat starts a pass again and again.
Fairness == /\ \A r \in Requests : WF_vars(RequestStep(r))
            /\ WF_vars(TaskStep)

FairSpec == Spec /\ Fairness

----------------------------------------------------------------------------
(* Properties *)

Labels == {"idle", "flushing", "resolving", "recording", "ai", "written",
           "deleting: recording", "deleting: ai", "deleting: row", "deleted",
           "done"}

\* The rows, the services and the locals have their types; a request that
\* runs has a camera, and so has the task while it pushes.
TypeOK ==
    /\ state \in [Cameras -> {"unborn", "live", "gone"}]
    /\ row \in [Cameras -> SUBSET Flags]
    /\ lock \in [Cameras -> Requests \cup {Beat, NoOne}]
    /\ running \in [Cameras -> SUBSET Services]
    /\ pc \in [Requests -> Labels]
    /\ on \in [Requests -> Cameras \cup {NoCamera}]
    /\ old \in [Requests -> SUBSET Flags]
    /\ new \in [Requests -> SUBSET Flags]
    /\ start \in [Requests -> SUBSET Services]
    /\ stop \in [Requests -> SUBSET Services]
    /\ pass \in {"idle", "looping", "pushing"}
    /\ batch \subseteq Tuya
    /\ cur \in Tuya \cup {NoCamera}
    /\ faults \in 0 .. MaxFaults
    /\ troubled \subseteq Cameras
    /\ \A r \in Requests : Busy(r) => on[r] \in Cameras
    /\ pass = "pushing" => cur \in batch

\* What CameraService and the task are for: recorders and pipelines run for
\* exactly the cameras whose rows ask for them. It holds whenever nobody has
\* the camera in hand, as long as its requests, and the passes that list it,
\* came one after the other and nothing was lost; each request only acts on
\* the difference between two versions of the row.
InSync ==
    \A c \in Cameras \ troubled : ~Working(c) => running[c] = Target(c)

\* control_plane.py: "the Tuya stream-refresh beat task ... will re-sync
\* state". Whatever overlapped or was lost, a Tuya camera that stays enabled
\* and recorded gets its recorder back and keeps it.
TuyaComesBack ==
    \A c \in Tuya :
        <>[]("recording" \in Target(c)) => <>[]("recording" \in running[c])
=============================================================================
