------------------------ MODULE CameraControlProofs ------------------------
(***************************************************************************)
(* CameraControl keeps rows and services in sync, for every set of cameras,*)
(* requests and settings and any number of faults.                         *)
(*                                                                         *)
(* The argument is per camera. While nothing troubles it at most one       *)
(* request has it in hand, the row that request loaded is still the row,   *)
(* and what runs is the old wish for the services it has yet to call and   *)
(* the new one for those it has called.                                    *)
(***************************************************************************)
EXTENDS CameraControl, TLAPS

\* How far request r has brought camera c.
Progress(r, c) ==
    /\ pc[r] \in {"flushing", "resolving", "recording", "ai", "written"} =>
          /\ old[r] = row[c]
          /\ Target(c) = Wants(old[r])
    /\ pc[r] = "flushing" => state[c] = "live"
    /\ pc[r] \in {"flushing", "resolving", "recording"} =>
          running[c] = Wants(old[r])
    /\ pc[r] \in {"recording", "ai"} =>
          /\ start[r] = Wants(new[r]) \ Wants(old[r])
          /\ stop[r] = Wants(old[r]) \ Wants(new[r])
    /\ pc[r] = "ai" =>
          /\ "recording" \in running[c] <=> "recording" \in Wants(new[r])
          /\ "ai" \in running[c] <=> "ai" \in Wants(old[r])
    /\ pc[r] = "written" => running[c] = Wants(new[r])
    /\ pc[r] \in {"deleting: recording", "deleting: ai"} =>
          start[r] = {} /\ stop[r] = Services
    /\ pc[r] = "deleting: ai" => "recording" \notin running[c]
    /\ pc[r] \in {"deleting: row", "deleted"} => running[c] = {}

Holds(r, c) == Busy(r) /\ on[r] = c

Good(c) ==
    c \notin troubled =>
        /\ \A r, q \in Requests : Holds(r, c) /\ Holds(q, c) => r = q
        /\ \A r \in Requests : Holds(r, c) => c \notin batch /\ Progress(r, c)
        /\ c \in batch => "recording" \in Target(c) /\ running[c] = Target(c)
        /\ ~Working(c) => running[c] = Target(c)

\* What the locals are while they are not used.
AtRest ==
    /\ pass = "idle" => batch = {}
    /\ \A r \in Requests : pc[r] = "idle" => start[r] = {} /\ stop[r] = {}
    /\ \A c \in Cameras : state[c] = "unborn" => row[c] = {}

IInv == TypeOK /\ AtRest /\ \A c \in Cameras : Good(c)

----------------------------------------------------------------------------
LEMMA InitInv == Init => IInv
<1> SUFFICES ASSUME Init PROVE IInv
    OBVIOUS
<1>1. row \in [Cameras -> SUBSET Flags]
    BY SettingsAssumption DEF Init
<1>2. \A c \in Cameras : Target(c) \subseteq Services
    BY DEF Target, Wants
<1>3. TypeOK
    BY <1>1, <1>2, FaultAssumption DEF Init, TypeOK, Labels, Busy
<1>4. AtRest
    BY DEF Init, AtRest
<1>5. \A c \in Cameras : Good(c)
    BY DEF Init, Good, Holds, Busy
<1> QED
    BY <1>3, <1>4, <1>5 DEF IInv

LEMMA ProgressStays ==
    ASSUME NEW c, NEW q, Progress(q, c),
           state'[c] = state[c], row'[c] = row[c], running'[c] = running[c],
           pc'[q] = pc[q], old'[q] = old[q], new'[q] = new[q],
           start'[q] = start[q], stop'[q] = stop[q]
    PROVE  Progress(q, c)'
<1>1. Target(c)' = Target(c)
    BY DEF Target, Wants
<1>2. Wants(old[q])' = Wants(old[q]) /\ Wants(new[q])' = Wants(new[q])
    BY DEF Wants
<1>3. /\ pc'[q] \in {"flushing", "resolving", "recording", "ai", "written"} =>
            old'[q] = row'[c] /\ Target(c)' = Wants(old[q])'
      /\ pc'[q] = "flushing" => state'[c] = "live"
      /\ pc'[q] \in {"flushing", "resolving", "recording"} =>
            running'[c] = Wants(old[q])'
    BY <1>1, <1>2 DEF Progress
<1> QED
    BY <1>2, <1>3 DEF Progress

\* A step that leaves camera c, and the requests that hold it, alone.
LEMMA Frame ==
    ASSUME NEW c \in Cameras, Good(c),
           state'[c] = state[c], row'[c] = row[c], running'[c] = running[c],
           c \in batch' <=> c \in batch,
           c \in troubled => c \in troubled',
           \A q \in Requests : Holds(q, c)' <=> Holds(q, c),
           \A q \in Requests : Holds(q, c) =>
              /\ pc'[q] = pc[q] /\ old'[q] = old[q] /\ new'[q] = new[q]
              /\ start'[q] = start[q] /\ stop'[q] = stop[q]
    PROVE  Good(c)'
<1> SUFFICES ASSUME c \notin troubled' PROVE Good(c)'
    BY DEF Good
<1>1. Target(c)' = Target(c)
    BY DEF Target
<1>2. Working(c)' <=> Working(c)
    BY DEF Working, Holds
<1>3. ASSUME NEW q \in Requests, Holds(q, c), Progress(q, c)
      PROVE  Progress(q, c)'
    BY <1>1, <1>3, ProgressStays
<1> QED
    BY <1>1, <1>2, <1>3 DEF Good

\* The task is done with some of its cameras.
LEMMA Shrink ==
    ASSUME NEW c \in Cameras, Good(c), UNCHANGED <<rows, local>>,
           running'[c] = running[c], c \in batch' => c \in batch,
           c \in troubled => c \in troubled'
    PROVE  Good(c)'
<1> SUFFICES ASSUME c \notin troubled' PROVE Good(c)'
    BY DEF Good
<1> USE DEF rows, local
<1>1. Target(c)' = Target(c)
    BY DEF Target
<1>2. \A q \in Requests : Holds(q, c)' <=> Holds(q, c)
    BY DEF Holds, Busy
<1>3. ASSUME NEW q \in Requests, Progress(q, c) PROVE Progress(q, c)'
    BY <1>1, <1>3, ProgressStays
<1>4. ~Working(c)' => ~Working(c) \/ c \in batch
    BY <1>2 DEF Working, Holds
<1> QED
    BY <1>1, <1>2, <1>3, <1>4 DEF Good

\* Only the request that acts moves.
LEMMA OthersStay ==
    ASSUME IInv, NEW r \in Requests, on[r] \in Cameras, NEW c \in Cameras,
           c # on[r], Holds(r, c)' => Holds(r, c),
           UNCHANGED batch, troubled \subseteq troubled',
           state'[c] = state[c], row'[c] = row[c], running'[c] = running[c],
           \A q \in Requests \ {r} :
              /\ pc'[q] = pc[q] /\ on'[q] = on[q]
              /\ old'[q] = old[q] /\ new'[q] = new[q]
              /\ start'[q] = start[q] /\ stop'[q] = stop[q]
    PROVE  Good(c)'
<1>1. \A q \in Requests : Holds(q, c)' <=> Holds(q, c)
    BY DEF Holds, Busy
<1>2. ~Holds(r, c)
    BY DEF Holds
<1> QED
    BY <1>1, <1>2, Frame DEF IInv

----------------------------------------------------------------------------
(* Types *)

LEMMA FaultTypes ==
    ASSUME faults \in 0 .. MaxFaults, troubled \subseteq Cameras,
           NEW S \in SUBSET Cameras, Fault(S) \/ NoFault
    PROVE  faults' \in 0 .. MaxFaults /\ troubled' \subseteq Cameras
BY FaultAssumption DEF Fault, NoFault

LEMMA GotoTypes ==
    ASSUME pc \in [Requests -> Labels], NEW r \in Requests, NEW l \in Labels,
           Goto(r, l)
    PROVE  pc' \in [Requests -> Labels]
BY DEF Goto

LEMMA ReleaseTypes ==
    ASSUME lock \in [Cameras -> Requests \cup {Beat, NoOne}], NEW t, Release(t)
    PROVE  lock' \in [Cameras -> Requests \cup {Beat, NoOne}]
BY DEF Release

LEMMA FinishTypes ==
    ASSUME TypeOK, NEW r \in Requests, Finish(r)
    PROVE  /\ pc' \in [Requests -> Labels]
           /\ on' \in [Requests -> Cameras \cup {NoCamera}]
           /\ old' \in [Requests -> SUBSET Flags]
           /\ new' \in [Requests -> SUBSET Flags]
           /\ start' \in [Requests -> SUBSET Services]
           /\ stop' \in [Requests -> SUBSET Services]
           /\ \A q \in Requests : Busy(q)' => on'[q] \in Cameras
<1>1. pc' = [pc EXCEPT ![r] = "done"] /\ "done" \in Labels
    BY DEF Finish, Goto, Labels
<1>2. /\ on' \in [Requests -> Cameras \cup {NoCamera}]
      /\ old' \in [Requests -> SUBSET Flags]
      /\ new' \in [Requests -> SUBSET Flags]
      /\ start' \in [Requests -> SUBSET Services]
      /\ stop' \in [Requests -> SUBSET Services]
    BY DEF Finish, TypeOK
<1>3. ASSUME NEW q \in Requests, Busy(q)' PROVE on'[q] \in Cameras
    BY <1>1, <1>3 DEF Finish, TypeOK, Busy
<1> QED
    BY <1>1, <1>2, <1>3 DEF TypeOK

\* A step of request r from one place to another.
LEMMA MoveTypes ==
    ASSUME TypeOK, NEW r \in Requests, Busy(r), NEW l \in Labels, Goto(r, l),
           on' = on
    PROVE  /\ pc' \in [Requests -> Labels]
           /\ \A q \in Requests : Busy(q)' => on'[q] \in Cameras
<1>1. pc' \in [Requests -> Labels]
    BY GotoTypes DEF TypeOK
<1> QED
    BY <1>1 DEF Goto, TypeOK, Busy

LEMMA TypeNext == TypeOK /\ [Next]_vars => TypeOK'
<1> SUFFICES ASSUME TypeOK, [Next]_vars PROVE TypeOK'
    OBVIOUS
<1> USE DEF rows, local, task
<1>0. \A r \in Requests : Busy(r) => on[r] \in Cameras
    BY DEF TypeOK
<1>1. ASSUME NEW r \in Requests, NEW c \in Cameras,
             create(r, c) \/ update(r, c) \/ delete(r, c)
      PROVE  TypeOK'
    <2>1. \E l \in {"resolving", "flushing", "deleting: recording"} :
              Take(r, c, l)
        BY <1>1 DEF create, update, delete
    <2>2. PICK l \in Labels : Take(r, c, l)
        BY <2>1 DEF Labels
    <2>3. /\ on' \in [Requests -> Cameras \cup {NoCamera}]
          /\ \A q \in Requests : Busy(q)' => on'[q] \in Cameras
          /\ troubled' \subseteq Cameras
          /\ UNCHANGED <<rows, running, task, faults>>
        BY <2>2 DEF Take, Goto, TypeOK, Busy
    <2>4. pc' \in [Requests -> Labels]
        BY <2>2, GotoTypes DEF Take, TypeOK
    <2>5. /\ old' \in [Requests -> SUBSET Flags]
          /\ new' \in [Requests -> SUBSET Flags]
          /\ start' \in [Requests -> SUBSET Services]
          /\ stop' \in [Requests -> SUBSET Services]
          /\ lock' = lock
        <3>1. CASE create(r, c) \/ update(r, c)
            <4>1. PICK flags \in Settings : new' = [new EXCEPT ![r] = flags]
                BY <3>1 DEF create, update
            <4>2. flags \in SUBSET Flags
                BY SettingsAssumption
            <4>3. /\ new' \in [Requests -> SUBSET Flags]
                  /\ old' \in [Requests -> SUBSET Flags]
                BY <3>1, <4>1, <4>2 DEF create, update, TypeOK
            <4> QED
                BY <3>1, <4>3 DEF create, update, TypeOK
        <3>2. CASE delete(r, c)
            BY <3>2 DEF delete, TypeOK
        <3> QED
            BY <1>1, <3>1, <3>2
    <2> QED
        BY <2>3, <2>4, <2>5 DEF TypeOK
<1>2. ASSUME NEW r \in Requests, RequestStep(r) PROVE TypeOK'
    <2>1. CASE Flush(r)
        <3>0. Busy(r) /\ on[r] \in Cameras
            BY <1>0, <2>1 DEF Flush, Busy
        <3>1. lock' \in [Cameras -> Requests \cup {Beat, NoOne}]
            BY <2>1 DEF Flush, TypeOK
        <3>2. /\ pc' \in [Requests -> Labels]
              /\ \A q \in Requests : Busy(q)' => on'[q] \in Cameras
              /\ on' \in [Requests -> Cameras \cup {NoCamera}]
              /\ old' \in [Requests -> SUBSET Flags]
              /\ new' \in [Requests -> SUBSET Flags]
              /\ start' \in [Requests -> SUBSET Services]
              /\ stop' \in [Requests -> SUBSET Services]
            <4>1. CASE Finish(r)
                BY <4>1, FinishTypes
            <4>2. CASE /\ Goto(r, "resolving")
                       /\ UNCHANGED <<on, old, new, start, stop>>
                <5>1. "resolving" \in Labels
                    BY DEF Labels
                <5> QED
                    BY <3>0, <4>2, <5>1, MoveTypes DEF TypeOK
            <4> QED
                BY <2>1, <4>1, <4>2 DEF Flush
        <3> QED
            BY <2>1, <3>1, <3>2 DEF Flush, TypeOK
    <2>2. CASE Resolve(r)
        <3>0. Busy(r) /\ on[r] \in Cameras /\ "recording" \in Labels
            BY <1>0, <2>2 DEF Resolve, Unsourced, Busy, Labels
        <3>1. Goto(r, "recording") /\ on' = on
            BY <2>2 DEF Resolve, Unsourced
        <3>2. faults' \in 0 .. MaxFaults /\ troubled' \subseteq Cameras
            BY <2>2, <3>0, FaultTypes DEF Resolve, Unsourced, TypeOK
        <3>3. /\ start' \in [Requests -> SUBSET Services]
              /\ stop' \in [Requests -> SUBSET Services]
            BY <2>2 DEF Resolve, Unsourced, Wants, TypeOK
        <3>4. /\ pc' \in [Requests -> Labels]
              /\ \A q \in Requests : Busy(q)' => on'[q] \in Cameras
            BY <3>0, <3>1, MoveTypes
        <3> QED
            BY <2>2, <3>1, <3>2, <3>3, <3>4 DEF Resolve, Unsourced, TypeOK
    <2>3. ASSUME NEW s \in Services, NEW l \in Labels,
                 Busy(r), Goto(r, l), Call(r, s)
          PROVE  TypeOK'
        <3>1. on[r] \in Cameras /\ on' = on
            BY <1>0, <2>3 DEF Call
        <3>2. faults' \in 0 .. MaxFaults /\ troubled' \subseteq Cameras
            BY <2>3, <3>1, FaultTypes DEF Call, TypeOK
        <3>3. running' \in [Cameras -> SUBSET Services]
            BY <2>3, <3>1 DEF Call, TypeOK
        <3>4. /\ pc' \in [Requests -> Labels]
              /\ \A q \in Requests : Busy(q)' => on'[q] \in Cameras
            BY <2>3, <3>1, MoveTypes
        <3> QED
            BY <2>3, <3>1, <3>2, <3>3, <3>4 DEF Call, TypeOK
    <2>4. CASE CallRecording(r)
        <3>1. "recording" \in Services /\ Busy(r) /\ Call(r, "recording")
            BY <2>4 DEF CallRecording, Services, Busy
        <3>2. \E l \in Labels : Goto(r, l)
            BY <2>4 DEF CallRecording, Labels
        <3> QED
            BY <2>3, <3>1, <3>2
    <2>5. CASE CallAi(r)
        <3>1. "ai" \in Services /\ Busy(r) /\ Call(r, "ai")
            BY <2>5 DEF CallAi, Services, Busy
        <3>2. \E l \in Labels : Goto(r, l)
            BY <2>5 DEF CallAi, Labels
        <3> QED
            BY <2>3, <3>1, <3>2
    <2>6. CASE DeleteRow(r)
        <3>0. Busy(r) /\ "deleted" \in Labels
            BY <2>6 DEF DeleteRow, Busy, Labels
        <3>1. Goto(r, "deleted") /\ on' = on
            BY <2>6 DEF DeleteRow
        <3>2. lock' \in [Cameras -> Requests \cup {Beat, NoOne}]
            BY <2>6 DEF DeleteRow, TypeOK
        <3>3. /\ pc' \in [Requests -> Labels]
              /\ \A q \in Requests : Busy(q)' => on'[q] \in Cameras
            BY <3>0, <3>1, MoveTypes
        <3> QED
            BY <2>6, <3>1, <3>2, <3>3 DEF DeleteRow, TypeOK
    <2>7. CASE Commit(r)
        <3>1. /\ state' \in [Cameras -> {"unborn", "live", "gone"}]
              /\ row' \in [Cameras -> SUBSET Flags]
            BY <2>7 DEF Commit, TypeOK
        <3>2. Finish(r) /\ Release(r)
            BY <2>7 DEF Commit
        <3>3. lock' \in [Cameras -> Requests \cup {Beat, NoOne}]
            BY <3>2, ReleaseTypes DEF TypeOK
        <3> QED
            BY <2>7, <3>1, <3>2, <3>3, FinishTypes DEF Commit, TypeOK
    <2> QED
        BY <1>2, <2>1, <2>2, <2>4, <2>5, <2>6, <2>7 DEF RequestStep
<1>3. ASSUME NEW r \in Requests, Rollback(r) PROVE TypeOK'
    <2>1. Finish(r) /\ Release(r) /\ Fault({on[r]}) /\ {on[r]} \in SUBSET Cameras
        BY <1>0, <1>3 DEF Rollback
    <2>2. state' \in [Cameras -> {"unborn", "live", "gone"}]
        BY <1>3 DEF Rollback, TypeOK
    <2>3. faults' \in 0 .. MaxFaults /\ troubled' \subseteq Cameras
        BY <2>1, FaultTypes DEF TypeOK
    <2>4. lock' \in [Cameras -> Requests \cup {Beat, NoOne}]
        BY <2>1, ReleaseTypes DEF TypeOK
    <2> QED
        BY <1>3, <2>1, <2>2, <2>3, <2>4, FinishTypes DEF Rollback, TypeOK
<1>4. CASE List
    BY <1>4, TuyaAssumption DEF List, TypeOK, Busy
<1>5. ASSUME NEW c \in Tuya, Allocate(c) PROVE TypeOK'
    <2>1. faults' \in 0 .. MaxFaults /\ troubled' \subseteq Cameras
        BY <1>5, TuyaAssumption, FaultTypes DEF Allocate, Unsourced, TypeOK
    <2>2. lock' \in [Cameras -> Requests \cup {Beat, NoOne}]
        BY <1>5, ReleaseTypes DEF Allocate, Unsourced, EndPass, TypeOK
    <2>3. /\ pass' \in {"idle", "looping", "pushing"}
          /\ batch' \subseteq Tuya
          /\ cur' \in Tuya \cup {NoCamera}
          /\ pass' = "pushing" => cur' \in batch'
        BY <1>5 DEF Allocate, Unsourced, EndPass, TypeOK
    <2> QED
        BY <1>5, <2>1, <2>2, <2>3 DEF Allocate, Unsourced, TypeOK, Busy
<1>6. CASE Push
    <2>1. cur \in Cameras
        BY <1>6, TuyaAssumption DEF Push, TypeOK
    <2>2. faults' \in 0 .. MaxFaults /\ troubled' \subseteq Cameras
        BY <1>6, <2>1, FaultTypes DEF Push, TypeOK
    <2>3. running' \in [Cameras -> SUBSET Services]
        BY <1>6, <2>1 DEF Push, TypeOK, Services
    <2> QED
        BY <1>6, <2>2, <2>3 DEF Push, TypeOK, Busy
<1>7. CASE CommitPass \/ BreakPass
    <2>1. Release(Beat) /\ (Fault({}) \/ NoFault)
        BY <1>7 DEF CommitPass, BreakPass, EndPass
    <2>2. faults' \in 0 .. MaxFaults /\ troubled' \subseteq Cameras
        BY <2>1, FaultTypes DEF TypeOK
    <2>3. lock' \in [Cameras -> Requests \cup {Beat, NoOne}]
        BY <2>1, ReleaseTypes DEF TypeOK
    <2> QED
        BY <1>7, <2>2, <2>3 DEF CommitPass, BreakPass, EndPass, TypeOK, Busy
<1>8. ASSUME NEW s \in Services, Restart(s) PROVE TypeOK'
    <2>1. faults' \in 0 .. MaxFaults /\ troubled' \subseteq Cameras
        BY <1>8, FaultTypes DEF Restart, TypeOK
    <2>2. running' \in [Cameras -> SUBSET Services]
        BY <1>8 DEF Restart, TypeOK
    <2> QED
        BY <1>8, <2>1, <2>2 DEF Restart, TypeOK, Busy
<1>9. CASE UNCHANGED vars
    BY <1>9 DEF vars, TypeOK, Busy
<1> QED
    BY <1>1, <1>2, <1>3, <1>4, <1>5, <1>6, <1>7, <1>8, <1>9 DEF Next, TaskStep

\* Types, for every instance.
THEOREM ControlTypes == Spec => []TypeOK
<1>1. Init => TypeOK
    BY InitInv DEF IInv
<1> QED
    BY <1>1, TypeNext, PTL DEF Spec

LEMMA RestNext == TypeOK /\ AtRest /\ [Next]_vars => AtRest'
<1> SUFFICES ASSUME TypeOK, AtRest, [Next]_vars PROVE AtRest'
    OBVIOUS
<1> USE DEF TypeOK, AtRest, rows, local, task
<1>1. ASSUME NEW r \in Requests, NEW c \in Cameras,
             create(r, c) \/ update(r, c) \/ delete(r, c)
      PROVE  AtRest'
    BY <1>1 DEF create, update, delete, Take, Goto
<1>2. ASSUME NEW r \in Requests,
             \/ Flush(r) \/ Resolve(r) \/ CallRecording(r) \/ CallAi(r)
             \/ DeleteRow(r)
      PROVE  AtRest'
    BY <1>2 DEF Flush, Resolve, Unsourced, CallRecording, CallAi, DeleteRow, Call, Finish,
                Goto
<1>3. ASSUME NEW r \in Requests, Commit(r) \/ Rollback(r) PROVE AtRest'
    BY <1>3 DEF Commit, Rollback, Finish, Goto
<1>4. CASE TaskStep \/ BreakPass
    BY <1>4 DEF TaskStep, BreakPass, List, Allocate, Unsourced, Push, CommitPass, EndPass
<1>5. ASSUME NEW s \in Services, Restart(s) PROVE AtRest'
    BY <1>5 DEF Restart
<1>6. CASE UNCHANGED vars
    BY <1>6 DEF vars
<1> QED
    BY <1>1, <1>2, <1>3, <1>4, <1>5, <1>6 DEF Next, RequestStep

----------------------------------------------------------------------------
(* One lemma per kind of step *)

\* A request takes up a camera that nobody has in hand, or troubles it.
LEMMA TakeStep ==
    ASSUME IInv, NEW r \in Requests, NEW c0 \in Cameras,
           create(r, c0) \/ update(r, c0) \/ delete(r, c0)
    PROVE  \A c \in Cameras : Good(c)'
<1> USE DEF rows, local, task
<1>0. PICK l \in {"resolving", "flushing", "deleting: recording"} :
          Take(r, c0, l)
    BY DEF create, update, delete
<1>1. /\ pc[r] = "idle" /\ pc' = [pc EXCEPT ![r] = l]
      /\ on' = [on EXCEPT ![r] = c0]
      /\ troubled \subseteq troubled' /\ troubled' \subseteq troubled \cup {c0}
      /\ Working(c0) => c0 \in troubled'
      /\ UNCHANGED <<rows, running, task>>
    BY <1>0 DEF Take, Goto
<1>2. /\ pc'[r] = l /\ on'[r] = c0
      /\ \A q \in Requests \ {r} :
            /\ pc'[q] = pc[q] /\ on'[q] = on[q]
            /\ old'[q] = old[q] /\ new'[q] = new[q]
            /\ start'[q] = start[q] /\ stop'[q] = stop[q]
    BY <1>1 DEF create, update, delete, IInv, TypeOK
<1>3. \A c \in Cameras, q \in Requests :
          (c # c0 \/ q # r) => (Holds(q, c)' <=> Holds(q, c))
    BY <1>1, <1>2 DEF Holds, Busy
<1>4. ASSUME NEW c \in Cameras, c # c0 PROVE Good(c)'
    <2>1. ~Holds(r, c)
        BY <1>1 DEF Holds, Busy
    <2> QED
        BY <1>1, <1>2, <1>3, <1>4, <2>1, Frame DEF IInv
<1>5. Good(c0)'
    <2> SUFFICES ASSUME c0 \notin troubled' PROVE Good(c0)'
        BY DEF Good
    <2>1. c0 \notin troubled /\ ~Working(c0)
        BY <1>1
    <2>2. /\ running[c0] = Target(c0) /\ c0 \notin batch
          /\ \A q \in Requests : ~Holds(q, c0)
        BY <2>1 DEF IInv, Good, Working, Holds
    <2>3. Holds(r, c0)' /\ \A q \in Requests : Holds(q, c0)' => q = r
        BY <1>2, <1>3, <2>2 DEF Holds, Busy
    <2>4. Progress(r, c0)'
        <3>1. /\ state'[c0] = state[c0] /\ row'[c0] = row[c0]
              /\ running'[c0] = running[c0] /\ Target(c0)' = Target(c0)
            BY <1>1 DEF Target, Wants
        <3>2. CASE create(r, c0)
            <4>1. pc'[r] = "resolving"
                BY <3>2, <1>2 DEF create, Take, Goto, IInv, TypeOK
            <4>2. old'[r] = {} /\ row[c0] = {} /\ Target(c0) = {}
                BY <3>2 DEF create, IInv, AtRest, Target, TypeOK
            <4>3. Wants(old[r])' = {}
                BY <4>2 DEF Wants
            <4> QED
                BY <2>2, <3>1, <4>1, <4>2, <4>3 DEF Progress
        <3>3. CASE update(r, c0)
            <4>1. pc'[r] = "flushing"
                BY <3>3, <1>2 DEF update, Take, Goto, IInv, TypeOK
            <4>2. old'[r] = row[c0] /\ state[c0] = "live"
                BY <3>3 DEF update, IInv, TypeOK
            <4>3. Wants(old[r])' = Target(c0)
                BY <4>2 DEF Wants, Target
            <4> QED
                BY <2>2, <3>1, <4>1, <4>2, <4>3 DEF Progress
        <3>4. CASE delete(r, c0)
            <4>1. pc'[r] = "deleting: recording"
                BY <3>4, <1>2 DEF delete, Take, Goto, IInv, TypeOK
            <4>2. stop'[r] = Services /\ start'[r] = {}
                BY <1>1, <3>4 DEF delete, IInv, TypeOK, AtRest
            <4> QED
                BY <4>1, <4>2 DEF Progress
        <3> QED
            BY <3>2, <3>3, <3>4
    <2>5. c0 \notin batch' /\ Working(c0)'
        BY <1>1, <2>2, <2>3 DEF Working, Holds
    <2> QED
        BY <2>3, <2>4, <2>5 DEF Good
<1> QED
    BY <1>4, <1>5

\* A request that goes on is alone with its camera, or that is troubled.
LEMMA MoveStep ==
    ASSUME IInv, NEW r \in Requests, Busy(r), on'[r] = on[r], Busy(r)',
           UNCHANGED batch, troubled \subseteq troubled',
           \A c \in Cameras \ {on[r]} :
              state'[c] = state[c] /\ row'[c] = row[c] /\ running'[c] = running[c],
           \A q \in Requests \ {r} :
              /\ pc'[q] = pc[q] /\ on'[q] = on[q]
              /\ old'[q] = old[q] /\ new'[q] = new[q]
              /\ start'[q] = start[q] /\ stop'[q] = stop[q],
           on[r] \notin troubled' /\ Progress(r, on[r]) => Progress(r, on[r])'
    PROVE  \A c \in Cameras : Good(c)'
<1> DEFINE c0 == on[r]
<1>0. c0 \in Cameras
    BY DEF IInv, TypeOK
<1>1. ASSUME NEW c \in Cameras, c # c0 PROVE Good(c)'
    <2>1. ~Holds(r, c)'
        BY <1>1 DEF Holds
    <2> QED
        BY <1>0, <1>1, <2>1, OthersStay
<1>2. Good(c0)'
    <2> SUFFICES ASSUME c0 \notin troubled' PROVE Good(c0)'
        BY DEF Good
    <2>1. /\ c0 \notin batch /\ Progress(r, c0)
          /\ \A q \in Requests : Holds(q, c0) => q = r
        BY <1>0 DEF IInv, Good, Holds
    <2>2. Holds(r, c0)' /\ \A q \in Requests : Holds(q, c0)' => q = r
        BY <2>1 DEF Holds, Busy
    <2>3. Progress(r, c0)'
        BY <2>1
    <2>4. c0 \notin batch' /\ Working(c0)'
        BY <2>1, <2>2 DEF Working, Holds
    <2> QED
        BY <2>2, <2>3, <2>4 DEF Good
<1> QED
    BY <1>1, <1>2

\* A request that ends leaves its camera in sync, or troubled.
LEMMA EndStep ==
    ASSUME IInv, NEW r \in Requests, Busy(r), Finish(r),
           UNCHANGED batch, troubled \subseteq troubled',
           \A c \in Cameras \ {on[r]} :
              state'[c] = state[c] /\ row'[c] = row[c] /\ running'[c] = running[c],
           on[r] \notin troubled' /\ Progress(r, on[r]) =>
              \A c \in Cameras : c = on[r] => running'[c] = Target(c)'
    PROVE  \A c \in Cameras : Good(c)'
<1>0. PICK c0 \in Cameras : c0 = on[r]
    BY DEF IInv, TypeOK
<1>1. /\ ~Busy(r)'
      /\ \A q \in Requests \ {r} :
              /\ pc'[q] = pc[q] /\ on'[q] = on[q]
              /\ old'[q] = old[q] /\ new'[q] = new[q]
              /\ start'[q] = start[q] /\ stop'[q] = stop[q]
    BY DEF Finish, Goto, Busy, IInv, TypeOK
<1>2. ASSUME NEW c \in Cameras, c # c0 PROVE Good(c)'
    <2>1. ~Holds(r, c)'
        BY <1>1 DEF Holds
    <2> QED
        BY <1>0, <1>1, <1>2, <2>1, OthersStay
<1>3. Good(c0)'
    <2> SUFFICES ASSUME c0 \notin troubled' PROVE Good(c0)'
        BY DEF Good
    <2>1. /\ c0 \notin batch /\ Progress(r, c0)
          /\ \A q \in Requests : Holds(q, c0) => q = r
        BY <1>0 DEF IInv, Good, Holds
    <2>2. \A q \in Requests : ~Holds(q, c0)'
        BY <1>1, <2>1 DEF Holds, Busy
    <2>3. running'[c0] = Target(c0)' /\ c0 \notin batch'
        BY <1>0, <2>1
    <2> QED
        BY <2>2, <2>3 DEF Good
<1> QED
    BY <1>2, <1>3

\* What calling one service does.
LEMMA CallProgress ==
    ASSUME IInv, NEW r \in Requests, NEW s \in Services, NEW c \in Cameras,
           c = on[r], Call(r, s), c \notin troubled'
    PROVE  /\ UNCHANGED <<rows, on, old, new, start, stop>>
           /\ \A t \in Services : t # s =>
                 (t \in running'[c] <=> t \in running[c])
           /\ s \in running'[c] <=>
                 (s \in running[c] \/ s \in start[r]) /\ s \notin stop[r]
           /\ running'[c] \subseteq Services
BY DEF Call, Fault, IInv, TypeOK

LEMMA CallStep ==
    ASSUME IInv, NEW r \in Requests, CallRecording(r) \/ CallAi(r)
    PROVE  \A c \in Cameras : Good(c)'
<1>0. PICK c0 \in Cameras : c0 = on[r]
    BY DEF CallRecording, CallAi, IInv, TypeOK, Busy
<1>1. PICK s \in Services : Call(r, s)
    BY DEF CallRecording, CallAi, Services
<1>2. /\ Busy(r) /\ Busy(r)' /\ on' = on
      /\ UNCHANGED <<batch, rows, old, new, start, stop>>
      /\ troubled \subseteq troubled'
      /\ \A c \in Cameras \ {on[r]} : running'[c] = running[c]
      /\ \A q \in Requests \ {r} : pc'[q] = pc[q]
    BY <1>0, <1>1
       DEF CallRecording, CallAi, Call, Goto, Busy, Fault, NoFault, task, IInv,
           TypeOK
<1>3. ASSUME c0 \notin troubled', Progress(r, c0) PROVE Progress(r, c0)'
    <2>0. /\ Target(c0)' = Target(c0)
          /\ Wants(old[r])' = Wants(old[r]) /\ Wants(new[r])' = Wants(new[r])
          /\ row'[c0] = row[c0] /\ state'[c0] = state[c0]
          /\ old'[r] = old[r] /\ new'[r] = new[r]
          /\ start'[r] = start[r] /\ stop'[r] = stop[r]
        BY <1>2 DEF Target, Wants, rows
    <2>1. CASE pc[r] = "recording" /\ CallRecording(r)
        <3>1. pc'[r] = "ai" /\ Call(r, "recording") /\ "recording" \in Services
            BY <2>1 DEF CallRecording, Goto, Services, IInv, TypeOK
        <3>2. /\ "ai" \in running'[c0] <=> "ai" \in running[c0]
              /\ "recording" \in running'[c0] <=>
                    /\ "recording" \in running[c0] \/ "recording" \in start[r]
                    /\ "recording" \notin stop[r]
            BY <1>0, <1>3, <3>1, CallProgress DEF Services
        <3>3. /\ old[r] = row[c0] /\ Target(c0) = Wants(old[r])
              /\ running[c0] = Wants(old[r])
              /\ start[r] = Wants(new[r]) \ Wants(old[r])
              /\ stop[r] = Wants(old[r]) \ Wants(new[r])
            BY <1>3, <2>1 DEF Progress
        <3> QED
            BY <2>0, <3>1, <3>2, <3>3 DEF Progress
    <2>2. CASE pc[r] = "ai" /\ CallAi(r)
        <3>1. pc'[r] = "written" /\ Call(r, "ai") /\ "ai" \in Services
            BY <2>2 DEF CallAi, Goto, Services, IInv, TypeOK
        <3>2. /\ "recording" \in running'[c0] <=> "recording" \in running[c0]
              /\ "ai" \in running'[c0] <=>
                    /\ "ai" \in running[c0] \/ "ai" \in start[r]
                    /\ "ai" \notin stop[r]
              /\ running'[c0] \subseteq {"recording", "ai"}
            BY <1>0, <1>3, <3>1, CallProgress DEF Services
        <3>3. /\ old[r] = row[c0] /\ Target(c0) = Wants(old[r])
              /\ "recording" \in running[c0] <=> "recording" \in Wants(new[r])
              /\ "ai" \in running[c0] <=> "ai" \in Wants(old[r])
              /\ start[r] = Wants(new[r]) \ Wants(old[r])
              /\ stop[r] = Wants(old[r]) \ Wants(new[r])
            BY <1>3, <2>2 DEF Progress
        <3>4. Wants(new[r]) \subseteq {"recording", "ai"}
            BY DEF Wants, Services
        <3>5. running'[c0] = Wants(new[r])
            BY <3>2, <3>3, <3>4
        <3> QED
            BY <2>0, <3>1, <3>3, <3>5 DEF Progress
    <2>3. CASE pc[r] = "deleting: recording" /\ CallRecording(r)
        <3>1. /\ pc'[r] = "deleting: ai" /\ Call(r, "recording")
              /\ "recording" \in Services
            BY <2>3 DEF CallRecording, Goto, Services, IInv, TypeOK
        <3>2. start[r] = {} /\ stop[r] = Services
            BY <1>3, <2>3 DEF Progress
        <3>3. "recording" \notin running'[c0]
            BY <1>0, <1>3, <3>1, <3>2, CallProgress
        <3> QED
            BY <2>0, <3>1, <3>2, <3>3 DEF Progress
    <2>4. CASE pc[r] = "deleting: ai" /\ CallAi(r)
        <3>1. pc'[r] = "deleting: row" /\ Call(r, "ai") /\ "ai" \in Services
            BY <2>4 DEF CallAi, Goto, Services, IInv, TypeOK
        <3>2. stop[r] = Services /\ "recording" \notin running[c0]
            BY <1>3, <2>4 DEF Progress
        <3>3. /\ "recording" \notin running'[c0] /\ "ai" \notin running'[c0]
              /\ running'[c0] \subseteq {"recording", "ai"}
            BY <1>0, <1>3, <3>1, <3>2, CallProgress DEF Services
        <3> QED
            BY <2>0, <3>1, <3>3 DEF Progress
    <2> QED
        BY <2>1, <2>2, <2>3, <2>4 DEF CallRecording, CallAi
<1> QED
    BY <1>0, <1>2, <1>3, MoveStep DEF rows

LEMMA RequestStepGood ==
    ASSUME IInv, NEW r \in Requests, RequestStep(r) \/ Rollback(r)
    PROVE  \A c \in Cameras : Good(c)'
<1> USE DEF rows, task
<1>b. Busy(r)
    BY DEF RequestStep, Rollback, Flush, Resolve, Unsourced, CallRecording, CallAi,
           DeleteRow, Commit, Busy
<1>0. PICK c0 \in Cameras : c0 = on[r]
    BY <1>b DEF IInv, TypeOK
<1>1. CASE Flush(r)
    <2>1. CASE Finish(r) /\ state[c0] # "live"
        <3>1. pc[r] = "flushing" /\ UNCHANGED <<rows, running, task, troubled>>
            BY <1>1 DEF Flush
        <3>2. ~Progress(r, c0)
            BY <2>1, <3>1 DEF Progress
        <3> QED
            BY <1>0, <1>b, <2>1, <3>1, <3>2, EndStep
    <2>2. CASE Goto(r, "resolving") /\ UNCHANGED <<on, old, new, start, stop>>
        <3>1. /\ pc[r] = "flushing" /\ pc'[r] = "resolving"
              /\ \A q \in Requests \ {r} : pc'[q] = pc[q]
              /\ UNCHANGED <<rows, running, task, troubled>>
            BY <1>1, <2>2 DEF Flush, Goto, IInv, TypeOK
        <3>2. Busy(r)'
            BY <3>1 DEF Busy
        <3>3. Progress(r, c0) => Progress(r, c0)'
            <4>1. /\ Target(c0)' = Target(c0)
                  /\ Wants(old[r])' = Wants(old[r])
                BY <2>2, <3>1 DEF Target, Wants
            <4> QED
                BY <2>2, <3>1, <4>1 DEF Progress
        <3> QED
            BY <1>0, <1>b, <2>2, <3>1, <3>2, <3>3, MoveStep
    <2> QED
        BY <1>0, <1>1, <2>1, <2>2 DEF Flush
<1>2. CASE Resolve(r)
    <2>1. /\ pc[r] = "resolving" /\ pc'[r] = "recording"
          /\ \A q \in Requests \ {r} :
                /\ pc'[q] = pc[q] /\ start'[q] = start[q] /\ stop'[q] = stop[q]
          /\ UNCHANGED <<rows, running, on, old, new, task>>
          /\ troubled \subseteq troubled'
        BY <1>2 DEF Resolve, Unsourced, Goto, NoFault, Fault, IInv, TypeOK
    <2>2. Busy(r)'
        BY <2>1 DEF Busy
    <2>3. ASSUME c0 \notin troubled', Progress(r, c0) PROVE Progress(r, c0)'
        <3>1. /\ Target(c0)' = Target(c0)
              /\ Wants(old[r])' = Wants(old[r]) /\ Wants(new[r])' = Wants(new[r])
            BY <2>1 DEF Target, Wants
        <3>2. /\ start'[r] = Wants(new[r]) \ Wants(old[r])
              /\ stop'[r] = Wants(old[r]) \ Wants(new[r])
            BY <1>0, <1>2, <2>3 DEF Resolve, Unsourced, Fault, IInv, TypeOK
        <3> QED
            BY <2>1, <2>3, <3>1, <3>2 DEF Progress
    <2> QED
        BY <1>0, <1>b, <2>1, <2>2, <2>3, MoveStep
<1>3. CASE CallRecording(r) \/ CallAi(r)
    BY <1>3, CallStep
<1>4. CASE DeleteRow(r)
    <2>1. /\ pc[r] = "deleting: row" /\ pc'[r] = "deleted"
          /\ \A q \in Requests \ {r} : pc'[q] = pc[q]
          /\ UNCHANGED <<rows, running, on, old, new, start, stop, task, troubled>>
        BY <1>4 DEF DeleteRow, Goto, IInv, TypeOK
    <2>2. Busy(r)'
        BY <2>1 DEF Busy
    <2>3. Progress(r, c0) => Progress(r, c0)'
        BY <2>1 DEF Progress
    <2> QED
        BY <1>0, <1>b, <2>1, <2>2, <2>3, MoveStep
<1>5. CASE Commit(r)
    <2>1. /\ Finish(r) /\ pc[r] \in {"written", "deleted"}
          /\ UNCHANGED <<running, task, troubled>>
          /\ \A c \in Cameras \ {c0} : state'[c] = state[c] /\ row'[c] = row[c]
        BY <1>0, <1>5 DEF Commit, IInv, TypeOK
    <2>2. ASSUME Progress(r, c0) PROVE running'[c0] = Target(c0)'
        <3>1. CASE pc[r] = "written"
            <4>1. /\ state'[c0] = "live"
                  /\ row'[c0] = (row[c0] \ (old[r] \ new[r]))
                                  \cup (new[r] \ old[r])
                BY <1>0, <1>5, <3>1 DEF Commit, IInv, TypeOK
            <4>2. old[r] = row[c0] /\ running[c0] = Wants(new[r])
                BY <2>2, <3>1 DEF Progress
            <4>3. row'[c0] = new[r]
                BY <4>1, <4>2
            <4>4. Target(c0)' = Wants(new[r])
                BY <4>1, <4>3 DEF Target, Wants
            <4> QED
                BY <2>1, <4>2, <4>4
        <3>2. CASE pc[r] = "deleted"
            <4>1. state'[c0] = "gone"
                BY <1>0, <1>5, <3>2 DEF Commit, IInv, TypeOK
            <4>2. running[c0] = {}
                BY <2>2, <3>2 DEF Progress
            <4> QED
                BY <2>1, <4>1, <4>2 DEF Target
        <3> QED
            BY <2>1, <3>1, <3>2
    <2> QED
        BY <1>0, <1>b, <2>1, <2>2, EndStep
<1>6. CASE Rollback(r)
    <2>1. /\ Finish(r) /\ UNCHANGED <<row, running, task>>
          /\ troubled' = troubled \cup {c0}
          /\ \A c \in Cameras \ {c0} : state'[c] = state[c]
        BY <1>0, <1>6 DEF Rollback, Fault, IInv, TypeOK
    <2> QED
        BY <1>0, <1>b, <2>1, EndStep
<1> QED
    BY <1>1, <1>2, <1>3, <1>4, <1>5, <1>6 DEF RequestStep

\* The task, and a restart of a service.
LEMMA TaskStepGood ==
    ASSUME IInv, TaskStep \/ BreakPass
    PROVE  \A c \in Cameras : Good(c)'
<1> SUFFICES ASSUME NEW c \in Cameras PROVE Good(c)'
    OBVIOUS
<1> USE DEF task
<1>g. Good(c)
    BY DEF IInv
<1>1. CASE List
    <2>1. /\ UNCHANGED <<rows, running, local>>
          /\ batch = {} /\ troubled \subseteq troubled'
          /\ c \in batch' => /\ Working(c) => c \in troubled'
                             /\ "recording" \in Target(c)
        BY <1>1 DEF List, IInv, AtRest, Target, Wants, Services
    <2>2. CASE c \notin batch'
        BY <1>g, <2>1, <2>2, Shrink
    <2>3. CASE c \in batch'
        <3> SUFFICES ASSUME c \notin troubled' PROVE Good(c)'
            BY DEF Good
        <3>1. ~Working(c) /\ c \notin troubled
            BY <2>1, <2>3
        <3>2. \A q \in Requests : ~Holds(q, c)'
            BY <2>1, <3>1 DEF Working, Holds, Busy, local
        <3>3. "recording" \in Target(c)' /\ running'[c] = Target(c)'
            <4>1. Target(c)' = Target(c)
                BY <2>1 DEF Target, Wants, rows
            <4> QED
                BY <1>g, <2>1, <2>3, <3>1, <4>1 DEF Good
        <3> QED
            BY <3>2, <3>3 DEF Good
    <2> QED
        BY <2>2, <2>3
<1>2. CASE \/ \E c1 \in Tuya : Allocate(c1)
           \/ CommitPass
           \/ BreakPass
    <2>1. /\ UNCHANGED <<rows, running, local>>
          /\ batch' \subseteq batch /\ troubled \subseteq troubled'
        BY <1>2 DEF Allocate, Unsourced, CommitPass, BreakPass, EndPass, Fault, NoFault
    <2> QED
        BY <1>g, <2>1, Shrink
<1>3. CASE Push
    <2>1. /\ UNCHANGED <<rows, local>> /\ cur \in batch
          /\ batch' \subseteq batch /\ troubled \subseteq troubled'
        BY <1>3 DEF Push, Fault, NoFault, IInv, TypeOK
    <2>2. CASE c \in troubled'
        BY <2>2 DEF Good
    <2>3. CASE c \notin troubled' /\ c # cur
        <3>1. running'[c] = running[c]
            BY <1>3, <2>3 DEF Push, IInv, TypeOK
        <3> QED
            BY <1>g, <2>1, <3>1, Shrink
    <2>4. CASE c \notin troubled' /\ c = cur
        <3>1. "recording" \in running[c]
            BY <1>g, <2>1, <2>4 DEF Good
        <3>2. running'[c] = running[c]
            <4>1. running' = [running EXCEPT ![cur] = @ \cup {"recording"}]
                BY <1>3, <2>4 DEF Push, Fault
            <4>2. running'[c] = running[c] \cup {"recording"}
                BY <2>4, <4>1 DEF IInv, TypeOK
            <4> QED
                BY <3>1, <4>2
        <3> QED
            BY <1>g, <2>1, <3>2, Shrink
    <2> QED
        BY <2>2, <2>3, <2>4
<1> QED
    BY <1>1, <1>2, <1>3 DEF TaskStep

LEMMA RestartStep ==
    ASSUME IInv, NEW s \in Services, Restart(s)
    PROVE  \A c \in Cameras : Good(c)'
<1> SUFFICES ASSUME NEW c \in Cameras, c \notin troubled' PROVE Good(c)'
    BY DEF Good
<1>1. /\ UNCHANGED <<rows, local, batch>> /\ troubled \subseteq troubled'
      /\ running'[c] = running[c] \ {s} /\ s \notin running[c]
    BY DEF Restart, Fault, task
<1>2. running'[c] = running[c] /\ Good(c)
    BY <1>1 DEF IInv
<1> QED
    BY <1>1, <1>2, Shrink

----------------------------------------------------------------------------
LEMMA NextInv == IInv /\ [Next]_vars => IInv'
<1> SUFFICES ASSUME IInv, [Next]_vars PROVE IInv'
    OBVIOUS
<1>1. TypeOK' /\ AtRest'
    BY TypeNext, RestNext DEF IInv
<1>2. CASE UNCHANGED vars
    <2>1. /\ UNCHANGED <<rows, local>> /\ running' = running /\ batch' = batch
          /\ troubled' = troubled
        BY <1>2 DEF vars, task
    <2>2. \A c \in Cameras : Good(c)'
        BY <2>1, Shrink DEF IInv
    <2> QED
        BY <1>1, <2>2 DEF IInv
<1>3. CASE Next /\ ~UNCHANGED vars
    <2>1. \A c \in Cameras : Good(c)'
        BY <1>3, TakeStep, RequestStepGood, TaskStepGood, RestartStep DEF Next
    <2> QED
        BY <1>1, <2>1 DEF IInv
<1> QED
    BY <1>2, <1>3

\* For every untroubled camera that nobody has in hand the services run what
\* its row asks for, whatever happens to the other cameras.
THEOREM SyncTheorem == Spec => []InSync
<1>1. IInv => InSync
    BY DEF IInv, Good, InSync
<1> QED
    BY <1>1, InitInv, NextInv, PTL DEF Spec

=============================================================================
