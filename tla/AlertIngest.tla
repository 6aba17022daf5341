---------------------------- MODULE AlertIngest ----------------------------
(***************************************************************************)
(* POST /detection-events of the backend: every request is one database    *)
(* transaction that inserts the detection, publishes it to Redis, and      *)
(* walks the alert rules that apply, claiming a cooldown slot, inserting   *)
(* an AlertEvent and calling the notification-service for each of them.    *)
(* The operators' rule CRUD runs beside it.                                *)
(*                                                                         *)
(* The database is PostgreSQL at READ COMMITTED (SQLAlchemy's default):    *)
(* a statement sees committed rows and its own writes, an UPDATE locks its *)
(* row until the transaction ends, and one that waited for a lock looks at *)
(* the row again before it writes.                                         *)
(***************************************************************************)
EXTENDS Integers, FiniteSets

CONSTANTS
    Ingests,        \* requests to the ingest endpoint, one transaction each
    Rules,          \* rule ids: a UUID is never used twice
    RuleConfigs,    \* the rule bodies operators write
    Detections,     \* the detections the AI engine posts
    MaxTime,        \* bound of the clock
    Faults          \* may a statement, the broker or a worker fail?

CONSTANTS NoOne, NoRule, NoTime, NoConfig, NoCamera, NoDetection

Realtime == "realtime"
Triggers == {"object_detected", "motion", "intrusion", "line_crossed",
             "camera_offline", "storage_failure"}

\* min_confidence and confidence are percentages; cooldown_seconds is in
\* ticks of the clock.
ASSUME ConfigAssumption ==
    \A c \in RuleConfigs :
        /\ c.enabled \in BOOLEAN
        /\ c.trigger \in Triggers
        /\ c.cooldown_seconds \in Nat
        /\ c.min_confidence \in 0 .. 100

ASSUME TimeAssumption == MaxTime \in Nat

ASSUME NullAssumption ==
    /\ NoOne \notin Ingests
    /\ NoRule \notin Rules
    /\ NoTime \notin Int
    /\ NoConfig \notin RuleConfigs
    /\ NoDetection \notin Detections

Time == 0 .. MaxTime

VARIABLES
    clock,          \* the host's clock
    status,         \* is a rule's row there: "unborn", "live", "deleted"
    config,         \* committed columns of a rule but last_fired_at
    last_fired_at,  \* committed last_fired_at of a rule, NoTime when NULL
    events,         \* committed AlertEvent rows
    lock,           \* the transaction that holds a rule's row lock
    notified,       \* notifications the notification-service was handed
    pc, det,        \* of an ingest: where it is, the detection it carries
    todo, seen,     \* ... the rules left to evaluate, their rows as read
    cur, now,       \* ... the rule being fired and the time read for it
    channels,       \* ... the channels left to dispatch for it
    slot, inserted  \* ... uncommitted last_fired_at and AlertEvent rows

db == <<status, config, last_fired_at, events, lock>>
txn == <<slot, inserted>>
vars == <<clock, db, notified, pc, det, todo, seen, cur, now, channels, txn>>

----------------------------------------------------------------------------
(* Rows *)

Event(r, i, t, c) ==
    [rule |-> r, detection |-> i, at |-> t, cooldown |-> c.cooldown_seconds]

\* list_for_camera: enabled rules of the camera, and the global ones.
list_for_camera(camera) ==
    {r \in Rules : /\ status[r] = "live"
                   /\ config[r].enabled
                   /\ config[r].camera_id \in {camera, NoCamera}}

_matches(c, d) ==
    /\ c.trigger = "object_detected"
    /\ d.confidence >= c.min_confidence
    /\ c.object_classes = {} \/ d.object_class \in c.object_classes

external(c) == c.channels \ {Realtime}

\* Mutant: `<=` in the WHERE clause.
SlotIsFreeAtOnce(r, c, t) ==
    /\ status[r] = "live"
    /\ last_fired_at[r] # NoTime => last_fired_at[r] <= t - c.cooldown_seconds

\* The WHERE clause of try_acquire_fire_slot, on the committed row. The
\* cooldown is the one the rule had when the request listed its rules.
SlotIsFree(r, c, t) ==
    /\ status[r] = "live"
    /\ last_fired_at[r] # NoTime => last_fired_at[r] < t - c.cooldown_seconds

NoSlots == [r \in Rules |-> NoTime]
NothingSeen == [r \in Rules |-> NoConfig]

----------------------------------------------------------------------------
Init ==
    /\ clock = 0
    /\ status = [r \in Rules |-> "unborn"]
    /\ config = [r \in Rules |-> NoConfig]
    /\ last_fired_at = [r \in Rules |-> NoTime]
    /\ events = {}
    /\ lock = [r \in Rules |-> NoOne]
    /\ notified = {}
    /\ pc = [i \in Ingests |-> "idle"]
    /\ det = [i \in Ingests |-> NoDetection]
    /\ todo = [i \in Ingests |-> {}]
    /\ seen = [i \in Ingests |-> NothingSeen]
    /\ cur = [i \in Ingests |-> NoRule]
    /\ now = [i \in Ingests |-> NoTime]
    /\ channels = [i \in Ingests |-> {}]
    /\ slot = [i \in Ingests |-> NoSlots]
    /\ inserted = [i \in Ingests |-> {}]

Goto(i, l) == pc' = [pc EXCEPT ![i] = l]

----------------------------------------------------------------------------
(* The ingest transaction *)

\* The request arrives and repo.add flushes the DetectionEvent row.
Begin(i) ==
    /\ pc[i] = "idle"
    /\ \E d \in Detections : det' = [det EXCEPT ![i] = d]
    /\ Goto(i, "added")
    /\ UNCHANGED <<clock, db, notified, todo, seen, cur, now, channels, txn>>

\* publish(DETECTION_CHANNEL, ...), to whoever listens on Redis: nothing of
\* it comes back to this request.
Publish(i) ==
    /\ pc[i] = "added"
    /\ Goto(i, "published")
    /\ UNCHANGED <<clock, db, notified, det, todo, seen, cur, now, channels,
                   txn>>

\* The SELECT of evaluate_detection. Rows that do not match are passed over
\* by the loop without effect, so they are left out here. There is no ORDER
\* BY: the loop takes the rows in any order.
ListRules(i) ==
    /\ pc[i] = "published"
    /\ todo' = [todo EXCEPT ![i] =
                  {r \in list_for_camera(det[i].camera_id) :
                      _matches(config[r], det[i])}]
    /\ seen' = [seen EXCEPT ![i] =
                  [r \in Rules |-> IF r \in todo'[i] THEN config[r]
                                                     ELSE NoConfig]]
    /\ Goto(i, "evaluating")
    /\ UNCHANGED <<clock, db, notified, det, cur, now, channels, txn>>

\* The loop takes the next matching rule and reads the clock.
NextRule(i) ==
    /\ pc[i] = "evaluating"
    /\ \E r \in todo[i] :
          /\ cur' = [cur EXCEPT ![i] = r]
          /\ todo' = [todo EXCEPT ![i] = @ \ {r}]
    /\ now' = [now EXCEPT ![i] = clock]
    /\ Goto(i, "claiming")
    /\ UNCHANGED <<clock, db, notified, det, seen, channels, txn>>

\* Mutant: .values(last_fired_at=cutoff).
ClaimAtCutoff(i) ==
    /\ slot' = [slot EXCEPT ![i][cur[i]] =
                  now[i] - seen[i][cur[i]].cooldown_seconds]
    /\ lock' = [lock EXCEPT ![cur[i]] = i]
    /\ Goto(i, "recording")
    /\ UNCHANGED <<cur, now>>

\* The UPDATE finds its row: the row is locked and written.
Claim(i) ==
    /\ slot' = [slot EXCEPT ![i][cur[i]] = now[i]]
    /\ lock' = [lock EXCEPT ![cur[i]] = i]
    /\ Goto(i, "recording")
    /\ UNCHANGED <<cur, now>>

\* rowcount 0: the rule is cooling down, or gone. On to the next one.
Refuse(i) ==
    /\ Goto(i, "evaluating")
    /\ cur' = [cur EXCEPT ![i] = NoRule]
    /\ now' = [now EXCEPT ![i] = NoTime]
    /\ UNCHANGED slot

\* try_acquire_fire_slot, the statement starts: a row its WHERE excludes is
\* not waited for, a row that another transaction has locked is.
TryAcquire(i) ==
    /\ pc[i] = "claiming"
    /\ LET free == SlotIsFree(cur[i], seen[i][cur[i]], now[i])
       IN \/ free /\ lock[cur[i]] = NoOne /\ Claim(i)
          \/ ~free /\ Refuse(i) /\ UNCHANGED lock
          \/ /\ free /\ lock[cur[i]] # NoOne
             /\ Goto(i, "waiting")
             /\ UNCHANGED <<cur, now, slot, lock>>
    /\ UNCHANGED <<clock, status, config, last_fired_at, events, notified, det,
                   todo, seen, channels, inserted>>

\* Mutant: a SELECT decides, and an unconditional UPDATE follows.
ResumeUnchecked(i) ==
    /\ pc[i] = "waiting"
    /\ lock[cur[i]] = NoOne
    /\ Claim(i)
    /\ UNCHANGED <<clock, status, config, last_fired_at, events, notified, det,
                   todo, seen, channels, inserted>>

\* The lock came free: the WHERE is evaluated on the row as it is now. The
\* row stays locked whatever the outcome, unless it is gone.
Resume(i) ==
    /\ pc[i] = "waiting"
    /\ lock[cur[i]] = NoOne
    /\ \/ SlotIsFree(cur[i], seen[i][cur[i]], now[i]) /\ Claim(i)
       \/ /\ ~SlotIsFree(cur[i], seen[i][cur[i]], now[i])
          /\ Refuse(i)
          /\ lock' = IF status[cur[i]] = "live"
                     THEN [lock EXCEPT ![cur[i]] = i] ELSE lock
    /\ UNCHANGED <<clock, status, config, last_fired_at, events, notified, det,
                   todo, seen, channels, inserted>>

\* Mutant: the event takes its time from the database, not from the claim.
RecordAtFlush(i) ==
    LET r == cur[i]
        c == seen[i][r]
    IN /\ pc[i] = "recording"
       /\ inserted' = [inserted EXCEPT ![i] = @ \cup {Event(r, i, clock, c)}]
       /\ channels' = [channels EXCEPT ![i] = external(c)]
       /\ Goto(i, "dispatching")
       /\ UNCHANGED <<clock, db, notified, det, todo, seen, cur, now, slot>>

\* _record flushes the AlertEvent row; with no external channel _dispatch
\* returns at once.
Record(i) ==
    LET r == cur[i]
        c == seen[i][r]
    IN /\ pc[i] = "recording"
       /\ inserted' = [inserted EXCEPT ![i] = @ \cup {Event(r, i, now[i], c)}]
       /\ channels' = [channels EXCEPT ![i] = external(c)]
       /\ Goto(i, "dispatching")
       /\ UNCHANGED <<clock, db, notified, det, todo, seen, cur, now, slot>>

\* One POST to the notification-service, with the rule's row locked. It may
\* be handed over or not: lost, refused (HTTP 400/502), or handed over with
\* the answer later than the 4 s timeout. The loop goes on in every case.
DispatchChannel(i) ==
    /\ pc[i] = "dispatching"
    /\ \E ch \in channels[i] :
          /\ channels' = [channels EXCEPT ![i] = @ \ {ch}]
          /\ notified' \in
               {notified,
                notified \cup {[rule |-> cur[i], detection |-> i,
                                at |-> now[i], channel |-> ch]}}
    /\ UNCHANGED <<clock, db, pc, det, todo, seen, cur, now, txn>>

\* What is not an httpx.HTTPError ends the dispatch of the event: it is
\* logged, recorded as channel "*", and the remaining channels are skipped.
BreakDispatch(i) ==
    /\ Faults
    /\ pc[i] = "dispatching"
    /\ channels[i] # {}
    /\ channels' = [channels EXCEPT ![i] = {}]
    /\ UNCHANGED <<clock, db, notified, pc, det, todo, seen, cur, now, txn>>

\* channels_dispatched is flushed and the loop goes on.
EndDispatch(i) ==
    /\ pc[i] = "dispatching"
    /\ channels[i] = {}
    /\ Goto(i, "evaluating")
    /\ cur' = [cur EXCEPT ![i] = NoRule]
    /\ now' = [now EXCEPT ![i] = NoTime]
    /\ UNCHANGED <<clock, db, notified, det, todo, seen, channels, txn>>

\* Mutant: the session is handed back with its transaction open.
EndTransactionLeaks(i) ==
    /\ UNCHANGED <<clock, status, config, lock, notified, det, todo, seen, cur,
                   now, channels, slot, inserted>>

\* The transaction is over: its locks go, and so does the session.
EndTransaction(i) ==
    /\ lock' = [r \in Rules |-> IF lock[r] = i THEN NoOne ELSE lock[r]]
    /\ todo' = [todo EXCEPT ![i] = {}]
    /\ seen' = [seen EXCEPT ![i] = NothingSeen]
    /\ cur' = [cur EXCEPT ![i] = NoRule]
    /\ now' = [now EXCEPT ![i] = NoTime]
    /\ channels' = [channels EXCEPT ![i] = {}]
    /\ slot' = [slot EXCEPT ![i] = NoSlots]
    /\ inserted' = [inserted EXCEPT ![i] = {}]
    /\ det' = [det EXCEPT ![i] = NoDetection]
    /\ UNCHANGED <<clock, status, config, notified>>

\* The handler returned; get_session commits.
Commit(i) ==
    /\ pc[i] = "evaluating"
    /\ todo[i] = {}
    /\ last_fired_at' = [r \in Rules |-> IF slot[i][r] = NoTime
                                         THEN last_fired_at[r]
                                         ELSE slot[i][r]]
    /\ events' = events \cup inserted[i]
    /\ Goto(i, "committed")
    /\ EndTransaction(i)

Abort(i) ==
    /\ Goto(i, "aborted")
    /\ EndTransaction(i)
    /\ UNCHANGED <<last_fired_at, events>>

Running(i) == pc[i] \notin {"idle", "committed", "aborted"}

\* An exception leaves the handler, or the worker dies: get_session, or the
\* server when the connection drops, rolls back.
Rollback(i) == Faults /\ Running(i) /\ Abort(i)

WaitsFor(i, j) == pc[i] = "waiting" /\ lock[cur[i]] = j

\* A cycle of waiting transactions: each waits for another of the set.
Deadlocked(S) == S # {} /\ \A i \in S : \E j \in S : WaitsFor(i, j)

\* PostgreSQL's deadlock detector fails the statement of one of the waiters,
\* and its request is rolled back.
DeadlockVictim(i) ==
    /\ \E S \in SUBSET Ingests : i \in S /\ Deadlocked(S)
    /\ Abort(i)

----------------------------------------------------------------------------
(* The operators' requests on /alert-rules, and the clock *)

local == <<pc, det, todo, seen, cur, now, channels>>

create_rule(r) ==
    /\ status[r] = "unborn"
    /\ status' = [status EXCEPT ![r] = "live"]
    /\ \E c \in RuleConfigs : config' = [config EXCEPT ![r] = c]
    /\ UNCHANGED <<clock, last_fired_at, events, lock, notified, local, txn>>

\* PATCH writes the changed columns, never last_fired_at; the trigger is not
\* in AlertRuleUpdate. Its UPDATE waits for the row lock.
update_rule(r) ==
    /\ status[r] = "live"
    /\ lock[r] = NoOne
    /\ \E c \in RuleConfigs : /\ c.trigger = config[r].trigger
                              /\ config' = [config EXCEPT ![r] = c]
    /\ UNCHANGED <<clock, status, last_fired_at, events, lock, notified, local, txn>>

\* Mutant: the rule goes while a request is firing it.
delete_at_once(r) ==
    /\ status[r] = "live"
    /\ status' = [status EXCEPT ![r] = "deleted"]
    /\ config' = [config EXCEPT ![r] = NoConfig]
    /\ last_fired_at' = [last_fired_at EXCEPT ![r] = NoTime]
    /\ events' = {e \in events : e.rule # r}
    /\ UNCHANGED <<clock, lock, notified, local, txn>>

\* DELETE waits for the row lock; the rule's AlertEvents go with it (CASCADE).
delete_rule(r) ==
    /\ status[r] = "live"
    /\ lock[r] = NoOne
    /\ status' = [status EXCEPT ![r] = "deleted"]
    /\ config' = [config EXCEPT ![r] = NoConfig]
    /\ last_fired_at' = [last_fired_at EXCEPT ![r] = NoTime]
    /\ events' = {e \in events : e.rule # r}
    /\ UNCHANGED <<clock, lock, notified, local, txn>>

Tick ==
    /\ clock < MaxTime
    /\ clock' = clock + 1
    /\ UNCHANGED <<db, notified, local, txn>>

----------------------------------------------------------------------------
IngestStep(i) ==
    \/ Publish(i) \/ ListRules(i) \/ NextRule(i) \/ TryAcquire(i)
    \/ Resume(i) \/ Record(i) \/ DispatchChannel(i)
    \/ BreakDispatch(i) \/ EndDispatch(i) \/ Commit(i)

RuleStep(r) == create_rule(r) \/ update_rule(r) \/ delete_rule(r)

\* Every request has been answered.
Done == ~\E i \in Ingests : Running(i) \/ pc[i] = "idle"

Next ==
    \/ \E i \in Ingests : \/ Begin(i)
                          \/ IngestStep(i)
                          \/ Rollback(i)
                          \/ DeadlockVictim(i)
    \/ \E r \in Rules : RuleStep(r)
    \/ Tick
    \/ Done /\ UNCHANGED vars

Spec == Init /\ [][Next]_vars

\* A running handler is scheduled, its calls return (the HTTP client has a
\* timeout of 4 s), and the deadlock detector runs.
Fairness == \A i \in Ingests : /\ WF_vars(IngestStep(i))
                               /\ WF_vars(DeadlockVictim(i))

FairSpec == Spec /\ Fairness

----------------------------------------------------------------------------
(* Properties *)

EventRow == [rule : Rules, detection : Ingests, at : Time, cooldown : Nat]
Labels == {"idle", "added", "published", "evaluating", "claiming", "waiting",
           "recording", "dispatching", "committed", "aborted"}

\* Every variable holds what its column, row or local of the handler can
\* hold; a handler has a rule in hand exactly while it is firing it.
TypeOK ==
    /\ clock \in Time
    /\ status \in [Rules -> {"unborn", "live", "deleted"}]
    /\ config \in [Rules -> RuleConfigs \cup {NoConfig}]
    /\ last_fired_at \in [Rules -> Time \cup {NoTime}]
    /\ events \subseteq EventRow
    /\ lock \in [Rules -> Ingests \cup {NoOne}]
    /\ pc \in [Ingests -> Labels]
    /\ det \in [Ingests -> Detections \cup {NoDetection}]
    /\ todo \in [Ingests -> SUBSET Rules]
    /\ seen \in [Ingests -> [Rules -> RuleConfigs \cup {NoConfig}]]
    /\ cur \in [Ingests -> Rules \cup {NoRule}]
    /\ now \in [Ingests -> Time \cup {NoTime}]
    /\ slot \in [Ingests -> [Rules -> Time \cup {NoTime}]]
    /\ inserted \in [Ingests -> SUBSET EventRow]

\* alert_service.py: "concurrent ingest workers can't double-fire the same
\* rule within `cooldown_seconds`". Of two AlertEvents of a rule the later
\* one is more than its cooldown later, however the workers interleave,
\* wait for each other's row locks, roll back, or meet a rule being edited.
CooldownSpacing ==
    \A e, f \in events :
        e.rule = f.rule /\ e # f => \/ e.at > f.at + e.cooldown
                                    \/ f.at > e.at + f.cooldown

\* A cooldown slot is never used up for nothing: the last_fired_at of a rule
\* is the time of an AlertEvent that is in the history. The UPDATE of the
\* rule and the INSERT of the event are two statements, with the
\* notification calls and the other rules after them.
SlotHasEvent ==
    \A r \in Rules :
        last_fired_at[r] # NoTime =>
            \E e \in events : e.rule = r /\ e.at = last_fired_at[r]

\* No AlertEvent, committed or about to be, refers to a rule that is gone:
\* the lock taken by the claim keeps a DELETE out until the commit, so the
\* INSERT never meets a foreign-key violation.
NoOrphanEvents ==
    \A r \in Rules :
        (\/ \E e \in events : e.rule = r
         \/ \E i \in Ingests : \E e \in inserted[i] : e.rule = r)
        => status[r] = "live"

\* While a rule exists its last_fired_at never goes back and is never
\* cleared, although the workers read the clock before they wait for the
\* row lock and so may write an older time than the one they waited for.
LastFiredAdvances ==
    [][\A r \in Rules :
          last_fired_at[r] # NoTime /\ status'[r] = "live" =>
              /\ last_fired_at'[r] # NoTime
              /\ last_fired_at'[r] >= last_fired_at[r]]_vars

\* What the cooldown is for: the notifications handed over for a rule by
\* different requests are spaced by a cooldown, when every rule body has the
\* same one.
NotificationSpacing ==
    \A m, n \in notified :
        m.rule = n.rule /\ m.detection # n.detection =>
            \A c \in RuleConfigs : \/ m.at > n.at + c.cooldown_seconds
                                   \/ n.at > m.at + c.cooldown_seconds

\* A notification that was handed over is in the history, under the time of
\* the claim it was sent for, once its request has committed and as long as
\* its rule exists: the claim, the AlertEvent, the POSTs and the commit are
\* steps with other requests, edits and failures in between.
NotifiedIsRecorded ==
    \A n \in notified :
        pc[n.detection] = "committed" /\ status[n.rule] = "live" =>
            \E e \in events : /\ e.rule = n.rule
                              /\ e.detection = n.detection
                              /\ e.at = n.at

\* Every request that was begun is answered: it gets through its loop, the
\* locks it waits for are released, and cycles of waiters are broken.
IngestFinishes ==
    \A i \in Ingests : Running(i) ~> ~Running(i)

----------------------------------------------------------------------------
(* The abstract gate *)

Entries == {[rule |-> e.rule, at |-> e.at, cooldown |-> e.cooldown] :
               e \in events}

Gate == INSTANCE CooldownGate WITH
            Nothing <- NoTime,
            live <- {r \in Rules : status[r] = "live"},
            last <- last_fired_at,
            history <- Entries

\* Seen from the history, the workers are the atomic gate: a commit fires
\* all the rules of its request at once, and no other step fires anything.
ImplementsGate == Gate!Spec
=============================================================================
