------------------------------ MODULE Delivery ------------------------------
(***************************************************************************)
(* What a detection lets out into the world while its transaction is open: *)
(* the message on the event bus (EventStream), and for a rule that fires   *)
(* the calls of the notification-service (NotificationService), one per    *)
(* external channel, before the commit (AlertIngest has the rules, their   *)
(* slots and locks).                                                       *)
(***************************************************************************)
EXTENDS EventStream, NotificationService

CONSTANTS
    Ingests,        \* POST /detection-events requests
    RuleChannels,   \* the lists of channels that rules have
    BulkItems,      \* the items of bulk requests of other clients
    Faults          \* may Redis, the service or the transaction fail?

\* An ingest asks for each of its channels once.
Call(i, ch) == <<i, ch>>
Detection == "events.detections"

ASSUME FaultsAssumption == Faults \in BOOLEAN

ASSUME ChannelsAssumption ==
    /\ Detection \in Channels
    /\ RuleChannels \subseteq Seq(AlertChannels)
    /\ \A i \in Ingests, chs \in RuleChannels : \A n \in DOMAIN chs :
          chs[n] # "realtime" => Call(i, chs[n]) \in Requests

ASSUME BulkAssumption ==
    \A items \in BulkItems :
        /\ DOMAIN items \subseteq Requests /\ IsFiniteSet(DOMAIN items)
        /\ \A r \in DOMAIN items : items[r] \in Items

VARIABLES
    pc,         \* of an ingest: "idle", "flushed", "dispatching", "calling",
                \*     "committing", "committed" or "aborted"
    todo,       \* ... the channels it still has to dispatch to
    results,    \* ... channels_dispatched, as it is in the session
    seen        \* ... the number of its message on the event bus, 0 for none

ingest == <<pc, todo, results, seen>>
vars == <<stream, notifier, ingest>>

Goto(i, l) == pc' = [pc EXCEPT ![i] = l]

----------------------------------------------------------------------------
Init ==
    /\ StreamInit
    /\ NotifierInit
    /\ pc = [i \in Ingests |-> "idle"]
    /\ todo = [i \in Ingests |-> <<>>]
    /\ results = [i \in Ingests |-> <<>>]
    /\ seen = [i \in Ingests |-> 0]

\* A bulk request shares nothing with ingests and sockets, and is looked at
\* without them.
NoBulk == \A b \in Batches : batch[b] = {}

\* The detection is inserted and flushed.
Insert(i) ==
    /\ pc[i] = "idle"
    /\ NoBulk
    /\ Goto(i, "flushed")
    /\ UNCHANGED <<stream, notifier, todo, results, seen>>

\* Mutant: the detection is published if Redis can be reached.
PublishBestEffort(i) ==
    /\ pc[i] = "flushed"
    /\ \/ publish(Detection) /\ seen' = [seen EXCEPT ![i] = published[Detection] + 1]
       \/ UNCHANGED <<stream, seen>>
    /\ \E chs \in RuleChannels : todo' = [todo EXCEPT ![i] = chs]
    /\ Goto(i, "dispatching")
    /\ UNCHANGED <<notifier, results>>

\* ingest_event publishes it; a rule fires, with its channels, or none does.
Publish(i) ==
    /\ pc[i] = "flushed"
    /\ publish(Detection)
    /\ seen' = [seen EXCEPT ![i] = published[Detection] + 1]
    /\ \E chs \in RuleChannels : todo' = [todo EXCEPT ![i] = chs]
    /\ Goto(i, "dispatching")
    /\ UNCHANGED <<notifier, results>>

\* _dispatch leaves out what the event bus does, and POSTs the next channel,
\* with a target that is empty.
PostChannel(i) ==
    /\ pc[i] = "dispatching"
    /\ todo[i] # <<>>
    /\ LET ch == Head(todo[i])
       IN IF ch = "realtime"
          THEN /\ todo' = [todo EXCEPT ![i] = Tail(@)]
               /\ UNCHANGED <<notifier, pc>>
          ELSE /\ dispatch(Call(i, ch), [channel |-> ch, target |-> FALSE])
               /\ Goto(i, "calling")
               /\ UNCHANGED todo
    /\ UNCHANGED <<stream, results, seen>>

\* A result is noted, and there is rest to do.
Note(i, ch, success, rest) ==
    /\ results' = [results EXCEPT ![i] =
                     Append(@, [channel |-> ch, success |-> success])]
    /\ todo' = [todo EXCEPT ![i] = rest]
    /\ Goto(i, "dispatching")
    /\ UNCHANGED <<stream, notifier, seen>>

\* The result of a channel is noted, and the next one has its turn.
Record(i, success) == Note(i, Head(todo[i]), success, Tail(todo[i]))

\* Mutant: only what is not a server error counts as a failure.
AnsweredBelow500(i) ==
    /\ pc[i] = "calling"
    /\ Finished(Call(i, Head(todo[i])))
    /\ Record(i, \/ job[Call(i, Head(todo[i]))] = "sent"
                 \/ Head(todo[i]) \notin _channels)

\* The answer: its status tells success.
Answered(i) ==
    /\ pc[i] = "calling"
    /\ Finished(Call(i, Head(todo[i])))
    /\ Record(i, job[Call(i, Head(todo[i]))] = "sent")

\* No answer for 4 s: the call goes on without the caller.
TimesOut(i) ==
    /\ pc[i] = "calling"
    /\ ~Finished(Call(i, Head(todo[i])))
    /\ Record(i, FALSE)

\* The service cannot be reached.
Unreachable(i) ==
    /\ Faults
    /\ pc[i] = "dispatching"
    /\ todo[i] # <<>>
    /\ Head(todo[i]) # "realtime"
    /\ Record(i, FALSE)

\* Whatever else goes wrong with a call ends the loop, with a result for all
\* channels that are left.
BreakDispatch(i) ==
    /\ Faults
    /\ pc[i] \in {"dispatching", "calling"}
    /\ todo[i] # <<>>
    /\ Head(todo[i]) # "realtime"
    /\ Note(i, "*", FALSE, <<>>)

\* channels_dispatched is flushed.
EndDispatch(i) ==
    /\ pc[i] = "dispatching"
    /\ todo[i] = <<>>
    /\ Goto(i, "committing")
    /\ UNCHANGED <<stream, notifier, todo, results, seen>>

\* get_session.
Commit(i) ==
    /\ pc[i] = "committing"
    /\ Goto(i, "committed")
    /\ UNCHANGED <<stream, notifier, todo, results, seen>>

\* Redis raises, a statement or the COMMIT fails: 500 and a rollback.
Rollback(i) ==
    /\ Faults
    /\ pc[i] \in {"flushed", "dispatching", "committing"}
    /\ Goto(i, "aborted")
    /\ UNCHANGED <<stream, notifier, todo, results, seen>>

\* Another worker of the backend publishes a detection; the bound leaves a
\* number for every ingest that has not published its own yet.
OtherPublish ==
    /\ published[Detection] + Cardinality({i \in Ingests : pc[i] \in {"idle", "flushed"}})
           < MaxEvents
    /\ publish(Detection)
    /\ UNCHANGED <<notifier, ingest>>

\* A client of the backend opens a WebSocket.
OtherConnect(k) ==
    /\ NoBulk
    /\ Connect(k)
    /\ UNCHANGED <<notifier, ingest>>

\* Another client of the notification-service sends a bulk request.
OtherBulk(b) ==
    /\ \A i \in Ingests : pc[i] = "idle"
    /\ \A k \in Sockets : conn[k] = "none"
    /\ \E items \in BulkItems : dispatch_bulk(b, items)
    /\ UNCHANGED <<stream, ingest>>

IngestStep(i) ==
    \/ Publish(i) \/ PostChannel(i) \/ Answered(i) \/ TimesOut(i)
    \/ EndDispatch(i) \/ Commit(i)

Next ==
    \/ \E i \in Ingests : \/ Insert(i) \/ IngestStep(i)
                          \/ Unreachable(i) \/ BreakDispatch(i)
                          \/ Rollback(i)
    \/ OtherPublish
    \/ \E k \in Sockets : OtherConnect(k)
    \/ \E b \in Batches : OtherBulk(b)
    \/ SocketStep /\ UNCHANGED <<notifier, ingest>>
    \/ NotifierStep /\ UNCHANGED <<stream, ingest>>

Spec == Init /\ [][Next]_vars

\* The handler goes on; its timer ends a call that takes too long.
FairSpec ==
    /\ Spec
    /\ StreamFairness
    /\ NotifierFairness
    /\ \A i \in Ingests : WF_vars(IngestStep(i))

----------------------------------------------------------------------------
(* Properties *)

Result == [channel : AlertChannels \cup {"*"}, success : BOOLEAN]

\* The parts and the ingests have their types.
TypeOK ==
    /\ StreamTypeOK
    /\ NotifierTypeOK
    /\ pc \in [Ingests -> {"idle", "flushed", "dispatching", "calling",
                           "committing", "committed", "aborted"}]
    /\ todo \in [Ingests -> Seq(AlertChannels)]
    /\ results \in [Ingests -> Seq(Result)]
    /\ seen \in [Ingests -> 0 .. MaxEvents]

\* alert_service.py: "Persist the per-channel result". What the history calls
\* a success was answered "sent", and was taken by the provider unless the
\* channel is disabled; whatever the service goes on to do with a call that
\* had timed out does not change that. The answer of a bulk request adds up.
ResultsAreTrue ==
    /\ BulkAddsUp
    /\ \A i \in Ingests : \A n \in DOMAIN results[i] :
          LET r == Call(i, results[i][n].channel)
          IN  results[i][n].success =>
                  /\ job[r] = "sent"
                  /\ item[r].channel \in Enabled => accepted[r] > 0

\* A detection that is in the database was told to every client that was
\* listening then, once: it is on its way to them or was sent to them.
CommittedIsTold ==
    \A i \in Ingests : pc[i] = "committed" =>
        /\ seen[i] > 0
        /\ \A k \in Sockets :
              LET p == <<k, Detection>>
                  told == got[p] \o queue[p]
              IN  Subscribed(p) /\ since[p] < seen[i] =>
                      Cardinality({n \in DOMAIN told : told[n] = seen[i]}) = 1

\* alert_service.py: "for now it falls back to its own configured target". A
\* channel that is enabled finds where to send an alert to.
FallsBack ==
    \A r \in Requests : item[r].channel \in Enabled => Addressed(item[r])
=============================================================================
