------------------------ MODULE NotificationService ------------------------
(***************************************************************************)
(* The notification-service: dispatch requests, one by one or in bulk, and *)
(* the email, Telegram and webhook channels, the last with retries.  The   *)
(* providers behind the channels are external: a call may be accepted and  *)
(* answered, accepted without an answer in time, or not accepted.          *)
(***************************************************************************)
EXTENDS Integers, FiniteSets

CONSTANTS
    Requests,       \* dispatch requests, those of a bulk request one by one
    Batches,        \* bulk requests
    Enabled,        \* the channels that the settings enable
    BotConfigured   \* do the settings have a bot token and a chat id?

\* AlertChannel of the backend, and the channels there are for it.
AlertChannels == {"email", "telegram", "webhook", "push", "realtime"}
_channels == {"email", "telegram", "webhook"}

ASSUME SettingsAssumption == Enabled \subseteq _channels /\ BotConfigured \in BOOLEAN

VARIABLES
    item,       \* of a request: its channel, and whether its target is given
    job,        \* ... "none", "queued", "calling", "waiting", "sent", "failed"
    attempts,   \* ... the times send() was called
    accepted,   \* ... the times the provider took the message
    lost,       \* ... the times it did and its answer did not come
    batch,      \* of a bulk request: its requests
    answer      \* ... what it was answered

notifier == <<item, job, attempts, accepted, lost, batch, answer>>

NoItem == [channel |-> "none", target |-> FALSE]
NoAnswer == [sent |-> -1, failed |-> -1]
Finished(r) == job[r] \in {"sent", "failed"}

----------------------------------------------------------------------------
NotifierInit ==
    /\ item = [r \in Requests |-> NoItem]
    /\ job = [r \in Requests |-> "none"]
    /\ attempts = [r \in Requests |-> 0]
    /\ accepted = [r \in Requests |-> 0]
    /\ lost = [r \in Requests |-> 0]
    /\ batch = [b \in Batches |-> {}]
    /\ answer = [b \in Batches |-> NoAnswer]

\* A request comes in.
dispatch(r, i) ==
    /\ job[r] = "none"
    /\ item' = [item EXCEPT ![r] = i]
    /\ job' = [job EXCEPT ![r] = "queued"]
    /\ UNCHANGED <<attempts, accepted, lost, batch, answer>>

\* A bulk request: gather starts a dispatch for each item.
dispatch_bulk(b, items) ==
    /\ batch[b] = {}
    /\ \A r \in DOMAIN items : job[r] = "none"
    /\ batch' = [batch EXCEPT ![b] = DOMAIN items]
    /\ item' = [r \in Requests |-> IF r \in DOMAIN items THEN items[r] ELSE item[r]]
    /\ job' = [r \in Requests |-> IF r \in DOMAIN items THEN "queued" ELSE job[r]]
    /\ UNCHANGED <<attempts, accepted, lost, answer>>

----------------------------------------------------------------------------
(* dispatch and send *)

\* Mutant: the first attempt is not counted.
max_attempts_more(channel) == IF channel = "webhook" THEN 4 ELSE 1

\* stop_after_attempt(3), on the webhook channel only.
max_attempts(channel) == IF channel = "webhook" THEN 3 ELSE 1

\* Does the channel know where to send to? Telegram falls back to its own
\* chat and always needs its own bot.
Addressed(i) == IF i.channel = "telegram" THEN BotConfigured ELSE i.target

\* What send() raises makes tenacity wait, or the request fail (502).
Raises(r, n) ==
    job' = [job EXCEPT ![r] =
              IF n < max_attempts(item[r].channel) THEN "waiting" ELSE "failed"]

\* send() is called, for the first time or again: an unknown channel is
\* refused (400), a disabled one does nothing and answers "sent".
Attempt(r) ==
    /\ job[r] \in {"queued", "waiting"}
    /\ LET i == item[r]
       IN  IF i.channel \notin _channels
           THEN /\ job' = [job EXCEPT ![r] = "failed"]
                /\ UNCHANGED attempts
           ELSE /\ attempts' = [attempts EXCEPT ![r] = @ + 1]
                /\ IF i.channel \notin Enabled
                   THEN job' = [job EXCEPT ![r] = "sent"]
                   ELSE IF Addressed(i)
                   THEN job' = [job EXCEPT ![r] = "calling"]
                   ELSE Raises(r, attempts[r] + 1)
    /\ UNCHANGED <<item, accepted, lost, batch, answer>>

\* Mutant: the result of send() is taken for a failure.
DeliveredAgain(r) ==
    /\ job[r] = "calling"
    /\ accepted' = [accepted EXCEPT ![r] = @ + 1]
    /\ Raises(r, attempts[r])
    /\ UNCHANGED <<item, attempts, lost, batch, answer>>

\* The provider answers.
Delivered(r) ==
    /\ job[r] = "calling"
    /\ job' = [job EXCEPT ![r] = "sent"]
    /\ accepted' = [accepted EXCEPT ![r] = @ + 1]
    /\ UNCHANGED <<item, attempts, lost, batch, answer>>

\* It takes the message, and its answer is lost or comes after 10 s.
AnswerLost(r) ==
    /\ job[r] = "calling"
    /\ accepted' = [accepted EXCEPT ![r] = @ + 1]
    /\ lost' = [lost EXCEPT ![r] = @ + 1]
    /\ Raises(r, attempts[r])
    /\ UNCHANGED <<item, attempts, batch, answer>>

\* It cannot be reached, or does not want the message.
Refused(r) ==
    /\ job[r] = "calling"
    /\ Raises(r, attempts[r])
    /\ UNCHANGED <<item, attempts, accepted, lost, batch, answer>>

\* gather returned: the results are counted.
AnswerBulk(b) ==
    /\ batch[b] # {}
    /\ answer[b] = NoAnswer
    /\ \A r \in batch[b] : Finished(r)
    /\ LET sent == {r \in batch[b] : job[r] = "sent"}
       IN answer' = [answer EXCEPT ![b] =
            [sent |-> Cardinality(sent), failed |-> Cardinality(batch[b] \ sent)]]
    /\ UNCHANGED <<item, job, attempts, accepted, lost, batch>>

----------------------------------------------------------------------------
JobStep(r) == Attempt(r) \/ Delivered(r) \/ AnswerLost(r) \/ Refused(r)

NotifierStep ==
    \/ \E r \in Requests : JobStep(r)
    \/ \E b \in Batches : AnswerBulk(b)

\* The tasks run, a wait ends, and a call is answered or times out.
NotifierFairness ==
    /\ \A r \in Requests : WF_notifier(JobStep(r))
    /\ \A b \in Batches : WF_notifier(AnswerBulk(b))

----------------------------------------------------------------------------
(* Properties *)

Items == [channel : AlertChannels, target : BOOLEAN]

\* Requests and bulk requests have their types.
NotifierTypeOK ==
    /\ item \in [Requests -> Items \cup {NoItem}]
    /\ job \in [Requests -> {"none", "queued", "calling", "waiting", "sent",
                             "failed"}]
    /\ attempts \in [Requests -> 0 .. 3]
    /\ accepted \in [Requests -> 0 .. 3]
    /\ lost \in [Requests -> 0 .. 3]
    /\ batch \in [Batches -> SUBSET Requests]
    /\ answer \in [Batches -> [sent : Int, failed : Int]]
    /\ \A r \in Requests : job[r] # "none" => item[r] \in Items

\* Retries never double a message whose delivery was confirmed, and no answer
\* lies: a provider takes a message as often as an answer got lost, and once
\* more exactly when the request is answered "sent" by a channel that is
\* enabled. So email and Telegram send it at most once.
SentOnce ==
    \A r \in Requests :
        /\ accepted[r] = lost[r] +
              IF job[r] = "sent" /\ item[r].channel \in Enabled THEN 1 ELSE 0
        /\ item[r].channel # "webhook" => accepted[r] <= 1

\* main.py: "partial failures are acceptable". The answer of a bulk request
\* accounts for every item, and none of them is still under way.
BulkAddsUp ==
    \A b \in Batches : answer[b] # NoAnswer =>
        /\ answer[b].sent + answer[b].failed = Cardinality(batch[b])
        /\ \A r \in batch[b] : Finished(r)
        /\ answer[b].sent = Cardinality({r \in batch[b] : job[r] = "sent"})
=============================================================================
