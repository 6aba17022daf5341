----------------------------- MODULE EventStream -----------------------------
(***************************************************************************)
(* The Redis channels of the backend and the WebSockets that relay them: a *)
(* socket has one pump task per channel, each with a subscription of its   *)
(* own, and lives until its client leaves.                                 *)
(*                                                                         *)
(* Redis keeps nothing for later: a message goes to the subscriptions that *)
(* are there.  The n-th message of a channel is the number n.              *)
(***************************************************************************)
EXTENDS Integers, Sequences

CONSTANTS
    Sockets,
    Endpoints,      \* the channels of /ws/events/stream and of .../live
    MaxEvents       \* bound of the messages of a channel

Channels == UNION Endpoints

ASSUME EventsAssumption == MaxEvents \in Nat

VARIABLES
    published,  \* of a channel: the number of its messages
    conn,       \* of a socket: "none", "open", "leaving" or "closed"
    pump,       \* of a socket and a channel: its task, "none", "created",
                \*     "subscribing", "listening", "sending", "abandoned", "ended"
    since,      \* ... the messages that were published before it subscribed
    queue,      \* ... the messages of its subscription, not relayed yet
    got         \* ... the messages the client was sent

stream == <<published, conn, pump, since, queue, got>>

Pumps == Sockets \X Channels
Tokens == {"access", "refresh", "expired", "none"}

\* A subscription that somebody reads; that of an abandoned pump is left in
\* Redis until its connection is closed.
Subscribed(p) == pump[p] \in {"listening", "sending"}
Gone(p) == pump[p] \in {"none", "ended"}

----------------------------------------------------------------------------
StreamInit ==
    /\ published = [ch \in Channels |-> 0]
    /\ conn = [k \in Sockets |-> "none"]
    /\ pump = [p \in Pumps |-> "none"]
    /\ since = [p \in Pumps |-> 0]
    /\ queue = [p \in Pumps |-> <<>>]
    /\ got = [p \in Pumps |-> <<>>]

Move(p, state) == pump' = [pump EXCEPT ![p] = state]

\* An access token that has not expired; it is looked at once.
_authorize_ws(token) == token = "access"

\* The pumps are created; a socket without a good token is closed at once.
Connect(k) ==
    /\ conn[k] = "none"
    /\ \E token \in Tokens, chs \in Endpoints :
          IF _authorize_ws(token)
          THEN /\ conn' = [conn EXCEPT ![k] = "open"]
               /\ pump' = [p \in Pumps |-> IF p[1] = k /\ p[2] \in chs
                                           THEN "created" ELSE pump[p]]
          ELSE /\ conn' = [conn EXCEPT ![k] = "closed"]
               /\ UNCHANGED pump
    /\ UNCHANGED <<published, since, queue, got>>

\* Every subscription of the channel gets the message.
publish(ch) ==
    /\ published[ch] < MaxEvents
    /\ published' = [published EXCEPT ![ch] = @ + 1]
    /\ queue' = [p \in Pumps |-> IF p[2] = ch /\ Subscribed(p)
                                 THEN Append(queue[p], published'[ch])
                                 ELSE queue[p]]
    /\ UNCHANGED <<conn, pump, since, got>>

----------------------------------------------------------------------------
(* subscribe and pump *)

\* The task starts and sends SUBSCRIBE.
StartPump(p) ==
    /\ pump[p] = "created"
    /\ conn[p[1]] = "open"
    /\ Move(p, "subscribing")
    /\ UNCHANGED <<published, conn, since, queue, got>>

\* Redis has the subscription.
Subscribe(p) ==
    /\ pump[p] = "subscribing"
    /\ conn[p[1]] = "open"
    /\ Move(p, "listening")
    /\ since' = [since EXCEPT ![p] = published[p[2]]]
    /\ UNCHANGED <<published, conn, queue, got>>

\* listen() yields the next message.
Listen(p) ==
    /\ pump[p] = "listening"
    /\ conn[p[1]] = "open"
    /\ queue[p] # <<>>
    /\ Move(p, "sending")
    /\ UNCHANGED <<published, conn, since, queue, got>>

\* Mutant: a message that came meanwhile takes the place of this one.
SendLatest(p) ==
    /\ pump[p] = "sending"
    /\ conn[p[1]] = "open"
    /\ got' = [got EXCEPT ![p] = Append(@, queue[p][Len(queue[p])])]
    /\ queue' = [queue EXCEPT ![p] = <<>>]
    /\ Move(p, "listening")
    /\ UNCHANGED <<published, conn, since>>

\* send_json.
Send(p) ==
    /\ pump[p] = "sending"
    /\ conn[p[1]] = "open"
    /\ got' = [got EXCEPT ![p] = Append(@, Head(queue[p]))]
    /\ queue' = [queue EXCEPT ![p] = Tail(@)]
    /\ Move(p, "listening")
    /\ UNCHANGED <<published, conn, since>>

\* The connection to Redis breaks, while it subscribes or listens: the task
\* ends and nobody looks at it before the socket is closed.
PumpFails(p) ==
    /\ pump[p] \in {"subscribing", "listening"}
    /\ conn[p[1]] = "open"
    /\ Move(p, "ended")
    /\ queue' = [queue EXCEPT ![p] = <<>>]
    /\ UNCHANGED <<published, conn, since, got>>

\* send_json raises. The generator is left where it is.
SendFails(p) ==
    /\ pump[p] = "sending"
    /\ conn[p[1]] = "open"
    /\ Move(p, "abandoned")
    /\ UNCHANGED <<published, conn, since, queue, got>>

----------------------------------------------------------------------------
(* The end of a socket *)

\* receive_text returns or raises: the client has gone, or sent something.
Leave(k) ==
    /\ conn[k] = "open"
    /\ conn' = [conn EXCEPT ![k] = "leaving"]
    /\ UNCHANGED <<published, pump, since, queue, got>>

\* Mutant: a pump that listens does not let the cancellation through.
CancelListening(p) ==
    /\ conn[p[1]] = "leaving"
    /\ pump[p] \in {"created", "subscribing", "sending"}
    /\ Move(p, IF pump[p] = "created" THEN "ended" ELSE "abandoned")
    /\ queue' = [queue EXCEPT ![p] = <<>>]
    /\ UNCHANGED <<published, conn, since, got>>

\* CancelledError in the pump. While it listens the generator's `finally`
\* unsubscribes; while it subscribes there is no `try` yet, and while it
\* sends the generator is left where it is.
Cancel(p) ==
    /\ conn[p[1]] = "leaving"
    /\ pump[p] \in {"created", "subscribing", "listening", "sending"}
    /\ Move(p, IF pump[p] \in {"created", "listening"} THEN "ended" ELSE "abandoned")
    /\ queue' = [queue EXCEPT ![p] = <<>>]
    /\ UNCHANGED <<published, conn, since, got>>

\* gather returned.
Close(k) ==
    /\ conn[k] = "leaving"
    /\ \A ch \in Channels : pump[<<k, ch>>] \in {"none", "abandoned", "ended"}
    /\ conn' = [conn EXCEPT ![k] = "closed"]
    /\ UNCHANGED <<published, pump, since, queue, got>>

\* What was left of the generator is collected when the handler has returned,
\* which held the task with its traceback; its connection is closed.
Collect(p) ==
    /\ pump[p] = "abandoned"
    /\ conn[p[1]] = "closed"
    /\ Move(p, "ended")
    /\ queue' = [queue EXCEPT ![p] = <<>>]
    /\ UNCHANGED <<published, conn, since, got>>

----------------------------------------------------------------------------
PumpStep(p) == StartPump(p) \/ Subscribe(p) \/ Listen(p) \/ Send(p) \/ Cancel(p)

SocketStep ==
    \/ \E k \in Sockets : Leave(k) \/ Close(k)
    \/ \E p \in Pumps : PumpStep(p) \/ PumpFails(p) \/ SendFails(p) \/ Collect(p)

StreamFairness ==
    /\ \A p \in Pumps : WF_stream(PumpStep(p)) /\ WF_stream(Collect(p))
    /\ \A k \in Sockets : WF_stream(Close(k))

----------------------------------------------------------------------------
(* Properties *)

\* Sockets, pumps and messages have their types.
StreamTypeOK ==
    /\ published \in [Channels -> 0 .. MaxEvents]
    /\ conn \in [Sockets -> {"none", "open", "leaving", "closed"}]
    /\ pump \in [Pumps -> {"none", "created", "subscribing", "listening",
                           "sending", "abandoned", "ended"}]
    /\ since \in [Pumps -> 0 .. MaxEvents]
    /\ queue \in [Pumps -> Seq(1 .. MaxEvents)]
    /\ got \in [Pumps -> Seq(1 .. MaxEvents)]
    /\ \A p \in Pumps : pump[p] = "sending" => queue[p] # <<>>

\* A client gets the messages of a channel in their order, each once and
\* without a gap, from its subscription on; what it was not sent yet waits in
\* its subscription while that lives.
NoGap ==
    \A p \in Pumps :
        LET told == got[p] \o queue[p]
        IN  /\ \A n \in DOMAIN told : told[n] = since[p] + n
            /\ Subscribed(p) => since[p] + Len(told) = published[p[2]]

\* Every subscription of a socket comes to its end with the socket, at the
\* latest when what a cancelled pump left behind is collected.
SubscriptionsEnd ==
    \A k \in Sockets :
        conn[k] = "leaving" ~> \A ch \in Channels : Gone(<<k, ch>>)
=============================================================================
