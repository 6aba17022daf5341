--------------------------- MODULE DeliveryProofs ---------------------------
(***************************************************************************)
(* Safety of Delivery for every set of ingests, sockets, channels and      *)
(* requests.                                                               *)
(*                                                                         *)
(* What a client was sent and what waits for it are, together, the numbers *)
(* that follow its subscription; a step appends to them, moves one over or *)
(* cuts off what waits.  A request has been accepted as often as an answer *)
(* was lost, until an answer ends it.  What an ingest has noted as a       *)
(* success has ended that way, which nothing undoes.                       *)
(***************************************************************************)
EXTENDS Delivery, SequenceTheorems, FiniteSetTheorems, TLAPS

Numbers == 1 .. MaxEvents

\* A socket that never was has no pumps, a pump that has not subscribed has
\* no messages.
PumpInv ==
    /\ \A k \in Sockets : conn[k] = "none" =>
           \A ch \in Channels : pump[<<k, ch>>] = "none"
    /\ \A p \in Pumps : pump[p] \in {"none", "created", "subscribing"} =>
           got[p] = <<>> /\ queue[p] = <<>>

SInv == StreamTypeOK /\ PumpInv /\ NoGap

\* What the attempts of a request have come to.
JobInv ==
    \A r \in Requests :
        /\ job[r] \in {"none", "queued"} =>
              attempts[r] = 0 /\ accepted[r] = 0 /\ lost[r] = 0
        /\ accepted[r] <= attempts[r]
        /\ job[r] = "calling" =>
              /\ item[r].channel \in Enabled
              /\ accepted[r] < attempts[r]
              /\ attempts[r] <= max_attempts(item[r].channel)
        /\ job[r] = "waiting" =>
              /\ 0 < attempts[r]
              /\ attempts[r] < max_attempts(item[r].channel)

\* The requests of a bulk request were begun; an answer is given to some.
BatchInv ==
    \A b \in Batches :
        /\ IsFiniteSet(batch[b])
        /\ \A r \in batch[b] : job[r] # "none"
        /\ batch[b] = {} => answer[b] = NoAnswer

NInv == NotifierTypeOK /\ JobInv /\ SentOnce /\ BatchInv /\ BulkAddsUp

IngestTypes ==
    /\ pc \in [Ingests -> {"idle", "flushed", "dispatching", "calling",
                           "committing", "committed", "aborted"}]
    /\ todo \in [Ingests -> Seq(AlertChannels)]
    /\ results \in [Ingests -> Seq(Result)]
    /\ seen \in [Ingests -> 0 .. MaxEvents]

\* What is to be called has a request of its own.
TodoInv ==
    \A i \in Ingests :
        /\ \A n \in DOMAIN todo[i] :
              todo[i][n] # "realtime" => Call(i, todo[i][n]) \in Requests
        /\ pc[i] = "calling" => todo[i] # <<>> /\ Head(todo[i]) # "realtime"

\* A success was answered "sent".
ResultsInv ==
    \A i \in Ingests : \A n \in DOMAIN results[i] :
        results[i][n].success =>
            /\ Call(i, results[i][n].channel) \in Requests
            /\ job[Call(i, results[i][n].channel)] = "sent"

\* An ingest that has published has a number of its own.
SeenInv ==
    \A i \in Ingests :
        /\ seen[i] <= published[Detection]
        /\ pc[i] \in {"dispatching", "calling", "committing", "committed"} =>
              seen[i] > 0

DInv == IngestTypes /\ TodoInv /\ ResultsInv /\ SeenInv

IInv == SInv /\ NInv /\ DInv

----------------------------------------------------------------------------
(* What a client was sent, and what waits for it *)

LEMMA ToldAppend ==
    ASSUME NEW S, NEW g \in Seq(S), NEW q \in Seq(S), NEW x \in S
    PROVE  /\ Append(q, x) \in Seq(S)
           /\ Len(g \o Append(q, x)) = Len(g \o q) + 1
           /\ DOMAIN (g \o Append(q, x)) = 1 .. Len(g \o q) + 1
           /\ \A n \in DOMAIN (g \o q) : (g \o Append(q, x))[n] = (g \o q)[n]
           /\ (g \o Append(q, x))[Len(g \o q) + 1] = x
<1>1. /\ Append(q, x) \in Seq(S) /\ Len(Append(q, x)) = Len(q) + 1
      /\ \A n \in 1 .. Len(q) : Append(q, x)[n] = q[n]
      /\ Append(q, x)[Len(q) + 1] = x
    BY AppendProperties
<1>2. /\ g \o q \in Seq(S) /\ Len(g \o q) = Len(g) + Len(q)
      /\ \A n \in 1 .. Len(g) + Len(q) :
            (g \o q)[n] = IF n <= Len(g) THEN g[n] ELSE q[n - Len(g)]
    BY ConcatProperties
<1>3. /\ g \o Append(q, x) \in Seq(S)
      /\ Len(g \o Append(q, x)) = Len(g) + (Len(q) + 1)
      /\ \A n \in 1 .. Len(g) + (Len(q) + 1) :
            (g \o Append(q, x))[n] = IF n <= Len(g) THEN g[n]
                                                    ELSE Append(q, x)[n - Len(g)]
    BY <1>1, ConcatProperties
<1>4. Len(g) \in Nat /\ Len(q) \in Nat
    BY LenProperties
<1>5. /\ DOMAIN (g \o q) = 1 .. Len(g) + Len(q)
      /\ DOMAIN (g \o Append(q, x)) = 1 .. Len(g) + Len(q) + 1
    BY <1>2, <1>3, <1>4, LenProperties
<1>6. \A n \in 1 .. Len(g) + Len(q) : (g \o Append(q, x))[n] = (g \o q)[n]
    BY <1>1, <1>2, <1>3, <1>4
<1>7. (g \o Append(q, x))[Len(g) + Len(q) + 1] = x
    BY <1>1, <1>3, <1>4
<1> QED
    BY <1>1, <1>2, <1>3, <1>4, <1>5, <1>6, <1>7

\* The numbers in g and q follow s up to l.
Reaches(g, q, s, l) ==
    /\ \A n \in DOMAIN (g \o q) : (g \o q)[n] = s + n
    /\ s + Len(g \o q) = l

LEMMA AppendReaches ==
    ASSUME NEW g \in Seq(Numbers), NEW q \in Seq(Numbers), NEW l \in Int,
           NEW s \in Int, l + 1 \in Numbers, Reaches(g, q, s, l)
    PROVE  /\ Append(q, l + 1) \in Seq(Numbers) /\ Append(q, l + 1) # <<>>
           /\ Reaches(g, Append(q, l + 1), s, l + 1)
<1> DEFINE told == g \o q
           more == g \o Append(q, l + 1)
<1>1. /\ Append(q, l + 1) \in Seq(Numbers) /\ Len(more) = Len(told) + 1
      /\ DOMAIN more = 1 .. Len(told) + 1
      /\ \A n \in DOMAIN told : more[n] = told[n]
      /\ more[Len(told) + 1] = l + 1
    BY ToldAppend
<1>2. Append(q, l + 1) # <<>>
    BY AppendProperties
<1>3. told \in Seq(Numbers) /\ Len(told) \in Nat /\ DOMAIN told = 1 .. Len(told)
    BY ConcatProperties, LenProperties
<1>4. (\A n \in DOMAIN told : told[n] = s + n) /\ s + Len(told) = l
    BY DEF Reaches
<1> HIDE DEF told, more
<1>5. ASSUME NEW n \in DOMAIN more PROVE more[n] = s + n
    <2>1. CASE n \in DOMAIN told
        BY <1>1, <1>4, <2>1
    <2>2. CASE n = Len(told) + 1
        <3>1. more[n] = l + 1
            BY <1>1, <2>2
        <3>2. s + n = l + 1
            BY <1>3, <1>4, <2>2
        <3> QED
            BY <3>1, <3>2
    <2> QED
        BY <1>1, <1>3, <2>1, <2>2
<1>6. s + Len(more) = l + 1
    BY <1>1, <1>3, <1>4
<1> QED
    BY <1>1, <1>2, <1>5, <1>6 DEF more, Reaches

LEMMA ToldMove ==
    ASSUME NEW S, NEW g \in Seq(S), NEW q \in Seq(S), q # <<>>
    PROVE  /\ Append(g, Head(q)) \in Seq(S)
           /\ Tail(q) \in Seq(S)
           /\ Append(g, Head(q)) \o Tail(q) = g \o q
<1>1. /\ Head(q) \in S /\ Tail(q) \in Seq(S) /\ Len(Tail(q)) = Len(q) - 1
      /\ \A n \in 1 .. Len(Tail(q)) : Tail(q)[n] = q[n + 1]
      /\ Head(q) = q[1]
    BY HeadTailProperties
<1>2. /\ Append(g, Head(q)) \in Seq(S) /\ Len(Append(g, Head(q))) = Len(g) + 1
      /\ \A n \in 1 .. Len(g) : Append(g, Head(q))[n] = g[n]
      /\ Append(g, Head(q))[Len(g) + 1] = Head(q)
    BY <1>1, AppendProperties
<1>3. Len(g) \in Nat /\ Len(q) \in Nat \ {0}
    BY LenProperties, EmptySeq
<1> DEFINE a == Append(g, Head(q)) \o Tail(q)
           b == g \o q
<1>4. /\ a \in Seq(S) /\ Len(a) = (Len(g) + 1) + (Len(q) - 1)
      /\ \A n \in 1 .. (Len(g) + 1) + (Len(q) - 1) :
            a[n] = IF n <= Len(g) + 1 THEN Append(g, Head(q))[n]
                                      ELSE Tail(q)[n - (Len(g) + 1)]
    BY <1>1, <1>2, ConcatProperties
<1>5. /\ b \in Seq(S) /\ Len(b) = Len(g) + Len(q)
      /\ \A n \in 1 .. Len(g) + Len(q) :
            b[n] = IF n <= Len(g) THEN g[n] ELSE q[n - Len(g)]
    BY ConcatProperties
<1> HIDE DEF a, b
<1>6. Len(a) = Len(b)
    BY <1>3, <1>4, <1>5
<1>7. ASSUME NEW n \in 1 .. Len(a) PROVE a[n] = b[n]
    <2>1. n \in 1 .. (Len(g) + 1) + (Len(q) - 1) /\ n \in 1 .. Len(g) + Len(q)
        BY <1>3, <1>4, <1>7
    <2>2. CASE n <= Len(g)
        <3>1. n \in 1 .. Len(g) /\ n <= Len(g) + 1
            BY <1>3, <2>1, <2>2
        <3>2. Append(g, Head(q))[n] = g[n]
            BY <1>2, <3>1
        <3> QED
            BY <1>4, <1>5, <2>1, <2>2, <3>1, <3>2
    <2>3. CASE n = Len(g) + 1
        BY <1>1, <1>2, <1>3, <1>4, <1>5, <2>1, <2>3
    <2>4. CASE n > Len(g) + 1
        <3>1. n - (Len(g) + 1) \in 1 .. Len(Tail(q))
            BY <1>1, <1>3, <2>1, <2>4
        <3>2. Tail(q)[n - (Len(g) + 1)] = q[n - (Len(g) + 1) + 1]
            BY <1>1, <3>1
        <3>3. n - (Len(g) + 1) + 1 = n - Len(g)
            BY <1>3, <2>1
        <3> QED
            BY <1>3, <1>4, <1>5, <2>1, <2>4, <3>2, <3>3
    <2> QED
        BY <1>3, <2>1, <2>2, <2>3, <2>4
<1>8. a = b
    BY <1>4, <1>5, <1>6, <1>7, SeqEqual
<1> QED
    BY <1>1, <1>2, <1>8 DEF a, b

LEMMA ToldCut ==
    ASSUME NEW S, NEW g \in Seq(S), NEW q \in Seq(S)
    PROVE  /\ g \o <<>> = g
           /\ DOMAIN g \subseteq DOMAIN (g \o q)
           /\ \A n \in DOMAIN g : g[n] = (g \o q)[n]
<1>1. /\ g \o q \in Seq(S) /\ Len(g \o q) = Len(g) + Len(q)
      /\ \A n \in 1 .. Len(g) + Len(q) :
            (g \o q)[n] = IF n <= Len(g) THEN g[n] ELSE q[n - Len(g)]
    BY ConcatProperties
<1>2. Len(g) \in Nat /\ Len(q) \in Nat /\ DOMAIN g = 1 .. Len(g)
      /\ DOMAIN (g \o q) = 1 .. Len(g \o q)
    BY <1>1, LenProperties
<1>3. g \o <<>> = g
    BY ConcatEmptySeq
<1> QED
    BY <1>1, <1>2, <1>3

----------------------------------------------------------------------------
(* The event stream *)

\* What a client was sent and will be sent on p follows its subscription.
Follows(p) ==
    /\ \A n \in DOMAIN (got[p] \o queue[p]) :
          (got[p] \o queue[p])[n] = since[p] + n
    /\ Subscribed(p) =>
          since[p] + Len(got[p] \o queue[p]) = published[p[2]]

LEMMA NoGapFollows == NoGap <=> \A p \in Pumps : Follows(p)
    BY DEF NoGap, Follows

\* A step that leaves p and what was published alone leaves Follows(p).
LEMMA FollowsStays ==
    ASSUME NEW p, Follows(p),
           got'[p] = got[p], queue'[p] = queue[p], since'[p] = since[p],
           Subscribed(p)' => Subscribed(p),
           published'[p[2]] = published[p[2]]
    PROVE  Follows(p)'
    BY DEF Follows

\* A pump that is not new goes from state to state.
LEMMA MoveKeeps ==
    ASSUME SInv, NEW p \in Pumps, conn[p[1]] # "none",
           NEW st \in {"subscribing", "sending", "abandoned"}, Move(p, st),
           st = "subscribing" => pump[p] = "created",
           st = "sending" => pump[p] = "listening" /\ queue[p] # <<>>,
           UNCHANGED <<published, conn, since, queue, got>>
    PROVE  SInv'
<1>1. StreamTypeOK'
    BY DEF SInv, StreamTypeOK, Move
<1>2. PumpInv'
    BY DEF SInv, StreamTypeOK, PumpInv, Move, Pumps
<1>3. ASSUME NEW x \in Pumps PROVE Follows(x)'
    <2>1. Follows(x)
        BY NoGapFollows DEF SInv
    <2>2. Subscribed(x)' => Subscribed(x)
        BY DEF SInv, StreamTypeOK, Move, Subscribed
    <2> QED
        BY <2>1, <2>2, FollowsStays
<1>4. NoGap'
    BY <1>3, NoGapFollows DEF NoGap, Follows, Pumps, Subscribed
<1> QED
    BY <1>1, <1>2, <1>4 DEF SInv

\* A subscription ends, and what waits there is lost.
LEMMA CutKeeps ==
    ASSUME SInv, NEW p \in Pumps, conn[p[1]] # "none",
           NEW st \in {"ended", "abandoned"}, Move(p, st),
           queue' = [queue EXCEPT ![p] = <<>>],
           UNCHANGED <<published, conn, since, got>>
    PROVE  SInv'
<1>1. StreamTypeOK'
    BY DEF SInv, StreamTypeOK, Move
<1>2. PumpInv'
    BY DEF SInv, StreamTypeOK, PumpInv, Move, Pumps
<1>3. ASSUME NEW x \in Pumps PROVE Follows(x)'
    <2>1. Follows(x)
        BY NoGapFollows DEF SInv
    <2>2. CASE x # p
        <3>1. queue'[x] = queue[x] /\ pump'[x] = pump[x]
            BY <2>2 DEF SInv, StreamTypeOK, Move
        <3> QED
            BY <2>1, <3>1, FollowsStays DEF Subscribed
    <2>3. CASE x = p
        <3>1. queue'[p] = <<>> /\ ~Subscribed(p)' /\ got'[p] = got[p] /\ since'[p] = since[p]
            BY DEF SInv, StreamTypeOK, Move, Subscribed
        <3>2. got[p] \in Seq(Numbers) /\ queue[p] \in Seq(Numbers)
            BY DEF SInv, StreamTypeOK, Numbers
        <3>3. /\ got[p] \o <<>> = got[p]
              /\ DOMAIN got[p] \subseteq DOMAIN (got[p] \o queue[p])
              /\ \A n \in DOMAIN got[p] : got[p][n] = (got[p] \o queue[p])[n]
            BY <3>2, ToldCut
        <3>4. got'[p] \o queue'[p] = got[p]
            BY <3>1, <3>3
        <3>5. \A n \in DOMAIN got[p] : got[p][n] = since[p] + n
            BY <2>1, <2>3, <3>3 DEF Follows
        <3> QED
            BY <2>3, <3>1, <3>4, <3>5 DEF Follows
    <2> QED
        BY <2>2, <2>3
<1>4. NoGap'
    BY <1>3 DEF NoGap, Follows, Pumps
<1> QED
    BY <1>1, <1>2, <1>4 DEF SInv

LEMMA SubscribeKeeps ==
    ASSUME SInv, NEW p \in Pumps, Subscribe(p)
    PROVE  SInv'
<1>1. published[p[2]] \in 0 .. MaxEvents
    BY DEF SInv, StreamTypeOK, Pumps
<1>2. StreamTypeOK'
    BY <1>1 DEF SInv, StreamTypeOK, Subscribe, Move
<1>3. PumpInv'
    BY DEF SInv, StreamTypeOK, PumpInv, Subscribe, Move, Pumps
<1>4. ASSUME NEW x \in Pumps PROVE Follows(x)'
    <2>1. Follows(x)
        BY NoGapFollows DEF SInv
    <2>2. CASE x # p
        <3>1. pump'[x] = pump[x] /\ since'[x] = since[x]
            BY <2>2 DEF SInv, StreamTypeOK, Subscribe, Move
        <3> QED
            BY <2>1, <3>1, FollowsStays DEF Subscribed, Subscribe
    <2>3. CASE x = p
        <3>1. got[p] = <<>> /\ queue[p] = <<>> /\ since'[p] = published[p[2]]
            BY DEF SInv, StreamTypeOK, PumpInv, Subscribe
        <3>2. got'[p] \o queue'[p] = <<>> /\ Len(got'[p] \o queue'[p]) = 0
            BY <3>1 DEF Subscribe
        <3>3. published'[p[2]] = published[p[2]]
            BY DEF Subscribe
        <3> QED
            BY <1>1, <2>3, <3>1, <3>2, <3>3 DEF Follows
    <2> QED
        BY <2>2, <2>3
<1>5. NoGap'
    BY <1>4 DEF NoGap, Follows, Pumps
<1> QED
    BY <1>2, <1>3, <1>5 DEF SInv

LEMMA SendKeeps ==
    ASSUME SInv, NEW p \in Pumps, Send(p)
    PROVE  SInv'
<1>1. got[p] \in Seq(Numbers) /\ queue[p] \in Seq(Numbers) /\ queue[p] # <<>>
    BY DEF SInv, StreamTypeOK, Numbers, Send
<1>2. /\ Append(got[p], Head(queue[p])) \in Seq(Numbers)
      /\ Tail(queue[p]) \in Seq(Numbers)
      /\ Append(got[p], Head(queue[p])) \o Tail(queue[p]) = got[p] \o queue[p]
    BY <1>1, ToldMove
<1>3. StreamTypeOK'
    BY <1>2 DEF SInv, StreamTypeOK, Numbers, Send, Move
<1>4. PumpInv'
    BY DEF SInv, StreamTypeOK, PumpInv, Send, Move, Pumps
<1>5. ASSUME NEW x \in Pumps PROVE Follows(x)'
    <2>1. Follows(x)
        BY NoGapFollows DEF SInv
    <2>2. CASE x # p
        <3>1. got'[x] = got[x] /\ queue'[x] = queue[x] /\ pump'[x] = pump[x]
            BY <2>2 DEF SInv, StreamTypeOK, Send, Move
        <3> QED
            BY <2>1, <3>1, FollowsStays DEF Subscribed, Send
    <2>3. CASE x = p
        <3>1. got'[p] \o queue'[p] = got[p] \o queue[p]
            BY <1>2 DEF SInv, StreamTypeOK, Send
        <3>2. Subscribed(p) /\ since' = since /\ published' = published
            BY DEF Subscribed, Send
        <3> QED
            BY <2>1, <2>3, <3>1, <3>2 DEF Follows
    <2> QED
        BY <2>2, <2>3
<1>6. NoGap'
    BY <1>5 DEF NoGap, Follows, Pumps
<1> QED
    BY <1>3, <1>4, <1>6 DEF SInv

LEMMA PublishKeeps ==
    ASSUME SInv, NEW ch \in Channels, publish(ch)
    PROVE  SInv' /\ published'[ch] = published[ch] + 1 /\ published'[ch] \in Numbers
<1>1. /\ published[ch] \in 0 .. MaxEvents /\ MaxEvents \in Nat
      /\ published'[ch] = published[ch] + 1
      /\ \A c \in Channels \ {ch} : published'[c] = published[c]
    BY EventsAssumption DEF SInv, StreamTypeOK, publish
<1>2. published'[ch] \in Numbers /\ published' \in [Channels -> 0 .. MaxEvents]
    BY <1>1 DEF SInv, StreamTypeOK, publish, Numbers
<1>3. ASSUME NEW x \in Pumps
      PROVE  /\ queue'[x] \in Seq(Numbers)
             /\ pump[x] = "sending" => queue'[x] # <<>>
             /\ pump[x] \in {"none", "created", "subscribing"} => queue'[x] = queue[x]
             /\ Follows(x)'
    <2>1. Follows(x) /\ got[x] \in Seq(Numbers) /\ queue[x] \in Seq(Numbers)
        BY NoGapFollows DEF SInv, StreamTypeOK, Numbers
    <2>2. /\ got'[x] = got[x] /\ since'[x] = since[x] /\ pump'[x] = pump[x]
          /\ x[2] \in Channels
        BY DEF publish, Pumps
    <2>3. CASE ~(x[2] = ch /\ Subscribed(x))
        <3>1. queue'[x] = queue[x]
            BY <2>3 DEF publish
        <3>2. pump[x] = "sending" => queue[x] # <<>>
            BY DEF SInv, StreamTypeOK
        <3>3. Subscribed(x) => published'[x[2]] = published[x[2]]
            BY <1>1, <2>2, <2>3
        <3>4. Follows(x)'
            BY <2>1, <2>2, <3>1, <3>3 DEF Follows, Subscribed
        <3> QED
            BY <2>1, <3>1, <3>2, <3>4
    <2>4. CASE x[2] = ch /\ Subscribed(x)
        <3>1. queue'[x] = Append(queue[x], published'[ch])
            BY <2>4 DEF publish
        <3>2. Reaches(got[x], queue[x], since[x], published[ch])
            BY <2>1, <2>4 DEF Follows, Reaches
        <3>3. published[ch] \in Int /\ since[x] \in Int /\ published[ch] + 1 \in Numbers
            BY <1>1, <1>2 DEF SInv, StreamTypeOK
        <3>4. /\ Append(queue[x], published[ch] + 1) \in Seq(Numbers)
              /\ Append(queue[x], published[ch] + 1) # <<>>
              /\ Reaches(got[x], Append(queue[x], published[ch] + 1), since[x],
                         published[ch] + 1)
            BY <2>1, <3>2, <3>3, AppendReaches
        <3>5. queue'[x] = Append(queue[x], published[ch] + 1)
            BY <1>1, <3>1
        <3>6. Follows(x)'
            BY <1>1, <2>2, <2>4, <3>4, <3>5 DEF Follows, Reaches
        <3> QED
            BY <2>4, <3>4, <3>5, <3>6 DEF Subscribed
    <2> QED
        BY <2>3, <2>4
<1>4. StreamTypeOK'
    <2>1. queue' \in [Pumps -> Seq(1 .. MaxEvents)]
        BY <1>3 DEF publish, Numbers
    <2> QED
        BY <1>2, <1>3, <2>1 DEF SInv, StreamTypeOK, publish
<1>5. PumpInv'
    BY <1>3 DEF SInv, PumpInv, publish
<1>6. NoGap'
    BY <1>3 DEF NoGap, Follows, Pumps
<1> QED
    BY <1>1, <1>2, <1>4, <1>5, <1>6 DEF SInv

LEMMA ConnectKeeps ==
    ASSUME SInv, NEW k \in Sockets, Connect(k)
    PROVE  SInv' /\ published' = published
<1>1. StreamTypeOK'
    BY DEF SInv, StreamTypeOK, Connect
<1>2. PumpInv'
    <2>1. conn'[k] # "none" /\ \A j \in Sockets \ {k} : conn'[j] = conn[j]
        BY DEF SInv, StreamTypeOK, Connect
    <2>2. \A p \in Pumps : p[1] # k => pump'[p] = pump[p]
        BY DEF Connect
    <2>3. \A p \in Pumps : pump'[p] # pump[p] => pump[p] = "none"
        <3>1. \A p \in Pumps : p[1] = k => pump[p] = "none"
            BY DEF SInv, PumpInv, Connect, Pumps
        <3> QED
            BY <2>2, <3>1
    <2>4. \A j \in Sockets : conn'[j] = "none" =>
              \A ch \in Channels : pump'[<<j, ch>>] = "none"
        BY <2>1, <2>2 DEF SInv, PumpInv, Pumps
    <2>5. \A p \in Pumps : pump'[p] \in {"none", "created", "subscribing"} =>
              got'[p] = <<>> /\ queue'[p] = <<>>
        BY <2>3 DEF SInv, PumpInv, Connect
    <2> QED
        BY <2>4, <2>5 DEF PumpInv
<1>3. ASSUME NEW x \in Pumps PROVE Follows(x)'
    <2>1. Follows(x)
        BY NoGapFollows DEF SInv
    <2>2. Subscribed(x)' => Subscribed(x)
        BY DEF SInv, StreamTypeOK, Connect, Subscribed
    <2> QED
        BY <2>1, <2>2, FollowsStays DEF Connect
<1>4. NoGap'
    BY <1>3 DEF NoGap, Follows, Pumps
<1> QED
    BY <1>1, <1>2, <1>4 DEF SInv, Connect

LEMMA SocketKeeps ==
    ASSUME SInv, SocketStep
    PROVE  SInv' /\ published' = published
<1>1. ASSUME NEW k \in Sockets, Leave(k) \/ Close(k)
      PROVE  SInv' /\ published' = published
    <2>1. StreamTypeOK'
        BY <1>1 DEF SInv, StreamTypeOK, Leave, Close
    <2>2. UNCHANGED <<published, pump, since, queue, got>>
        BY <1>1 DEF Leave, Close
    <2>3. \A j \in Sockets : conn'[j] = "none" => conn[j] = "none"
        BY <1>1 DEF SInv, StreamTypeOK, Leave, Close
    <2>4. PumpInv'
        BY <2>2, <2>3 DEF SInv, PumpInv
    <2>5. NoGap'
        BY <2>2 DEF SInv, NoGap, Subscribed
    <2> QED
        BY <2>1, <2>2, <2>4, <2>5 DEF SInv
<1>2. ASSUME NEW p \in Pumps, StartPump(p)
      PROVE  SInv' /\ published' = published
    BY <1>2, MoveKeeps DEF StartPump
<1>3. ASSUME NEW p \in Pumps, Subscribe(p)
      PROVE  SInv' /\ published' = published
    BY <1>3, SubscribeKeeps DEF Subscribe
<1>4. ASSUME NEW p \in Pumps, Listen(p)
      PROVE  SInv' /\ published' = published
    BY <1>4, MoveKeeps DEF Listen
<1>5. ASSUME NEW p \in Pumps, Send(p)
      PROVE  SInv' /\ published' = published
    BY <1>5, SendKeeps DEF Send
<1>6. ASSUME NEW p \in Pumps, Cancel(p)
      PROVE  SInv' /\ published' = published
    BY <1>6, CutKeeps DEF Cancel
<1>7. ASSUME NEW p \in Pumps, PumpFails(p)
      PROVE  SInv' /\ published' = published
    BY <1>7, CutKeeps DEF PumpFails
<1>8. ASSUME NEW p \in Pumps, SendFails(p)
      PROVE  SInv' /\ published' = published
    BY <1>8, MoveKeeps DEF SendFails
<1>9. ASSUME NEW p \in Pumps, Collect(p)
      PROVE  SInv' /\ published' = published
    BY <1>9, CutKeeps DEF Collect
<1> QED
    BY <1>1, <1>2, <1>3, <1>4, <1>5, <1>6, <1>7, <1>8, <1>9 DEF SocketStep, PumpStep

LEMMA StreamStays == ASSUME SInv, UNCHANGED stream PROVE SInv'
<1>1. StreamTypeOK' /\ PumpInv'
    BY DEF SInv, StreamTypeOK, PumpInv, stream
<1>2. NoGap'
    BY DEF SInv, NoGap, Subscribed, stream
<1> QED
    BY <1>1, <1>2 DEF SInv

----------------------------------------------------------------------------
(* The notification-service *)

LEMMA Channels_ == _channels \subseteq AlertChannels /\ Enabled \subseteq _channels
    BY SettingsAssumption DEF _channels, AlertChannels

LEMMA MaxAttempts ==
    \A ch : max_attempts(ch) \in 1 .. 3 /\ (ch # "webhook" => max_attempts(ch) = 1)
    BY DEF max_attempts

\* A finished request stays as it is, one that was begun is never new again.
Lasts ==
    /\ \A r \in Requests : Finished(r) => job'[r] = job[r]
    /\ \A r \in Requests : job[r] # "none" => job'[r] # "none"

LEMMA BatchKeeps ==
    ASSUME NInv, Lasts, UNCHANGED <<batch, answer>>
    PROVE  BatchInv' /\ BulkAddsUp'
<1>1. \A b \in Batches : batch[b] \subseteq Requests
    BY DEF NInv, NotifierTypeOK
<1>2. BatchInv'
    BY <1>1 DEF NInv, BatchInv, Lasts
<1>3. ASSUME NEW b \in Batches, answer[b] # NoAnswer
      PROVE  /\ \A r \in batch[b] : job'[r] = job[r] /\ Finished(r)
             /\ {r \in batch[b] : job'[r] = "sent"} = {r \in batch[b] : job[r] = "sent"}
    <2>1. \A r \in batch[b] : Finished(r)
        BY <1>3 DEF NInv, BulkAddsUp
    <2>2. \A r \in batch[b] : job'[r] = job[r]
        BY <1>1, <2>1 DEF Lasts
    <2> QED
        BY <2>1, <2>2
<1>4. BulkAddsUp'
    BY <1>3 DEF NInv, BulkAddsUp, Finished
<1> QED
    BY <1>2, <1>4

LEMMA DispatchKeeps ==
    ASSUME NInv, NEW r \in Requests, NEW i \in Items, dispatch(r, i)
    PROVE  NInv' /\ Lasts
<1>1. Lasts
    BY DEF NInv, NotifierTypeOK, dispatch, Lasts, Finished
<1>2. NotifierTypeOK'
    BY DEF NInv, NotifierTypeOK, dispatch
<1>3. /\ job'[r] = "queued"
      /\ \A x \in Requests \ {r} : job'[x] = job[x] /\ item'[x] = item[x]
      /\ attempts' = attempts /\ accepted' = accepted /\ lost' = lost
      /\ attempts[r] = 0 /\ accepted[r] = 0 /\ lost[r] = 0
    BY DEF NInv, NotifierTypeOK, JobInv, dispatch
<1>4. JobInv'
    BY <1>3 DEF NInv, JobInv
<1>5. SentOnce'
    BY <1>3 DEF NInv, SentOnce
<1>6. BatchInv' /\ BulkAddsUp'
    BY <1>1, BatchKeeps DEF dispatch
<1> QED
    BY <1>1, <1>2, <1>4, <1>5, <1>6 DEF NInv

LEMMA BulkKeeps ==
    ASSUME NInv, NEW b \in Batches, NEW items \in BulkItems, dispatch_bulk(b, items)
    PROVE  NInv' /\ Lasts
<1>1. /\ DOMAIN items \subseteq Requests /\ IsFiniteSet(DOMAIN items)
      /\ \A r \in DOMAIN items : items[r] \in Items
    BY BulkAssumption
<1>2. /\ \A r \in Requests : job'[r] = IF r \in DOMAIN items THEN "queued" ELSE job[r]
      /\ \A r \in Requests : item'[r] = IF r \in DOMAIN items THEN items[r] ELSE item[r]
      /\ \A r \in DOMAIN items : job[r] = "none"
      /\ attempts' = attempts /\ accepted' = accepted /\ lost' = lost
      /\ answer' = answer
    BY DEF dispatch_bulk
<1>3. Lasts
    BY <1>2 DEF Lasts, Finished
<1>4. NotifierTypeOK'
    BY <1>1, <1>2 DEF NInv, NotifierTypeOK, dispatch_bulk
<1>5. \A r \in DOMAIN items : attempts[r] = 0 /\ accepted[r] = 0 /\ lost[r] = 0
    BY <1>1, <1>2 DEF NInv, JobInv
<1>6. JobInv'
    BY <1>2, <1>5 DEF NInv, JobInv
<1>7. SentOnce'
    BY <1>2, <1>5 DEF NInv, SentOnce
<1>8. /\ batch'[b] = DOMAIN items /\ answer[b] = NoAnswer
      /\ \A c \in Batches \ {b} : batch'[c] = batch[c]
    BY DEF NInv, NotifierTypeOK, BatchInv, dispatch_bulk
<1>9. BatchInv'
    BY <1>1, <1>2, <1>3, <1>8 DEF NInv, BatchInv, NotifierTypeOK, Lasts
<1>10. ASSUME NEW c \in Batches, answer[c] # NoAnswer
       PROVE  /\ batch'[c] = batch[c]
              /\ \A r \in batch[c] : job'[r] = job[r] /\ Finished(r)
              /\ {r \in batch[c] : job'[r] = "sent"} = {r \in batch[c] : job[r] = "sent"}
    <2>1. c # b /\ batch'[c] = batch[c] /\ batch[c] \subseteq Requests
        BY <1>8, <1>10 DEF NInv, NotifierTypeOK
    <2>2. \A r \in batch[c] : Finished(r)
        BY <1>10 DEF NInv, BulkAddsUp
    <2>3. \A r \in batch[c] : job'[r] = job[r]
        BY <1>3, <2>1, <2>2 DEF Lasts
    <2> QED
        BY <2>1, <2>2, <2>3
<1>11. ASSUME NEW c \in Batches, answer'[c] # NoAnswer
       PROVE  /\ answer'[c].sent + answer'[c].failed = Cardinality(batch'[c])
              /\ \A r \in batch'[c] : Finished(r)'
              /\ answer'[c].sent = Cardinality({r \in batch'[c] : job'[r] = "sent"})
    <2>1. answer[c] # NoAnswer /\ answer'[c] = answer[c]
        BY <1>2, <1>11
    <2>2. /\ answer[c].sent + answer[c].failed = Cardinality(batch[c])
          /\ answer[c].sent = Cardinality({r \in batch[c] : job[r] = "sent"})
        BY <2>1 DEF NInv, BulkAddsUp
    <2>3. \A r \in batch'[c] : Finished(r)'
        BY <1>10, <2>1 DEF Finished
    <2>4. {r \in batch'[c] : job'[r] = "sent"} = {r \in batch[c] : job[r] = "sent"}
        BY <1>10, <2>1
    <2> QED
        BY <1>10, <2>1, <2>2, <2>3, <2>4
<1>12. BulkAddsUp'
    BY <1>2, <1>11 DEF BulkAddsUp
<1> QED
    BY <1>3, <1>4, <1>6, <1>7, <1>9, <1>12 DEF NInv

\* What a step of the request r makes of it, as far as the invariants go.
JobKeeps(r) ==
    /\ job[r] \notin {"none", "sent", "failed"}
    /\ job'[r] \in {"calling", "waiting", "sent", "failed"}
    /\ attempts'[r] \in 0 .. 3 /\ accepted'[r] \in 0 .. 3 /\ lost'[r] \in 0 .. 3
    /\ accepted'[r] <= attempts'[r]
    /\ job'[r] = "calling" =>
          /\ item[r].channel \in Enabled
          /\ accepted'[r] < attempts'[r]
          /\ attempts'[r] <= max_attempts(item[r].channel)
    /\ job'[r] = "waiting" =>
          /\ 0 < attempts'[r]
          /\ attempts'[r] < max_attempts(item[r].channel)
    /\ accepted'[r] = lost'[r] +
          IF job'[r] = "sent" /\ item[r].channel \in Enabled THEN 1 ELSE 0
    /\ item[r].channel # "webhook" => accepted'[r] <= 1

LEMMA JobSpreads ==
    ASSUME NInv, NEW r \in Requests, JobKeeps(r),
           \A x \in Requests \ {r} : /\ job'[x] = job[x]
                                     /\ attempts'[x] = attempts[x]
                                     /\ accepted'[x] = accepted[x]
                                     /\ lost'[x] = lost[x],
           DOMAIN job' = Requests /\ job' = [x \in Requests |-> job'[x]],
           attempts' = [x \in Requests |-> attempts'[x]],
           accepted' = [x \in Requests |-> accepted'[x]],
           lost' = [x \in Requests |-> lost'[x]],
           UNCHANGED <<item, batch, answer>>
    PROVE  NInv' /\ Lasts
<1>1. Lasts
    BY DEF JobKeeps, Lasts, Finished
<1>2. \A x \in Requests :
          /\ job'[x] \in {"none", "queued", "calling", "waiting", "sent", "failed"}
          /\ attempts'[x] \in 0 .. 3 /\ accepted'[x] \in 0 .. 3 /\ lost'[x] \in 0 .. 3
    BY DEF NInv, NotifierTypeOK, JobKeeps
<1>3. job' \in [Requests -> {"none", "queued", "calling", "waiting", "sent", "failed"}]
    BY <1>2
<1>4. /\ attempts' \in [Requests -> 0 .. 3]
      /\ accepted' \in [Requests -> 0 .. 3]
      /\ lost' \in [Requests -> 0 .. 3]
    BY <1>2
<1>5. \A x \in Requests : job'[x] # "none" => item[x] \in Items
    BY DEF NInv, NotifierTypeOK, JobKeeps
<1>6. NotifierTypeOK'
    BY <1>3, <1>4, <1>5 DEF NInv, NotifierTypeOK
<1>7. JobInv'
    BY DEF NInv, JobInv, JobKeeps
<1>8. SentOnce'
    BY DEF NInv, SentOnce, JobKeeps
<1>9. BatchInv' /\ BulkAddsUp'
    BY <1>1, BatchKeeps
<1> QED
    BY <1>1, <1>6, <1>7, <1>8, <1>9 DEF NInv

LEMMA AttemptKeeps ==
    ASSUME NInv, NEW r \in Requests, Attempt(r)
    PROVE  NInv' /\ Lasts
<1> DEFINE i == item[r]
<1>1. /\ job[r] \in {"queued", "waiting"}
      /\ attempts[r] \in 0 .. 3 /\ accepted[r] \in 0 .. 3 /\ lost[r] \in 0 .. 3
      /\ accepted[r] <= attempts[r]
      /\ attempts[r] < max_attempts(i.channel) /\ max_attempts(i.channel) \in 1 .. 3
      /\ accepted[r] = lost[r]
      /\ i.channel # "webhook" => accepted[r] <= 1
      /\ accepted' = accepted /\ lost' = lost /\ item' = item
      /\ batch' = batch /\ answer' = answer
    BY MaxAttempts DEF NInv, NotifierTypeOK, JobInv, SentOnce, Attempt
<1>2. CASE i.channel \notin _channels
    <2>1. job' = [job EXCEPT ![r] = "failed"] /\ attempts' = attempts
        BY <1>2 DEF Attempt
    <2>2. JobKeeps(r)
        BY <1>1, <2>1 DEF JobKeeps, NInv, NotifierTypeOK
    <2> QED
        BY <1>1, <2>1, <2>2, JobSpreads DEF NInv, NotifierTypeOK
<1>3. CASE i.channel \in _channels /\ i.channel \notin Enabled
    <2>1. job' = [job EXCEPT ![r] = "sent"] /\ attempts' = [attempts EXCEPT ![r] = @ + 1]
        BY <1>3 DEF Attempt
    <2>2. JobKeeps(r)
        BY <1>1, <1>3, <2>1 DEF JobKeeps, NInv, NotifierTypeOK
    <2> QED
        BY <1>1, <2>1, <2>2, JobSpreads DEF NInv, NotifierTypeOK
<1>4. CASE i.channel \in _channels /\ i.channel \in Enabled /\ Addressed(i)
    <2>1. /\ job' = [job EXCEPT ![r] = "calling"]
          /\ attempts' = [attempts EXCEPT ![r] = @ + 1]
        BY <1>4 DEF Attempt
    <2>2. JobKeeps(r)
        BY <1>1, <1>4, <2>1 DEF JobKeeps, NInv, NotifierTypeOK
    <2> QED
        BY <1>1, <2>1, <2>2, JobSpreads DEF NInv, NotifierTypeOK
<1>5. CASE i.channel \in _channels /\ i.channel \in Enabled /\ ~Addressed(i)
    <2>1. /\ job' = [job EXCEPT ![r] = IF attempts[r] + 1 < max_attempts(i.channel)
                                       THEN "waiting" ELSE "failed"]
          /\ attempts' = [attempts EXCEPT ![r] = @ + 1]
        BY <1>5 DEF Attempt, Raises
    <2>2. JobKeeps(r)
        BY <1>1, <1>5, <2>1 DEF JobKeeps, NInv, NotifierTypeOK
    <2> QED
        BY <1>1, <2>1, <2>2, JobSpreads DEF NInv, NotifierTypeOK
<1> QED
    BY <1>2, <1>3, <1>4, <1>5

\* The three ways in which a call can end.
LEMMA CallKeeps ==
    ASSUME NInv, NEW r \in Requests, Delivered(r) \/ AnswerLost(r) \/ Refused(r)
    PROVE  NInv' /\ Lasts
<1> DEFINE i == item[r]
<1>1. /\ job[r] = "calling" /\ i.channel \in Enabled
      /\ attempts[r] \in 0 .. 3 /\ accepted[r] \in 0 .. 3 /\ lost[r] \in 0 .. 3
      /\ accepted[r] < attempts[r] /\ attempts[r] <= max_attempts(i.channel)
      /\ max_attempts(i.channel) \in 1 .. 3
      /\ i.channel # "webhook" => max_attempts(i.channel) = 1
      /\ accepted[r] = lost[r]
      /\ attempts' = attempts /\ item' = item /\ batch' = batch /\ answer' = answer
    BY MaxAttempts
       DEF NInv, NotifierTypeOK, JobInv, SentOnce, Delivered, AnswerLost, Refused
<1>2. CASE Delivered(r)
    <2>1. /\ job' = [job EXCEPT ![r] = "sent"]
          /\ accepted' = [accepted EXCEPT ![r] = @ + 1] /\ lost' = lost
        BY <1>2 DEF Delivered
    <2>2. JobKeeps(r)
        BY <1>1, <2>1 DEF JobKeeps, NInv, NotifierTypeOK
    <2> QED
        BY <1>1, <2>1, <2>2, JobSpreads DEF NInv, NotifierTypeOK
<1>3. CASE AnswerLost(r)
    <2>1. /\ job' = [job EXCEPT ![r] = IF attempts[r] < max_attempts(i.channel)
                                       THEN "waiting" ELSE "failed"]
          /\ accepted' = [accepted EXCEPT ![r] = @ + 1]
          /\ lost' = [lost EXCEPT ![r] = @ + 1]
        BY <1>3 DEF AnswerLost, Raises
    <2>2. JobKeeps(r)
        BY <1>1, <2>1 DEF JobKeeps, NInv, NotifierTypeOK
    <2> QED
        BY <1>1, <2>1, <2>2, JobSpreads DEF NInv, NotifierTypeOK
<1>4. CASE Refused(r)
    <2>1. /\ job' = [job EXCEPT ![r] = IF attempts[r] < max_attempts(i.channel)
                                       THEN "waiting" ELSE "failed"]
          /\ accepted' = accepted /\ lost' = lost
        BY <1>4 DEF Refused, Raises
    <2>2. JobKeeps(r)
        BY <1>1, <2>1 DEF JobKeeps, NInv, NotifierTypeOK
    <2> QED
        BY <1>1, <2>1, <2>2, JobSpreads DEF NInv, NotifierTypeOK
<1> QED
    BY <1>2, <1>3, <1>4

LEMMA AnswerKeeps ==
    ASSUME NInv, NEW b \in Batches, AnswerBulk(b)
    PROVE  NInv' /\ Lasts
<1> DEFINE sent == {r \in batch[b] : job[r] = "sent"}
           rest == batch[b] \ sent
<1>1. UNCHANGED <<item, job, attempts, accepted, lost, batch>>
    BY DEF AnswerBulk
<1>2. Lasts
    BY <1>1 DEF Lasts
<1>3. IsFiniteSet(batch[b])
    BY DEF NInv, BatchInv
<1>4. /\ IsFiniteSet(sent) /\ IsFiniteSet(rest)
      /\ Cardinality(rest) = Cardinality(batch[b]) - Cardinality(sent)
    <2>1. sent \subseteq batch[b] /\ batch[b] \cap sent = sent
        OBVIOUS
    <2>2. IsFiniteSet(sent)
        BY <1>3, <2>1, FS_Subset
    <2> HIDE DEF sent
    <2> QED
        BY <1>3, <2>1, <2>2, FS_Difference
<1>5. Cardinality(sent) \in Nat /\ Cardinality(rest) \in Nat /\ Cardinality(batch[b]) \in Nat
    BY <1>3, <1>4, FS_CardinalityType
<1>6. answer' = [answer EXCEPT ![b] = [sent |-> Cardinality(sent),
                                       failed |-> Cardinality(rest)]]
    BY DEF AnswerBulk
<1> HIDE DEF sent, rest
<1>7. NotifierTypeOK'
    BY <1>1, <1>5, <1>6 DEF NInv, NotifierTypeOK
<1>8. JobInv' /\ SentOnce'
    BY <1>1 DEF NInv, JobInv, SentOnce
<1>9. BatchInv'
    BY <1>1, <1>6 DEF NInv, BatchInv, NotifierTypeOK, AnswerBulk
<1>10. ASSUME NEW c \in Batches, answer'[c] # NoAnswer
       PROVE  /\ answer'[c].sent + answer'[c].failed = Cardinality(batch[c])
              /\ \A r \in batch[c] : Finished(r)
              /\ answer'[c].sent = Cardinality({r \in batch[c] : job[r] = "sent"})
    <2>1. CASE c # b
        <3>1. answer'[c] = answer[c]
            BY <1>6, <2>1 DEF NInv, NotifierTypeOK
        <3> QED
            BY <1>10, <3>1 DEF NInv, BulkAddsUp
    <2>2. CASE c = b
        <3>1. answer'[b].sent = Cardinality(sent) /\ answer'[b].failed = Cardinality(rest)
            BY <1>6 DEF NInv, NotifierTypeOK
        <3>2. \A r \in batch[b] : Finished(r)
            BY DEF AnswerBulk
        <3> QED
            BY <1>4, <1>5, <2>2, <3>1, <3>2 DEF sent
    <2> QED
        BY <2>1, <2>2
<1>11. BulkAddsUp'
    BY <1>1, <1>10 DEF BulkAddsUp, Finished
<1> QED
    BY <1>2, <1>7, <1>8, <1>9, <1>11 DEF NInv

LEMMA NotifierKeeps ==
    ASSUME NInv, NotifierStep
    PROVE  NInv' /\ Lasts
    BY AttemptKeeps, CallKeeps, AnswerKeeps DEF NotifierStep, JobStep

LEMMA NotifierStays == ASSUME NInv, UNCHANGED notifier PROVE NInv' /\ Lasts
<1>1. Lasts
    BY DEF Lasts, notifier
<1>2. NotifierTypeOK' /\ JobInv' /\ SentOnce'
    BY DEF NInv, NotifierTypeOK, JobInv, SentOnce, notifier
<1>3. BatchInv' /\ BulkAddsUp'
    BY <1>1, BatchKeeps DEF notifier
<1> QED
    BY <1>1, <1>2, <1>3 DEF NInv

----------------------------------------------------------------------------
(* The ingests *)

\* What the steps of the other parts leave of the ingests.
LEMMA IngestStays ==
    ASSUME IInv, Lasts, UNCHANGED ingest,
           published'[Detection] >= published[Detection], published'[Detection] \in Nat
    PROVE  DInv'
<1>1. IngestTypes' /\ TodoInv'
    BY DEF IInv, DInv, IngestTypes, TodoInv, ingest
<1>2. ResultsInv'
    BY DEF IInv, DInv, ResultsInv, Lasts, Finished, ingest
<1>3. SeenInv'
    <2>1. published[Detection] \in Nat
        BY ChannelsAssumption, EventsAssumption DEF IInv, SInv, StreamTypeOK
    <2> QED
        BY <2>1 DEF IInv, DInv, IngestTypes, SeenInv, ingest
<1> QED
    BY <1>1, <1>2, <1>3 DEF DInv

\* An ingest that only goes on.
LEMMA GotoKeeps ==
    ASSUME IInv, NEW i \in Ingests,
           NEW l \in {"flushed", "committing", "committed", "aborted"}, Goto(i, l),
           l \in {"committing", "committed"} => pc[i] \in {"dispatching", "committing"},
           UNCHANGED <<stream, notifier, todo, results, seen>>
    PROVE  DInv'
<1>1. IngestTypes'
    BY DEF IInv, DInv, IngestTypes, Goto
<1>2. TodoInv'
    BY DEF IInv, DInv, IngestTypes, TodoInv, Goto
<1>3. ResultsInv'
    BY DEF IInv, DInv, ResultsInv, notifier
<1>4. SeenInv'
    BY DEF IInv, DInv, IngestTypes, SeenInv, Goto, stream
<1> QED
    BY <1>1, <1>2, <1>3, <1>4 DEF DInv

LEMMA IngestPublishes ==
    ASSUME IInv, NEW i \in Ingests, Publish(i)
    PROVE  IInv'
<1>1. Detection \in Channels
    BY ChannelsAssumption
<1>2. SInv' /\ published'[Detection] = published[Detection] + 1
            /\ published'[Detection] \in Numbers
    BY <1>1, PublishKeeps DEF IInv, Publish
<1>3. NInv' /\ Lasts
    BY NotifierStays DEF IInv, Publish
<1>4. PICK chs \in RuleChannels : todo' = [todo EXCEPT ![i] = chs]
    BY DEF Publish
<1>5. /\ chs \in Seq(AlertChannels)
      /\ \A n \in DOMAIN chs : chs[n] # "realtime" => Call(i, chs[n]) \in Requests
    BY ChannelsAssumption
<1>6. seen' = [seen EXCEPT ![i] = published'[Detection]]
    BY <1>2 DEF Publish
<1>7. IngestTypes'
    <2>1. published'[Detection] \in 0 .. MaxEvents
        BY <1>2, EventsAssumption DEF Numbers
    <2>2. seen' \in [Ingests -> 0 .. MaxEvents]
        BY <1>6, <2>1 DEF IInv, DInv, IngestTypes
    <2>3. todo' \in [Ingests -> Seq(AlertChannels)]
        BY <1>4, <1>5 DEF IInv, DInv, IngestTypes
    <2> QED
        BY <2>2, <2>3 DEF IInv, DInv, IngestTypes, Publish, Goto
<1>8. TodoInv'
    BY <1>4, <1>5 DEF IInv, DInv, IngestTypes, TodoInv, Publish, Goto
<1>9. ResultsInv'
    BY DEF IInv, DInv, ResultsInv, Publish, notifier
<1>10. SeenInv'
    <2>1. /\ published[Detection] \in Nat
          /\ published'[Detection] > 0 /\ published'[Detection] \in Nat
        BY <1>1, <1>2, EventsAssumption DEF IInv, SInv, StreamTypeOK, Numbers
    <2>2. \A j \in Ingests : seen[j] \in Nat /\ seen[j] <= published[Detection]
        BY EventsAssumption DEF IInv, DInv, IngestTypes, SeenInv
    <2> QED
        BY <1>2, <1>6, <2>1, <2>2 DEF IInv, DInv, IngestTypes, SeenInv, Publish, Goto
<1> QED
    BY <1>2, <1>3, <1>7, <1>8, <1>9, <1>10 DEF IInv, DInv

\* The tail of what there is to do asks for no other requests.
LEMMA TailKeeps ==
    ASSUME IInv, NEW i \in Ingests, todo[i] # <<>>
    PROVE  /\ Head(todo[i]) \in AlertChannels
           /\ Tail(todo[i]) \in Seq(AlertChannels)
           /\ Head(todo[i]) # "realtime" => Call(i, Head(todo[i])) \in Requests
           /\ \A n \in DOMAIN Tail(todo[i]) :
                 Tail(todo[i])[n] # "realtime" => Call(i, Tail(todo[i])[n]) \in Requests
<1> DEFINE q == todo[i]
           t == Tail(todo[i])
<1>1. q \in Seq(AlertChannels) /\ q # <<>>
    BY DEF IInv, DInv, IngestTypes
<1>2. /\ Head(q) \in AlertChannels /\ t \in Seq(AlertChannels)
      /\ Len(t) = Len(q) - 1 /\ Head(q) = q[1]
      /\ \A n \in 1 .. Len(t) : t[n] = q[n + 1]
    BY <1>1, HeadTailProperties
<1>3. /\ Len(q) \in Nat \ {0} /\ DOMAIN q = 1 .. Len(q)
      /\ DOMAIN t = 1 .. Len(t)
    BY <1>1, <1>2, LenProperties, EmptySeq
<1>4. \A n \in DOMAIN q : q[n] # "realtime" => Call(i, q[n]) \in Requests
    BY DEF IInv, DInv, TodoInv
<1> HIDE DEF q, t
<1>5. 1 \in DOMAIN q /\ \A n \in DOMAIN t : n + 1 \in DOMAIN q /\ t[n] = q[n + 1]
    BY <1>2, <1>3
<1>6. \A n \in DOMAIN t : t[n] # "realtime" => Call(i, t[n]) \in Requests
    BY <1>4, <1>5
<1> QED
    BY <1>2, <1>4, <1>5, <1>6 DEF q, t

LEMMA IngestPosts ==
    ASSUME IInv, NEW i \in Ingests, PostChannel(i)
    PROVE  IInv'
<1> DEFINE ch == Head(todo[i])
<1>1. /\ ch \in AlertChannels /\ Tail(todo[i]) \in Seq(AlertChannels)
      /\ ch # "realtime" => Call(i, ch) \in Requests
      /\ \A n \in DOMAIN Tail(todo[i]) :
            Tail(todo[i])[n] # "realtime" => Call(i, Tail(todo[i])[n]) \in Requests
    BY TailKeeps DEF PostChannel
<1>2. SInv' /\ UNCHANGED <<stream, results, seen>>
    BY StreamStays DEF IInv, PostChannel
<1>3. CASE ch = "realtime"
    <2>1. todo' = [todo EXCEPT ![i] = Tail(todo[i])] /\ UNCHANGED <<notifier, pc>>
        BY <1>3 DEF PostChannel
    <2>2. NInv'
        BY <2>1, NotifierStays DEF IInv
    <2>3. IngestTypes'
        BY <1>1, <1>2, <2>1 DEF IInv, DInv, IngestTypes
    <2>4. TodoInv'
        BY <1>1, <2>1 DEF IInv, DInv, IngestTypes, TodoInv, PostChannel
    <2>5. ResultsInv' /\ SeenInv'
        BY <1>2, <2>1 DEF IInv, DInv, ResultsInv, SeenInv, notifier, stream
    <2> QED
        BY <1>2, <2>2, <2>3, <2>4, <2>5 DEF IInv, DInv
<1>4. CASE ch # "realtime"
    <2>1. /\ dispatch(Call(i, ch), [channel |-> ch, target |-> FALSE])
          /\ pc' = [pc EXCEPT ![i] = "calling"] /\ todo' = todo
        BY <1>4 DEF PostChannel, Goto
    <2>2. [channel |-> ch, target |-> FALSE] \in Items
        BY <1>1 DEF Items
    <2>3. NInv' /\ Lasts
        BY <1>1, <1>4, <2>1, <2>2, DispatchKeeps DEF IInv
    <2>4. IngestTypes'
        BY <1>2, <2>1 DEF IInv, DInv, IngestTypes
    <2>5. TodoInv'
        BY <1>4, <2>1 DEF IInv, DInv, IngestTypes, TodoInv, PostChannel
    <2>6. ResultsInv'
        BY <1>2, <2>3 DEF IInv, DInv, ResultsInv, Lasts, Finished
    <2>7. SeenInv'
        BY <1>2, <2>1 DEF IInv, DInv, IngestTypes, SeenInv, PostChannel, stream
    <2> QED
        BY <1>2, <2>3, <2>4, <2>5, <2>6, <2>7 DEF IInv, DInv
<1> QED
    BY <1>3, <1>4

LEMMA IngestNotes ==
    ASSUME IInv, NEW i \in Ingests, pc[i] \in {"dispatching", "calling"},
           NEW ch \in AlertChannels \cup {"*"}, NEW success \in BOOLEAN,
           NEW rest \in Seq(AlertChannels), Note(i, ch, success, rest),
           \A n \in DOMAIN rest : rest[n] # "realtime" => Call(i, rest[n]) \in Requests,
           success => Call(i, ch) \in Requests /\ job[Call(i, ch)] = "sent"
    PROVE  IInv'
<1> DEFINE e == [channel |-> ch, success |-> success]
<1>2. SInv' /\ NInv' /\ UNCHANGED <<stream, notifier, seen>>
    BY StreamStays, NotifierStays DEF IInv, Note
<1>3. /\ todo' = [todo EXCEPT ![i] = rest]
      /\ results' = [results EXCEPT ![i] = Append(results[i], e)]
      /\ pc' = [pc EXCEPT ![i] = "dispatching"]
    BY DEF Note, Goto
<1>4. e \in Result /\ results[i] \in Seq(Result)
    BY DEF IInv, DInv, IngestTypes, Result
<1>5. /\ Append(results[i], e) \in Seq(Result)
      /\ Len(Append(results[i], e)) = Len(results[i]) + 1
      /\ \A n \in 1 .. Len(results[i]) : Append(results[i], e)[n] = results[i][n]
      /\ Append(results[i], e)[Len(results[i]) + 1] = e
    BY <1>4, AppendProperties
<1>6. IngestTypes'
    BY <1>2, <1>3, <1>5 DEF IInv, DInv, IngestTypes
<1>7. TodoInv'
    BY <1>3 DEF IInv, DInv, IngestTypes, TodoInv
<1>8. ASSUME NEW j \in Ingests, NEW n \in DOMAIN results'[j], results'[j][n].success
      PROVE  /\ Call(j, results'[j][n].channel) \in Requests
             /\ job[Call(j, results'[j][n].channel)] = "sent"
    <2>1. CASE j # i
        <3>1. results'[j] = results[j]
            BY <1>3, <2>1 DEF IInv, DInv, IngestTypes
        <3> QED
            BY <1>8, <3>1 DEF IInv, DInv, ResultsInv
    <2>2. CASE j = i
        <3>1. results'[i] = Append(results[i], e)
            BY <1>3 DEF IInv, DInv, IngestTypes
        <3>2. /\ DOMAIN results'[i] = 1 .. Len(results[i]) + 1
              /\ DOMAIN results[i] = 1 .. Len(results[i]) /\ Len(results[i]) \in Nat
            BY <1>4, <1>5, <3>1, LenProperties
        <3>3. CASE n \in DOMAIN results[i]
            <4>1. results'[i][n] = results[i][n]
                BY <1>5, <3>1, <3>2, <3>3
            <4> QED
                BY <1>8, <2>2, <3>3, <4>1 DEF IInv, DInv, ResultsInv
        <3>4. CASE n = Len(results[i]) + 1
            <4>1. results'[i][n] = e
                BY <1>5, <3>1, <3>4
            <4> QED
                BY <1>8, <2>2, <4>1
        <3> QED
            BY <2>2, <3>2, <3>3, <3>4
    <2> QED
        BY <2>1, <2>2
<1>9. ResultsInv'
    BY <1>2, <1>8 DEF ResultsInv, notifier
<1>10. SeenInv'
    BY <1>2, <1>3 DEF IInv, DInv, IngestTypes, SeenInv, stream
<1> QED
    BY <1>2, <1>6, <1>7, <1>9, <1>10 DEF IInv, DInv

LEMMA IngestRecords ==
    ASSUME IInv, NEW i \in Ingests, NEW success \in BOOLEAN, Record(i, success),
           todo[i] # <<>>, Head(todo[i]) # "realtime",
           pc[i] \in {"dispatching", "calling"},
           success => job[Call(i, Head(todo[i]))] = "sent"
    PROVE  IInv'
    BY TailKeeps, IngestNotes DEF Record

LEMMA IngestBreaks ==
    ASSUME IInv, NEW i \in Ingests, BreakDispatch(i)
    PROVE  IInv'
<1>1. Note(i, "*", FALSE, <<>>) /\ pc[i] \in {"dispatching", "calling"}
    BY DEF BreakDispatch
<1>2. <<>> \in Seq(AlertChannels) /\ DOMAIN <<>> = {}
    OBVIOUS
<1> QED
    BY <1>1, <1>2, IngestNotes

----------------------------------------------------------------------------
(* The invariant *)

LEMMA InitInv == Init => IInv
<1> SUFFICES ASSUME Init PROVE IInv
    OBVIOUS
<1>1. StreamTypeOK /\ PumpInv
    BY EventsAssumption DEF Init, StreamInit, StreamTypeOK, PumpInv, Pumps
<1>2. NoGap
    BY DEF Init, StreamInit, NoGap, Subscribed
<1>3. NotifierTypeOK /\ JobInv /\ SentOnce
    BY DEF Init, NotifierInit, NotifierTypeOK, JobInv, SentOnce, NoAnswer
<1>4. BatchInv /\ BulkAddsUp
    BY FS_EmptySet DEF Init, NotifierInit, BatchInv, BulkAddsUp
<1>5. IngestTypes
    BY EventsAssumption DEF Init, IngestTypes
<1>6. TodoInv /\ ResultsInv
    BY DEF Init, TodoInv, ResultsInv
<1>7. SeenInv
    BY ChannelsAssumption DEF Init, StreamInit, SeenInv
<1> QED
    BY <1>1, <1>2, <1>3, <1>4, <1>5, <1>6, <1>7 DEF IInv, SInv, NInv, DInv

LEMMA PublishedGrows ==
    ASSUME IInv, SInv', published' = published
    PROVE  published'[Detection] >= published[Detection] /\ published'[Detection] \in Nat
<1>1. published[Detection] \in Nat
    BY ChannelsAssumption, EventsAssumption DEF IInv, SInv, StreamTypeOK
<1> QED
    BY <1>1

LEMMA InvariantStep == IInv /\ [Next]_vars => IInv'
<1> SUFFICES ASSUME IInv, [Next]_vars PROVE IInv'
    OBVIOUS
<1>1. ASSUME NEW i \in Ingests,
             Insert(i) \/ EndDispatch(i) \/ Commit(i) \/ Rollback(i)
      PROVE  IInv'
    <2>1. UNCHANGED <<stream, notifier, todo, results, seen>>
        BY <1>1 DEF Insert, EndDispatch, Commit, Rollback
    <2>2. DInv'
        BY <1>1, <2>1, GotoKeeps DEF Insert, EndDispatch, Commit, Rollback
    <2> QED
        BY <2>1, <2>2, StreamStays, NotifierStays DEF IInv
<1>2. ASSUME NEW i \in Ingests, Publish(i) PROVE IInv'
    BY <1>2, IngestPublishes
<1>3. ASSUME NEW i \in Ingests, PostChannel(i) PROVE IInv'
    BY <1>3, IngestPosts
<1>4. ASSUME NEW i \in Ingests, Answered(i) \/ TimesOut(i) PROVE IInv'
    <2>1. /\ pc[i] = "calling" /\ todo[i] # <<>> /\ Head(todo[i]) # "realtime"
        BY <1>4 DEF IInv, DInv, TodoInv, Answered, TimesOut
    <2>2. PICK success \in BOOLEAN :
              /\ Record(i, success)
              /\ success => job[Call(i, Head(todo[i]))] = "sent"
        BY <1>4 DEF Answered, TimesOut
    <2> QED
        BY <2>1, <2>2, IngestRecords
<1>5. ASSUME NEW i \in Ingests, Unreachable(i) PROVE IInv'
    BY <1>5, IngestRecords DEF Unreachable
<1>12. ASSUME NEW i \in Ingests, BreakDispatch(i) PROVE IInv'
    BY <1>12, IngestBreaks
<1>6. CASE OtherPublish
    <2>1. SInv' /\ published'[Detection] = published[Detection] + 1
                /\ published'[Detection] \in Numbers
        BY <1>6, ChannelsAssumption, PublishKeeps DEF IInv, OtherPublish
    <2>2. NInv' /\ Lasts
        BY <1>6, NotifierStays DEF IInv, OtherPublish
    <2>3. published[Detection] \in Nat /\ published'[Detection] \in Nat
        BY <2>1, ChannelsAssumption, EventsAssumption
           DEF IInv, SInv, StreamTypeOK, Numbers
    <2>4. DInv'
        BY <1>6, <2>1, <2>2, <2>3, IngestStays DEF OtherPublish
    <2> QED
        BY <2>1, <2>2, <2>4 DEF IInv
<1>7. ASSUME NEW k \in Sockets, OtherConnect(k) PROVE IInv'
    <2>1. SInv' /\ published' = published
        BY <1>7, ConnectKeeps DEF IInv, OtherConnect
    <2>2. NInv' /\ Lasts
        BY <1>7, NotifierStays DEF IInv, OtherConnect
    <2>3. DInv'
        BY <1>7, <2>1, <2>2, PublishedGrows, IngestStays DEF OtherConnect
    <2> QED
        BY <2>1, <2>2, <2>3 DEF IInv
<1>8. ASSUME NEW b \in Batches, OtherBulk(b) PROVE IInv'
    <2>1. UNCHANGED <<stream, ingest>>
        BY <1>8 DEF OtherBulk
    <2>2. SInv' /\ published' = published
        BY <2>1, StreamStays DEF IInv, stream
    <2>3. NInv' /\ Lasts
        BY <1>8, BulkKeeps DEF IInv, OtherBulk
    <2>4. DInv'
        BY <2>1, <2>2, <2>3, PublishedGrows, IngestStays
    <2> QED
        BY <2>2, <2>3, <2>4 DEF IInv
<1>9. CASE SocketStep /\ UNCHANGED <<notifier, ingest>>
    <2>1. SInv' /\ published' = published
        BY <1>9, SocketKeeps DEF IInv
    <2>2. NInv' /\ Lasts
        BY <1>9, NotifierStays DEF IInv
    <2>3. DInv'
        BY <1>9, <2>1, <2>2, PublishedGrows, IngestStays
    <2> QED
        BY <2>1, <2>2, <2>3 DEF IInv
<1>10. CASE NotifierStep /\ UNCHANGED <<stream, ingest>>
    <2>1. SInv' /\ published' = published
        BY <1>10, StreamStays DEF IInv, stream
    <2>2. NInv' /\ Lasts
        BY <1>10, NotifierKeeps DEF IInv
    <2>3. DInv'
        BY <1>10, <2>1, <2>2, PublishedGrows, IngestStays
    <2> QED
        BY <2>1, <2>2, <2>3 DEF IInv
<1>11. CASE UNCHANGED vars
    <2>1. SInv' /\ published' = published
        BY <1>11, StreamStays DEF IInv, vars, stream
    <2>2. NInv' /\ Lasts
        BY <1>11, NotifierStays DEF IInv, vars
    <2>3. DInv'
        BY <1>11, <2>1, <2>2, PublishedGrows, IngestStays DEF vars
    <2> QED
        BY <2>1, <2>2, <2>3 DEF IInv
<1> QED
    BY <1>1, <1>2, <1>3, <1>4, <1>5, <1>6, <1>7, <1>8, <1>9, <1>10, <1>11,
       <1>12 DEF Next, IngestStep

LEMMA Invariant == Spec => []IInv
    BY InitInv, InvariantStep, PTL DEF Spec

----------------------------------------------------------------------------
(* The theorems *)

\* Sockets, pumps, requests and ingests keep their types.
THEOREM DeliveryTypes == Spec => []TypeOK
<1>1. IInv => TypeOK
    BY DEF IInv, SInv, NInv, DInv, IngestTypes, TypeOK
<1> QED
    BY <1>1, Invariant, PTL

\* event_bus.py: a client gets the messages of a channel in order, each once
\* and without a gap, from its subscription on.
THEOREM NoGapTheorem == Spec => []NoGap
<1>1. IInv => NoGap
    BY DEF IInv, SInv
<1> QED
    BY <1>1, Invariant, PTL

\* The retries of webhook.py never double a message whose delivery was
\* confirmed, and email and Telegram send a message at most once.
THEOREM SentOnceTheorem == Spec => []SentOnce
<1>1. IInv => SentOnce
    BY DEF IInv, NInv
<1> QED
    BY <1>1, Invariant, PTL

\* What the history of alerts calls a success was answered "sent" and, if its
\* channel is enabled, taken by the provider; the answer of a bulk request
\* adds up.
THEOREM ResultsTheorem == Spec => []ResultsAreTrue
<1>1. ASSUME IInv PROVE ResultsAreTrue
    <2>1. ASSUME NEW i \in Ingests, NEW n \in DOMAIN results[i], results[i][n].success
          PROVE  LET r == Call(i, results[i][n].channel)
                 IN  /\ job[r] = "sent"
                     /\ item[r].channel \in Enabled => accepted[r] > 0
        <3> DEFINE r == Call(i, results[i][n].channel)
        <3>1. r \in Requests /\ job[r] = "sent"
            BY <1>1, <2>1 DEF IInv, DInv, ResultsInv
        <3>2. accepted[r] \in 0 .. 3 /\ lost[r] \in 0 .. 3
            BY <1>1, <3>1 DEF IInv, NInv, NotifierTypeOK
        <3>3. item[r].channel \in Enabled => accepted[r] = lost[r] + 1
            BY <1>1, <3>1 DEF IInv, NInv, SentOnce
        <3> QED
            BY <3>1, <3>2, <3>3
    <2> QED
        BY <1>1, <2>1 DEF ResultsAreTrue, IInv, NInv
<1> QED
    BY <1>1, Invariant, PTL

\* A detection that was committed was told, once, to every client that
\* listened when it was published.
THEOREM ToldTheorem == Spec => []CommittedIsTold
<1>1. ASSUME IInv PROVE CommittedIsTold
    <2>1. ASSUME NEW i \in Ingests, pc[i] = "committed" PROVE seen[i] > 0
        BY <1>1, <2>1 DEF IInv, DInv, SeenInv
    <2>2. ASSUME NEW i \in Ingests, NEW k \in Sockets,
                 Subscribed(<<k, Detection>>), since[<<k, Detection>>] < seen[i]
          PROVE  LET told == got[<<k, Detection>>] \o queue[<<k, Detection>>]
                 IN  Cardinality({n \in DOMAIN told : told[n] = seen[i]}) = 1
        <3> DEFINE p == <<k, Detection>>
                   told == got[p] \o queue[p]
        <3>1. p \in Pumps /\ p[2] = Detection
            BY ChannelsAssumption DEF Pumps
        <3>2. /\ \A n \in DOMAIN told : told[n] = since[p] + n
              /\ since[p] + Len(told) = published[Detection]
            BY <1>1, <2>2, <3>1, NoGapFollows DEF IInv, SInv, Follows
        <3>3. got[p] \in Seq(Numbers) /\ queue[p] \in Seq(Numbers)
            BY <1>1, <3>1 DEF IInv, SInv, StreamTypeOK, Numbers
        <3>4. /\ since[p] \in Nat /\ seen[i] \in Nat /\ published[Detection] \in Nat
              /\ seen[i] <= published[Detection]
            BY <1>1, <3>1, ChannelsAssumption, EventsAssumption
               DEF IInv, SInv, DInv, StreamTypeOK, IngestTypes, SeenInv
        <3>5. told \in Seq(Numbers) /\ DOMAIN told = 1 .. Len(told) /\ Len(told) \in Nat
            BY <3>3, ConcatProperties, LenProperties
        <3> HIDE DEF told
        <3>6. since[p] < seen[i]
            BY <2>2
        <3>7. seen[i] - since[p] \in DOMAIN told
            BY <3>2, <3>4, <3>5, <3>6
        <3>8. ASSUME NEW n \in DOMAIN told
              PROVE  told[n] = seen[i] <=> n = seen[i] - since[p]
            <4>1. told[n] = since[p] + n /\ n \in Nat
                BY <3>2, <3>5
            <4> HIDE DEF p
            <4> QED
                BY <3>4, <4>1
        <3>9. {n \in DOMAIN told : told[n] = seen[i]} = {seen[i] - since[p]}
            BY <3>7, <3>8
        <3>10. Cardinality({n \in DOMAIN told : told[n] = seen[i]}) = 1
            BY <3>9, FS_Singleton
        <3> QED
            BY <3>10 DEF told
    <2> QED
        BY <2>1, <2>2 DEF CommittedIsTold
<1> QED
    BY <1>1, Invariant, PTL
=============================================================================
