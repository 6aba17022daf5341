------------------------- MODULE AlertIngestProofs -------------------------
(***************************************************************************)
(* Safety of AlertIngest for every set of requests, rules and bodies.      *)
(*                                                                         *)
(* The argument is ownership: an uncommitted last_fired_at is protected by *)
(* the row lock of the transaction that wrote it, so the committed value   *)
(* it was checked against is still the committed value when it commits.    *)
(***************************************************************************)
EXTENDS AlertIngest, TLAPS

Firing == {"claiming", "waiting", "recording", "dispatching"}

\* A rule that exists has a body, and so has every rule a request has read.
BodiesKnown ==
    /\ \A r \in Rules : status[r] = "live" => config[r] \in RuleConfigs
    /\ \A i \in Ingests : \A r \in todo[i] : seen[i][r] \in RuleConfigs
    /\ \A i \in Ingests : pc[i] \in Firing =>
          /\ cur[i] \in Rules
          /\ now[i] \in Time
          /\ seen[i][cur[i]] \in RuleConfigs

\* A pending claim is protected by the lock of its transaction.
ClaimsLocked ==
    \A i \in Ingests : \A r \in Rules :
        slot[i][r] # NoTime =>
            /\ lock[r] = i
            /\ status[r] = "live"
            /\ \/ pc[i] = "recording" /\ cur[i] = r
               \/ \E e \in inserted[i] : e.rule = r /\ e.at = slot[i][r]

\* What a pending claim at time t with cooldown c was granted for: the
\* committed last_fired_at is more than c before t.
Granted(r, t, c) == last_fired_at[r] # NoTime => last_fired_at[r] + c < t

\* A pending AlertEvent is the only one of its transaction for its rule.
PendingGranted ==
    \A i \in Ingests :
        /\ pc[i] = "recording" =>
              /\ slot[i][cur[i]] = now[i]
              /\ Granted(cur[i], now[i], seen[i][cur[i]].cooldown_seconds)
              /\ \A e \in inserted[i] : e.rule # cur[i]
        /\ \A e \in inserted[i] : /\ slot[i][e.rule] = e.at
                                  /\ Granted(e.rule, e.at, e.cooldown)
        /\ \A e, f \in inserted[i] : e.rule = f.rule => e = f

\* The history of a rule lies before its last_fired_at.
HistoryBefore ==
    \A e \in events : /\ status[e.rule] = "live"
                      /\ last_fired_at[e.rule] # NoTime
                      /\ e.at <= last_fired_at[e.rule]

IInv ==
    /\ TypeOK
    /\ BodiesKnown
    /\ ClaimsLocked
    /\ PendingGranted
    /\ HistoryBefore
    /\ CooldownSpacing
    /\ SlotHasEvent

----------------------------------------------------------------------------

LEMMA NullsApart ==
    /\ \A t \in Time : t # NoTime /\ t \in Int
    /\ \A i \in Ingests : i # NoOne
    /\ \A c \in RuleConfigs : c.cooldown_seconds \in Nat
BY ConfigAssumption, TimeAssumption, NullAssumption DEF Time

\* Nothing has happened yet.
LEMMA InitInv == Init => IInv
<1> SUFFICES ASSUME Init PROVE IInv
    OBVIOUS
<1>1. TypeOK
    BY TimeAssumption DEF Init, TypeOK, Time, NothingSeen, NoSlots, Labels
<1>2. BodiesKnown /\ ClaimsLocked /\ PendingGranted
    BY DEF Init, BodiesKnown, ClaimsLocked, PendingGranted, NoSlots, Firing
<1>3. HistoryBefore /\ CooldownSpacing /\ SlotHasEvent
    BY DEF Init, HistoryBefore, CooldownSpacing, SlotHasEvent
<1> QED
    BY <1>1, <1>2, <1>3 DEF IInv

\* Steps that touch neither the rows nor the pending writes.
LEMMA QuietStep ==
    ASSUME IInv, TypeOK', BodiesKnown',
           UNCHANGED <<db, txn>>,
           \A i \in Ingests :
              pc'[i] = "recording" <=> pc[i] = "recording",
           \A i \in Ingests : pc[i] = "recording" =>
              /\ cur'[i] = cur[i]
              /\ now'[i] = now[i]
              /\ seen'[i] = seen[i]
    PROVE  IInv'
<1> USE DEF IInv, db, txn
<1>1. ClaimsLocked'
    BY DEF ClaimsLocked
<1>2. PendingGranted'
    BY DEF PendingGranted, Granted
<1>3. HistoryBefore' /\ CooldownSpacing' /\ SlotHasEvent'
    BY DEF HistoryBefore, CooldownSpacing, SlotHasEvent
<1> QED
    BY <1>1, <1>2, <1>3

----------------------------------------------------------------------------
(* One lemma per action that writes a row, a lock or a pending write *)

\* The row was locked by nobody and its WHERE holds: the claim is granted.
LEMMA ClaimStep ==
    ASSUME IInv, NEW i \in Ingests, pc[i] \in Firing, TypeOK', BodiesKnown',
           lock[cur[i]] = NoOne,
           SlotIsFree(cur[i], seen[i][cur[i]], now[i]),
           Claim(i),
           UNCHANGED <<clock, status, config, last_fired_at, events, notified,
                       det, todo, seen, channels, inserted>>
    PROVE  IInv'
<1> DEFINE r0 == cur[i]
<1>0. /\ r0 \in Rules
      /\ now[i] \in Int
      /\ now[i] # NoTime
      /\ seen[i][r0].cooldown_seconds \in Nat
      /\ status[r0] = "live"
      /\ \A e \in inserted[i] : e.rule # r0
      /\ \A j \in Ingests : slot[j][r0] = NoTime
      /\ \A j \in Ingests : ~(pc[j] = "recording" /\ cur[j] = r0)
    <2>1. r0 \in Rules /\ now[i] \in Time /\ seen[i][r0] \in RuleConfigs
        BY DEF IInv, BodiesKnown
    <2>2. status[r0] = "live"
        BY DEF SlotIsFree
    <2>3. \A j \in Ingests : slot[j][r0] = NoTime
        BY <2>1, NullsApart DEF IInv, ClaimsLocked
    <2>4. \A e \in inserted[i] : e.rule # r0
        <3> SUFFICES ASSUME NEW e \in inserted[i], e.rule = r0 PROVE FALSE
            OBVIOUS
        <3>1. e.at \in Time /\ slot[i][r0] = e.at
            BY DEF IInv, PendingGranted, TypeOK, EventRow
        <3> QED
            BY <3>1, <2>3, NullsApart
    <2>5. \A j \in Ingests : ~(pc[j] = "recording" /\ cur[j] = r0)
        <3> SUFFICES ASSUME NEW j \in Ingests, pc[j] = "recording", cur[j] = r0
                     PROVE  FALSE
            OBVIOUS
        <3>1. slot[j][r0] = now[j] /\ now[j] \in Time
            BY DEF IInv, PendingGranted, BodiesKnown, Firing
        <3> QED
            BY <3>1, <2>3, NullsApart
    <2> QED
        BY <2>1, <2>2, <2>3, <2>4, <2>5, NullsApart
<1>1. /\ slot' = [slot EXCEPT ![i][r0] = now[i]]
      /\ lock' = [lock EXCEPT ![r0] = i]
      /\ pc' = [pc EXCEPT ![i] = "recording"]
      /\ cur' = cur /\ now' = now
    BY DEF Claim, Goto
<1>2. Granted(r0, now[i], seen[i][r0].cooldown_seconds)
    BY <1>0, NullsApart DEF SlotIsFree, Granted, IInv, TypeOK
<1>3. ClaimsLocked'
    BY <1>0, <1>1 DEF IInv, ClaimsLocked, TypeOK
<1>4. PendingGranted'
    <2> SUFFICES ASSUME NEW j \in Ingests
        PROVE /\ pc'[j] = "recording" =>
                    /\ slot'[j][cur[j]] = now[j]
                    /\ Granted(cur[j], now[j], seen[j][cur[j]].cooldown_seconds)
                    /\ \A e \in inserted[j] : e.rule # cur[j]
              /\ \A e \in inserted[j] : /\ slot'[j][e.rule] = e.at
                                        /\ Granted(e.rule, e.at, e.cooldown)
              /\ \A e, f \in inserted[j] : e.rule = f.rule => e = f
        BY <1>1 DEF PendingGranted, Granted
    <2>1. CASE j = i
        BY <2>1, <1>0, <1>1, <1>2 DEF IInv, PendingGranted, TypeOK, EventRow
    <2>2. CASE j # i
        BY <2>2, <1>1 DEF IInv, PendingGranted, TypeOK
    <2> QED
        BY <2>1, <2>2
<1>5. HistoryBefore' /\ CooldownSpacing' /\ SlotHasEvent'
    BY DEF IInv, HistoryBefore, CooldownSpacing, SlotHasEvent
<1> QED
    BY <1>3, <1>4, <1>5 DEF IInv

\* The row lock is taken, or not, without a claim.
LEMMA RefuseStep ==
    ASSUME IInv, NEW i \in Ingests, pc[i] \in {"claiming", "waiting"},
           TypeOK', BodiesKnown', Refuse(i),
           \/ lock' = lock
           \/ lock[cur[i]] = NoOne /\ lock' = [lock EXCEPT ![cur[i]] = i],
           UNCHANGED <<clock, status, config, last_fired_at, events, notified,
                       det, todo, seen, channels, inserted>>
    PROVE  IInv'
<1>0. /\ slot' = slot
      /\ pc' = [pc EXCEPT ![i] = "evaluating"]
      /\ cur' = [cur EXCEPT ![i] = NoRule]
      /\ now' = [now EXCEPT ![i] = NoTime]
    BY DEF Refuse, Goto
<1>1. ClaimsLocked'
    <2> SUFFICES ASSUME NEW j \in Ingests, NEW r \in Rules, slot[j][r] # NoTime
        PROVE /\ lock'[r] = j
              /\ status[r] = "live"
              /\ \/ pc'[j] = "recording" /\ cur'[j] = r
                 \/ \E e \in inserted[j] : e.rule = r /\ e.at = slot[j][r]
        BY <1>0 DEF ClaimsLocked
    <2>1. /\ lock[r] = j
          /\ status[r] = "live"
          /\ \/ pc[j] = "recording" /\ cur[j] = r
             \/ \E e \in inserted[j] : e.rule = r /\ e.at = slot[j][r]
        BY DEF IInv, ClaimsLocked
    <2>2. lock'[r] = j
        BY <2>1, NullsApart DEF IInv, TypeOK
    <2>3. pc[j] = "recording" => pc'[j] = "recording" /\ cur'[j] = cur[j]
        BY <1>0 DEF IInv, TypeOK
    <2> QED
        BY <2>1, <2>2, <2>3
<1>2. PendingGranted'
    BY <1>0 DEF IInv, PendingGranted, Granted, TypeOK
<1>3. HistoryBefore' /\ CooldownSpacing' /\ SlotHasEvent'
    BY DEF IInv, HistoryBefore, CooldownSpacing, SlotHasEvent
<1> QED
    BY <1>1, <1>2, <1>3 DEF IInv

\* The AlertEvent of the claim joins the pending rows.
LEMMA RecordStep ==
    ASSUME IInv, NEW i \in Ingests, Record(i), TypeOK', BodiesKnown'
    PROVE  IInv'
<1> DEFINE r0 == cur[i]
           ev == Event(r0, i, now[i], seen[i][r0])
<1>0. /\ pc[i] = "recording"
      /\ r0 \in Rules
      /\ inserted' = [inserted EXCEPT ![i] = @ \cup {ev}]
      /\ pc' = [pc EXCEPT ![i] = "dispatching"]
      /\ UNCHANGED <<db, seen, cur, now, slot>>
    BY DEF Record, Goto, IInv, BodiesKnown, Firing
<1>1. /\ ev.rule = r0
      /\ ev.at = now[i]
      /\ ev.cooldown = seen[i][r0].cooldown_seconds
    BY DEF Event
<1>2. ClaimsLocked'
    <2> SUFFICES ASSUME NEW j \in Ingests, NEW r \in Rules, slot[j][r] # NoTime
        PROVE /\ lock[r] = j
              /\ status[r] = "live"
              /\ \/ pc'[j] = "recording" /\ cur[j] = r
                 \/ \E e \in inserted'[j] : e.rule = r /\ e.at = slot[j][r]
        BY <1>0 DEF ClaimsLocked, db
    <2>1. /\ lock[r] = j
          /\ status[r] = "live"
          /\ \/ pc[j] = "recording" /\ cur[j] = r
             \/ \E e \in inserted[j] : e.rule = r /\ e.at = slot[j][r]
        BY DEF IInv, ClaimsLocked
    <2>2. CASE j = i /\ r = r0
        BY <2>1, <2>2, <1>0, <1>1 DEF IInv, PendingGranted, TypeOK
    <2>3. CASE j = i /\ r # r0
        BY <2>1, <2>3, <1>0 DEF IInv, TypeOK
    <2>4. CASE j # i
        BY <2>1, <2>4, <1>0 DEF IInv, TypeOK
    <2> QED
        BY <2>2, <2>3, <2>4
<1>3. PendingGranted'
    <2> SUFFICES ASSUME NEW j \in Ingests
        PROVE /\ pc'[j] = "recording" =>
                    /\ slot[j][cur[j]] = now[j]
                    /\ Granted(cur[j], now[j], seen[j][cur[j]].cooldown_seconds)
                    /\ \A e \in inserted'[j] : e.rule # cur[j]
              /\ \A e \in inserted'[j] : /\ slot[j][e.rule] = e.at
                                         /\ Granted(e.rule, e.at, e.cooldown)
              /\ \A e, f \in inserted'[j] : e.rule = f.rule => e = f
        BY <1>0 DEF PendingGranted, Granted, db
    <2>1. CASE j = i
        <3>1. pc'[i] # "recording" /\ inserted'[i] = inserted[i] \cup {ev}
            BY <1>0 DEF IInv, TypeOK
        <3> QED
            BY <2>1, <3>1, <1>0, <1>1 DEF IInv, PendingGranted
    <2>2. CASE j # i
        BY <2>2, <1>0 DEF IInv, PendingGranted, TypeOK
    <2> QED
        BY <2>1, <2>2
<1>4. HistoryBefore' /\ CooldownSpacing' /\ SlotHasEvent'
    BY <1>0 DEF IInv, HistoryBefore, CooldownSpacing, SlotHasEvent, db
<1> QED
    BY <1>2, <1>3, <1>4 DEF IInv

\* What the end of transaction i leaves to the others.
LEMMA EndLeavesOthers ==
    ASSUME IInv, NEW i \in Ingests, EndTransaction(i), NEW l, Goto(i, l),
           l # "recording", NEW j \in Ingests
    PROVE  /\ pc'[j] = "recording" =>
                 j # i /\ pc[j] = "recording" /\ cur'[j] = cur[j]
                 /\ now'[j] = now[j] /\ seen'[j] = seen[j]
           /\ j = i => slot'[j] = NoSlots /\ inserted'[j] = {}
           /\ j # i => /\ slot'[j] = slot[j]
                       /\ inserted'[j] = inserted[j]
                       /\ pc'[j] = pc[j] /\ cur'[j] = cur[j]
                       /\ \A r \in Rules : lock[r] = j => lock'[r] = j
BY DEF EndTransaction, Goto, IInv, TypeOK

\* Rolling back gives the locks and the pending rows up.
LEMMA AbortStep ==
    ASSUME IInv, NEW i \in Ingests, Abort(i), TypeOK', BodiesKnown'
    PROVE  IInv'
<1>0. /\ EndTransaction(i) /\ Goto(i, "aborted")
      /\ UNCHANGED <<status, last_fired_at, events>>
    BY DEF Abort, EndTransaction
<1>1. ClaimsLocked'
    BY <1>0, EndLeavesOthers DEF IInv, ClaimsLocked, NoSlots
<1>2. PendingGranted'
    BY <1>0, EndLeavesOthers DEF IInv, PendingGranted, Granted, NoSlots
<1>3. HistoryBefore' /\ CooldownSpacing' /\ SlotHasEvent'
    BY <1>0 DEF IInv, HistoryBefore, CooldownSpacing, SlotHasEvent
<1> QED
    BY <1>1, <1>2, <1>3 DEF IInv

\* What a commit does to the rows: the rules it claimed get the time of
\* their new event, which is later than all they had by a cooldown.
LEMMA CommitRows ==
    ASSUME IInv, NEW i \in Ingests, Commit(i)
    PROVE  /\ \A r \in Rules :
                 slot[i][r] = NoTime => last_fired_at'[r] = last_fired_at[r]
           /\ \A r \in Rules : slot[i][r] # NoTime =>
                 \E e \in inserted[i] : e.rule = r /\ e.at = last_fired_at'[r]
           /\ \A e \in inserted[i] :
                 /\ e \in EventRow
                 /\ e.at # NoTime
                 /\ status[e.rule] = "live"
                 /\ last_fired_at'[e.rule] = e.at
                 /\ lock[e.rule] = i
                 /\ \A f \in events : f.rule = e.rule => f.at + e.cooldown < e.at
<1>1. /\ pc[i] = "evaluating"
      /\ last_fired_at' = [r \in Rules |-> IF slot[i][r] = NoTime
                                            THEN last_fired_at[r]
                                            ELSE slot[i][r]]
    BY DEF Commit
<1>2. ASSUME NEW r \in Rules, slot[i][r] # NoTime
      PROVE  \E e \in inserted[i] : e.rule = r /\ e.at = last_fired_at'[r]
    BY <1>1, <1>2 DEF IInv, ClaimsLocked
<1>3. ASSUME NEW e \in inserted[i]
      PROVE  /\ e \in EventRow
             /\ e.at # NoTime
             /\ status[e.rule] = "live"
             /\ last_fired_at'[e.rule] = e.at
             /\ lock[e.rule] = i
             /\ \A f \in events : f.rule = e.rule => f.at + e.cooldown < e.at
    <2>1. e \in EventRow /\ e.rule \in Rules /\ e.at \in Time /\ e.cooldown \in Nat
        BY DEF IInv, TypeOK, EventRow
    <2>2. e.at # NoTime /\ slot[i][e.rule] = e.at
        BY <2>1, NullsApart DEF IInv, PendingGranted
    <2>3. status[e.rule] = "live" /\ lock[e.rule] = i
        BY <2>1, <2>2 DEF IInv, ClaimsLocked
    <2>4. last_fired_at'[e.rule] = e.at
        BY <1>1, <2>1, <2>2
    <2>5. ASSUME NEW f \in events, f.rule = e.rule
          PROVE  f.at + e.cooldown < e.at
        <3>1. /\ last_fired_at[e.rule] # NoTime
              /\ f.at <= last_fired_at[e.rule]
            BY <2>5 DEF IInv, HistoryBefore
        <3>2. last_fired_at[e.rule] + e.cooldown < e.at
            BY <3>1 DEF IInv, PendingGranted, Granted
        <3>3. f.at \in Int /\ last_fired_at[e.rule] \in Int /\ e.at \in Int
            BY <2>1, <3>1, NullsApart DEF IInv, TypeOK, EventRow
        <3> QED
            BY <2>1, <3>1, <3>2, <3>3
    <2> QED
        BY <2>1, <2>2, <2>3, <2>4, <2>5
<1> QED
    BY <1>1, <1>2, <1>3

\* Committing publishes the claims and their events together.
LEMMA CommitStep ==
    ASSUME IInv, NEW i \in Ingests, Commit(i), TypeOK', BodiesKnown'
    PROVE  IInv'
<1>0. /\ EndTransaction(i) /\ Goto(i, "committed")
      /\ status' = status
      /\ events' = events \cup inserted[i]
    BY DEF Commit, EndTransaction
<1>1. ClaimsLocked'
    BY <1>0, EndLeavesOthers DEF IInv, ClaimsLocked, NoSlots
<1>2. PendingGranted'
    <2> SUFFICES ASSUME NEW j \in Ingests
        PROVE /\ pc'[j] = "recording" =>
                    /\ slot'[j][cur'[j]] = now'[j]
                    /\ Granted(cur[j], now[j], seen[j][cur[j]].cooldown_seconds)'
                    /\ \A e \in inserted'[j] : e.rule # cur'[j]
              /\ \A e \in inserted'[j] : /\ slot'[j][e.rule] = e.at
                                         /\ Granted(e.rule, e.at, e.cooldown)'
              /\ \A e, f \in inserted'[j] : e.rule = f.rule => e = f
        BY DEF PendingGranted
    <2>1. CASE j = i
        BY <2>1, <1>0, EndLeavesOthers
    <2>2. CASE j # i
        <3>1. ASSUME NEW r \in Rules, slot[j][r] # NoTime
              PROVE  last_fired_at'[r] = last_fired_at[r]
            BY <2>2, <3>1, CommitRows DEF IInv, ClaimsLocked
        <3>2. \A e \in inserted[j] : e.rule \in Rules /\ slot[j][e.rule] # NoTime
            BY NullsApart DEF IInv, TypeOK, EventRow, PendingGranted
        <3>3. pc[j] = "recording" => cur[j] \in Rules /\ slot[j][cur[j]] # NoTime
            BY NullsApart DEF IInv, BodiesKnown, Firing, PendingGranted
        <3> QED
            BY <2>2, <3>1, <3>2, <3>3, <1>0, EndLeavesOthers
               DEF IInv, PendingGranted, Granted
    <2> QED
        BY <2>1, <2>2
<1>3. HistoryBefore'
    <2> SUFFICES ASSUME NEW e \in events'
        PROVE /\ status[e.rule] = "live"
              /\ last_fired_at'[e.rule] # NoTime
              /\ e.at <= last_fired_at'[e.rule]
        BY <1>0 DEF HistoryBefore
    <2>1. CASE e \in inserted[i]
        <3>1. e.at \in Int
            BY <2>1, NullsApart DEF IInv, TypeOK, EventRow
        <3> QED
            BY <2>1, <3>1, CommitRows
    <2>2. CASE e \in events
        <3>1. /\ status[e.rule] = "live"
              /\ last_fired_at[e.rule] # NoTime
              /\ e.at <= last_fired_at[e.rule]
              /\ e.rule \in Rules /\ e.at \in Int
            BY <2>2, NullsApart DEF IInv, HistoryBefore, TypeOK, EventRow
        <3>2. CASE slot[i][e.rule] = NoTime
            BY <3>1, <3>2, CommitRows
        <3>3. CASE slot[i][e.rule] # NoTime
            <4>1. PICK f \in inserted[i] :
                      f.rule = e.rule /\ f.at = last_fired_at'[e.rule]
                BY <3>1, <3>3, CommitRows
            <4>2. e.at + f.cooldown < f.at /\ f.at # NoTime
                BY <2>2, <4>1, CommitRows
            <4>3. f.at \in Int /\ f.cooldown \in Nat
                BY NullsApart DEF IInv, TypeOK, EventRow
            <4> QED
                BY <3>1, <4>1, <4>2, <4>3
        <3> QED
            BY <3>2, <3>3
    <2> QED
        BY <1>0, <2>1, <2>2
<1>4. CooldownSpacing'
    <2> SUFFICES ASSUME NEW e \in events', NEW f \in events',
                        e.rule = f.rule, e # f
                 PROVE  e.at > f.at + e.cooldown \/ f.at > e.at + f.cooldown
        BY DEF CooldownSpacing
    <2>0. e \in EventRow /\ f \in EventRow
        BY <1>0 DEF IInv, TypeOK
    <2>1. CASE e \in events /\ f \in events
        BY <2>1 DEF IInv, CooldownSpacing
    <2>2. CASE e \in inserted[i] /\ f \in events
        BY <2>0, <2>2, CommitRows, NullsApart DEF EventRow
    <2>3. CASE e \in events /\ f \in inserted[i]
        BY <2>0, <2>3, CommitRows, NullsApart DEF EventRow
    <2>4. CASE e \in inserted[i] /\ f \in inserted[i]
        BY <2>4 DEF IInv, PendingGranted
    <2> QED
        BY <1>0, <2>1, <2>2, <2>3, <2>4
<1>5. SlotHasEvent'
    BY <1>0, CommitRows DEF IInv, SlotHasEvent
<1> QED
    BY <1>1, <1>2, <1>3, <1>4, <1>5 DEF IInv

\* The operators' writes meet no pending claim on their rule.
LEMMA RuleStepInv ==
    ASSUME IInv, NEW r \in Rules, RuleStep(r), TypeOK', BodiesKnown'
    PROVE  IInv'
<1>1. CASE create_rule(r)
    <2>1. /\ UNCHANGED <<last_fired_at, events, lock, local, txn>>
          /\ \A q \in Rules : status[q] = "live" => status'[q] = "live"
        BY <1>1 DEF create_rule, IInv, TypeOK
    <2>2. ClaimsLocked' /\ PendingGranted'
        BY <2>1 DEF IInv, ClaimsLocked, PendingGranted, Granted, local, txn
    <2>3. HistoryBefore'
        BY <2>1 DEF IInv, HistoryBefore, TypeOK, EventRow
    <2>4. CooldownSpacing' /\ SlotHasEvent'
        BY <2>1 DEF IInv, CooldownSpacing, SlotHasEvent
    <2> QED
        BY <2>2, <2>3, <2>4 DEF IInv
<1>2. CASE update_rule(r)
    <2>1. UNCHANGED <<status, last_fired_at, events, lock, local, txn>>
        BY <1>2 DEF update_rule
    <2>2. ClaimsLocked' /\ PendingGranted'
        BY <2>1 DEF IInv, ClaimsLocked, PendingGranted, Granted, local, txn
    <2>3. HistoryBefore' /\ CooldownSpacing' /\ SlotHasEvent'
        BY <2>1 DEF IInv, HistoryBefore, CooldownSpacing, SlotHasEvent
    <2> QED
        BY <2>2, <2>3 DEF IInv
<1>3. CASE delete_rule(r)
    <2>1. /\ status' = [status EXCEPT ![r] = "deleted"]
          /\ last_fired_at' = [last_fired_at EXCEPT ![r] = NoTime]
          /\ events' = {e \in events : e.rule # r}
          /\ lock[r] = NoOne
          /\ UNCHANGED <<lock, local, txn>>
        BY <1>3 DEF delete_rule
    <2>2. \A i \in Ingests : slot[i][r] = NoTime
        BY <2>1, NullsApart DEF IInv, ClaimsLocked
    <2>3. ClaimsLocked'
        BY <2>1, <2>2 DEF IInv, ClaimsLocked, TypeOK, local, txn
    <2>4. PendingGranted'
        BY <2>1 DEF IInv, PendingGranted, Granted, TypeOK, local, txn, EventRow,
                    BodiesKnown, Firing
    <2>5. HistoryBefore'
        BY <2>1 DEF IInv, HistoryBefore, TypeOK, EventRow
    <2>6. CooldownSpacing'
        BY <2>1 DEF IInv, CooldownSpacing
    <2>7. SlotHasEvent'
        BY <2>1 DEF IInv, SlotHasEvent, TypeOK
    <2> QED
        BY <2>3, <2>4, <2>5, <2>6, <2>7 DEF IInv
<1> QED
    BY <1>1, <1>2, <1>3 DEF RuleStep

----------------------------------------------------------------------------
(* Types *)

LEMMA EndTyped ==
    ASSUME TypeOK, BodiesKnown, NEW i \in Ingests, NEW l \in Labels \ Firing,
           Goto(i, l), EndTransaction(i),
           last_fired_at' \in [Rules -> Time \cup {NoTime}],
           events' \subseteq EventRow
    PROVE  TypeOK' /\ BodiesKnown'
<1>1. TypeOK'
    BY DEF TypeOK, Goto, EndTransaction, NoSlots, NothingSeen
<1>2. BodiesKnown'
    BY DEF TypeOK, BodiesKnown, Goto, EndTransaction, Firing
<1> QED
    BY <1>1, <1>2

\* No step of a request leaves the types.
LEMMA IngestTyped ==
    ASSUME TypeOK, BodiesKnown, NEW i \in Ingests,
           \/ Begin(i) \/ IngestStep(i) \/ Rollback(i) \/ DeadlockVictim(i)
    PROVE  TypeOK' /\ BodiesKnown'
<1> USE DEF db, txn, Goto
<1>1. CASE Begin(i)
    BY <1>1 DEF Begin, TypeOK, BodiesKnown, Labels, Firing
<1>2. CASE Publish(i)
    BY <1>2 DEF Publish, TypeOK, BodiesKnown, Labels, Firing
<1>3. CASE ListRules(i)
    <2>1. \A r \in todo'[i] : r \in Rules /\ config[r] \in RuleConfigs
        BY <1>3 DEF ListRules, list_for_camera, TypeOK, BodiesKnown
    <2>2. TypeOK'
        BY <1>3, <2>1 DEF ListRules, TypeOK, Labels
    <2>3. BodiesKnown'
        BY <1>3, <2>1 DEF ListRules, TypeOK, BodiesKnown, Firing
    <2> QED
        BY <2>2, <2>3
<1>4. CASE NextRule(i)
    <2>1. TypeOK'
        BY <1>4 DEF NextRule, TypeOK, Labels
    <2>2. BodiesKnown'
        BY <1>4 DEF NextRule, TypeOK, BodiesKnown, Firing
    <2> QED
        BY <2>1, <2>2
<1>5. CASE TryAcquire(i) \/ Resume(i)
    <2>1. /\ cur[i] \in Rules /\ now[i] \in Time
          /\ seen[i][cur[i]] \in RuleConfigs
          /\ UNCHANGED <<clock, status, config, last_fired_at, events, det,
                         todo, seen, inserted>>
        BY <1>5 DEF TryAcquire, Resume, BodiesKnown, Firing
    <2>2. \/ Claim(i)
          \/ Refuse(i) /\ (lock' = lock \/ lock' = [lock EXCEPT ![cur[i]] = i])
          \/ Goto(i, "waiting") /\ UNCHANGED <<cur, now, slot, lock>>
        BY <1>5 DEF TryAcquire, Resume
    <2>3. TypeOK'
        <3>1. CASE Claim(i)
            <4>1. slot' \in [Ingests -> [Rules -> Time \cup {NoTime}]]
                BY <2>1, <3>1 DEF Claim, TypeOK
            <4>2. lock' \in [Rules -> Ingests \cup {NoOne}]
                BY <3>1 DEF Claim, TypeOK
            <4>3. pc' \in [Ingests -> Labels]
                BY <3>1 DEF Claim, TypeOK, Labels
            <4> QED
                BY <2>1, <3>1, <4>1, <4>2, <4>3 DEF Claim, TypeOK
        <3>2. CASE Refuse(i) /\ (\/ lock' = lock
                                \/ lock' = [lock EXCEPT ![cur[i]] = i])
            BY <2>1, <3>2 DEF Refuse, TypeOK, Labels
        <3>3. CASE Goto(i, "waiting") /\ UNCHANGED <<cur, now, slot, lock>>
            BY <2>1, <3>3 DEF TypeOK, Labels
        <3> QED
            BY <2>2, <3>1, <3>2, <3>3
    <2>4. BodiesKnown'
        BY <2>1, <2>2 DEF Claim, Refuse, TypeOK, BodiesKnown, Firing
    <2> QED
        BY <2>3, <2>4
<1>6. CASE Record(i)
    <2>1. /\ cur[i] \in Rules /\ now[i] \in Time
          /\ seen[i][cur[i]] \in RuleConfigs
        BY <1>6 DEF Record, BodiesKnown, Firing
    <2>2. Event(cur[i], i, now[i], seen[i][cur[i]]) \in EventRow
        BY <2>1, NullsApart DEF Event, EventRow
    <2>3. TypeOK'
        BY <1>6, <2>2 DEF Record, TypeOK, Labels
    <2>4. BodiesKnown'
        BY <1>6 DEF Record, TypeOK, BodiesKnown, Firing
    <2> QED
        BY <2>3, <2>4
<1>7. CASE DispatchChannel(i) \/ BreakDispatch(i)
    BY <1>7 DEF DispatchChannel, BreakDispatch, TypeOK, BodiesKnown
<1>8. CASE EndDispatch(i)
    BY <1>8 DEF EndDispatch, TypeOK, BodiesKnown, Labels, Firing
<1>9. CASE Commit(i)
    <2>1. last_fired_at' \in [Rules -> Time \cup {NoTime}]
        BY <1>9 DEF Commit, TypeOK
    <2>2. events' \subseteq EventRow
        BY <1>9 DEF Commit, TypeOK
    <2>3. "committed" \in Labels \ Firing
        BY DEF Labels, Firing
    <2> QED
        BY <1>9, <2>1, <2>2, <2>3, EndTyped DEF Commit
<1>10. CASE Rollback(i) \/ DeadlockVictim(i)
    <2>1. Abort(i)
        BY <1>10 DEF Rollback, DeadlockVictim
    <2>2. "aborted" \in Labels \ Firing
        BY DEF Labels, Firing
    <2>3. /\ last_fired_at' \in [Rules -> Time \cup {NoTime}]
          /\ events' \subseteq EventRow
        BY <2>1 DEF Abort, TypeOK
    <2> QED
        BY <2>1, <2>2, <2>3, EndTyped DEF Abort
<1> QED
    BY <1>1, <1>2, <1>3, <1>4, <1>5, <1>6, <1>7, <1>8, <1>9, <1>10
       DEF IngestStep

\* Nor does a request of the operators, or the clock.
LEMMA OthersTyped ==
    ASSUME TypeOK, BodiesKnown,
           (\E r \in Rules : RuleStep(r)) \/ Tick \/ UNCHANGED vars
    PROVE  TypeOK' /\ BodiesKnown'
<1> USE DEF db, txn, local
<1>1. ASSUME NEW r \in Rules, create_rule(r) PROVE TypeOK' /\ BodiesKnown'
    BY <1>1 DEF create_rule, TypeOK, BodiesKnown
<1>2. ASSUME NEW r \in Rules, update_rule(r) PROVE TypeOK' /\ BodiesKnown'
    BY <1>2 DEF update_rule, TypeOK, BodiesKnown
<1>3. ASSUME NEW r \in Rules, delete_rule(r) PROVE TypeOK' /\ BodiesKnown'
    BY <1>3 DEF delete_rule, TypeOK, BodiesKnown
<1>4. CASE Tick
    BY <1>4, TimeAssumption DEF Tick, TypeOK, BodiesKnown, Time
<1>5. CASE UNCHANGED vars
    BY <1>5 DEF vars, TypeOK, BodiesKnown
<1> QED
    BY <1>1, <1>2, <1>3, <1>4, <1>5 DEF RuleStep

----------------------------------------------------------------------------
(* The invariant *)

LEMMA NextInv == IInv /\ [Next]_vars => IInv'
<1> SUFFICES ASSUME IInv, [Next]_vars PROVE IInv'
    OBVIOUS
<1>1. TypeOK' /\ BodiesKnown'
    BY IngestTyped, OthersTyped DEF Next, IInv
<1> USE DEF db, txn, Goto
<1>2. ASSUME NEW i \in Ingests,
             \/ Begin(i) \/ Publish(i) \/ ListRules(i) \/ NextRule(i)
             \/ DispatchChannel(i) \/ BreakDispatch(i) \/ EndDispatch(i)
      PROVE  IInv'
    <2>1. UNCHANGED <<db, txn>>
        BY <1>2 DEF Begin, Publish, ListRules, NextRule, DispatchChannel,
                    BreakDispatch, EndDispatch
    <2>2. /\ \A j \in Ingests : pc'[j] = "recording" <=> pc[j] = "recording"
          /\ \A j \in Ingests : pc[j] = "recording" =>
                /\ cur'[j] = cur[j]
                /\ now'[j] = now[j]
                /\ seen'[j] = seen[j]
        BY <1>2 DEF Begin, Publish, ListRules, NextRule, DispatchChannel,
                    BreakDispatch, EndDispatch, IInv, TypeOK
    <2> QED
        BY <1>1, <2>1, <2>2, QuietStep
<1>3. ASSUME NEW i \in Ingests, TryAcquire(i) PROVE IInv'
    <2>1. /\ pc[i] = "claiming"
          /\ UNCHANGED <<clock, status, config, last_fired_at, events,
                         notified, det, todo, seen, channels, inserted>>
        BY <1>3 DEF TryAcquire
    <2>2. CASE /\ SlotIsFree(cur[i], seen[i][cur[i]], now[i])
               /\ lock[cur[i]] = NoOne /\ Claim(i)
        BY <1>1, <2>1, <2>2, ClaimStep DEF Firing
    <2>3. CASE Refuse(i) /\ lock' = lock
        BY <1>1, <2>1, <2>3, RefuseStep
    <2>4. CASE Goto(i, "waiting") /\ UNCHANGED <<cur, now, slot, lock>>
        <3>1. \A j \in Ingests : pc'[j] = "recording" <=> pc[j] = "recording"
            BY <2>1, <2>4 DEF IInv, TypeOK
        <3> QED
            BY <1>1, <2>1, <2>4, <3>1, QuietStep
    <2> QED
        BY <1>3, <2>2, <2>3, <2>4 DEF TryAcquire
<1>4. ASSUME NEW i \in Ingests, Resume(i) PROVE IInv'
    <2>1. /\ pc[i] = "waiting" /\ lock[cur[i]] = NoOne
          /\ UNCHANGED <<clock, status, config, last_fired_at, events,
                         notified, det, todo, seen, channels, inserted>>
        BY <1>4 DEF Resume
    <2>2. CASE SlotIsFree(cur[i], seen[i][cur[i]], now[i]) /\ Claim(i)
        BY <1>1, <2>1, <2>2, ClaimStep DEF Firing
    <2>3. CASE /\ Refuse(i)
               /\ \/ lock' = lock
                  \/ lock' = [lock EXCEPT ![cur[i]] = i]
        BY <1>1, <2>1, <2>3, RefuseStep
    <2> QED
        BY <1>4, <2>2, <2>3 DEF Resume
<1>5. ASSUME NEW i \in Ingests, Record(i) PROVE IInv'
    BY <1>1, <1>5, RecordStep
<1>6. ASSUME NEW i \in Ingests, Commit(i) PROVE IInv'
    BY <1>1, <1>6, CommitStep
<1>7. ASSUME NEW i \in Ingests, Rollback(i) \/ DeadlockVictim(i) PROVE IInv'
    BY <1>1, <1>7, AbortStep DEF Rollback, DeadlockVictim
<1>8. ASSUME NEW r \in Rules, RuleStep(r) PROVE IInv'
    BY <1>1, <1>8, RuleStepInv
<1>9. CASE Tick \/ UNCHANGED vars
    <2>1. UNCHANGED <<db, txn, pc, cur, now, seen>>
        BY <1>9 DEF Tick, vars, local
    <2> QED
        BY <1>1, <2>1, QuietStep
<1> QED
    BY <1>2, <1>3, <1>4, <1>5, <1>6, <1>7, <1>8, <1>9 DEF Next, IngestStep

\* The inductive invariant holds throughout.
THEOREM Invariance == Spec => []IInv
BY InitInv, NextInv, PTL DEF Spec

\* Every variable keeps its type, for every instance.
THEOREM TypeCorrect == Spec => []TypeOK
<1>1. IInv => TypeOK
    BY DEF IInv
<1> QED
    BY <1>1, Invariance, PTL

\* The alert history never holds two events of a rule within a cooldown,
\* for any number of workers, rules and cooldowns.
THEOREM SpacingTheorem == Spec => []CooldownSpacing
<1>1. IInv => CooldownSpacing
    BY DEF IInv
<1> QED
    BY <1>1, Invariance, PTL

\* A rule's cooldown runs only from an event of the history.
THEOREM SlotTheorem == Spec => []SlotHasEvent
<1>1. IInv => SlotHasEvent
    BY DEF IInv
<1> QED
    BY <1>1, Invariance, PTL

\* Neither a committed event nor a pending one refers to a missing rule.
THEOREM OrphanTheorem == Spec => []NoOrphanEvents
<1>1. IInv => NoOrphanEvents
    <2> SUFFICES ASSUME IInv, NEW r \in Rules,
                        \/ \E e \in events : e.rule = r
                        \/ \E i \in Ingests : \E e \in inserted[i] : e.rule = r
                 PROVE  status[r] = "live"
        BY DEF NoOrphanEvents
    <2>1. CASE \E e \in events : e.rule = r
        BY <2>1 DEF IInv, HistoryBefore
    <2>2. CASE \E i \in Ingests : \E e \in inserted[i] : e.rule = r
        <3>1. PICK i \in Ingests : \E f \in inserted[i] : f.rule = r
            BY <2>2
        <3>e. PICK e \in inserted[i] : e.rule = r
            BY <3>1
        <3>2. slot[i][r] = e.at /\ e.at \in Time
            BY <3>e DEF IInv, PendingGranted, TypeOK, EventRow
        <3> QED
            BY <3>2, NullsApart DEF IInv, ClaimsLocked
    <2> QED
        BY <2>1, <2>2
<1> QED
    BY <1>1, Invariance, PTL

----------------------------------------------------------------------------
(* Notifications and the history *)

Fired(i, r, t) ==
    \E e \in inserted[i] : e.rule = r /\ e.detection = i /\ e.at = t

\* A request dispatches for a pending event of its own, and what it handed
\* over stays pending until it ends.
HandedOver ==
    /\ \A i \in Ingests : pc[i] = "dispatching" => Fired(i, cur[i], now[i])
    /\ \A n \in notified :
          /\ n.detection \in Ingests
          /\ n.rule \in Rules
          /\ status[n.rule] # "unborn"
          /\ pc[n.detection] # "idle"
          /\ Running(n.detection) => Fired(n.detection, n.rule, n.at)

NInv == HandedOver /\ NotifiedIsRecorded

\* Steps that keep the notifications, the rows and the pending events.
LEMMA KeepsHandedOver ==
    ASSUME NInv, notified' = notified, status' = status,
           events' = events, inserted' = inserted,
           \A i \in Ingests : pc'[i] = "dispatching" =>
              pc[i] = "dispatching" /\ cur'[i] = cur[i] /\ now'[i] = now[i],
           \A i \in Ingests : Running(i)' => pc[i] = "idle" \/ Running(i),
           \A i \in Ingests : pc'[i] = "idle" => pc[i] = "idle",
           \A i \in Ingests : pc'[i] = "committed" => pc[i] = "committed"
    PROVE  NInv'
BY DEF NInv, HandedOver, NotifiedIsRecorded, Fired, Running

\* The event that is dispatched for was claimed under the rule's lock.
LEMMA DispatchedIsLive ==
    ASSUME IInv, NInv, NEW i \in Ingests, pc[i] = "dispatching"
    PROVE  cur[i] \in Rules /\ status[cur[i]] = "live"
<1>1. PICK e \in inserted[i] : e.rule = cur[i]
    BY DEF NInv, HandedOver, Fired
<1>2. e.rule \in Rules /\ slot[i][e.rule] = e.at /\ e.at \in Time
    BY DEF IInv, PendingGranted, TypeOK, EventRow
<1> QED
    BY <1>1, <1>2, NullsApart DEF IInv, ClaimsLocked

LEMMA NotifiedNext == IInv /\ NInv /\ [Next]_vars => NInv'
<1> SUFFICES ASSUME IInv, NInv, [Next]_vars PROVE NInv'
    OBVIOUS
<1>1. ASSUME NEW i \in Ingests,
             \/ Begin(i) \/ Publish(i) \/ ListRules(i) \/ NextRule(i)
             \/ TryAcquire(i) \/ Resume(i) \/ BreakDispatch(i) \/ EndDispatch(i)
      PROVE  NInv'
    <2>1. /\ notified' = notified /\ status' = status
          /\ events' = events /\ inserted' = inserted
        BY <1>1 DEF Begin, Publish, ListRules, NextRule, TryAcquire, Resume,
                    BreakDispatch, EndDispatch, db, txn
    <2>2. \A j \in Ingests :
              /\ pc'[j] = "dispatching" =>
                    pc[j] = "dispatching" /\ cur'[j] = cur[j] /\ now'[j] = now[j]
              /\ Running(j)' => pc[j] = "idle" \/ Running(j)
              /\ pc'[j] = "idle" => pc[j] = "idle"
              /\ pc'[j] = "committed" => pc[j] = "committed"
        BY <1>1 DEF Begin, Publish, ListRules, NextRule, TryAcquire, Resume,
                    BreakDispatch, EndDispatch, Claim, Refuse, Goto, Running,
                    IInv, TypeOK
    <2> QED
        BY <2>1, <2>2, KeepsHandedOver
<1>2. ASSUME NEW i \in Ingests, Record(i) PROVE NInv'
    <2> DEFINE ev == Event(cur[i], i, now[i], seen[i][cur[i]])
    <2>1. /\ pc[i] = "recording" /\ pc' = [pc EXCEPT ![i] = "dispatching"]
          /\ inserted' = [inserted EXCEPT ![i] = @ \cup {ev}]
          /\ UNCHANGED <<notified, status, events, cur, now>>
        BY <1>2 DEF Record, Goto, db
    <2>2. ev.rule = cur[i] /\ ev.detection = i /\ ev.at = now[i]
        BY DEF Event
    <2>3. ev \in inserted'[i]
        BY <2>1 DEF IInv, TypeOK
    <2>4. Fired(i, cur[i], now[i])'
        BY <2>1, <2>2, <2>3 DEF Fired
    <2>5. \A j \in Ingests : inserted[j] \subseteq inserted'[j]
        BY <2>1 DEF IInv, TypeOK
    <2>6. \A j \in Ingests : j # i => pc'[j] = pc[j]
        BY <2>1 DEF IInv, TypeOK
    <2>7. pc'[i] = "dispatching" /\ Running(i)
        BY <2>1 DEF IInv, TypeOK, Running
    <2>8. HandedOver'
        BY <2>1, <2>4, <2>5, <2>6, <2>7 DEF NInv, HandedOver, Fired, Running
    <2>9. NotifiedIsRecorded'
        BY <2>1, <2>6, <2>7 DEF NInv, HandedOver, NotifiedIsRecorded
    <2> QED
        BY <2>8, <2>9 DEF NInv
<1>3. ASSUME NEW i \in Ingests, DispatchChannel(i) PROVE NInv'
    <2>1. /\ pc[i] = "dispatching" /\ Running(i)
          /\ UNCHANGED <<status, events, inserted, pc, cur, now>>
        BY <1>3 DEF DispatchChannel, db, txn, Running
    <2>2. \A n \in notified' : \/ n \in notified
                               \/ /\ n.rule = cur[i]
                                  /\ n.detection = i
                                  /\ n.at = now[i]
        BY <1>3 DEF DispatchChannel
    <2>3. Fired(i, cur[i], now[i]) /\ cur[i] \in Rules /\ status[cur[i]] = "live"
        BY <2>1, DispatchedIsLive DEF NInv, HandedOver
    <2> QED
        BY <2>1, <2>2, <2>3
           DEF NInv, HandedOver, NotifiedIsRecorded, Fired, Running
<1>4. ASSUME NEW i \in Ingests, Commit(i) \/ Abort(i) PROVE NInv'
    <2> DEFINE l == IF Commit(i) THEN "committed" ELSE "aborted"
    <2>1. /\ pc' = [pc EXCEPT ![i] = l]
          /\ inserted' = [inserted EXCEPT ![i] = {}]
          /\ \A j \in Ingests \ {i} : cur'[j] = cur[j] /\ now'[j] = now[j]
          /\ notified' = notified /\ status' = status
          /\ events \subseteq events'
          /\ Commit(i) => events' = events \cup inserted[i]
        BY <1>4 DEF Commit, Abort, EndTransaction, Goto, IInv, TypeOK
    <2>2. /\ pc'[i] = l
          /\ \A j \in Ingests \ {i} :
                pc'[j] = pc[j] /\ inserted'[j] = inserted[j]
        BY <2>1 DEF IInv, TypeOK
    <2>3. HandedOver'
        BY <2>1, <2>2 DEF NInv, HandedOver, Fired, Running
    <2>4. ASSUME NEW n \in notified, pc'[n.detection] = "committed",
                 status[n.rule] = "live"
          PROVE  \E e \in events' : /\ e.rule = n.rule
                                    /\ e.detection = n.detection
                                    /\ e.at = n.at
        <3>1. n.detection \in Ingests
            BY DEF NInv, HandedOver
        <3>2. CASE n.detection # i
            BY <2>1, <2>2, <2>4, <3>1, <3>2 DEF NInv, NotifiedIsRecorded
        <3>3. CASE n.detection = i
            <4>1. Commit(i)
                BY <2>2, <2>4, <3>3
            <4>2. Running(i)
                BY <4>1 DEF Commit, Running
            <4> QED
                BY <2>1, <3>3, <4>1, <4>2 DEF NInv, HandedOver, Fired
        <3> QED
            BY <3>2, <3>3
    <2> QED
        BY <2>1, <2>3, <2>4 DEF NInv, NotifiedIsRecorded
<1>5. ASSUME NEW r \in Rules, RuleStep(r) PROVE NInv'
    <2>1. UNCHANGED <<notified, pc, cur, now, inserted>>
        BY <1>5 DEF RuleStep, create_rule, update_rule, delete_rule, local, txn
    <2>2. \A q \in Rules : /\ status[q] # "unborn" => status'[q] # "unborn"
                           /\ status[q] # "unborn" /\ status'[q] = "live" =>
                                 status[q] = "live"
        BY <1>5 DEF RuleStep, create_rule, update_rule, delete_rule, IInv, TypeOK
    <2>3. \A e \in events : status'[e.rule] = "live" => e \in events'
        BY <1>5 DEF RuleStep, create_rule, update_rule, delete_rule, IInv, TypeOK
    <2>4. HandedOver'
        BY <2>1, <2>2 DEF NInv, HandedOver, Fired, Running
    <2>5. NotifiedIsRecorded'
        BY <2>1, <2>2, <2>3 DEF NInv, HandedOver, NotifiedIsRecorded
    <2> QED
        BY <2>4, <2>5 DEF NInv
<1>6. CASE Tick \/ UNCHANGED vars
    <2>1. UNCHANGED <<notified, status, events, inserted, pc, cur, now>>
        BY <1>6 DEF Tick, vars, db, local, txn
    <2> QED
        BY <2>1, KeepsHandedOver DEF Running
<1> QED
    BY <1>1, <1>2, <1>3, <1>4, <1>5, <1>6
       DEF Next, IngestStep, Rollback, DeadlockVictim

\* What a committed request has sent out is in the history.
THEOREM NotifiedTheorem == Spec => []NotifiedIsRecorded
<1>1. Init => NInv
    BY DEF Init, NInv, HandedOver, NotifiedIsRecorded
<1>2. NInv => NotifiedIsRecorded
    BY DEF NInv
<1> QED
    BY <1>1, <1>2, NotifiedNext, Invariance, PTL DEF Spec

----------------------------------------------------------------------------
(* Steps *)

\* The only steps that touch last_fired_at or the history.
LEMMA RowsStable ==
    ASSUME NEW i \in Ingests,
           \/ Begin(i) \/ IngestStep(i) \/ Rollback(i) \/ DeadlockVictim(i),
           ~Commit(i)
    PROVE  UNCHANGED <<status, last_fired_at, events>>
BY DEF Begin, IngestStep, Rollback, DeadlockVictim, Publish, ListRules, NextRule,
       TryAcquire, Resume, Record, DispatchChannel, BreakDispatch, EndDispatch,
       Abort, EndTransaction, db

\* A rule's last_fired_at only moves forward while the rule exists.
THEOREM AdvanceTheorem == Spec => LastFiredAdvances
<1> DEFINE Advance ==
        \A r \in Rules :
            last_fired_at[r] # NoTime /\ status'[r] = "live" =>
                /\ last_fired_at'[r] # NoTime
                /\ last_fired_at'[r] >= last_fired_at[r]
<1>1. IInv /\ [Next]_vars => Advance
    <2> SUFFICES ASSUME IInv, [Next]_vars, NEW r \in Rules,
                        last_fired_at[r] # NoTime, status'[r] = "live"
                 PROVE  /\ last_fired_at'[r] # NoTime
                        /\ last_fired_at'[r] >= last_fired_at[r]
        OBVIOUS
    <2>0. last_fired_at[r] \in Int
        BY NullsApart DEF IInv, TypeOK
    <2>1. ASSUME NEW i \in Ingests, Commit(i)
          PROVE  /\ last_fired_at'[r] # NoTime
                 /\ last_fired_at'[r] >= last_fired_at[r]
        <3>1. CASE slot[i][r] = NoTime
            BY <2>0, <2>1, <3>1, CommitRows
        <3>2. CASE slot[i][r] # NoTime
            <4>1. PICK e \in inserted[i] : e.rule = r /\ e.at = last_fired_at'[r]
                BY <2>1, <3>2, CommitRows
            <4>2. /\ e.at \in Int /\ e.at # NoTime /\ e.cooldown \in Nat
                  /\ last_fired_at[r] + e.cooldown < e.at
                BY <4>1, NullsApart
                   DEF IInv, TypeOK, EventRow, PendingGranted, Granted
            <4> QED
                BY <2>0, <4>1, <4>2
        <3> QED
            BY <3>1, <3>2
    <2>2. CASE last_fired_at' = last_fired_at
        BY <2>0, <2>2
    <2>3. ASSUME NEW q \in Rules, delete_rule(q)
          PROVE  last_fired_at'[r] = last_fired_at[r]
        BY <2>3 DEF delete_rule, IInv, TypeOK
    <2> QED
        BY <2>0, <2>1, <2>2, <2>3, RowsStable
           DEF Next, RuleStep, create_rule, update_rule, Tick, vars, db
<1>2. IInv /\ [Next]_vars => [Advance]_vars
    BY <1>1
<1> QED
    BY <1>2, Invariance, PTL DEF Spec, LastFiredAdvances

----------------------------------------------------------------------------
(* The workers implement the gate *)

LEMMA GateInit == Init => Gate!Init
BY DEF Init, Gate!Init, Entries

\* A commit fires the rules of its request, all at once.
LEMMA CommitFires ==
    ASSUME IInv, TypeOK', NEW i \in Ingests, Commit(i)
    PROVE  Gate!Fire
<1> DEFINE E(e) == [rule |-> e.rule, at |-> e.at, cooldown |-> e.cooldown]
           F == Entries' \ Entries
<1>0. status' = status /\ events' = events \cup inserted[i]
    BY DEF Commit, EndTransaction
<1>1. Entries \subseteq Entries'
    BY <1>0 DEF Entries
<1>2. \A x \in F : \E e \in inserted[i] : x = E(e)
    BY <1>0 DEF Entries
<1>3. ASSUME NEW e \in inserted[i] PROVE E(e) \in F
    <2>1. E(e) \in Entries'
        BY <1>0 DEF Entries
    <2>2. ASSUME NEW f \in events, E(f) = E(e) PROVE FALSE
        <3>1. f.rule = e.rule /\ f.at = e.at
            BY <2>2
        <3>2. f.at + e.cooldown < e.at
            BY <3>1, CommitRows
        <3>3. e.at \in Int /\ e.cooldown \in Nat
            BY NullsApart DEF IInv, TypeOK, EventRow
        <3> QED
            BY <3>1, <3>2, <3>3
    <2> QED
        BY <2>1, <2>2 DEF Entries
<1>4. \A x \in F : /\ x \in [rule : Rules, at : Time, cooldown : Nat]
                   /\ status[x.rule] = "live"
                   /\ last_fired_at[x.rule] # NoTime =>
                          x.at > last_fired_at[x.rule] + x.cooldown
    <2> SUFFICES ASSUME NEW e \in inserted[i]
                 PROVE  /\ e.rule \in Rules /\ e.at \in Time /\ e.cooldown \in Nat
                        /\ status[e.rule] = "live"
                        /\ last_fired_at[e.rule] # NoTime =>
                               e.at > last_fired_at[e.rule] + e.cooldown
        BY <1>2
    <2>1. e.rule \in Rules /\ e.at \in Time /\ e.cooldown \in Nat
        BY DEF IInv, TypeOK, EventRow
    <2>2. status[e.rule] = "live"
        BY CommitRows
    <2>3. ASSUME last_fired_at[e.rule] # NoTime
          PROVE  e.at > last_fired_at[e.rule] + e.cooldown
        <3>1. last_fired_at[e.rule] + e.cooldown < e.at
            BY <2>3 DEF IInv, PendingGranted, Granted
        <3> QED
            BY <2>1, <2>3, <3>1, NullsApart DEF IInv, TypeOK
    <2> QED
        BY <2>1, <2>2, <2>3
<1>5. \A x, y \in F : x.rule = y.rule => x = y
    BY <1>2 DEF IInv, PendingGranted
<1>6. ASSUME NEW r \in Rules
      PROVE  IF \E x \in F : x.rule = r
             THEN \E x \in F : x.rule = r /\ last_fired_at'[r] = x.at
             ELSE last_fired_at'[r] = last_fired_at[r]
    <2>1. CASE slot[i][r] = NoTime
        <3>1. ~\E x \in F : x.rule = r
            BY <1>2, <2>1, NullsApart DEF IInv, PendingGranted, TypeOK, EventRow
        <3> QED
            BY <2>1, <3>1, CommitRows
    <2>2. CASE slot[i][r] # NoTime
        <3>1. PICK e \in inserted[i] : e.rule = r /\ e.at = last_fired_at'[r]
            BY <2>2, CommitRows
        <3>2. E(e).rule = r /\ E(e).at = last_fired_at'[r] /\ E(e) \in F
            BY <1>3, <3>1
        <3> QED
            BY <3>2
    <2> QED
        BY <2>1, <2>2
<1> QED
    BY <1>0, <1>1, <1>4, <1>5, <1>6 DEF Gate!Fire, Gate!Entry, Gate!Ready

LEMMA GateNext == IInv /\ TypeOK' /\ [Next]_vars => [Gate!Next]_(Gate!gate)
<1> SUFFICES ASSUME IInv, TypeOK', [Next]_vars
             PROVE  Gate!Next \/ UNCHANGED Gate!gate
    OBVIOUS
<1>1. ASSUME NEW i \in Ingests, Commit(i) PROVE Gate!Next
    BY <1>1, CommitFires DEF Gate!Next
<1>2. CASE UNCHANGED <<status, last_fired_at, events>>
    BY <1>2 DEF Gate!gate, Entries
<1>3. ASSUME NEW r \in Rules, create_rule(r) PROVE Gate!Next
    <2>1. /\ r \notin {q \in Rules : status[q] = "live"}
          /\ {q \in Rules : status'[q] = "live"} =
                {q \in Rules : status[q] = "live"} \cup {r}
          /\ UNCHANGED <<last_fired_at, events>>
        BY <1>3 DEF create_rule, IInv, TypeOK
    <2>2. Entries' = Entries
        BY <2>1 DEF Entries
    <2>3. Gate!Create
        BY <2>1, <2>2 DEF Gate!Create
    <2> QED
        BY <2>3 DEF Gate!Next
<1>4. ASSUME NEW r \in Rules, delete_rule(r) PROVE Gate!Next
    <2>1. /\ r \in {q \in Rules : status[q] = "live"}
          /\ {q \in Rules : status'[q] = "live"} =
                {q \in Rules : status[q] = "live"} \ {r}
          /\ last_fired_at' = [last_fired_at EXCEPT ![r] = NoTime]
          /\ events' = {e \in events : e.rule # r}
        BY <1>4 DEF delete_rule, IInv, TypeOK
    <2>2. Entries' = {x \in Entries : x.rule # r}
        BY <2>1 DEF Entries
    <2>3. Gate!Delete
        BY <2>1, <2>2 DEF Gate!Delete
    <2> QED
        BY <2>3 DEF Gate!Next
<1>5. ASSUME NEW r \in Rules, update_rule(r)
      PROVE  UNCHANGED <<status, last_fired_at, events>>
    BY <1>5 DEF update_rule
<1> QED
    BY <1>1, <1>2, <1>3, <1>4, <1>5, RowsStable
       DEF Next, RuleStep, Tick, vars, db

\* Interleaved transactions with row locks behave as the atomic gate.
THEOREM GateTheorem == Spec => ImplementsGate
<1>1. IInv => TypeOK
    BY DEF IInv
<1> QED
    BY <1>1, GateInit, GateNext, Invariance, PTL
       DEF Spec, ImplementsGate, Gate!Spec

=============================================================================
