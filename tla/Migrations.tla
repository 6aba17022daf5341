------------------------------ MODULE Migrations ------------------------------
(***************************************************************************)
(* Who applies the revisions of the database schema: every container of    *)
(* the backend upgrades the schema before it serves, with five attempts;   *)
(* an operator upgrades once more, or downgrades.  All the revisions of a  *)
(* command are one transaction.  The revisions themselves are parameters;  *)
(* those of the repository are in AlembicVersions.                         *)
(***************************************************************************)
EXTENDS Integers, FiniteSets, SequencesExt

CONSTANTS
    Revisions,      \* of the schema, each with its upgrade and its downgrade
    Uses,           \* <<x, y>>: object x of the schema cannot be without y
    Singletons,     \* the seeded tables that hold one row at most
    Containers,     \* those of docker/backend: backend and backend-worker
    Operators,      \* shells that run alembic: scripts/bootstrap.sh, people
    Goals,          \* the versions that operators ask for
    MaxCommands,    \* bound of the commands of operators
    MaxTroubles,    \* bound of lost connections and killed processes
    NoOne

head == Len(Revisions)

\* What the upgrades to a version consist of, what objects they create, and
\* which tables they write rows into.
Statements(version) == UNION {ToSet(Revisions[v].upgrade) : v \in 1 .. version}
ObjectsOf == [version \in 0 .. head |->
    {s[2] : s \in {t \in Statements(version) : t[1] # "seed"}}]
Seeded == {s[2] : s \in {t \in Statements(head) : t[1] = "seed"}}
SeededBy(v, table) == <<"seed", table>> \in ToSet(Revisions[v].upgrade)
SeedVersion == [table \in Seeded |-> CHOOSE v \in 1 .. head : SeededBy(v, table)]

\* 0002_tuya_integration.py: "The 'tuya' value is left behind on downgrade":
\* PostgreSQL has no way to drop a value of an enum type without the type.
LeftBehind == [version \in 0 .. head |->
    {x \in ObjectsOf[head] \ ObjectsOf[version] :
        Len(x) = 3 /\ x[1] = "enum" /\ Front(x) \in ObjectsOf[version]}]

\* Everything above an object, and everything it uses, is there.
MayCreate(o, objects) ==
    /\ \A n \in 1 .. Len(o) - 1 :
          SubSeq(o, 1, n) \in objects \/ SubSeq(o, 1, n) = <<"enum">>
    /\ \A u \in Uses : u[1] = o => u[2] \in objects

\* Nothing else uses it, or a part of it.
MayDrop(o, objects) ==
    \A u \in Uses : u[1] \in objects /\ IsPrefix(o, u[2]) => IsPrefix(o, u[1])

----------------------------------------------------------------------------
(* What a revision has to be like *)

\* The objects that n statements of the upgrade to v lead to, and those of v
\* that n statements of the downgrade from v leave.
Created(v, n) ==
    ObjectsOf[v - 1] \cup
        {Revisions[v].upgrade[k][2] : k \in {k \in 1 .. n : Revisions[v].upgrade[k][1] # "seed"}}
Kept(v, n) ==
    {x \in ObjectsOf[v] : \A k \in 1 .. n : ~IsPrefix(Revisions[v].downgrade[k][2], x)}

\* Every statement of an upgrade finds what it needs.
Applicable(v) ==
    \A k \in DOMAIN Revisions[v].upgrade :
        LET statement == Revisions[v].upgrade[k]
            verb == statement[1]
            o == statement[2]
            there == Created(v, k - 1)
        IN  /\ verb = "create" => o \notin there
            /\ verb = "seed" => o \in there /\ \A j \in 1 .. k - 1 :
                                                 Revisions[v].upgrade[j] # statement
            /\ verb # "seed" => MayCreate(o, there)

\* A downgrade drops what is there, and is there because of its upgrade; and
\* all of that but values of types that stay.
Reversible(v) ==
    /\ \A k \in DOMAIN Revisions[v].downgrade :
          /\ Revisions[v].downgrade[k][2] \in Kept(v, k - 1)
          /\ \A x \in ObjectsOf[v - 1] : ~IsPrefix(Revisions[v].downgrade[k][2], x)
    /\ \A x \in ObjectsOf[v] \cup LeftBehind[v] :
          \/ x \in ObjectsOf[v - 1] \cup LeftBehind[v - 1]
          \/ \E k \in DOMAIN Revisions[v].downgrade :
                IsPrefix(Revisions[v].downgrade[k][2], x)

\* TLC evaluates this for the revisions of the repository.
ASSUME RevisionsAssumption ==
    /\ Revisions \in Seq([upgrade : Seq({"create", "ensure", "seed"} \X Seq(STRING)),
                          downgrade : Seq({"drop", "discard"} \X Seq(STRING))])
    /\ \A v \in 1 .. head : Applicable(v) /\ Reversible(v)
    /\ \A table \in Seeded : \A v, w \in 1 .. head :
          SeededBy(v, table) /\ SeededBy(w, table) => v = w
    /\ Singletons \subseteq Seeded
    /\ \A table \in Singletons :
          \E k \in DOMAIN Revisions[SeedVersion[table]].downgrade :
             Revisions[SeedVersion[table]].downgrade[k][2] = table

ASSUME MigrationsAssumption ==
    /\ Goals \subseteq 0 .. head
    /\ MaxCommands \in Nat /\ MaxTroubles \in Nat
    /\ Containers \cap Operators = {} /\ NoOne \notin Containers \cup Operators

----------------------------------------------------------------------------
(* What a statement does *)

NoRows == [t \in Seeded |-> 0]

Create(s, o) == [s EXCEPT !.objects = @ \cup {o}]

\* Parts and rows go with a table, values with a type.
Drop(s, o) == [s EXCEPT !.objects = {x \in @ : ~IsPrefix(o, x)},
                        !.rows = [t \in Seeded |-> IF o = t THEN 0 ELSE @[t]]]

\* Mutant: an UPDATE of the row with id 1, which is not there.
Update(s, t) == IF t \in Singletons THEN s ELSE [s EXCEPT !.rows[t] = @ + 1]

\* ON CONFLICT (id) DO NOTHING keeps the one row of a singleton; the ids of
\* the default rules are new every time and conflict with nothing.
Seed(s, t) == [s EXCEPT !.rows[t] = IF t \in Singletons THEN 1 ELSE @ + 1]

\* What a statement leads to: nothing, its effect, or an exception.
Effect(s, verb, o) ==
    LET there == o \in s.objects
    IN  CASE verb = "ensure" /\ there -> s
          [] verb = "discard" /\ ~there -> s
          [] verb \in {"create", "ensure"} /\ ~there /\ MayCreate(o, s.objects) ->
                Create(s, o)
          [] verb \in {"drop", "discard"} /\ there /\ MayDrop(o, s.objects) ->
                Drop(s, o)
          [] verb = "seed" /\ there -> Seed(s, o)
          [] OTHER -> [s EXCEPT !.ok = FALSE]

\* After an exception nothing is done any more. (The sets are there for TLC,
\* which evaluates what is in them once this way.)
Execute(before, statement) ==
    CHOOSE after \in {IF s.ok THEN Effect(s, t[1], t[2]) ELSE s :
                         s \in {before}, t \in {statement}} : TRUE

Empty == [ok |-> TRUE, version |-> 0, objects |-> {}, rows |-> NoRows]

\* What the first n statements of a list lead to.
After(s, statements) ==
    LET after[n \in 0 .. Len(statements)] ==
            IF n = 0 THEN s ELSE Execute(after[n - 1], statements[n])
    IN  after

\* A revision, up or down, and alembic's UPDATE of its version, which has to
\* match the row of the version it comes from.
Migrate(s, from, to) ==
    LET statements == IF to > from THEN Revisions[to].upgrade
                                   ELSE Revisions[from].downgrade
        done == After(s, statements)[Len(statements)]
    IN  [ok |-> done.ok /\ s.version = from, version |-> to,
         objects |-> done.objects, rows |-> done.rows]

----------------------------------------------------------------------------
VARIABLES
    schema,     \* what is committed
    holder,     \* the process whose transaction has changed something
    tx,         \* the schema that this transaction sees, Empty without one
    phase,      \* of a process: "down", "starting", "migrating", "serving" or
                \*     "aborted"
    at,         \* ... the version it believes the schema has
    goal,       \* ... the version it is to reach
    attempts,   \* ... how often alembic has failed since its start
    commands,   \* the number of commands of operators
    troubles,   \* the number of connections lost and processes killed
    downgraded  \* has a downgrade been committed?

database == <<schema, holder, tx, downgraded>>
process == <<phase, at, goal, attempts>>
bounds == <<commands, troubles>>
vars == <<database, process, bounds>>

Processes == Containers \cup Operators

Init ==
    /\ schema = Empty
    /\ holder = NoOne
    /\ tx = Empty
    /\ phase = [p \in Processes |-> "down"]
    /\ at = [p \in Processes |-> 0]
    /\ goal = [p \in Processes |-> head]
    /\ attempts = [p \in Processes |-> 0]
    /\ commands = 0
    /\ troubles = 0
    /\ downgraded = FALSE

Goto(p, l) == phase' = [phase EXCEPT ![p] = l]

\* `restart: unless-stopped`: a container that ended is started again.
Start(c) ==
    /\ phase[c] \in {"down", "aborted"}
    /\ Goto(c, "starting")
    /\ UNCHANGED <<database, at, goal, attempts, bounds>>

\* ... with SKIP_MIGRATIONS=1.
StartAsIs(c) ==
    /\ phase[c] = "down"
    /\ Goto(c, "serving")
    /\ UNCHANGED <<database, at, goal, attempts, bounds>>

\* An operator runs `alembic upgrade head`, or `alembic downgrade`.
Command(o) ==
    /\ phase[o] = "down"
    /\ commands < MaxCommands
    /\ commands' = commands + 1
    /\ \E v \in Goals : goal' = [goal EXCEPT ![o] = v]
    /\ Goto(o, "starting")
    /\ UNCHANGED <<database, at, attempts, troubles>>

\* An alembic ends; what its transaction did and did not commit is undone.
End(p) ==
    /\ at' = [at EXCEPT ![p] = 0]
    /\ goal' = [goal EXCEPT ![p] = IF phase'[p] = "starting" THEN @ ELSE head]
    /\ IF holder = p
       THEN holder' = NoOne /\ tx' = Empty
       ELSE UNCHANGED <<holder, tx>>

\* What follows a command that was successful: exec "$@".
Succeed(p) ==
    /\ Goto(p, IF p \in Containers THEN "serving" ELSE "down")
    /\ attempts' = [attempts EXCEPT ![p] = 0]
    /\ End(p)

\* Mutant: a second failure is taken for the last.
FailTwice(p) ==
    /\ LET last == p \in Operators \/ attempts[p] + 1 >= 2
       IN  /\ attempts' = [attempts EXCEPT ![p] = IF last THEN 0 ELSE @ + 1]
           /\ Goto(p, IF p \in Operators THEN "down"
                      ELSE IF last THEN "aborted" ELSE "starting")
    /\ End(p)

\* Mutant: one attempt too many.
FailSixTimes(p) ==
    /\ LET last == p \in Operators \/ attempts[p] + 1 > 5
       IN  /\ attempts' = [attempts EXCEPT ![p] = IF last THEN 0 ELSE @ + 1]
           /\ Goto(p, IF p \in Operators THEN "down"
                      ELSE IF last THEN "aborted" ELSE "starting")
    /\ End(p)

\* alembic fails: a container waits for 2 s and tries again, or gives up.
Fail(p) ==
    /\ LET last == p \in Operators \/ attempts[p] + 1 >= 5
       IN  /\ attempts' = [attempts EXCEPT ![p] = IF last THEN 0 ELSE @ + 1]
           /\ Goto(p, IF p \in Operators THEN "down"
                      ELSE IF last THEN "aborted" ELSE "starting")
    /\ End(p)

\* A connection, and what the version is. alembic refuses to downgrade to a
\* later version; at its goal it has nothing to do.
Connect(p) ==
    /\ phase[p] = "starting"
    /\ IF schema.version = goal[p] \/ goal[p] \in schema.version + 1 .. head - 1
       THEN Succeed(p)
       ELSE /\ Goto(p, "migrating")
            /\ at' = [at EXCEPT ![p] = schema.version]
            /\ UNCHANGED <<goal, attempts, holder, tx>>
    /\ UNCHANGED <<schema, downgraded, bounds>>

\* The next revision. Its first statement that changes something waits for
\* another transaction that has done the same, and sees what that committed.
run_migrations(p) ==
    /\ phase[p] = "migrating"
    /\ at[p] # goal[p]
    /\ holder \in {NoOne, p}
    /\ LET to == IF goal[p] > at[p] THEN at[p] + 1 ELSE at[p] - 1
       IN  \E done \in {Migrate(IF holder = p THEN tx ELSE schema, at[p], to)} :
           \/ /\ done.ok
              /\ tx' = done
              /\ at' = [at EXCEPT ![p] = to]
              /\ holder' = p
              /\ UNCHANGED <<phase, goal, attempts>>
           \/ /\ ~done.ok
              /\ Fail(p)
    /\ UNCHANGED <<schema, downgraded, bounds>>

\* Mutant: transaction_per_migration.
CommitEach(p) ==
    /\ holder = p
    /\ schema' = tx
    /\ downgraded' = (downgraded \/ tx.version < schema.version)
    /\ IF at[p] = goal[p]
       THEN Succeed(p)
       ELSE /\ holder' = NoOne /\ tx' = Empty
            /\ UNCHANGED <<phase, at, goal, attempts>>
    /\ UNCHANGED bounds

\* Mutant: what the revisions did is committed without their version.
CommitUnstamped(p) ==
    /\ holder = p
    /\ at[p] = goal[p]
    /\ schema' = [tx EXCEPT !.version = schema.version]
    /\ Succeed(p)
    /\ UNCHANGED <<downgraded, bounds>>

\* All revisions have been run.
Commit(p) ==
    /\ holder = p
    /\ at[p] = goal[p]
    /\ schema' = tx
    /\ downgraded' = (downgraded \/ tx.version < schema.version)
    /\ Succeed(p)
    /\ UNCHANGED bounds

\* Mutant: the transaction of the lost connection stays open.
OutageKeepsLock(p) ==
    /\ troubles < MaxTroubles
    /\ troubles' = troubles + 1
    /\ phase[p] \in {"starting", "migrating"}
    /\ Goto(p, IF p \in Operators THEN "down" ELSE "starting")
    /\ UNCHANGED <<database, at, goal, attempts, commands>>

\* PostgreSQL is not there or goes away.
Outage(p) ==
    /\ troubles < MaxTroubles
    /\ troubles' = troubles + 1
    /\ phase[p] \in {"starting", "migrating"}
    /\ Fail(p)
    /\ UNCHANGED <<schema, downgraded, commands>>

\* A container is killed, or stopped and started again later.
Kill(c) ==
    /\ troubles < MaxTroubles
    /\ troubles' = troubles + 1
    /\ phase[c] \in {"starting", "migrating", "serving"}
    /\ Goto(c, "down")
    /\ attempts' = [attempts EXCEPT ![c] = 0]
    /\ End(c)
    /\ UNCHANGED <<schema, downgraded, commands>>

Alembic(p) == Connect(p) \/ run_migrations(p) \/ Commit(p)

Next ==
    \/ \E c \in Containers : Start(c) \/ StartAsIs(c) \/ Kill(c)
    \/ \E o \in Operators : Command(o)
    \/ \E p \in Processes : Alembic(p) \/ Outage(p)

Spec == Init /\ [][Next]_vars

\* Docker starts what ended; alembic goes on, or its connection is lost.
FairSpec ==
    /\ Spec
    /\ \A c \in Containers : WF_vars(Start(c))
    /\ \A p \in Processes : WF_vars(Alembic(p))

----------------------------------------------------------------------------
(* Properties *)

\* A schema and its processes have their types.
TypeOK ==
    /\ \A s \in {schema, tx} :
          /\ s.ok
          /\ s.version \in 0 .. head
          /\ s.objects \subseteq ObjectsOf[head]
          /\ s.rows \in [Seeded -> Nat]
    /\ holder \in Processes \cup {NoOne}
    /\ at \in [Processes -> 0 .. head]
    /\ goal \in [Processes -> 0 .. head]
    /\ phase \in [Processes -> {"down", "starting", "migrating", "serving", "aborted"}]
    /\ attempts \in [Processes -> 0 .. 4]
    /\ commands \in 0 .. MaxCommands
    /\ troubles \in 0 .. MaxTroubles
    /\ downgraded \in BOOLEAN

\* The schema is exactly that of its version, but for the values of enum types
\* that a downgrade left behind, whatever upgrades and downgrades led to it,
\* and however they raced, failed or were killed.
SchemaOfVersion ==
    /\ ObjectsOf[schema.version] \subseteq schema.objects
    /\ schema.objects \subseteq ObjectsOf[schema.version] \cup
          (IF downgraded THEN LeftBehind[schema.version] ELSE {})

\* The singletons that get_singleton() reads are there from their revisions
\* on, and so are the default rules; as long as nothing is downgraded, every
\* rule is seeded once, by whichever container came first.
SeededOnce ==
    \A table \in Seeded :
        LET rows == schema.rows[table]
            due == IF schema.version >= SeedVersion[table] THEN 1 ELSE 0
        IN  rows >= due /\ (table \in Singletons \/ ~downgraded => rows = due)

\* A container gives up only for lost connections: being overtaken, which
\* each command of an operator can do once, and the other containers together
\* once, never uses up its five attempts.
RacesDontAbort ==
    \A c \in Containers :
        phase[c] = "aborted" /\ ~downgraded => troubles + commands + 1 >= 5

\* entrypoint.sh: "Running `alembic upgrade head` on every container start is
\* idempotent (no-op when already current)". Only an operator takes the
\* schema away from the head, what leads to it does so at once, and a
\* container that goes through its migrations begins to serve on the head.
HeadAtOnce ==
    [][/\ schema' # schema =>
             \/ schema'.version = head /\ schema.version < head
             \/ \E o \in Operators : holder = o /\ goal[o] = schema'.version
       /\ \A c \in Containers :
             phase[c] # "down" /\ phase[c] # "serving" /\ phase'[c] = "serving"
                 => schema'.version = head]_vars

\* Every container comes to serve, if the database comes to stay.
ContainersServe ==
    \A c \in Containers : phase[c] \in {"starting", "migrating", "aborted"}
                              ~> phase[c] = "serving"
=============================================================================
