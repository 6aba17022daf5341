-------------------------- MODULE ReadThroughCache --------------------------
(***************************************************************************)
(* The backend's Redis cache in front of PostgreSQL: the camera and system *)
(* config reads that fill it, the mutations that invalidate it inside      *)
(* their transaction, the task that renews the urls of the Tuya cameras,   *)
(* the cache warmer, the admin's invalidation, and the expiry of entries.  *)
(*                                                                         *)
(* A row tells the write that made it from the one that its url is of: the *)
(* task writes the url (and updated_at) of a row and nothing else.  An     *)
(* entry of the cache is what a session had loaded: rows, and the total of *)
(* a list page.  One page holds all the cameras.                           *)
(***************************************************************************)
EXTENDS Integers, FiniteSets

CONSTANTS
    Cameras,        \* camera ids: a UUID is never used twice
    Config,         \* the singleton row of system_config, and its cache key
    List,           \* the cache key of the page of cameras
    Requests,       \* requests and warmer runs that are under way at once
    MaxWrites,      \* bound of the writes of rows
    Troubles        \* what may go wrong, see trouble

CONSTANTS
    TuyaTask,       \* the pass of the Tuya refresh task
    NoOne, NoRow, NoKey, Absent, Nothing

\* A row: the number of the write it is of, and of the one its url is of.
Content == [body : Nat, url : Nat]
Version == Content \cup {Absent}

Rows == Cameras \cup {Config}
Keys == Rows \cup {List}

ASSUME NullAssumption ==
    /\ Config \notin Cameras
    /\ List \notin Rows
    /\ NoOne \notin Requests
    /\ TuyaTask \notin Requests \cup {NoOne}
    /\ NoRow \notin Rows \cup Version
    /\ NoKey \notin Keys
    /\ Absent \notin Content \cup Nat
    /\ MaxWrites \in Nat \ {0}

ASSUME TroublesAssumption == Troubles \subseteq SUBSET {"overlap", "fault"}

ASSUME CamerasAssumption == IsFiniteSet(Cameras) /\ Cameras # {}

VARIABLES
    committed,  \* the rows of the database, Absent when there is none
    written,    \* how often a row was written
    history,    \* the versions of a row that were ever committed
    lock,       \* whose transaction has the row locked
    renewed,    \* the rows that the Tuya task's transaction has written
    cache,      \* the entries of Redis, Nothing for a key that is not there
    pc, key,    \* of a request: where it is, the key it reads
    loaded,     \* ... the rows its session has loaded
    total,      \* ... the count it read
    warming,    \* the requests that are runs of the camera warmer
    row,        \* ... the row it writes
    pending,    \* ... the version it wrote
    todo,       \* ... the keys its scan, or the warmer, has to visit
    trouble     \* "overlap": a write may commit while rows are being cached;
                \* "fault": Redis may fail, and a mutation may roll back

db == <<committed, written, history, lock, renewed>>
reader == <<key, loaded, total, warming>>
writer == <<row, pending>>
vars == <<db, cache, pc, reader, writer, todo, trouble>>

Overlap == "overlap" \in trouble
Faults == "fault" \in trouble

Scope(k) == IF k = List THEN Cameras ELSE {k}

EntryOf(k) ==
    [rows : [Scope(k) -> IF k = List THEN Version ELSE Content], total : Nat]

\* Nothing stands for a missing entry.
ASSUME EntryAssumption == \A k \in Keys : Nothing \notin EntryOf(k)

Present == {r \in Rows : committed[r] # Absent}

\* Mutant: the mutation forgets the keys of the list pages.
PatternOfRow(r) == {r}

\* Keys.CAMERAS_ALL and Keys.SYSTEM_CONFIG_ALL.
Pattern(r) == IF r = Config THEN {Config} ELSE Cameras \cup {List}

Written(n) == [body |-> n, url |-> n]

Entry(rows, n) == [rows |-> rows, total |-> n]

Current(k) ==
    Entry([r \in Scope(k) |-> committed[r]], Cardinality(Scope(k) \cap Present))

Cached(k) == cache[k] # Nothing
Fresh(k) == cache[k] = Current(k)

\* What a write of the row made of it, whatever its url.
Body(v) == IF v = Absent THEN Absent ELSE v.body
Bodies(k, entry) == Entry([r \in Scope(k) |-> Body(entry.rows[r])], entry.total)
FreshButForUrls(k) == Bodies(k, cache[k]) = Bodies(k, Current(k))

NothingLoaded == [r \in Rows |-> NoRow]
HasRows(p) == loaded[p] # NothingLoaded

----------------------------------------------------------------------------
Init ==
    /\ committed \in [Rows -> {Written(1), Absent}]
    /\ committed[Config] # Absent
    /\ written = 1
    /\ history = [r \in Rows |-> {committed[r]} \ {Absent}]
    /\ lock = [r \in Rows |-> NoOne]
    /\ renewed = [c \in Cameras |-> NoRow]
    /\ cache = [k \in Keys |-> Nothing]
    /\ pc = [p \in Requests |-> "idle"]
    /\ key = [p \in Requests |-> NoKey]
    /\ loaded = [p \in Requests |-> NothingLoaded]
    /\ total = [p \in Requests |-> 0]
    /\ warming = {}
    /\ row = [p \in Requests |-> NoRow]
    /\ pending = [p \in Requests |-> Absent]
    /\ todo = [p \in Requests |-> {}]
    /\ trouble \in Troubles

Goto(p, l) == pc' = [pc EXCEPT ![p] = l]

\* The two windows that make entries stale: rows were loaded and are not
\* cached yet; keys were deleted and the new row is not committed yet.
Filling(p) == HasRows(p)
Publishing(p) == row[p] # NoRow /\ pc[p] \in {"scanning", "committing"}
MayFill(p) == Overlap \/ \A q \in Requests : ~Publishing(q)
MayPublish(p) == Overlap \/ \A q \in Requests : ~Filling(q)

----------------------------------------------------------------------------
(* Reads *)

\* get_public_cached, list_public_cached and get_config. A failed GET counts
\* as a miss, a hit answers the request.
Get(p, k) ==
    /\ pc[p] = "idle"
    /\ ~Cached(k) \/ Faults
    /\ key' = [key EXCEPT ![p] = k]
    /\ Goto(p, "reading")
    /\ UNCHANGED <<db, cache, loaded, total, warming, writer, todo>>

\* _warm_system_config has no look at the cache.
WarmConfig(p) ==
    /\ pc[p] = "idle"
    /\ key' = [key EXCEPT ![p] = Config]
    /\ Goto(p, "reading")
    /\ UNCHANGED <<db, cache, loaded, total, warming, writer, todo>>

\* A session keeps the rows it has: a later SELECT does not refresh them.
Load(p, rs) ==
    loaded' = [loaded EXCEPT ![p] =
        [r \in Rows |-> IF r \in rs /\ @[r] \in {NoRow, Absent}
                        THEN committed[r] ELSE @[r]]]

\* Mutant: what the SELECT returned is cached even if it is nothing.
SelectMissing(p) ==
    /\ pc[p] = "reading"
    /\ MayFill(p)
    /\ Load(p, Scope(key[p]))
    /\ total' = [total EXCEPT ![p] = 1]
    /\ Goto(p, IF key[p] = List THEN "counting" ELSE "filling")
    /\ UNCHANGED <<db, cache, key, warming, writer, todo>>

\* The SELECT. A camera that is not there answers 404 and is not cached.
Select(p) ==
    /\ pc[p] = "reading"
    /\ MayFill(p)
    /\ IF key[p] \in Cameras /\ committed[key[p]] = Absent
       THEN /\ Goto(p, "idle")
            /\ key' = [key EXCEPT ![p] = NoKey]
            /\ UNCHANGED <<loaded, total>>
       ELSE /\ Load(p, Scope(key[p]))
            /\ total' = [total EXCEPT ![p] = 1]
            /\ Goto(p, IF key[p] = List THEN "counting" ELSE "filling")
            /\ UNCHANGED key
    /\ UNCHANGED <<db, cache, warming, writer, todo>>

\* The count of a list page is a statement of its own.
Count(p) ==
    /\ pc[p] = "counting"
    /\ total' = [total EXCEPT ![p] = Cardinality(Cameras \cap Present)]
    /\ Goto(p, "filling")
    /\ UNCHANGED <<db, cache, key, loaded, warming, writer, todo>>

\* Cache.set, which fails silently; then the request is answered, or the
\* warmer goes on.
Fill(p) ==
    /\ pc[p] = "filling"
    /\ \/ cache' = [cache EXCEPT ![key[p]] =
                      Entry([r \in Scope(key[p]) |-> loaded[p][r]], total[p])]
       \/ Faults /\ UNCHANGED cache
    /\ key' = [key EXCEPT ![p] = NoKey]
    /\ IF p \in warming
       THEN /\ Goto(p, IF key[p] = List THEN "enumerating" ELSE "warming")
            /\ UNCHANGED <<loaded, total>>
       ELSE /\ Goto(p, "idle")
            /\ loaded' = [loaded EXCEPT ![p] = NothingLoaded]
            /\ total' = [total EXCEPT ![p] = 0]
    /\ UNCHANGED <<db, warming, writer, todo>>

----------------------------------------------------------------------------
(* The warmer of the cameras: one session for the list and all the ids *)

WarmCameras(p) ==
    /\ pc[p] = "idle"
    /\ warming' = warming \cup {p}
    /\ \/ /\ Cached(List)
          /\ Goto(p, "enumerating")
          /\ UNCHANGED key
       \/ /\ ~Cached(List) \/ Faults
          /\ key' = [key EXCEPT ![p] = List]
          /\ Goto(p, "reading")
    /\ UNCHANGED <<db, cache, loaded, total, writer, todo>>

Enumerate(p) ==
    /\ pc[p] = "enumerating"
    /\ MayFill(p)
    /\ Load(p, Cameras \cap Present)
    /\ todo' = [todo EXCEPT ![p] = Cameras \cap Present]
    /\ total' = [total EXCEPT ![p] = 1]
    /\ Goto(p, "warming")
    /\ UNCHANGED <<db, cache, key, warming, writer>>

\* get_public_cached finds the row in the session.
WarmNext(p) ==
    /\ pc[p] = "warming"
    /\ \E c \in todo[p] :
          /\ todo' = [todo EXCEPT ![p] = @ \ {c}]
          /\ \/ Cached(c) /\ UNCHANGED <<key, pc>>
             \/ /\ ~Cached(c) \/ Faults
                /\ key' = [key EXCEPT ![p] = c]
                /\ Goto(p, "filling")
    /\ UNCHANGED <<db, cache, loaded, total, warming, writer>>

WarmDone(p) ==
    /\ pc[p] = "warming"
    /\ todo[p] = {}
    /\ Goto(p, "idle")
    /\ loaded' = [loaded EXCEPT ![p] = NothingLoaded]
    /\ total' = [total EXCEPT ![p] = 0]
    /\ warming' = warming \ {p}
    /\ UNCHANGED <<db, cache, key, writer, todo>>

\* A run of the warmer: the config, the cameras, or one after the other.
Warm(p) == WarmConfig(p) \/ WarmCameras(p)

----------------------------------------------------------------------------
(* Mutations *)

\* create, update and delete of a camera, update of the system config: the
\* INSERT, UPDATE or DELETE is flushed; one that meets a lock waits, one
\* that finds its row gone fails. The id of a deleted camera is not used again.
Write(p, r) ==
    /\ pc[p] = "idle"
    /\ lock[r] = NoOne
    /\ written < MaxWrites
    /\ committed[r] # Absent \/ history[r] = {}
    /\ \E v \in {Written(written + 1), Absent} :
          /\ v = Absent => r \in Cameras /\ committed[r] # Absent
          /\ pending' = [pending EXCEPT ![p] = v]
    /\ written' = written + 1
    /\ lock' = [lock EXCEPT ![r] = p]
    /\ row' = [row EXCEPT ![p] = r]
    /\ Goto(p, "flushed")
    /\ UNCHANGED <<committed, history, renewed, cache, reader, todo>>

\* Cache.invalidate begins: SCAN returns at least the keys that are there.
Scan(p) ==
    /\ pc[p] = "flushed"
    /\ MayPublish(p)
    /\ todo' = [todo EXCEPT ![p] = {k \in Pattern(row[p]) : Cached(k)}]
    /\ Goto(p, "scanning")
    /\ UNCHANGED <<db, cache, reader, writer>>

\* /system/cache/invalidate, and a PATCH that changes no column.
cache_invalidate(p) ==
    /\ pc[p] = "idle"
    /\ \E r \in Rows :
          todo' = [todo EXCEPT ![p] = {k \in Pattern(r) : Cached(k)}]
    /\ Goto(p, "scanning")
    /\ UNCHANGED <<db, cache, reader, writer>>

\* Mutant: write-through, the entry is replaced and not deleted.
PutKey(p) ==
    /\ pc[p] = "scanning"
    /\ \E k \in todo[p] :
          /\ cache' = [cache EXCEPT ![k] =
                IF k = row[p] /\ pending[p] # Absent
                THEN Entry([r \in {k} |-> pending[p]], 1) ELSE Nothing]
          /\ todo' = [todo EXCEPT ![p] = @ \ {k}]
    /\ UNCHANGED <<db, pc, reader, writer>>

\* The next key of the scan is deleted.
DropKey(p) ==
    /\ pc[p] = "scanning"
    /\ \E k \in todo[p] :
          /\ cache' = [cache EXCEPT ![k] = Nothing]
          /\ todo' = [todo EXCEPT ![p] = @ \ {k}]
    /\ UNCHANGED <<db, pc, reader, writer>>

\* The scan is over, or Redis fails and the rest of the keys stay.
EndScan(p) ==
    /\ pc[p] = "scanning"
    /\ todo[p] = {} \/ Faults
    /\ todo' = [todo EXCEPT ![p] = {}]
    /\ Goto(p, IF row[p] = NoRow THEN "idle" ELSE "committing")
    /\ UNCHANGED <<db, cache, reader, writer>>

EndWrite(p) ==
    /\ lock' = [lock EXCEPT ![row[p]] = NoOne]
    /\ row' = [row EXCEPT ![p] = NoRow]
    /\ pending' = [pending EXCEPT ![p] = Absent]
    /\ todo' = [todo EXCEPT ![p] = {}]
    /\ Goto(p, "idle")

\* get_session commits when the handler has returned.
Commit(p) ==
    /\ pc[p] = "committing"
    /\ committed' = [committed EXCEPT ![row[p]] = pending[p]]
    /\ history' = [history EXCEPT ![row[p]] =
                     IF pending[p] = Absent THEN @ ELSE @ \cup {pending[p]}]
    /\ EndWrite(p)
    /\ UNCHANGED <<written, renewed, cache, reader>>

\* An exception in the handler, a lost connection, a failed COMMIT.
Rollback(p) ==
    /\ Faults
    /\ row[p] # NoRow
    /\ EndWrite(p)
    /\ UNCHANGED <<committed, written, history, renewed, cache, reader>>

----------------------------------------------------------------------------
(* The Tuya refresh task: one transaction for all the cameras of a pass *)

\* resolve_source flushes the url it was given.
RenewUrl(c) ==
    /\ lock[c] = NoOne
    /\ committed[c] # Absent
    /\ written < MaxWrites
    /\ renewed' = [renewed EXCEPT ![c] =
                     [committed[c] EXCEPT !.url = written + 1]]
    /\ written' = written + 1
    /\ lock' = [lock EXCEPT ![c] = TuyaTask]
    /\ UNCHANGED <<committed, history, cache, pc, reader, writer, todo>>

Renewed == {r \in Rows : lock[r] = TuyaTask}

EndPass ==
    /\ Renewed # {}
    /\ renewed' = [c \in Cameras |-> NoRow]
    /\ lock' = [r \in Rows |-> IF r \in Renewed THEN NoOne ELSE lock[r]]
    /\ UNCHANGED <<written, cache, pc, reader, writer, todo>>

\* The pass commits, and leaves the cache as it is.
CommitPass ==
    /\ EndPass
    /\ committed' = [r \in Rows |-> IF r \in Renewed THEN renewed[r]
                                                    ELSE committed[r]]
    /\ history' = [r \in Rows |-> IF r \in Renewed THEN history[r] \cup {renewed[r]}
                                                  ELSE history[r]]

\* A flush that finds its row gone, or a failed COMMIT, undoes the pass.
BreakPass ==
    /\ EndPass
    /\ UNCHANGED <<committed, history>>

----------------------------------------------------------------------------
(* Expiry *)

\* Mutant: Cache.set without `ex`.
ExpireNever(k) == FALSE /\ Cached(k) /\ UNCHANGED vars

\* SET ... EX ttl: the entry goes when its time has come.
Expire(k) ==
    /\ Cached(k)
    /\ cache' = [cache EXCEPT ![k] = Nothing]
    /\ UNCHANGED <<db, pc, reader, writer, todo>>

----------------------------------------------------------------------------
ReadStep(p) == Select(p) \/ Count(p) \/ Fill(p)
WarmStep(p) == Enumerate(p) \/ WarmNext(p) \/ WarmDone(p)
WriteStep(p) == Scan(p) \/ DropKey(p) \/ EndScan(p) \/ Commit(p)

Next ==
    /\ \/ \E p \in Requests :
             \/ \E k \in Keys : Get(p, k)
             \/ \E r \in Rows : Write(p, r)
             \/ Warm(p)
             \/ cache_invalidate(p)
             \/ ReadStep(p)
             \/ WarmStep(p)
             \/ WriteStep(p)
             \/ Rollback(p)
       \/ \E c \in Cameras : RenewUrl(c)
       \/ CommitPass
       \/ BreakPass
       \/ \E k \in Keys : Expire(k)
    /\ UNCHANGED trouble

Spec == Init /\ [][Next]_vars

\* A request that was begun is scheduled, and time passes for every entry.
Fairness ==
    /\ \A p \in Requests :
          WF_vars((ReadStep(p) \/ WarmStep(p) \/ WriteStep(p)) /\ UNCHANGED trouble)
    /\ \A k \in Keys : WF_vars(Expire(k) /\ UNCHANGED trouble)

FairSpec == Spec /\ Fairness

----------------------------------------------------------------------------
(* Properties *)

RowTypes ==
    /\ committed \in [Rows -> Version]
    /\ written \in Nat
    /\ history \in [Rows -> SUBSET Content]
    /\ lock \in [Rows -> Requests \cup {NoOne, TuyaTask}]
    /\ renewed \in [Cameras -> Content \cup {NoRow}]

RequestTypes ==
    /\ pc \in [Requests -> {"idle", "reading", "counting", "filling",
                            "enumerating", "warming", "flushed", "scanning",
                            "committing"}]
    /\ key \in [Requests -> Keys \cup {NoKey}]
    /\ loaded \in [Requests -> [Rows -> Version \cup {NoRow}]]
    /\ total \in [Requests -> Nat]
    /\ warming \subseteq Requests
    /\ row \in [Requests -> Rows \cup {NoRow}]
    /\ pending \in [Requests -> Version]
    /\ todo \in [Requests -> SUBSET Keys]

EntryTypes ==
    /\ cache = [k \in Keys |-> cache[k]]
    /\ \A k \in Keys : Cached(k) => cache[k] \in EntryOf(k)

\* The database, the cache and the requests hold what they can hold; a camera
\* that is not there has no entry of its own, however it came and went while
\* it was looked up; a row that is being written is locked by its writer.
TypeOK ==
    /\ RowTypes
    /\ RequestTypes
    /\ EntryTypes
    /\ \A p \in Requests : row[p] # NoRow => lock[row[p]] = p
    /\ trouble \in Troubles

\* Nobody reads through the cache what was never committed: a mutation, or a
\* renewed url, that is rolled back or not over yet cannot be seen in it.
OnlyCommitted ==
    \A k \in Keys : Cached(k) =>
        \A r \in Scope(k) :
            cache[k].rows[r] # Absent => cache[k].rows[r] \in history[r]

\* cache.py: "Mutations should call invalidate(pattern) against the keys
\* they touch so the next read repopulates fresh". What a read finds in the
\* cache is what the last mutation left in the database. (The task that
\* renews urls calls no invalidate: urls are never sure to be fresh.)
ReadsAreFresh == \A k \in Keys : Cached(k) => FreshButForUrls(k)

\* It is so when Redis is up and the two windows - rows that were loaded and
\* are not cached yet, keys that were deleted and a new row that is not
\* committed yet - do not meet, whatever the Tuya task commits meanwhile.
FreshApart == trouble = {} => ReadsAreFresh

Copies == INSTANCE SingleCopy
    WITH Shows <- Scope, Total <- Cardinality, Missing <- Absent,
         value <- [r \in Rows |-> Body(committed[r])],
         copy <- [k \in Keys |-> IF Cached(k) THEN Bodies(k, cache[k]) ELSE Nothing]

\* Then the cache is a single copy of all but the urls: a mutation only
\* publishes a row while nobody can read an older one, the rows of a page and
\* its total, which come from statements of their own, are those of one
\* moment, and a renewed url carries nothing else into the database.
ImplementsCopy ==
    /\ trouble = {} => Copies!Init
    /\ [][trouble = {} => Copies!Next]_(Copies!store)

\* cache.py: "TTL is mandatory". Whatever stale entry a race, the warmer, a
\* failed invalidation or a renewed url left behind, once the writes are over
\* the cache comes to agree with the database for good, urls included.
EventuallyFresh == <>[](\A k \in Keys : Cached(k) => Fresh(k))
=============================================================================
