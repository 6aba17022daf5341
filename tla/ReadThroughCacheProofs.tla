----------------------- MODULE ReadThroughCacheProofs -----------------------
(***************************************************************************)
(* Proofs about ReadThroughCache, for any number of cameras, requests and  *)
(* writes.                                                                 *)
(*                                                                         *)
(* A session's rows are rows that were committed, so whatever it caches    *)
(* was.  The Tuya task locks the rows it writes, so that no mutation comes *)
(* between and what it commits differs from what was there in its url      *)
(* alone.  When no mutation commits while rows are being cached, a         *)
(* session's rows are the rows of the database but for their urls, and     *)
(* between the scan of a mutation and its commit none of the keys it       *)
(* touches is cached: nothing stale can be found but a url.                *)
(***************************************************************************)
EXTENDS ReadThroughCache, FiniteSetTheorems, TLAPS

USE DEF Rows, Keys, Version

\* What a request has in hand, from where it is.
Working ==
    \A p \in Requests :
        /\ pc[p] = "reading" => key[p] \in Keys
        /\ pc[p] = "reading" /\ p \in warming => key[p] = List
        /\ pc[p] \in {"idle", "flushed", "scanning", "committing"} =>
              p \notin warming
        /\ pc[p] \in {"counting", "filling"} =>
              /\ key[p] \in Keys
              /\ \A r \in Scope(key[p]) : loaded[p][r] # NoRow
        /\ pc[p] = "counting" => key[p] = List
        /\ pc[p] = "filling" /\ key[p] # List => loaded[p][key[p]] \in Content
        /\ pc[p] = "warming" \/ (pc[p] = "filling" /\ p \in warming /\ key[p] # List) =>
              \A r \in todo[p] : r \in Cameras /\ loaded[p][r] \in Content

\* The config row is always there.
ConfigThere ==
    /\ committed[Config] \in Content
    /\ \A p \in Requests : row[p] = Config => pending[p] \in Content

\* A request that writes is at one of the steps of a mutation.
Writing ==
    \A p \in Requests :
        /\ row[p] # NoRow => lock[row[p]] = p
        /\ pc[p] \in {"flushed", "committing"} => row[p] # NoRow
        /\ row[p] # NoRow => pc[p] \in {"flushed", "scanning", "committing"}

\* The Tuya task has locked what it has written, and written nothing of it but
\* the url.
Renewing ==
    \A r \in Rows : lock[r] = TuyaTask =>
        /\ r \in Cameras
        /\ committed[r] \in Content
        /\ renewed[r] \in Content
        /\ renewed[r].body = committed[r].body

CInv ==
    /\ RowTypes /\ RequestTypes /\ EntryTypes
    /\ Working /\ ConfigThere /\ Writing /\ Renewing

LEMMA ScopeInRows ==
    ASSUME NEW k \in Keys
    PROVE  Scope(k) \subseteq Rows /\ Scope(k) # {}
BY NullAssumption, CamerasAssumption DEF Scope

LEMMA CountTyped == Cardinality(Cameras \cap Present) \in Nat
BY CamerasAssumption, FS_Subset, FS_CardinalityType

\* What a SELECT leaves in the session.
LEMMA LoadTyped ==
    ASSUME RowTypes, RequestTypes, NEW p \in Requests, NEW rs \in SUBSET Rows,
           Load(p, rs)
    PROVE  /\ loaded' \in [Requests -> [Rows -> Version \cup {NoRow}]]
           /\ \A q \in Requests : q # p => loaded'[q] = loaded[q]
           /\ \A r \in Rows \ rs : loaded'[p][r] = loaded[p][r]
           /\ \A r \in rs : loaded'[p][r] =
                 IF loaded[p][r] \in {NoRow, Absent} THEN committed[r]
                                                    ELSE loaded[p][r]
BY DEF Load, RowTypes, RequestTypes

LEMMA PatternInKeys == \A r \in Rows : Pattern(r) \subseteq Keys
BY DEF Pattern

LEMMA WrittenTyped ==
    ASSUME NEW n \in Nat
    PROVE  Written(n) \in Content
BY DEF Written, Content

LEMMA CInit == Init => CInv
<1> SUFFICES ASSUME Init PROVE CInv
    OBVIOUS
<1> USE NullAssumption DEF Init
<1>1. \A r \in Rows : committed[r] \in Version
    BY WrittenTyped
<1>2. RowTypes
    <2>1. history \in [Rows -> SUBSET Content]
        BY <1>1
    <2> QED
        BY <1>1, <2>1 DEF RowTypes
<1>3. RequestTypes /\ EntryTypes
    BY DEF RequestTypes, EntryTypes, Cached, NothingLoaded
<1>4. Working /\ Writing /\ Renewing
    BY DEF Working, Writing, Renewing
<1>5. ConfigThere
    BY <1>1 DEF ConfigThere
<1> QED
    BY <1>2, <1>3, <1>4, <1>5 DEF CInv

LEMMA CNext == CInv /\ [Next]_vars => CInv'
<1> SUFFICES ASSUME CInv, [Next]_vars PROVE CInv'
    OBVIOUS
<1> USE NullAssumption, ScopeInRows DEF CInv
<1>1. ASSUME NEW p \in Requests, NEW k \in Keys, Get(p, k) PROVE CInv'
    <2>1. RowTypes' /\ Renewing'
        BY <1>1 DEF RowTypes, RequestTypes, Renewing, Get, db
    <2>2. RequestTypes'
        BY <1>1, CountTyped DEF RowTypes, RequestTypes, Get, Goto, db, reader, writer
    <2>3. EntryTypes'
        BY <1>1 DEF EntryTypes, Cached, Get
    <2>4. Working'
        BY <1>1 DEF RowTypes, RequestTypes, Working, Get, Goto, db, reader, writer
    <2>5. ConfigThere' /\ Writing'
        BY <1>1 DEF RowTypes, RequestTypes, ConfigThere, Writing, Get, Goto, db, reader, writer
    <2> QED
        BY <2>1, <2>2, <2>3, <2>4, <2>5
<1>2. ASSUME NEW p \in Requests, NEW r \in Rows, Write(p, r) PROVE CInv'
    <2>1. RowTypes' /\ Renewing'
        BY <1>2 DEF RowTypes, RequestTypes, Renewing, Write
    <2>2. RequestTypes'
        <3>1. Written(written + 1) \in Version
            BY WrittenTyped DEF RowTypes
        <3>2. PICK v \in Version : pending' = [pending EXCEPT ![p] = v]
            BY <1>2, <3>1 DEF Write
        <3>3. pending' \in [Requests -> Version]
            BY <3>2 DEF RequestTypes
        <3> QED
            BY <1>2, <3>3 DEF RequestTypes, Write, Goto, reader
    <2>3. EntryTypes'
        BY <1>2 DEF EntryTypes, Cached, Write
    <2>4. Working'
        BY <1>2 DEF RowTypes, RequestTypes, Working, Write, Goto, db, reader, writer
    <2>5. ConfigThere' /\ Writing'
        BY <1>2, WrittenTyped DEF RowTypes, RequestTypes, ConfigThere, Writing, Write, Goto, db, reader, writer
    <2> QED
        BY <2>1, <2>2, <2>3, <2>4, <2>5
<1>3. ASSUME NEW p \in Requests, WarmConfig(p) PROVE CInv'
    <2>1. RowTypes' /\ Renewing'
        BY <1>3 DEF RowTypes, RequestTypes, Renewing, WarmConfig, db
    <2>2. RequestTypes'
        BY <1>3, CountTyped DEF RowTypes, RequestTypes, WarmConfig, Goto, db, reader, writer
    <2>3. EntryTypes'
        BY <1>3 DEF EntryTypes, Cached, WarmConfig
    <2>4. Working'
        BY <1>3 DEF RowTypes, RequestTypes, Working, WarmConfig, Goto, db, reader, writer
    <2>5. ConfigThere' /\ Writing'
        BY <1>3 DEF RowTypes, RequestTypes, ConfigThere, Writing, WarmConfig, Goto, db, reader, writer
    <2> QED
        BY <2>1, <2>2, <2>3, <2>4, <2>5
<1>4. ASSUME NEW p \in Requests, WarmCameras(p) PROVE CInv'
    <2>1. RowTypes' /\ Renewing'
        BY <1>4 DEF RowTypes, RequestTypes, Renewing, WarmCameras, db
    <2>2. RequestTypes'
        <3>1. /\ UNCHANGED <<loaded, total, row, pending, todo>>
              /\ warming' = warming \cup {p}
              /\ \E l \in {"enumerating", "reading"} : pc' = [pc EXCEPT ![p] = l]
              /\ key' \in {key, [key EXCEPT ![p] = List]}
            BY <1>4 DEF WarmCameras, Goto, writer
        <3> QED
            BY <3>1 DEF RequestTypes
    <2>3. EntryTypes'
        BY <1>4 DEF EntryTypes, Cached, WarmCameras
    <2>4. Working'
        BY <1>4 DEF RowTypes, RequestTypes, Working, WarmCameras, Goto, db, reader, writer
    <2>5. ConfigThere' /\ Writing'
        BY <1>4 DEF RowTypes, RequestTypes, ConfigThere, Writing, WarmCameras, Goto, db, reader, writer
    <2> QED
        BY <2>1, <2>2, <2>3, <2>4, <2>5
<1>5. ASSUME NEW p \in Requests, cache_invalidate(p) PROVE CInv'
    <2>1. RowTypes' /\ Renewing'
        BY <1>5 DEF RowTypes, RequestTypes, Renewing, cache_invalidate, db
    <2>2. RequestTypes'
        <3>1. PICK r \in Rows :
                 todo' = [todo EXCEPT ![p] = {k \in Pattern(r) : Cached(k)}]
            BY <1>5 DEF cache_invalidate
        <3>2. {k \in Pattern(r) : Cached(k)} \in SUBSET Keys
            BY <3>1, PatternInKeys
        <3> QED
            BY <1>5, <3>1, <3>2 DEF RequestTypes, cache_invalidate, Goto, reader, writer
    <2>3. EntryTypes'
        BY <1>5 DEF EntryTypes, Cached, cache_invalidate
    <2>4. Working'
        BY <1>5 DEF RowTypes, RequestTypes, Working, cache_invalidate, Goto, db, reader, writer
    <2>5. ConfigThere' /\ Writing'
        BY <1>5 DEF RowTypes, RequestTypes, ConfigThere, Writing, cache_invalidate, Goto, db, reader, writer
    <2> QED
        BY <2>1, <2>2, <2>3, <2>4, <2>5
<1>6. ASSUME NEW p \in Requests, Select(p) PROVE CInv'
    <2>1. RowTypes' /\ Renewing'
        BY <1>6 DEF RowTypes, RequestTypes, Renewing, Select, db
    <2>2. RequestTypes'
        <3>1. CASE key[p] \in Cameras /\ committed[key[p]] = Absent
            <4>1. /\ UNCHANGED <<loaded, total, warming, row, pending, todo>>
                  /\ pc' = [pc EXCEPT ![p] = "idle"]
                  /\ key' = [key EXCEPT ![p] = NoKey]
                BY <1>6, <3>1 DEF Select, Goto, writer
            <4> QED
                BY <4>1 DEF RequestTypes
        <3>2. CASE ~(key[p] \in Cameras /\ committed[key[p]] = Absent)
            <4>0. pc[p] = "reading"
                BY <1>6 DEF Select
            <4>1. Scope(key[p]) \subseteq Rows
                <5>1. key[p] \in Keys
                    BY <4>0 DEF Working
                <5> QED
                    BY <5>1, ScopeInRows
            <4>2. loaded' \in [Requests -> [Rows -> Version \cup {NoRow}]]
                BY <1>6, <3>2, <4>1, LoadTyped DEF Select
            <4>3. /\ key' = key /\ todo' = todo /\ warming' = warming
                  /\ total' = [total EXCEPT ![p] = 1] /\ UNCHANGED writer
                  /\ pc' = [pc EXCEPT ![p] = IF key[p] = List THEN "counting"
                                                              ELSE "filling"]
                BY <1>6, <3>2 DEF Select, Goto
            <4> QED
                BY <4>2, <4>3 DEF RequestTypes, writer
        <3> QED
            BY <3>1, <3>2
    <2>3. EntryTypes'
        BY <1>6 DEF EntryTypes, Cached, Select
    <2>4. Working'
        <3>1. CASE key[p] \in Cameras /\ committed[key[p]] = Absent
            BY <1>6, <3>1 DEF RequestTypes, Working, Select, Goto, writer
        <3>2. CASE ~(key[p] \in Cameras /\ committed[key[p]] = Absent)
            <4>1. key[p] \in Keys /\ Scope(key[p]) \subseteq Rows
                BY <1>6 DEF Working, Select
            <4>2. /\ \A q \in Requests : q # p => loaded'[q] = loaded[q]
                  /\ \A r \in Scope(key[p]) : loaded'[p][r] =
                        IF loaded[p][r] \in {NoRow, Absent}
                        THEN committed[r] ELSE loaded[p][r]
                BY <1>6, <3>2, <4>1, LoadTyped DEF Select
            <4>3. \A r \in Scope(key[p]) : loaded'[p][r] # NoRow
                BY <4>1, <4>2 DEF RowTypes
            <4>4. key[p] # List => loaded'[p][key[p]] \in Content
                <5> SUFFICES ASSUME key[p] # List PROVE loaded'[p][key[p]] \in Content
                    OBVIOUS
                <5>1. key[p] \in Rows /\ key[p] \in Scope(key[p])
                    BY <4>1 DEF Scope
                <5>2. committed[key[p]] \in Content
                    BY <3>2, <5>1 DEF ConfigThere, RowTypes
                <5>3. loaded[p][key[p]] \in Version \cup {NoRow}
                    BY <5>1 DEF RequestTypes
                <5> QED
                    BY <4>2, <5>1, <5>2, <5>3
            <4>5. /\ key' = key /\ todo' = todo /\ warming' = warming
                  /\ pc' = [pc EXCEPT ![p] = IF key[p] = List THEN "counting"
                                                              ELSE "filling"]
                BY <1>6, <3>2 DEF Select, Goto
            <4>6. ~(p \in warming /\ key[p] # List)
                BY <1>6 DEF Working, Select
            <4> QED
                BY <4>1, <4>2, <4>3, <4>4, <4>5, <4>6 DEF RequestTypes, Working
        <3> QED
            BY <3>1, <3>2
    <2>5. ConfigThere' /\ Writing'
        <3>1. /\ pc[p] = "reading"
              /\ \E l \in {"idle", "counting", "filling"} : pc' = [pc EXCEPT ![p] = l]
              /\ UNCHANGED <<committed, row, pending, lock>>
            BY <1>6 DEF Select, Goto, db, writer
        <3> QED
            BY <3>1 DEF RequestTypes, ConfigThere, Writing
    <2> QED
        BY <2>1, <2>2, <2>3, <2>4, <2>5
<1>7. ASSUME NEW p \in Requests, Count(p) PROVE CInv'
    <2>1. RowTypes' /\ Renewing'
        BY <1>7 DEF RowTypes, RequestTypes, Renewing, Count, db
    <2>2. RequestTypes'
        BY <1>7, CountTyped DEF RowTypes, RequestTypes, Count, Goto, db, reader, writer
    <2>3. EntryTypes'
        BY <1>7 DEF EntryTypes, Cached, Count
    <2>4. Working'
        BY <1>7 DEF RowTypes, RequestTypes, Working, Count, Goto, db, reader, writer
    <2>5. ConfigThere' /\ Writing'
        BY <1>7 DEF RowTypes, RequestTypes, ConfigThere, Writing, Count, Goto, db, reader, writer
    <2> QED
        BY <2>1, <2>2, <2>3, <2>4, <2>5
<1>8. ASSUME NEW p \in Requests, Fill(p) PROVE CInv'
    <2>1. RowTypes' /\ Renewing'
        BY <1>8 DEF RowTypes, RequestTypes, Renewing, Fill, db
    <2>2. RequestTypes'
        <3>1. CASE p \in warming
            <4>1. /\ key' = [key EXCEPT ![p] = NoKey]
                  /\ UNCHANGED <<loaded, total, warming, writer, todo>>
                  /\ pc' = [pc EXCEPT ![p] = IF key[p] = List THEN "enumerating"
                                                              ELSE "warming"]
                BY <1>8, <3>1 DEF Fill, Goto
            <4> QED
                BY <4>1 DEF RequestTypes, writer
        <3>2. CASE p \notin warming
            <4>1. NothingLoaded \in [Rows -> Version \cup {NoRow}]
                BY DEF NothingLoaded
            <4>2. /\ UNCHANGED <<warming, row, pending, todo>>
                  /\ pc' = [pc EXCEPT ![p] = "idle"]
                  /\ key' = [key EXCEPT ![p] = NoKey]
                  /\ loaded' = [loaded EXCEPT ![p] = NothingLoaded]
                  /\ total' = [total EXCEPT ![p] = 0]
                BY <1>8, <3>2 DEF Fill, Goto, writer
            <4> QED
                BY <4>1, <4>2 DEF RequestTypes
        <3> QED
            BY <3>1, <3>2
    <2>3. EntryTypes'
        <3>1. CASE UNCHANGED cache
            BY <3>1 DEF EntryTypes, Cached
        <3>2. CASE cache' = [cache EXCEPT ![key[p]] =
                        Entry([r \in Scope(key[p]) |-> loaded[p][r]], total[p])]
            <4>1. /\ key[p] \in Keys /\ Scope(key[p]) \subseteq Rows
                  /\ \A r \in Scope(key[p]) : loaded[p][r] # NoRow
                  /\ key[p] # List => loaded[p][key[p]] \in Content
                BY <1>8 DEF Working, Fill
            <4>2. \A r \in Scope(key[p]) :
                     loaded[p][r] \in IF key[p] = List THEN Version ELSE Content
                BY <4>1 DEF Scope, RequestTypes
            <4>3. Entry([r \in Scope(key[p]) |-> loaded[p][r]], total[p])
                    \in EntryOf(key[p])
                BY <4>2 DEF Entry, EntryOf, RequestTypes
            <4> QED
                BY <3>2, <4>1, <4>3 DEF EntryTypes, Cached
        <3> QED
            BY <1>8, <3>1, <3>2 DEF Fill
    <2>4. Working'
        BY <1>8 DEF RowTypes, RequestTypes, Working, Fill, Goto, db, reader, writer
    <2>5. ConfigThere' /\ Writing'
        <3>1. /\ pc[p] = "filling"
              /\ \E l \in {"idle", "enumerating", "warming"} : pc' = [pc EXCEPT ![p] = l]
              /\ UNCHANGED <<committed, row, pending, lock>>
            BY <1>8 DEF Fill, Goto, db, writer
        <3> QED
            BY <3>1 DEF RequestTypes, ConfigThere, Writing
    <2> QED
        BY <2>1, <2>2, <2>3, <2>4, <2>5
<1>9. ASSUME NEW p \in Requests, Enumerate(p) PROVE CInv'
    <2>1. RowTypes' /\ Renewing'
        BY <1>9 DEF RowTypes, RequestTypes, Renewing, Enumerate, db
    <2>2. RequestTypes'
        BY <1>9, CountTyped DEF RowTypes, RequestTypes, Enumerate, Goto, Load, db, reader, writer
    <2>3. EntryTypes'
        BY <1>9 DEF EntryTypes, Cached, Enumerate
    <2>4. Working'
        <3>1. Cameras \cap Present \subseteq Rows
            OBVIOUS
        <3>2. /\ \A q \in Requests : q # p => loaded'[q] = loaded[q]
              /\ \A r \in Cameras \cap Present : loaded'[p][r] =
                    IF loaded[p][r] \in {NoRow, Absent}
                    THEN committed[r] ELSE loaded[p][r]
            BY <1>9, <3>1, LoadTyped DEF Enumerate
        <3>3. \A r \in Cameras \cap Present :
                 committed[r] \in Content /\ loaded[p][r] \in Version \cup {NoRow}
            BY DEF Present, RowTypes, RequestTypes
        <3>4. \A r \in Cameras \cap Present : r \in Cameras /\ loaded'[p][r] \in Content
            BY <3>2, <3>3
        <3>5. /\ key' = key /\ warming' = warming
              /\ todo' = [todo EXCEPT ![p] = Cameras \cap Present]
              /\ pc' = [pc EXCEPT ![p] = "warming"]
            BY <1>9 DEF Enumerate, Goto
        <3> QED
            BY <3>2, <3>4, <3>5 DEF RequestTypes, Working
    <2>5. ConfigThere' /\ Writing'
        BY <1>9 DEF RowTypes, RequestTypes, ConfigThere, Writing, Enumerate, Goto, db, reader, writer
    <2> QED
        BY <2>1, <2>2, <2>3, <2>4, <2>5
<1>10. ASSUME NEW p \in Requests, WarmNext(p) PROVE CInv'
    <2>1. RowTypes' /\ Renewing'
        BY <1>10 DEF RowTypes, RequestTypes, Renewing, WarmNext, db
    <2>2. RequestTypes'
        <3>1. PICK c \in todo[p] :
                 /\ pc[p] = "warming"
                 /\ todo' = [todo EXCEPT ![p] = @ \ {c}]
                 /\ \/ UNCHANGED <<key, pc>>
                    \/ /\ key' = [key EXCEPT ![p] = c]
                       /\ pc' = [pc EXCEPT ![p] = "filling"]
                 /\ UNCHANGED <<loaded, total, warming, row, pending>>
            BY <1>10 DEF WarmNext, Goto, writer
        <3>2. c \in Keys /\ c \in Cameras /\ loaded[p][c] \in Content
            BY <3>1 DEF Working, RequestTypes
        <3>3. todo' \in [Requests -> SUBSET Keys]
            BY <3>1 DEF RequestTypes
        <3>4. key' \in [Requests -> Keys \cup {NoKey}]
            BY <3>1, <3>2 DEF RequestTypes
        <3>5. pc' = pc \/ pc' = [pc EXCEPT ![p] = "filling"]
            BY <3>1
        <3> QED
            BY <3>1, <3>3, <3>4, <3>5 DEF RequestTypes
    <2>3. EntryTypes'
        BY <1>10 DEF EntryTypes, Cached, WarmNext
    <2>4. Working'
        <3>1. PICK c \in todo[p] :
                 /\ pc[p] = "warming"
                 /\ todo' = [todo EXCEPT ![p] = @ \ {c}]
                 /\ \/ UNCHANGED <<key, pc>>
                    \/ /\ key' = [key EXCEPT ![p] = c]
                       /\ pc' = [pc EXCEPT ![p] = "filling"]
                 /\ UNCHANGED <<loaded, total, warming, row, pending>>
            BY <1>10 DEF WarmNext, Goto, writer
        <3>2. c \in Keys /\ c \in Cameras /\ loaded[p][c] \in Content
            BY <3>1 DEF Working, RequestTypes
        <3>3. \A r \in Scope(c) : r = c
            BY <3>2 DEF Scope
        <3> QED
            BY <3>1, <3>2, <3>3 DEF RequestTypes, Working
    <2>5. ConfigThere' /\ Writing'
        BY <1>10 DEF RowTypes, RequestTypes, ConfigThere, Writing, WarmNext, Goto, db, reader, writer
    <2> QED
        BY <2>1, <2>2, <2>3, <2>4, <2>5
<1>11. ASSUME NEW p \in Requests, WarmDone(p) PROVE CInv'
    <2>1. RowTypes' /\ Renewing'
        BY <1>11 DEF RowTypes, RequestTypes, Renewing, WarmDone, db
    <2>2. RequestTypes'
        <3>1. NothingLoaded \in [Rows -> Version \cup {NoRow}]
            BY DEF NothingLoaded
        <3>2. /\ UNCHANGED <<key, row, pending, todo>>
              /\ warming' = warming \ {p}
              /\ pc' = [pc EXCEPT ![p] = "idle"]
              /\ loaded' = [loaded EXCEPT ![p] = NothingLoaded]
              /\ total' = [total EXCEPT ![p] = 0]
            BY <1>11 DEF WarmDone, Goto, writer
        <3> QED
            BY <3>1, <3>2 DEF RequestTypes
    <2>3. EntryTypes'
        BY <1>11 DEF EntryTypes, Cached, WarmDone
    <2>4. Working'
        BY <1>11 DEF RowTypes, RequestTypes, Working, WarmDone, Goto, db, reader, writer
    <2>5. ConfigThere' /\ Writing'
        BY <1>11 DEF RowTypes, RequestTypes, ConfigThere, Writing, WarmDone, Goto, db, reader, writer
    <2> QED
        BY <2>1, <2>2, <2>3, <2>4, <2>5
<1>12. ASSUME NEW p \in Requests, Scan(p) PROVE CInv'
    <2>1. RowTypes' /\ Renewing'
        BY <1>12 DEF RowTypes, RequestTypes, Renewing, Scan, db
    <2>2. RequestTypes'
        BY <1>12, PatternInKeys DEF RequestTypes, Writing, Scan, Goto, reader, writer
    <2>3. EntryTypes'
        BY <1>12 DEF EntryTypes, Cached, Scan
    <2>4. Working'
        BY <1>12 DEF RowTypes, RequestTypes, Working, Scan, Goto, db, reader, writer
    <2>5. ConfigThere' /\ Writing'
        BY <1>12 DEF RowTypes, RequestTypes, ConfigThere, Writing, Scan, Goto, db, reader, writer
    <2> QED
        BY <2>1, <2>2, <2>3, <2>4, <2>5
<1>13. ASSUME NEW p \in Requests, DropKey(p) PROVE CInv'
    <2>1. RowTypes' /\ Renewing'
        BY <1>13 DEF RowTypes, RequestTypes, Renewing, DropKey, db
    <2>2. RequestTypes'
        BY <1>13, CountTyped DEF RowTypes, RequestTypes, DropKey, Goto, db, reader, writer
    <2>3. EntryTypes'
        BY <1>13 DEF EntryTypes, Cached, DropKey
    <2>4. Working'
        BY <1>13 DEF RowTypes, RequestTypes, Working, DropKey, Goto, db, reader, writer
    <2>5. ConfigThere' /\ Writing'
        BY <1>13 DEF RowTypes, RequestTypes, ConfigThere, Writing, DropKey, Goto, db, reader, writer
    <2> QED
        BY <2>1, <2>2, <2>3, <2>4, <2>5
<1>14. ASSUME NEW p \in Requests, EndScan(p) PROVE CInv'
    <2>1. RowTypes' /\ Renewing'
        BY <1>14 DEF RowTypes, RequestTypes, Renewing, EndScan, db
    <2>2. RequestTypes'
        BY <1>14, CountTyped DEF RowTypes, RequestTypes, EndScan, Goto, db, reader, writer
    <2>3. EntryTypes'
        BY <1>14 DEF EntryTypes, Cached, EndScan
    <2>4. Working'
        BY <1>14 DEF RowTypes, RequestTypes, Working, EndScan, Goto, db, reader, writer
    <2>5. ConfigThere' /\ Writing'
        BY <1>14 DEF RowTypes, RequestTypes, ConfigThere, Writing, EndScan, Goto, db, reader, writer
    <2> QED
        BY <2>1, <2>2, <2>3, <2>4, <2>5
<1>15. ASSUME NEW p \in Requests, Commit(p) PROVE CInv'
    <2>1. RowTypes' /\ Renewing'
        <3>1. row[p] \in Rows \cup {NoRow} /\ pending[p] \in Version
            BY DEF RequestTypes
        <3>2. /\ committed' = [committed EXCEPT ![row[p]] = pending[p]]
              /\ lock' = [lock EXCEPT ![row[p]] = NoOne]
              /\ written' = written
            BY <1>15 DEF Commit, EndWrite
        <3>3. history' \in [Rows -> SUBSET Content]
            BY <1>15, <3>1 DEF Commit, RowTypes, Version
        <3>4. renewed' = renewed /\ row[p] \in Rows /\ lock[row[p]] = p
            BY <1>15 DEF Commit, Writing, RequestTypes
        <3>5. Renewing'
            BY <3>2, <3>4 DEF Renewing, RowTypes
        <3> QED
            BY <3>1, <3>2, <3>3, <3>4, <3>5 DEF RowTypes
    <2>2. RequestTypes'
        BY <1>15, CountTyped DEF RowTypes, RequestTypes, Commit, Goto, EndWrite, db, reader, writer
    <2>3. EntryTypes'
        BY <1>15 DEF EntryTypes, Cached, Commit
    <2>4. Working'
        BY <1>15 DEF RowTypes, RequestTypes, Working, Commit, Goto, EndWrite, db, reader, writer
    <2>5. ConfigThere' /\ Writing'
        BY <1>15 DEF RowTypes, RequestTypes, ConfigThere, Writing, Commit, Goto, EndWrite, db, reader, writer
    <2> QED
        BY <2>1, <2>2, <2>3, <2>4, <2>5
<1>16. ASSUME NEW p \in Requests, Rollback(p) PROVE CInv'
    <2>1. RowTypes' /\ Renewing'
        BY <1>16 DEF RowTypes, RequestTypes, Renewing, Rollback, EndWrite, db
    <2>2. RequestTypes'
        BY <1>16, CountTyped DEF RowTypes, RequestTypes, Rollback, Goto, EndWrite, db, reader, writer
    <2>3. EntryTypes'
        BY <1>16 DEF EntryTypes, Cached, Rollback
    <2>4. Working'
        <3>1. p \notin warming
            BY <1>16 DEF Working, Writing, Rollback
        <3>2. /\ UNCHANGED <<key, loaded, warming>>
              /\ pc' = [pc EXCEPT ![p] = "idle"]
              /\ todo' = [todo EXCEPT ![p] = {}]
            BY <1>16 DEF Rollback, EndWrite, Goto, reader
        <3> QED
            BY <3>1, <3>2 DEF RequestTypes, Working
    <2>5. ConfigThere' /\ Writing'
        BY <1>16 DEF RowTypes, RequestTypes, ConfigThere, Writing, Rollback, Goto, EndWrite, db, reader, writer
    <2> QED
        BY <2>1, <2>2, <2>3, <2>4, <2>5
<1>17. ASSUME NEW k \in Keys, Expire(k) PROVE CInv'
    <2>1. UNCHANGED <<db, pc, reader, writer, todo>>
        BY <1>17 DEF Expire
    <2>2. RowTypes' /\ RequestTypes' /\ Renewing'
        BY <2>1 DEF RowTypes, Renewing, RequestTypes, db, reader, writer
    <2>3. EntryTypes'
        BY <1>17 DEF EntryTypes, Expire, Cached
    <2>4. Working' /\ ConfigThere' /\ Writing'
        BY <2>1 DEF Working, ConfigThere, Writing, db, reader, writer
    <2> QED
        BY <2>2, <2>3, <2>4
<1>18. CASE UNCHANGED vars
    BY <1>18 DEF RowTypes, Renewing, RequestTypes, EntryTypes, Working, ConfigThere, Writing, Cached, vars, db, reader, writer
<1>19. ASSUME NEW c \in Cameras, RenewUrl(c) PROVE CInv'
    <2> DEFINE url == written + 1
               content == [committed[c] EXCEPT !.url = url]
    <2>1. /\ UNCHANGED <<committed, history, cache, pc, reader, writer, todo>>
          /\ renewed' = [renewed EXCEPT ![c] = content]
          /\ written' = url
          /\ lock' = [lock EXCEPT ![c] = TuyaTask]
          /\ lock[c] = NoOne /\ committed[c] # Absent
        BY <1>19 DEF RenewUrl
    <2>2. url \in Nat
        BY DEF RowTypes
    <2>3. committed[c] \in Content
        BY <2>1 DEF RowTypes
    <2>4. content \in Content /\ content.body = committed[c].body
        BY <2>2, <2>3 DEF Content
    <2> HIDE DEF url, content
    <2>5. RowTypes'
        BY <2>1, <2>2, <2>4 DEF RowTypes
    <2>6. Renewing'
        BY <2>1, <2>3, <2>4 DEF Renewing, RowTypes
    <2>7. RequestTypes' /\ EntryTypes' /\ Working' /\ ConfigThere'
        BY <2>1 DEF RequestTypes, EntryTypes, Cached, Working, ConfigThere, reader, writer
    <2>8. Writing'
        BY <2>1 DEF Writing, RowTypes, RequestTypes, writer
    <2> QED
        BY <2>5, <2>6, <2>7, <2>8
<1>20. ASSUME CommitPass PROVE CInv'
    <2>1. /\ UNCHANGED <<written, cache, pc, reader, writer, todo>>
          /\ renewed' = [c \in Cameras |-> NoRow]
          /\ lock' = [r \in Rows |-> IF lock[r] = TuyaTask THEN NoOne ELSE lock[r]]
          /\ committed' = [r \in Rows |-> IF lock[r] = TuyaTask THEN renewed[r]
                                                             ELSE committed[r]]
          /\ history' = [r \in Rows |-> IF lock[r] = TuyaTask
                                       THEN history[r] \cup {renewed[r]}
                                       ELSE history[r]]
        BY <1>20 DEF CommitPass, EndPass, Renewed
    <2>2. RowTypes'
        BY <2>1 DEF RowTypes, Renewing
    <2>3. Renewing'
        BY <2>1 DEF Renewing
    <2>4. RequestTypes' /\ EntryTypes' /\ Working'
        BY <2>1 DEF RequestTypes, EntryTypes, Cached, Working, reader, writer
    <2>5. ConfigThere'
        BY <2>1 DEF ConfigThere, Renewing, writer
    <2>6. Writing'
        BY <2>1 DEF Writing, RequestTypes, writer
    <2> QED
        BY <2>2, <2>3, <2>4, <2>5, <2>6
<1>21. ASSUME BreakPass PROVE CInv'
    <2>1. /\ UNCHANGED <<committed, history, written, cache, pc, reader, writer, todo>>
          /\ renewed' = [c \in Cameras |-> NoRow]
          /\ lock' = [r \in Rows |-> IF lock[r] = TuyaTask THEN NoOne ELSE lock[r]]
        BY <1>21 DEF BreakPass, EndPass, Renewed
    <2>2. RowTypes' /\ Renewing'
        BY <2>1 DEF RowTypes, Renewing
    <2>3. RequestTypes' /\ EntryTypes' /\ Working' /\ ConfigThere'
        BY <2>1 DEF RequestTypes, EntryTypes, Cached, Working, ConfigThere, reader, writer
    <2>4. Writing'
        BY <2>1 DEF Writing, RequestTypes, writer
    <2> QED
        BY <2>2, <2>3, <2>4
<1> QED
    BY <1>1, <1>2, <1>3, <1>4, <1>5, <1>6, <1>7, <1>8, <1>9, <1>10, <1>11, <1>12, <1>13, <1>14, <1>15, <1>16, <1>17, <1>18, <1>19, <1>20, <1>21 DEF Next, Warm, ReadStep, WarmStep, WriteStep

\* Every variable keeps its type, and a camera that is not there never gets
\* an entry of its own.
THEOREM CacheTypes == Spec => []TypeOK
<1>1. Spec => []CInv
    BY CInit, CNext, PTL DEF Spec
<1>2. Spec => [](trouble \in Troubles)
    <2>1. Init => trouble \in Troubles
        BY DEF Init
    <2>2. trouble \in Troubles /\ [Next]_vars => (trouble \in Troubles)'
        BY DEF Next, vars
    <2> QED
        BY <2>1, <2>2, PTL DEF Spec
<1>3. CInv /\ trouble \in Troubles => TypeOK
    BY DEF CInv, TypeOK, Writing
<1> QED
    BY <1>1, <1>2, <1>3, PTL

----------------------------------------------------------------------------
(* Nothing that was never committed can be read *)

\* Rows of the database and of the sessions were committed.
RowsCommitted ==
    /\ \A r \in Rows : committed[r] # Absent => committed[r] \in history[r]
    /\ \A p \in Requests : \A r \in Rows :
          loaded[p][r] \in Content => loaded[p][r] \in history[r]

HInv == CInv /\ RowsCommitted /\ OnlyCommitted

LEMMA HInit == Init => HInv
<1> SUFFICES ASSUME Init PROVE HInv
    OBVIOUS
<1>1. CInv
    BY CInit
<1>2. RowsCommitted /\ OnlyCommitted
    BY NullAssumption DEF Init, RowsCommitted, OnlyCommitted, Cached, NothingLoaded
<1> QED
    BY <1>1, <1>2 DEF HInv

LEMMA HNext == HInv /\ [Next]_vars => HInv'
<1> SUFFICES ASSUME HInv, [Next]_vars PROVE HInv'
    OBVIOUS
<1> USE NullAssumption DEF HInv
<1>0. CInv'
    BY CNext
<1>1. ASSUME NEW p \in Requests, NEW k \in Keys, Get(p, k) PROVE RowsCommitted' /\ OnlyCommitted'
    BY <1>1 DEF CInv, RequestTypes, RowsCommitted, OnlyCommitted, Cached, Get,
        NothingLoaded, db, reader
<1>2. ASSUME NEW p \in Requests, NEW r \in Rows, Write(p, r) PROVE RowsCommitted' /\ OnlyCommitted'
    BY <1>2 DEF CInv, RequestTypes, RowsCommitted, OnlyCommitted, Cached, Write,
        NothingLoaded, db, reader
<1>3. ASSUME NEW p \in Requests, WarmConfig(p) PROVE RowsCommitted' /\ OnlyCommitted'
    BY <1>3 DEF CInv, RequestTypes, RowsCommitted, OnlyCommitted, Cached, WarmConfig,
        NothingLoaded, db, reader
<1>4. ASSUME NEW p \in Requests, WarmCameras(p) PROVE RowsCommitted' /\ OnlyCommitted'
    BY <1>4 DEF CInv, RequestTypes, RowsCommitted, OnlyCommitted, Cached, WarmCameras,
        NothingLoaded, db, reader
<1>5. ASSUME NEW p \in Requests, cache_invalidate(p) PROVE RowsCommitted' /\ OnlyCommitted'
    BY <1>5 DEF CInv, RequestTypes, RowsCommitted, OnlyCommitted, Cached, cache_invalidate,
        NothingLoaded, db, reader
<1>6. ASSUME NEW p \in Requests, Select(p) PROVE RowsCommitted' /\ OnlyCommitted'
    <2>1. UNCHANGED <<committed, history, cache>>
        BY <1>6 DEF Select, db
    <2>2. CASE loaded' = loaded
        BY <2>1, <2>2 DEF RowsCommitted, OnlyCommitted, Cached
    <2>3. CASE Load(p, Scope(key[p]))
        <3>1. Scope(key[p]) \subseteq Rows
            BY <1>6, ScopeInRows DEF CInv, Working, Select
        <3>2. RowsCommitted'
            BY <2>1, <2>3, <3>1, LoadTyped DEF CInv, RowTypes, RowsCommitted
        <3> QED
            BY <2>1, <3>2 DEF OnlyCommitted, Cached
    <2> QED
        BY <1>6, <2>2, <2>3 DEF Select
<1>7. ASSUME NEW p \in Requests, Count(p) PROVE RowsCommitted' /\ OnlyCommitted'
    BY <1>7 DEF CInv, RequestTypes, RowsCommitted, OnlyCommitted, Cached, Count,
        NothingLoaded, db, reader
<1>8. ASSUME NEW p \in Requests, Fill(p) PROVE RowsCommitted' /\ OnlyCommitted'
    <2>1. key[p] \in Keys /\ Scope(key[p]) \subseteq Rows
        BY <1>8, ScopeInRows DEF CInv, Working, Fill
    <2>2. UNCHANGED <<committed, history>>
        BY <1>8 DEF Fill, db
    <2>3. RowsCommitted'
        <3>1. \A q \in Requests : loaded'[q] = loaded[q] \/ loaded'[q] = NothingLoaded
            BY <1>8 DEF CInv, RequestTypes, Fill
        <3> QED
            BY <2>2, <3>1 DEF RowsCommitted, NothingLoaded
    <2>4. OnlyCommitted'
        <3>1. CASE UNCHANGED cache
            BY <2>2, <3>1 DEF OnlyCommitted, Cached
        <3>2. CASE cache' = [cache EXCEPT ![key[p]] =
                        Entry([r \in Scope(key[p]) |-> loaded[p][r]], total[p])]
            <4> SUFFICES ASSUME NEW k \in Keys, Cached(k)', NEW r \in Scope(k),
                                cache'[k].rows[r] # Absent
                         PROVE  cache'[k].rows[r] \in history[r]
                BY <2>2 DEF OnlyCommitted
            <4>1. CASE k = key[p]
                <5>1. cache'[k].rows[r] = loaded[p][r]
                    BY <2>1, <3>2, <4>1 DEF CInv, EntryTypes, Entry
                <5>2. r \in Rows /\ loaded[p][r] # NoRow
                    BY <1>8, <2>1, <4>1 DEF CInv, Working, Fill
                <5> QED
                    BY <5>1, <5>2 DEF CInv, RequestTypes, RowsCommitted
            <4>2. CASE k # key[p]
                BY <3>2, <4>2 DEF OnlyCommitted, Cached
            <4> QED
                BY <4>1, <4>2
        <3> QED
            BY <1>8, <3>1, <3>2 DEF Fill
    <2> QED
        BY <2>3, <2>4
<1>9. ASSUME NEW p \in Requests, Enumerate(p) PROVE RowsCommitted' /\ OnlyCommitted'
    <2>1. UNCHANGED <<committed, history, cache>> /\ Load(p, Cameras \cap Present)
        BY <1>9 DEF Enumerate, db
    <2>2. RowsCommitted'
        BY <2>1, LoadTyped DEF CInv, RowTypes, RowsCommitted
    <2> QED
        BY <2>1, <2>2 DEF OnlyCommitted, Cached
<1>10. ASSUME NEW p \in Requests, WarmNext(p) PROVE RowsCommitted' /\ OnlyCommitted'
    BY <1>10 DEF CInv, RequestTypes, RowsCommitted, OnlyCommitted, Cached, WarmNext,
        NothingLoaded, db, reader
<1>11. ASSUME NEW p \in Requests, WarmDone(p) PROVE RowsCommitted' /\ OnlyCommitted'
    BY <1>11 DEF CInv, RequestTypes, RowsCommitted, OnlyCommitted, Cached, WarmDone,
        NothingLoaded, db, reader
<1>12. ASSUME NEW p \in Requests, Scan(p) PROVE RowsCommitted' /\ OnlyCommitted'
    BY <1>12 DEF CInv, RequestTypes, RowsCommitted, OnlyCommitted, Cached, Scan,
        NothingLoaded, db, reader
<1>13. ASSUME NEW p \in Requests, DropKey(p) PROVE RowsCommitted' /\ OnlyCommitted'
    BY <1>13 DEF CInv, RequestTypes, RowsCommitted, OnlyCommitted, Cached, DropKey,
        NothingLoaded, db, reader
<1>14. ASSUME NEW p \in Requests, EndScan(p) PROVE RowsCommitted' /\ OnlyCommitted'
    BY <1>14 DEF CInv, RequestTypes, RowsCommitted, OnlyCommitted, Cached, EndScan,
        NothingLoaded, db, reader
<1>15. ASSUME NEW p \in Requests, Commit(p) PROVE RowsCommitted' /\ OnlyCommitted'
    <2>1. row[p] \in Rows
        BY <1>15 DEF CInv, Writing, RequestTypes, Commit
    <2>2. \A r \in Rows : history[r] \subseteq history'[r]
        BY <1>15, <2>1 DEF CInv, RowTypes, Commit
    <2>3. RowsCommitted'
        BY <1>15, <2>1, <2>2 DEF CInv, RowTypes, RowsCommitted, Commit, reader
    <2>4. OnlyCommitted'
        BY <1>15, <2>2, ScopeInRows DEF OnlyCommitted, Cached, Commit
    <2> QED
        BY <2>3, <2>4
<1>16. ASSUME NEW p \in Requests, Rollback(p) PROVE RowsCommitted' /\ OnlyCommitted'
    BY <1>16 DEF CInv, RequestTypes, RowsCommitted, OnlyCommitted, Cached, Rollback, EndWrite,
        NothingLoaded, db, reader
<1>17. ASSUME NEW k \in Keys, Expire(k) PROVE RowsCommitted' /\ OnlyCommitted'
    BY <1>17 DEF RowsCommitted, OnlyCommitted, Cached, Expire, db, reader
<1>18. CASE UNCHANGED vars
    <2>1. UNCHANGED <<committed, history, cache, loaded>>
        BY <1>18 DEF vars, db, reader
    <2>2. RowsCommitted'
        BY <2>1 DEF RowsCommitted
    <2>3. OnlyCommitted'
        BY <2>1 DEF OnlyCommitted, Cached
    <2> QED
        BY <1>0, <2>2, <2>3
<1>19. ASSUME NEW c \in Cameras, RenewUrl(c) PROVE RowsCommitted' /\ OnlyCommitted'
    BY <1>19 DEF RowsCommitted, OnlyCommitted, Cached, RenewUrl, reader
<1>20. ASSUME CommitPass PROVE RowsCommitted' /\ OnlyCommitted'
    <2>1. /\ UNCHANGED <<cache, loaded>>
          /\ committed' = [r \in Rows |-> IF lock[r] = TuyaTask THEN renewed[r]
                                                             ELSE committed[r]]
          /\ history' = [r \in Rows |-> IF lock[r] = TuyaTask
                                       THEN history[r] \cup {renewed[r]}
                                       ELSE history[r]]
        BY <1>20 DEF CommitPass, EndPass, Renewed, reader
    <2>2. \A r \in Rows : history[r] \subseteq history'[r]
        BY <2>1
    <2>3. RowsCommitted'
        BY <2>1, <2>2 DEF RowsCommitted
    <2>4. OnlyCommitted'
        BY <2>1, <2>2, ScopeInRows DEF OnlyCommitted, Cached
    <2> QED
        BY <2>3, <2>4
<1>21. ASSUME BreakPass PROVE RowsCommitted' /\ OnlyCommitted'
    BY <1>21 DEF RowsCommitted, OnlyCommitted, Cached, BreakPass, EndPass, reader
<1> QED
    BY <1>0, <1>1, <1>2, <1>3, <1>4, <1>5, <1>6, <1>7, <1>8, <1>9, <1>10, <1>11, <1>12, <1>13, <1>14, <1>15, <1>16, <1>17, <1>18, <1>19, <1>20, <1>21 DEF Next, Warm, ReadStep, WarmStep, WriteStep

\* No uncommitted and no rolled back version of a row is ever cached.
THEOREM CommittedTheorem == Spec => []OnlyCommitted
<1>1. Spec => []HInv
    BY HInit, HNext, PTL DEF Spec
<1>2. HInv => OnlyCommitted
    BY DEF HInv
<1> QED
    BY <1>1, <1>2, PTL

----------------------------------------------------------------------------
(* Nothing but a url is stale when no mutation commits while rows are cached *)

Apart == \A p, q \in Requests : Publishing(p) => ~Filling(q)

\* The rows of a session are the rows of the database, but for their urls.
SessionsFresh ==
    \A p \in Requests : \A r \in Rows :
        loaded[p][r] # NoRow => Body(loaded[p][r]) = Body(committed[r])

Counted ==
    \A p \in Requests :
        /\ pc[p] = "filling" => total[p] = IF key[p] = List
                                           THEN Cardinality(Cameras \cap Present)
                                           ELSE 1
        /\ pc[p] = "warming" => total[p] = 1

\* Between its scan and its commit a mutation has the keys it touches yet to
\* delete, or they are gone.
Unpublished ==
    \A p \in Requests : row[p] # NoRow =>
        /\ pc[p] = "scanning" =>
              \A k \in Pattern(row[p]) : Cached(k) => k \in todo[p]
        /\ pc[p] = "committing" => \A k \in Pattern(row[p]) : ~Cached(k)

FInv == CInv /\ Apart /\ SessionsFresh /\ Counted /\ Unpublished /\ ReadsAreFresh

LEMMA BodyAbsent ==
    ASSUME NEW v \in Version
    PROVE  Body(v) = Absent <=> v = Absent
BY NullAssumption DEF Body, Content

\* What the rows are, but for their urls, says what a fresh entry shows.
LEMMA CurrentBodies ==
    ASSUME RowTypes, NEW k \in Keys
    PROVE  Bodies(k, Current(k)) =
              Entry([r \in Scope(k) |-> Body(committed[r])],
                    Cardinality({r \in Scope(k) : Body(committed[r]) # Absent}))
<1>1. Scope(k) \subseteq Rows
    BY ScopeInRows
<1>2. {r \in Scope(k) : Body(committed[r]) # Absent} = Scope(k) \cap Present
    BY <1>1, BodyAbsent DEF Present, RowTypes
<1> QED
    BY <1>2 DEF Bodies, Current, Entry

LEMMA CurrentBodiesNext ==
    ASSUME RowTypes', NEW k \in Keys
    PROVE  Bodies(k, Current(k)') =
              Entry([r \in Scope(k) |-> Body(committed'[r])],
                    Cardinality({r \in Scope(k) : Body(committed'[r]) # Absent}))
<1>1. Scope(k) \subseteq Rows
    BY ScopeInRows
<1>2. {r \in Scope(k) : Body(committed'[r]) # Absent} = Scope(k) \cap Present'
    BY <1>1, BodyAbsent DEF Present, RowTypes
<1> QED
    BY <1>2 DEF Bodies, Current, Entry

\* Entries stay fresh when no row changes but for its url.
LEMMA StayFresh ==
    ASSUME ReadsAreFresh, RowTypes, RowTypes',
           \A r \in Rows : Body(committed'[r]) = Body(committed[r]),
           \A k \in Keys : cache'[k] \in {cache[k], Nothing}
    PROVE  ReadsAreFresh'
<1> SUFFICES ASSUME NEW k \in Keys, Cached(k)'
             PROVE  Bodies(k, cache'[k]) = Bodies(k, Current(k)')
    BY DEF ReadsAreFresh, FreshButForUrls
<1>1. Cached(k) /\ cache'[k] = cache[k]
    BY DEF Cached
<1>2. Bodies(k, cache[k]) = Bodies(k, Current(k))
    BY <1>1 DEF ReadsAreFresh, FreshButForUrls
<1>3. Scope(k) \subseteq Rows
    BY ScopeInRows
<1>4. [r \in Scope(k) |-> Body(committed'[r])] = [r \in Scope(k) |-> Body(committed[r])]
    BY <1>3
<1>5. {r \in Scope(k) : Body(committed'[r]) # Absent}
        = {r \in Scope(k) : Body(committed[r]) # Absent}
    BY <1>3
<1>6. Bodies(k, Current(k)') =
        Entry([r \in Scope(k) |-> Body(committed'[r])],
              Cardinality({r \in Scope(k) : Body(committed'[r]) # Absent}))
    BY CurrentBodiesNext
<1> QED
    BY <1>1, <1>2, <1>4, <1>5, <1>6, CurrentBodies

\* What a request that fills the cache writes is what the database holds.
LEMMA FillIsCurrent ==
    ASSUME FInv, NEW p \in Requests, pc[p] = "filling"
    PROVE  /\ key[p] \in Keys
           /\ Bodies(key[p], Entry([r \in Scope(key[p]) |-> loaded[p][r]], total[p]))
                = Bodies(key[p], Current(key[p]))
<1> USE NullAssumption DEF FInv, CInv
<1>1. key[p] \in Keys /\ Scope(key[p]) \subseteq Rows
    BY ScopeInRows DEF Working
<1>2. \A r \in Scope(key[p]) : Body(loaded[p][r]) = Body(committed[r])
    BY <1>1 DEF Working, SessionsFresh
<1>3. total[p] = Cardinality(Scope(key[p]) \cap Present)
    <2>1. CASE key[p] = List
        BY <2>1 DEF Counted, Scope
    <2>2. CASE key[p] # List
        <3>1. key[p] \in Rows /\ Scope(key[p]) = {key[p]}
            BY <1>1, <2>2 DEF Scope
        <3>2. committed[key[p]] \in Content
            <4>1. loaded[p][key[p]] \in Content
                BY <2>2 DEF Working
            <4>2. Body(committed[key[p]]) # Absent
                BY <1>2, <3>1, <4>1, BodyAbsent, NullAssumption
            <4> QED
                BY <3>1, <4>2 DEF Body, RowTypes
        <3>3. Scope(key[p]) \cap Present = {key[p]}
            BY <3>1, <3>2 DEF Present
        <3> QED
            BY <2>2, <3>3, FS_Singleton DEF Counted
    <2> QED
        BY <2>1, <2>2
<1> QED
    BY <1>1, <1>2, <1>3 DEF Bodies, Entry, Current

\* The Tuya task commits urls, and nothing else of a row.
LEMMA PassKeepsBodies ==
    ASSUME CInv, CommitPass
    PROVE  \A r \in Rows : Body(committed'[r]) = Body(committed[r])
<1>1. committed' = [r \in Rows |-> IF lock[r] = TuyaTask THEN renewed[r]
                                                     ELSE committed[r]]
    BY DEF CommitPass, Renewed
<1>2. ASSUME NEW r \in Rows, lock[r] = TuyaTask
      PROVE  Body(renewed[r]) = Body(committed[r])
    <2>1. /\ committed[r] \in Content /\ renewed[r] \in Content
          /\ renewed[r].body = committed[r].body
        BY <1>2 DEF CInv, Renewing
    <2> QED
        BY <2>1, NullAssumption DEF Body
<1> QED
    BY <1>1, <1>2

\* ... and it is an entry of its key.
LEMMA FillIsEntry ==
    ASSUME CInv, NEW p \in Requests, pc[p] = "filling"
    PROVE  Entry([r \in Scope(key[p]) |-> loaded[p][r]], total[p]) \in EntryOf(key[p])
<1> USE NullAssumption DEF CInv
<1>1. /\ key[p] \in Keys /\ Scope(key[p]) \subseteq Rows
      /\ \A r \in Scope(key[p]) : loaded[p][r] # NoRow
      /\ key[p] # List => loaded[p][key[p]] \in Content
    BY ScopeInRows DEF Working
<1>2. \A r \in Scope(key[p]) :
         loaded[p][r] \in IF key[p] = List THEN Version ELSE Content
    BY <1>1 DEF Scope, RequestTypes
<1> QED
    BY <1>2 DEF Entry, EntryOf, RequestTypes

LEMMA FInit == Init => FInv
<1> SUFFICES ASSUME Init PROVE FInv
    OBVIOUS
<1>1. CInv
    BY CInit
<1>2. Apart /\ SessionsFresh /\ Counted /\ Unpublished /\ ReadsAreFresh
    BY NullAssumption DEF Init, Apart, Publishing, SessionsFresh, NothingLoaded,
        Counted, Unpublished, ReadsAreFresh, Cached
<1> QED
    BY <1>1, <1>2 DEF FInv

LEMMA FNext == ~Overlap /\ ~Faults /\ FInv /\ [Next]_vars => FInv'
<1> SUFFICES ASSUME ~Overlap, ~Faults, FInv, [Next]_vars PROVE FInv'
    OBVIOUS
<1> USE NullAssumption DEF FInv, CInv
<1>0. CInv'
    BY CNext
<1> DEFINE Good == /\ Apart /\ SessionsFresh /\ Counted
                   /\ Unpublished /\ ReadsAreFresh
<1>1. ASSUME NEW p \in Requests, NEW k \in Keys, Get(p, k) PROVE Good'
    <2>1. /\ UNCHANGED <<committed, cache, row>> /\ row[p] = NoRow
          /\ \A q \in Requests : loaded'[q] \in {loaded[q], NothingLoaded}
          /\ \A q \in Requests : q # p =>
                /\ pc'[q] = pc[q] /\ key'[q] = key[q] /\ total'[q] = total[q]
                /\ todo'[q] = todo[q]
        BY <1>1 DEF Get, Goto, db, reader, writer, Writing, RequestTypes
    <2>2. pc'[p] = "reading"
        BY <1>1 DEF Get, Goto, reader, Working, RequestTypes
    <2>3. \A q \in Requests : Publishing(q)' => Publishing(q)
        BY <2>1 DEF Publishing
    <2>4. Apart' /\ SessionsFresh'
        BY <2>1, <2>3 DEF Apart, SessionsFresh, Filling, HasRows, NothingLoaded
    <2>5. Counted'
        BY <2>1, <2>2 DEF Counted, Present
    <2>6. Unpublished'
        BY <2>1 DEF Unpublished, Cached
    <2>7. ReadsAreFresh'
        BY <1>0, <2>1, StayFresh
    <2> QED
        BY <2>4, <2>5, <2>6, <2>7
<1>2. ASSUME NEW p \in Requests, NEW r \in Rows, Write(p, r) PROVE Good'
    <2>1. /\ UNCHANGED <<committed, cache, key, loaded, total, todo>>
          /\ pc' = [pc EXCEPT ![p] = "flushed"] /\ row' = [row EXCEPT ![p] = r]
        BY <1>2 DEF Write, Goto, db, reader
    <2>2. \A q \in Requests : Publishing(q)' => Publishing(q)
        BY <2>1 DEF Publishing, RequestTypes
    <2>3. Apart' /\ SessionsFresh'
        BY <2>1, <2>2 DEF Apart, SessionsFresh, Filling, HasRows, NothingLoaded
    <2>4. Counted'
        BY <2>1 DEF Counted, Present, RequestTypes
    <2>5. Unpublished'
        BY <2>1 DEF Unpublished, Cached, RequestTypes
    <2>6. ReadsAreFresh'
        BY <1>0, <2>1, StayFresh
    <2> QED
        BY <2>3, <2>4, <2>5, <2>6
<1>3. ASSUME NEW p \in Requests, WarmConfig(p) PROVE Good'
    <2>1. /\ UNCHANGED <<committed, cache, row>> /\ row[p] = NoRow
          /\ \A q \in Requests : loaded'[q] \in {loaded[q], NothingLoaded}
          /\ \A q \in Requests : q # p =>
                /\ pc'[q] = pc[q] /\ key'[q] = key[q] /\ total'[q] = total[q]
                /\ todo'[q] = todo[q]
        BY <1>3 DEF WarmConfig, Goto, db, reader, writer, Writing, RequestTypes
    <2>2. pc'[p] = "reading"
        BY <1>3 DEF WarmConfig, Goto, reader, Working, RequestTypes
    <2>3. \A q \in Requests : Publishing(q)' => Publishing(q)
        BY <2>1 DEF Publishing
    <2>4. Apart' /\ SessionsFresh'
        BY <2>1, <2>3 DEF Apart, SessionsFresh, Filling, HasRows, NothingLoaded
    <2>5. Counted'
        BY <2>1, <2>2 DEF Counted, Present
    <2>6. Unpublished'
        BY <2>1 DEF Unpublished, Cached
    <2>7. ReadsAreFresh'
        BY <1>0, <2>1, StayFresh
    <2> QED
        BY <2>4, <2>5, <2>6, <2>7
<1>4. ASSUME NEW p \in Requests, WarmCameras(p) PROVE Good'
    <2>1. /\ UNCHANGED <<committed, cache, row>> /\ row[p] = NoRow
          /\ \A q \in Requests : loaded'[q] \in {loaded[q], NothingLoaded}
          /\ \A q \in Requests : q # p =>
                /\ pc'[q] = pc[q] /\ key'[q] = key[q] /\ total'[q] = total[q]
                /\ todo'[q] = todo[q]
        BY <1>4 DEF WarmCameras, Goto, db, reader, writer, Writing, RequestTypes
    <2>2. pc'[p] \in {"reading", "enumerating"}
        BY <1>4 DEF WarmCameras, Goto, reader, Working, RequestTypes
    <2>3. \A q \in Requests : Publishing(q)' => Publishing(q)
        BY <2>1 DEF Publishing
    <2>4. Apart' /\ SessionsFresh'
        BY <2>1, <2>3 DEF Apart, SessionsFresh, Filling, HasRows, NothingLoaded
    <2>5. Counted'
        BY <2>1, <2>2 DEF Counted, Present
    <2>6. Unpublished'
        BY <2>1 DEF Unpublished, Cached
    <2>7. ReadsAreFresh'
        BY <1>0, <2>1, StayFresh
    <2> QED
        BY <2>4, <2>5, <2>6, <2>7
<1>5. ASSUME NEW p \in Requests, cache_invalidate(p) PROVE Good'
    <2>1. /\ UNCHANGED <<committed, cache, row>> /\ row[p] = NoRow
          /\ \A q \in Requests : loaded'[q] \in {loaded[q], NothingLoaded}
          /\ \A q \in Requests : q # p =>
                /\ pc'[q] = pc[q] /\ key'[q] = key[q] /\ total'[q] = total[q]
                /\ todo'[q] = todo[q]
        BY <1>5 DEF cache_invalidate, Goto, db, reader, writer, Writing, RequestTypes
    <2>2. pc'[p] = "scanning"
        BY <1>5 DEF cache_invalidate, Goto, reader, Working, RequestTypes
    <2>3. \A q \in Requests : Publishing(q)' => Publishing(q)
        BY <2>1 DEF Publishing
    <2>4. Apart' /\ SessionsFresh'
        BY <2>1, <2>3 DEF Apart, SessionsFresh, Filling, HasRows, NothingLoaded
    <2>5. Counted'
        BY <2>1, <2>2 DEF Counted, Present
    <2>6. Unpublished'
        BY <2>1 DEF Unpublished, Cached
    <2>7. ReadsAreFresh'
        BY <1>0, <2>1, StayFresh
    <2> QED
        BY <2>4, <2>5, <2>6, <2>7
<1>6. ASSUME NEW p \in Requests, Select(p) PROVE Good'
    <2>1. /\ UNCHANGED <<committed, cache, row>>
          /\ \A q \in Requests : ~Publishing(q)
          /\ \E l \in {"idle", "counting", "filling"} : pc' = [pc EXCEPT ![p] = l]
        BY <1>6 DEF Select, MayFill, Goto, db, writer
    <2>2. Scope(key[p]) \subseteq Rows
        BY <1>6, ScopeInRows DEF Working, Select
    <2>3. \A q \in Requests : ~Publishing(q)'
        BY <2>1 DEF Publishing, RequestTypes
    <2>4. SessionsFresh'
        <3>1. CASE loaded' = loaded
            BY <2>1, <3>1 DEF SessionsFresh
        <3>2. CASE Load(p, Scope(key[p]))
            BY <2>1, <2>2, <3>2, LoadTyped DEF SessionsFresh
        <3> QED
            BY <1>6, <3>1, <3>2 DEF Select
    <2>5. Counted'
        <3>1. /\ \A q \in Requests : q # p =>
                    pc'[q] = pc[q] /\ key'[q] = key[q] /\ total'[q] = total[q]
              /\ pc'[p] \in {"idle", "counting", "filling"}
              /\ pc'[p] = "filling" => key'[p] # List /\ total'[p] = 1
            BY <1>6 DEF Select, Goto, RequestTypes
        <3> QED
            BY <2>1, <3>1 DEF Counted, Present
    <2>6. Apart' /\ Unpublished'
        BY <2>3 DEF Apart, Unpublished, Publishing
    <2>7. ReadsAreFresh'
        BY <1>0, <2>1, StayFresh
    <2> QED
        BY <2>4, <2>5, <2>6, <2>7
<1>7. ASSUME NEW p \in Requests, Count(p) PROVE Good'
    <2>1. /\ UNCHANGED <<committed, cache, row>> /\ row[p] = NoRow
          /\ \A q \in Requests : loaded'[q] \in {loaded[q], NothingLoaded}
          /\ \A q \in Requests : q # p =>
                /\ pc'[q] = pc[q] /\ key'[q] = key[q] /\ total'[q] = total[q]
                /\ todo'[q] = todo[q]
        BY <1>7 DEF Count, Goto, db, reader, writer, Writing, RequestTypes
    <2>2. /\ pc'[p] = "filling" /\ key[p] = List /\ key'[p] = List
          /\ total'[p] = Cardinality(Cameras \cap Present)
        BY <1>7 DEF Count, Goto, reader, Working, RequestTypes
    <2>3. \A q \in Requests : Publishing(q)' => Publishing(q)
        BY <2>1 DEF Publishing
    <2>4. Apart' /\ SessionsFresh'
        BY <2>1, <2>3 DEF Apart, SessionsFresh, Filling, HasRows, NothingLoaded
    <2>5. Counted'
        BY <2>1, <2>2 DEF Counted, Present
    <2>6. Unpublished'
        BY <2>1 DEF Unpublished, Cached
    <2>7. ReadsAreFresh'
        BY <1>0, <2>1, StayFresh
    <2> QED
        BY <2>4, <2>5, <2>6, <2>7
<1>8. ASSUME NEW p \in Requests, Fill(p) PROVE Good'
    <2> DEFINE entry == Entry([r \in Scope(key[p]) |-> loaded[p][r]], total[p])
    <2>1. /\ pc[p] = "filling" /\ cache' = [cache EXCEPT ![key[p]] = entry]
          /\ Bodies(key[p], entry) = Bodies(key[p], Current(key[p]))
          /\ UNCHANGED <<committed, row, todo>>
        BY <1>8, FillIsCurrent DEF Fill, db, writer
    <2> HIDE DEF entry
    <2>2. key[p] \in Keys /\ Filling(p)
        BY <2>1, ScopeInRows DEF Working, Filling, HasRows, NothingLoaded
    <2>3. \A q \in Requests : /\ loaded'[q] = loaded[q] \/ loaded'[q] = NothingLoaded
                              /\ q # p => /\ pc'[q] = pc[q] /\ key'[q] = key[q]
                                          /\ total'[q] = total[q]
        BY <1>8 DEF Fill, Goto, RequestTypes
    <2>4. /\ pc'[p] \in {"idle", "enumerating", "warming"}
          /\ pc'[p] = "warming" => key[p] # List /\ total'[p] = total[p]
        BY <1>8 DEF Fill, Goto, RequestTypes
    <2>5. \A q \in Requests : Publishing(q)' => Publishing(q)
        BY <2>1, <2>3, <2>4 DEF Publishing
    <2>6. Apart'
        BY <2>3, <2>5 DEF Apart, Filling, HasRows
    <2>7. SessionsFresh'
        BY <2>1, <2>3 DEF SessionsFresh, NothingLoaded
    <2>8. Counted'
        BY <2>1, <2>3, <2>4 DEF Counted, Present
    <2>9. Unpublished'
        BY <2>1, <2>2, <2>5 DEF Apart, Unpublished, Publishing
    <2>10. ReadsAreFresh'
        <3> SUFFICES ASSUME NEW k \in Keys, Cached(k)' PROVE FreshButForUrls(k)'
            BY DEF ReadsAreFresh
        <3>1. Current(k)' = Current(k)
            BY <2>1 DEF Current, Present
        <3>2. CASE k = key[p]
            BY <2>1, <2>2, <3>1, <3>2 DEF EntryTypes, FreshButForUrls
        <3>3. CASE k # key[p]
            BY <2>1, <2>2, <3>1, <3>3 DEF EntryTypes, ReadsAreFresh, Cached, FreshButForUrls
        <3> QED
            BY <3>2, <3>3
    <2> QED
        BY <2>6, <2>7, <2>8, <2>9, <2>10
<1>9. ASSUME NEW p \in Requests, Enumerate(p) PROVE Good'
    <2>1. /\ UNCHANGED <<committed, cache, row>>
          /\ \A q \in Requests : ~Publishing(q)
          /\ \E l \in {"warming"} : pc' = [pc EXCEPT ![p] = l]
        BY <1>9 DEF Enumerate, MayFill, Goto, db, writer
    <2>2. Cameras \cap Present \subseteq Rows
        OBVIOUS
    <2>3. \A q \in Requests : ~Publishing(q)'
        BY <2>1 DEF Publishing, RequestTypes
    <2>4. SessionsFresh'
        <3>1. CASE loaded' = loaded
            BY <2>1, <3>1 DEF SessionsFresh
        <3>2. CASE Load(p, Cameras \cap Present)
            BY <2>1, <2>2, <3>2, LoadTyped DEF SessionsFresh
        <3> QED
            BY <1>9, <3>1, <3>2 DEF Enumerate
    <2>5. Counted'
        <3>1. /\ \A q \in Requests : q # p =>
                    pc'[q] = pc[q] /\ key'[q] = key[q] /\ total'[q] = total[q]
              /\ pc'[p] = "warming" /\ total'[p] = 1
            BY <1>9 DEF Enumerate, Goto, RequestTypes
        <3> QED
            BY <2>1, <3>1 DEF Counted, Present
    <2>6. Apart' /\ Unpublished'
        BY <2>3 DEF Apart, Unpublished, Publishing
    <2>7. ReadsAreFresh'
        BY <1>0, <2>1, StayFresh
    <2> QED
        BY <2>4, <2>5, <2>6, <2>7
<1>10. ASSUME NEW p \in Requests, WarmNext(p) PROVE Good'
    <2>1. /\ UNCHANGED <<committed, cache, row>> /\ row[p] = NoRow
          /\ \A q \in Requests : loaded'[q] \in {loaded[q], NothingLoaded}
          /\ \A q \in Requests : q # p =>
                /\ pc'[q] = pc[q] /\ key'[q] = key[q] /\ total'[q] = total[q]
                /\ todo'[q] = todo[q]
        BY <1>10 DEF WarmNext, Goto, db, reader, writer, Writing, RequestTypes
    <2>2. /\ pc[p] = "warming" /\ total'[p] = total[p]
          /\ pc'[p] \in {"warming", "filling"}
          /\ pc'[p] = "filling" => key'[p] \in Cameras
        BY <1>10 DEF WarmNext, Goto, reader, Working, RequestTypes
    <2>3. \A q \in Requests : Publishing(q)' => Publishing(q)
        BY <2>1 DEF Publishing
    <2>4. Apart' /\ SessionsFresh'
        BY <2>1, <2>3 DEF Apart, SessionsFresh, Filling, HasRows, NothingLoaded
    <2>5. Counted'
        <3>1. total'[p] = 1
            BY <2>2 DEF Counted
        <3>2. pc'[p] = "filling" => key'[p] # List
            BY <2>2
        <3> QED
            BY <2>1, <3>1, <3>2 DEF Counted, Present
    <2>6. Unpublished'
        BY <2>1 DEF Unpublished, Cached
    <2>7. ReadsAreFresh'
        BY <1>0, <2>1, StayFresh
    <2> QED
        BY <2>4, <2>5, <2>6, <2>7
<1>11. ASSUME NEW p \in Requests, WarmDone(p) PROVE Good'
    <2>1. /\ UNCHANGED <<committed, cache, row>> /\ row[p] = NoRow
          /\ \A q \in Requests : loaded'[q] \in {loaded[q], NothingLoaded}
          /\ \A q \in Requests : q # p =>
                /\ pc'[q] = pc[q] /\ key'[q] = key[q] /\ total'[q] = total[q]
                /\ todo'[q] = todo[q]
        BY <1>11 DEF WarmDone, Goto, db, reader, writer, Writing, RequestTypes
    <2>2. pc'[p] = "idle"
        BY <1>11 DEF WarmDone, Goto, reader, Working, RequestTypes
    <2>3. \A q \in Requests : Publishing(q)' => Publishing(q)
        BY <2>1 DEF Publishing
    <2>4. Apart' /\ SessionsFresh'
        BY <2>1, <2>3 DEF Apart, SessionsFresh, Filling, HasRows, NothingLoaded
    <2>5. Counted'
        BY <2>1, <2>2 DEF Counted, Present
    <2>6. Unpublished'
        BY <2>1 DEF Unpublished, Cached
    <2>7. ReadsAreFresh'
        BY <1>0, <2>1, StayFresh
    <2> QED
        BY <2>4, <2>5, <2>6, <2>7
<1>12. ASSUME NEW p \in Requests, Scan(p) PROVE Good'
    <2>1. committed' = committed
        BY <1>12 DEF Scan, db
    <2>2. Apart' /\ SessionsFresh'
        BY <1>12, <2>1 DEF Apart, SessionsFresh, Publishing, Filling, HasRows, NothingLoaded,
            MayPublish, RequestTypes, Writing, Scan, Goto, reader, writer
    <2>3. Counted'
        BY <1>12, <2>1 DEF Counted, RequestTypes, Scan, Goto, Present, reader
    <2>4. Unpublished'
        <3>1. /\ UNCHANGED <<cache, row>> /\ pc' = [pc EXCEPT ![p] = "scanning"]
              /\ todo' = [todo EXCEPT ![p] = {k \in Pattern(row[p]) : Cached(k)}]
            BY <1>12 DEF Scan, Goto, writer
        <3> QED
            BY <3>1 DEF Unpublished, Cached, RequestTypes
    <2>5. ReadsAreFresh'
        BY <1>0, <1>12, <2>1, StayFresh DEF Scan
    <2> QED
        BY <2>2, <2>3, <2>4, <2>5
<1>13. ASSUME NEW p \in Requests, DropKey(p) PROVE Good'
    <2>1. committed' = committed
        BY <1>13 DEF DropKey, db
    <2>2. Apart' /\ SessionsFresh'
        BY <1>13, <2>1 DEF Apart, SessionsFresh, Publishing, Filling, HasRows, NothingLoaded,
            MayPublish, RequestTypes, Writing, DropKey, Goto, reader, writer
    <2>3. Counted'
        BY <1>13, <2>1 DEF Counted, RequestTypes, DropKey, Goto, Present, reader
    <2>4. Unpublished'
        <3>1. PICK k \in todo[p] : /\ cache' = [cache EXCEPT ![k] = Nothing]
                                  /\ todo' = [todo EXCEPT ![p] = @ \ {k}]
            BY <1>13 DEF DropKey
        <3>2. k \in Keys /\ UNCHANGED <<row, pc>>
            BY <1>13, <3>1 DEF DropKey, writer, RequestTypes
        <3>3. ~Cached(k)' /\ \A j \in Keys : Cached(j)' => Cached(j)
            BY <3>1, <3>2 DEF EntryTypes, Cached
        <3> QED
            BY <3>1, <3>2, <3>3, PatternInKeys DEF Unpublished, RequestTypes
    <2>5. ReadsAreFresh'
        BY <1>0, <1>13, <2>1, StayFresh DEF EntryTypes, DropKey
    <2> QED
        BY <2>2, <2>3, <2>4, <2>5
<1>14. ASSUME NEW p \in Requests, EndScan(p) PROVE Good'
    <2>1. committed' = committed
        BY <1>14 DEF EndScan, db
    <2>2. Apart' /\ SessionsFresh'
        BY <1>14, <2>1 DEF Apart, SessionsFresh, Publishing, Filling, HasRows, NothingLoaded,
            MayPublish, RequestTypes, Writing, EndScan, Goto, reader, writer
    <2>3. Counted'
        <3>1. /\ UNCHANGED <<key, total>>
              /\ \E l \in {"idle", "committing"} : pc' = [pc EXCEPT ![p] = l]
            BY <1>14 DEF EndScan, Goto, reader
        <3> QED
            BY <2>1, <3>1 DEF Counted, Present, RequestTypes
    <2>4. Unpublished'
        <3>1. /\ pc[p] = "scanning" /\ todo[p] = {}
              /\ UNCHANGED <<cache, row>>
              /\ todo' = [todo EXCEPT ![p] = {}]
              /\ pc' = [pc EXCEPT ![p] = IF row[p] = NoRow THEN "idle" ELSE "committing"]
            BY <1>14 DEF EndScan, Goto, writer
        <3>2. row[p] # NoRow => \A k \in Pattern(row[p]) : ~Cached(k)
            BY <3>1 DEF Unpublished
        <3> QED
            BY <3>1, <3>2 DEF Unpublished, RequestTypes, Cached
    <2>5. ReadsAreFresh'
        BY <1>0, <1>14, <2>1, StayFresh DEF EndScan
    <2> QED
        BY <2>2, <2>3, <2>4, <2>5
<1>15. ASSUME NEW p \in Requests, Commit(p) PROVE Good'
    <2>1. /\ row[p] \in Rows /\ Publishing(p)
          /\ committed' = [committed EXCEPT ![row[p]] = pending[p]]
          /\ UNCHANGED <<cache, key, loaded, total>>
          /\ row' = [row EXCEPT ![p] = NoRow] /\ pc' = [pc EXCEPT ![p] = "idle"]
          /\ todo' = [todo EXCEPT ![p] = {}]
        BY <1>15 DEF Writing, RequestTypes, Publishing, Commit, EndWrite, Goto, reader
    <2>2. \A q \in Requests : loaded[q] = NothingLoaded
        BY <2>1 DEF Apart, Filling, HasRows
    <2>3. Apart'
        BY <2>1, <2>2 DEF Apart, Filling, HasRows, NothingLoaded
    <2>4. SessionsFresh'
        BY <2>1, <2>2 DEF SessionsFresh, NothingLoaded
    <2>5. Counted'
        <3>1. \A q \in Requests : pc[q] # "filling"
            BY <2>2, ScopeInRows DEF Working, NothingLoaded
        <3> QED
            BY <2>1, <3>1 DEF Counted, RequestTypes
    <2>6. Unpublished'
        BY <2>1 DEF Unpublished, RequestTypes, Cached
    <2>7. ReadsAreFresh'
        <3> SUFFICES ASSUME NEW k \in Keys, Cached(k) PROVE FreshButForUrls(k)'
            BY <2>1 DEF ReadsAreFresh, Cached
        <3>1. k \notin Pattern(row[p])
            BY <1>15, <2>1 DEF Unpublished, Commit
        <3>2. row[p] \notin Scope(k)
            BY <2>1, <3>1 DEF Pattern, Scope
        <3>3. Scope(k) \subseteq Rows
            BY ScopeInRows
        <3>4. \A r \in Scope(k) : committed'[r] = committed[r]
            BY <2>1, <3>2, <3>3 DEF RowTypes
        <3>5. Scope(k) \cap Present' = Scope(k) \cap Present
            BY <3>3, <3>4 DEF Present
        <3>6. Current(k)' = Current(k)
            BY <3>4, <3>5 DEF Current, Entry
        <3> QED
            BY <2>1, <3>6 DEF ReadsAreFresh, FreshButForUrls
    <2> QED
        BY <2>3, <2>4, <2>5, <2>6, <2>7
<1>16. ASSUME NEW p \in Requests, Rollback(p) PROVE Good'
    BY <1>16 DEF Rollback
<1>17. ASSUME NEW k \in Keys, Expire(k) PROVE Good'
    <2>1. UNCHANGED <<committed, pc, key, loaded, total, row, todo>>
        BY <1>17 DEF Expire, db, reader, writer
    <2>2. /\ \A j \in Keys : Cached(j)' => Cached(j) /\ cache'[j] = cache[j]
        BY <1>17 DEF Expire, EntryTypes, Cached
    <2>3. Apart' /\ SessionsFresh' /\ Counted'
        BY <2>1 DEF Apart, Publishing, Filling, HasRows, NothingLoaded, SessionsFresh,
            Counted, Present
    <2>4. Unpublished'
        BY <2>1, <2>2, PatternInKeys DEF Unpublished, RequestTypes
    <2>5. ReadsAreFresh'
        BY <1>0, <2>1, <2>2, StayFresh DEF Cached
    <2> QED
        BY <2>3, <2>4, <2>5
<1>18. CASE UNCHANGED vars
    <2>1. UNCHANGED <<committed, cache, pc, key, loaded, total, row, todo>>
        BY <1>18 DEF vars, db, reader, writer
    <2>2. Apart' /\ SessionsFresh' /\ Counted'
        BY <2>1 DEF Apart, Publishing, Filling, HasRows, NothingLoaded, SessionsFresh,
            Counted, Present
    <2>3. Unpublished'
        BY <2>1 DEF Unpublished, Cached
    <2>4. ReadsAreFresh'
        BY <1>0, <2>1, StayFresh
    <2> QED
        BY <1>0, <2>2, <2>3, <2>4
<1>19. ASSUME NEW c \in Cameras, RenewUrl(c) PROVE Good'
    <2>1. UNCHANGED <<committed, cache, pc, key, loaded, total, row, todo>>
        BY <1>19 DEF RenewUrl, reader, writer
    <2>2. Apart' /\ SessionsFresh' /\ Counted'
        BY <2>1 DEF Apart, Publishing, Filling, HasRows, NothingLoaded, SessionsFresh,
            Counted, Present
    <2>3. Unpublished'
        BY <2>1 DEF Unpublished, Cached
    <2>4. ReadsAreFresh'
        BY <1>0, <2>1, StayFresh
    <2> QED
        BY <2>2, <2>3, <2>4
<1>20. ASSUME CommitPass PROVE Good'
    <2>1. UNCHANGED <<cache, pc, key, loaded, total, row, todo>>
        BY <1>20 DEF CommitPass, EndPass, reader, writer
    <2>2. \A r \in Rows : Body(committed'[r]) = Body(committed[r])
        BY <1>20, PassKeepsBodies
    <2>3. Present' = Present
        BY <1>0, <2>2, BodyAbsent DEF Present, RowTypes
    <2>4. Apart'
        BY <2>1 DEF Apart, Publishing, Filling, HasRows, NothingLoaded
    <2>5. SessionsFresh'
        BY <2>1, <2>2 DEF SessionsFresh
    <2>6. Counted'
        BY <2>1, <2>3 DEF Counted
    <2>7. Unpublished'
        BY <2>1 DEF Unpublished, Cached
    <2>8. ReadsAreFresh'
        BY <1>0, <2>1, <2>2, StayFresh
    <2> QED
        BY <2>4, <2>5, <2>6, <2>7, <2>8
<1>21. ASSUME BreakPass PROVE Good'
    <2>1. UNCHANGED <<committed, cache, pc, key, loaded, total, row, todo>>
        BY <1>21 DEF BreakPass, EndPass, reader, writer
    <2>2. Apart' /\ SessionsFresh' /\ Counted'
        BY <2>1 DEF Apart, Publishing, Filling, HasRows, NothingLoaded, SessionsFresh,
            Counted, Present
    <2>3. Unpublished'
        BY <2>1 DEF Unpublished, Cached
    <2>4. ReadsAreFresh'
        BY <1>0, <2>1, StayFresh
    <2> QED
        BY <2>2, <2>3, <2>4
<1> QED
    BY <1>0, <1>1, <1>2, <1>3, <1>4, <1>5, <1>6, <1>7, <1>8, <1>9, <1>10, <1>11, <1>12, <1>13, <1>14, <1>15, <1>16, <1>17, <1>18, <1>19, <1>20, <1>21 DEF Next, Warm, ReadStep, WarmStep, WriteStep

LEMMA FInvariant == Spec => [](CInv /\ (trouble = {} => FInv))
<1> DEFINE Inv == CInv /\ (trouble = {} => FInv)
<1>1. Init => Inv
    BY CInit, FInit
<1>2. Inv /\ [Next]_vars => Inv'
    <2> SUFFICES ASSUME Inv, [Next]_vars PROVE Inv'
        OBVIOUS
    <2>1. trouble' = trouble
        BY DEF Next, vars
    <2>2. trouble = {} => ~Overlap /\ ~Faults
        BY DEF Overlap, Faults
    <2> QED
        BY <2>1, <2>2, CNext, FNext
<1> QED
    BY <1>1, <1>2, PTL DEF Spec

\* With Redis up, the two windows - rows loaded and not cached yet, keys
\* deleted and the new row not committed yet - are all that makes anything
\* but a url stale, whenever the Tuya task commits.
THEOREM FreshTheorem == Spec => []FreshApart
<1>1. CInv /\ (trouble = {} => FInv) => FreshApart
    BY DEF FreshApart, FInv
<1> QED
    BY <1>1, FInvariant, PTL

----------------------------------------------------------------------------
(* A single copy *)

LEMMA SnapshotIsCurrent ==
    ASSUME RowTypes, NEW k \in Keys
    PROVE  Copies!Snapshot(k) = Bodies(k, Current(k))
<1> DEFINE value == [r \in Rows |-> Body(committed[r])]
<1>1. Scope(k) \subseteq Rows
    BY ScopeInRows
<1>2. [r \in Scope(k) |-> value[r]] = [r \in Scope(k) |-> Body(committed[r])]
    BY <1>1
<1>3. {r \in Scope(k) : value[r] # Absent} = {r \in Scope(k) : Body(committed[r]) # Absent}
    BY <1>1
<1>4. Copies!Snapshot(k) = Entry([r \in Scope(k) |-> value[r]],
                                 Cardinality({r \in Scope(k) : value[r] # Absent}))
    BY DEF Copies!Snapshot, Entry
<1> QED
    BY <1>2, <1>3, <1>4, CurrentBodies

\* Every step makes or forgets a copy, publishes a row that has none, or does
\* nothing to either.
LEMMA CopyStep ==
    ASSUME CInv, CInv', FInv, ~Faults, [Next]_vars
    PROVE  [Copies!Next]_(Copies!store)
<1> DEFINE value == [r \in Rows |-> Body(committed[r])]
           copy == [k \in Keys |-> IF Cached(k) THEN Bodies(k, cache[k]) ELSE Nothing]
<1> DEFINE Shown(k, entry) == IF entry # Nothing THEN Bodies(k, entry) ELSE Nothing
<1>0. /\ copy = [k \in Keys |-> Shown(k, cache[k])]
      /\ copy' = [k \in Keys |-> Shown(k, cache'[k])]
    BY DEF Cached
<1>b. /\ Copies!store = <<value, copy>>
      /\ Copies!store' = <<value', copy'>>
    BY DEF Copies!store
<1> HIDE DEF copy
<1>1. ASSUME UNCHANGED <<committed, cache>> PROVE UNCHANGED Copies!store
    <2>1. UNCHANGED value /\ UNCHANGED copy
        BY <1>0, <1>1
    <2> QED
        BY <1>b, <2>1
<1>2. ASSUME NEW p \in Requests, Fill(p) PROVE Copies!Next
    <2> DEFINE entry == Entry([r \in Scope(key[p]) |-> loaded[p][r]], total[p])
    <2>1. /\ key[p] \in Keys
          /\ cache' = [cache EXCEPT ![key[p]] = entry]
          /\ Bodies(key[p], entry) = Bodies(key[p], Current(key[p]))
          /\ UNCHANGED committed
        BY <1>2, FillIsCurrent DEF Fill, db
    <2> HIDE DEF entry
    <2>2. cache'[key[p]] = entry /\ \A k \in Keys : k # key[p] => cache'[k] = cache[k]
        BY <2>1 DEF CInv, EntryTypes
    <2>3. entry # Nothing
        BY <1>2, <2>1, FillIsEntry, EntryAssumption DEF entry, Fill
    <2>4. copy' = [copy EXCEPT ![key[p]] = Bodies(key[p], entry)]
        BY <1>0, <2>1, <2>2, <2>3
    <2>5. Copies!Copy(key[p])
        BY <2>1, <2>4, SnapshotIsCurrent DEF Copies!Copy, CInv, copy
    <2> QED
        BY <2>1, <2>5 DEF Copies!Next
<1>3. ASSUME NEW k \in Keys, cache' = [cache EXCEPT ![k] = Nothing], UNCHANGED committed
      PROVE  Copies!Next
    <2>1. cache'[k] = Nothing /\ \A j \in Keys : j # k => cache'[j] = cache[j]
        BY <1>3 DEF CInv, EntryTypes
    <2>2. copy' = [copy EXCEPT ![k] = Nothing]
        <3>1. Shown(k, cache'[k]) = Nothing
            BY <2>1
        <3>2. \A j \in Keys : j # k => Shown(j, cache'[j]) = Shown(j, cache[j])
            BY <2>1
        <3> HIDE DEF Shown
        <3> QED
            BY <1>0, <3>1, <3>2
    <2>3. Copies!Forget(k)
        BY <1>3, <2>2 DEF Copies!Forget, copy
    <2> QED
        BY <2>3 DEF Copies!Next
<1>4. ASSUME NEW p \in Requests, DropKey(p) PROVE Copies!Next
    <2>1. PICK k \in todo[p] : cache' = [cache EXCEPT ![k] = Nothing]
        BY <1>4 DEF DropKey
    <2>2. k \in Keys /\ UNCHANGED committed
        BY <1>4 DEF CInv, RequestTypes, DropKey, db
    <2> QED
        BY <1>3, <2>1, <2>2
<1>5. ASSUME NEW k \in Keys, Expire(k) PROVE Copies!Next
    BY <1>3, <1>5 DEF Expire, db
<1>6. ASSUME NEW p \in Requests, Commit(p) PROVE Copies!Next
    <2> DEFINE r == row[p]
    <2>1. r \in Rows /\ pending[p] \in Version
        BY <1>6, NullAssumption DEF CInv, Writing, RequestTypes, Commit
    <2>2. /\ committed' = [committed EXCEPT ![r] = pending[p]]
          /\ UNCHANGED cache
          /\ pc[p] = "committing" /\ r # NoRow
        BY <1>6, <2>1, NullAssumption DEF Commit
    <2>3. \A k \in Keys : r \in Scope(k) => k \in Pattern(r)
        BY <2>1, NullAssumption DEF Pattern, Scope
    <2>4. \A k \in Keys : r \in Scope(k) => ~Cached(k)
        BY <2>2, <2>3 DEF FInv, Unpublished
    <2>5. \A k \in Keys : r \in Scope(k) => copy[k] = Nothing
        BY <1>0, <2>4 DEF Cached
    <2>6. value' = [value EXCEPT ![r] = value'[r]]
        BY <2>1, <2>2 DEF CInv, RowTypes
    <2>7. value'[r] \in Nat \cup {Absent}
        BY <2>1, <2>2 DEF CInv, RowTypes, Body, Content
    <2>8. UNCHANGED copy
        BY <1>0, <2>2
    <2>9. Copies!Publish(r)
        BY <2>1, <2>5, <2>6, <2>7, <2>8 DEF Copies!Publish, Copies!Values, copy
    <2> QED
        BY <2>1, <2>9 DEF Copies!Next
<1>7. ASSUME NEW p \in Requests,
             \/ \E k \in Keys : Get(p, k)
             \/ \E r \in Rows : Write(p, r)
             \/ WarmConfig(p) \/ WarmCameras(p) \/ cache_invalidate(p)
             \/ Select(p) \/ Count(p) \/ WarmStep(p) \/ Scan(p) \/ EndScan(p)
      PROVE  UNCHANGED <<committed, cache>>
    BY <1>7 DEF Get, Write, WarmConfig, WarmCameras, cache_invalidate, Select, Count,
                WarmStep, Enumerate, WarmNext, WarmDone, Scan, EndScan, db
<1>8. ASSUME NEW p \in Requests, Rollback(p) PROVE FALSE
    BY <1>8 DEF Rollback
<1>9. ASSUME \/ \E c \in Cameras : RenewUrl(c)
             \/ BreakPass
      PROVE  UNCHANGED <<committed, cache>>
    BY <1>9 DEF RenewUrl, BreakPass, EndPass
<1>10. ASSUME CommitPass PROVE UNCHANGED Copies!store
    <2>1. \A r \in Rows : Body(committed'[r]) = Body(committed[r])
        BY <1>10, PassKeepsBodies
    <2>2. UNCHANGED cache
        BY <1>10 DEF CommitPass, EndPass
    <2>3. UNCHANGED value
        BY <2>1
    <2>4. UNCHANGED copy
        BY <1>0, <2>2
    <2> QED
        BY <1>b, <2>3, <2>4
<1>11. CASE UNCHANGED vars
    BY <1>1, <1>11 DEF vars, db
<1> QED
    BY <1>1, <1>2, <1>4, <1>5, <1>6, <1>7, <1>8, <1>9, <1>10, <1>11
    DEF Next, Warm, ReadStep, WriteStep

\* Requests, warmers and mutations, with their windows apart, and the Tuya
\* task at any time, implement the single copy of all but the urls.
THEOREM CopyTheorem == Spec => ImplementsCopy
<1> DEFINE Inv == CInv /\ (trouble = {} => FInv)
<1>1. Init => (trouble = {} => Copies!Init)
    <2> SUFFICES ASSUME Init PROVE Copies!Init
        OBVIOUS
    <2>1. \A r \in Rows : Body(committed[r]) \in Nat \cup {Absent}
        BY CInit DEF CInv, RowTypes, Body, Content
    <2>2. \A k \in Keys : ~Cached(k)
        BY DEF Init, Cached
    <2> QED
        BY <2>1, <2>2 DEF Copies!Init, Copies!Values
<1>2. Inv /\ [Next]_vars => [trouble = {} => Copies!Next]_(Copies!store)
    <2>1. trouble = {} => ~Faults
        BY DEF Faults
    <2> QED
        BY <2>1, CNext, CopyStep
<1> QED
    BY <1>1, <1>2, FInvariant, PTL DEF Spec, ImplementsCopy
=============================================================================
