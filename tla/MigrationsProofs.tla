-------------------------- MODULE MigrationsProofs --------------------------
(***************************************************************************)
(* What the schema is, how its versions follow each other and when a       *)
(* container gives up, for every sequence of revisions that                *)
(* RevisionsAssumption describes, every set of containers, operators and   *)
(* goals, and any number of commands and troubles.                         *)
(***************************************************************************)
EXTENDS Migrations, FiniteSetTheorems, TLAPS

----------------------------------------------------------------------------
(* Induction over data *)

\* Induction over 0 .. L, for a set of numbers: were c the first one that is
\* not in S, adding 1 would inject the members up to c into those but 0.
LEMMA Induction ==
    ASSUME NEW S, NEW L \in Nat, 0 \in S,
           \A k \in 0 .. L - 1 : k \in S => k + 1 \in S
    PROVE  0 .. L \subseteq S
<1>1. SUFFICES ASSUME NEW c \in 0 .. L, c \notin S PROVE FALSE
    OBVIOUS
<1> DEFINE A == S \cap (0 .. c)
           B == A \ {0}
           f == [k \in A |-> k + 1]
<1>2. IsFiniteSet(A)
    BY FS_Interval, FS_Subset, 0 \in Int, c \in Int
<1>3. IsFiniteSet(B) /\ Cardinality(B) = Cardinality(A) - 1
    <2>1. 0 \in A
        OBVIOUS
    <2> HIDE DEF A
    <2> QED
        BY <1>2, <2>1, FS_RemoveElement
<1>4. f \in Injection(A, B)
    BY <1>1 DEF Injection, IsInjective
<1>5. Cardinality(A) <= Cardinality(B)
    <2> HIDE DEF A, B, f
    <2> QED
        BY <1>3, <1>4, FS_Injection
<1> QED
    BY <1>2, <1>3, <1>5, FS_CardinalityType

\* There is a function that does what `after` says, one statement at a time.
LEMMA AfterDef ==
    ASSUME NEW s, NEW T, NEW statements \in Seq(T)
    PROVE  After(s, statements) =
               [n \in 0 .. Len(statements) |->
                   IF n = 0 THEN s
                   ELSE Execute(After(s, statements)[n - 1], statements[n])]
<1> DEFINE Upto(m, f) ==
               f = [n \in 0 .. m |-> IF n = 0 THEN s ELSE Execute(f[n - 1], statements[n])]
           L == Len(statements)
           S == {m \in 0 .. L : \E f : Upto(m, f)}
<1>1. 0 \in S
    <2>1. Upto(0, [n \in 0 .. 0 |-> s])
        OBVIOUS
    <2> HIDE DEF Upto
    <2> QED
        BY <2>1
<1>2. ASSUME NEW k \in 0 .. L - 1, k \in S PROVE k + 1 \in S
    <2>1. PICK g : Upto(k, g)
        BY <1>2
    <2> DEFINE f == [n \in 0 .. k + 1 |->
                        IF n = k + 1 THEN Execute(g[k], statements[k + 1]) ELSE g[n]]
    <2>2. ASSUME NEW n \in 0 .. k + 1
          PROVE  f[n] = IF n = 0 THEN s ELSE Execute(f[n - 1], statements[n])
        <3>1. CASE n = k + 1
            BY <3>1
        <3>2. CASE n # k + 1
            <4>1. n \in 0 .. k /\ f[n] = g[n] /\ (n # 0 => f[n - 1] = g[n - 1])
                BY <3>2
            <4>2. g[n] = IF n = 0 THEN s ELSE Execute(g[n - 1], statements[n])
                BY <2>1, <4>1
            <4> QED
                BY <4>1, <4>2
        <3> QED
            BY <3>1, <3>2
    <2>3. Upto(k + 1, f)
        BY <2>2
    <2> HIDE DEF Upto, f
    <2> QED
        BY <2>3
<1>3. L \in S
    <2>1. L \in Nat
        OBVIOUS
    <2> HIDE DEF S, L
    <2>2. 0 .. L \subseteq S
        BY <1>1, <1>2, <2>1, Induction
    <2> QED
        BY <2>1, <2>2
<1> QED
    BY <1>3 DEF After

\* ... and leaves everything as it was after an exception.
LEMMA ExecuteDef ==
    ASSUME NEW s, NEW statement
    PROVE  Execute(s, statement) =
               IF s.ok THEN Effect(s, statement[1], statement[2]) ELSE s
    BY DEF Execute

----------------------------------------------------------------------------
(* The revisions *)

Versions == 0 .. head
Up(v) == Revisions[v].upgrade
Down(v) == Revisions[v].downgrade

\* The objects that n statements of the upgrade to v create, and whether one
\* of them writes into a table.
Made(v, n) == {Up(v)[k][2] : k \in {k \in 1 .. n : Up(v)[k][1] # "seed"}}
Wrote(v, n, table) == \E k \in 1 .. n : Up(v)[k] = <<"seed", table>>

LEMMA HeadIsNat == head \in Nat
    BY RevisionsAssumption DEF head

LEMMA RevisionTypes ==
    ASSUME NEW v \in 1 .. head
    PROVE  /\ v \in Versions /\ v - 1 \in Versions
           /\ Up(v) \in Seq({"create", "ensure", "seed"} \X Seq(STRING))
           /\ Down(v) \in Seq({"drop", "discard"} \X Seq(STRING))
           /\ Applicable(v) /\ Reversible(v)
<1>1. Revisions[v] \in [upgrade : Seq({"create", "ensure", "seed"} \X Seq(STRING)),
                        downgrade : Seq({"drop", "discard"} \X Seq(STRING))]
    <2> DEFINE R == [upgrade : Seq({"create", "ensure", "seed"} \X Seq(STRING)),
                     downgrade : Seq({"drop", "discard"} \X Seq(STRING))]
    <2>1. Revisions \in Seq(R)
        BY RevisionsAssumption
    <2>2. Revisions[v] \in R
        <3> HIDE DEF R
        <3> QED
            BY <2>1 DEF head
    <2> QED
        BY <2>2
<1>2. v \in Versions /\ v - 1 \in Versions
    BY HeadIsNat DEF Versions
<1>3. Applicable(v) /\ Reversible(v)
    BY RevisionsAssumption
<1> QED
    BY <1>1, <1>2, <1>3 DEF Up, Down

\* One version after the other.
LEMMA NextVersion ==
    ASSUME NEW v \in 1 .. head
    PROVE  /\ ObjectsOf[v] = ObjectsOf[v - 1] \cup Made(v, Len(Up(v)))
           /\ ObjectsOf[v - 1] \subseteq ObjectsOf[v]
           /\ ObjectsOf[v] \subseteq ObjectsOf[head]
<1>1. Statements(v) = Statements(v - 1) \cup ToSet(Up(v))
    <2>1. 1 .. v = 1 .. v - 1 \cup {v}
        OBVIOUS
    <2> QED
        BY <2>1 DEF Statements, Up
<1>2. Statements(v) \subseteq Statements(head)
    BY HeadIsNat DEF Statements
<1>3. /\ v \in 0 .. head /\ v - 1 \in 0 .. head /\ head \in 0 .. head
    BY HeadIsNat
<1>4. ToSet(Up(v)) = {Up(v)[k] : k \in 1 .. Len(Up(v))}
    BY RevisionTypes DEF ToSet
<1>5. {s[2] : s \in {t \in ToSet(Up(v)) : t[1] # "seed"}} = Made(v, Len(Up(v)))
    BY <1>4 DEF Made
<1>6. /\ ObjectsOf[v] = {s[2] : s \in {t \in Statements(v) : t[1] # "seed"}}
      /\ ObjectsOf[v - 1] = {s[2] : s \in {t \in Statements(v - 1) : t[1] # "seed"}}
      /\ ObjectsOf[head] = {s[2] : s \in {t \in Statements(head) : t[1] # "seed"}}
    BY <1>3 DEF ObjectsOf
<1> QED
    BY <1>1, <1>2, <1>5, <1>6

LEMMA EarlierVersion ==
    ASSUME NEW v \in Versions, NEW w \in Versions, v <= w
    PROVE  ObjectsOf[v] \subseteq ObjectsOf[w]
<1>1. Statements(v) \subseteq Statements(w)
    BY HeadIsNat DEF Statements, Versions
<1> QED
    BY <1>1 DEF ObjectsOf, Versions

LEMMA ApplicableDef ==
    ASSUME NEW v \in 1 .. head, NEW k \in DOMAIN Up(v)
    PROVE  /\ Up(v)[k][1] = "create" => Up(v)[k][2] \notin Created(v, k - 1)
           /\ Up(v)[k][1] = "seed" => Up(v)[k][2] \in Created(v, k - 1)
           /\ Up(v)[k][1] = "seed" => \A j \in 1 .. k - 1 : Up(v)[j] # Up(v)[k]
           /\ Up(v)[k][1] # "seed" => MayCreate(Up(v)[k][2], Created(v, k - 1))
<1>1. Applicable(v)
    BY RevisionTypes
<1> QED
    BY <1>1 DEF Applicable, Up

LEMMA FirstVersion == ObjectsOf[0] = {}
    BY HeadIsNat DEF ObjectsOf, Statements

LEMMA LeftBehindDef ==
    ASSUME NEW v \in Versions
    PROVE  LeftBehind[v] = {x \in ObjectsOf[head] \ ObjectsOf[v] :
               Len(x) = 3 /\ x[1] = "enum" /\ Front(x) \in ObjectsOf[v]}
    BY DEF LeftBehind, Versions

LEMMA ObjectsBounded ==
    ASSUME NEW v \in Versions
    PROVE  ObjectsOf[v] \subseteq ObjectsOf[head]
<1>1. CASE v = 0
    BY <1>1, FirstVersion
<1>2. CASE v \in 1 .. head
    BY <1>2, NextVersion
<1> QED
    BY <1>1, <1>2, HeadIsNat DEF Versions

\* A table is seeded by one version, its SeedVersion.
LEMMA SeedVersionDef ==
    ASSUME NEW table \in Seeded
    PROVE  /\ SeedVersion[table] \in 1 .. head
           /\ \A v \in 1 .. head : SeededBy(v, table) <=> v = SeedVersion[table]
<1>1. \E v \in 1 .. head : SeededBy(v, table)
    <2>1. PICK s \in Statements(head) : s[1] = "seed" /\ s[2] = table
        BY DEF Seeded
    <2>2. PICK v \in 1 .. head : s \in ToSet(Up(v))
        BY DEF Statements, Up
    <2>3. s \in {"create", "ensure", "seed"} \X Seq(STRING)
        BY <2>2, RevisionTypes DEF ToSet
    <2>4. s = <<"seed", table>>
        BY <2>1, <2>3
    <2> QED
        BY <2>2, <2>4 DEF SeededBy, Up
<1>2. SeedVersion[table] = CHOOSE v \in 1 .. head : SeededBy(v, table)
    BY DEF SeedVersion
<1>3. SeedVersion[table] \in 1 .. head /\ SeededBy(SeedVersion[table], table)
    BY <1>1, <1>2
<1> QED
    BY <1>3, RevisionsAssumption

LEMMA WroteIsSeeded ==
    ASSUME NEW v \in 1 .. head, NEW table \in Seeded
    PROVE  Wrote(v, Len(Up(v)), table) <=> v = SeedVersion[table]
<1>1. Wrote(v, Len(Up(v)), table) <=> SeededBy(v, table)
    <2>1. ToSet(Up(v)) = {Up(v)[k] : k \in 1 .. Len(Up(v))}
        BY RevisionTypes DEF ToSet
    <2> QED
        BY <2>1 DEF Wrote, SeededBy, Up
<1> QED
    BY <1>1, SeedVersionDef

----------------------------------------------------------------------------
(* What the statements of a revision do to a schema *)

Schemas == [ok : BOOLEAN, version : Versions, objects : SUBSET ObjectsOf[head],
            rows : [Seeded -> Nat]]

\* What a statement that raises no exception leaves: `verb` of object o.
LEMMA EffectUp ==
    ASSUME NEW s \in Schemas, s.ok, NEW verb \in {"create", "ensure", "seed"}, NEW o,
           verb # "seed" => o \in ObjectsOf[head], verb = "seed" => o \in Seeded
    PROVE  LET t == Effect(s, verb, o)
           IN  /\ t \in Schemas /\ t.version = s.version
               /\ t.ok => /\ t.objects = s.objects \cup (IF verb = "seed" THEN {} ELSE {o})
                          /\ t.rows = IF verb = "seed"
                                      THEN [s.rows EXCEPT ![o] = IF o \in Singletons
                                                                 THEN 1 ELSE @ + 1]
                                      ELSE s.rows
<1> DEFINE t == Effect(s, verb, o)
<1>1. CASE verb = "ensure" /\ o \in s.objects
    <2>1. t = s
        BY <1>1 DEF Effect
    <2> QED
        BY <1>1, <2>1
<1>2. CASE verb # "seed" /\ o \notin s.objects /\ MayCreate(o, s.objects)
    <2>1. t = Create(s, o)
        BY <1>2 DEF Effect
    <2> QED
        BY <1>2, <2>1 DEF Create, Schemas
<1>3. CASE verb = "seed" /\ o \in s.objects
    <2>1. t = Seed(s, o)
        BY <1>3 DEF Effect
    <2> QED
        BY <1>3, <2>1 DEF Seed, Schemas
<1>4. CASE /\ ~(verb = "ensure" /\ o \in s.objects)
           /\ ~(verb # "seed" /\ o \notin s.objects /\ MayCreate(o, s.objects))
           /\ ~(verb = "seed" /\ o \in s.objects)
    <2>1. t = [s EXCEPT !.ok = FALSE]
        BY <1>4 DEF Effect
    <2> QED
        BY <2>1 DEF Schemas
<1> QED
    BY <1>1, <1>2, <1>3, <1>4

LEMMA EffectDown ==
    ASSUME NEW s \in Schemas, s.ok, NEW verb \in {"drop", "discard"}, NEW o \in s.objects
    PROVE  LET t == Effect(s, verb, o)
           IN  /\ t \in Schemas /\ t.version = s.version
               /\ t.ok => /\ t.objects = {x \in s.objects : ~IsPrefix(o, x)}
                          /\ t.rows = [table \in Seeded |->
                                          IF o = table THEN 0 ELSE s.rows[table]]
<1> DEFINE t == Effect(s, verb, o)
<1>1. CASE MayDrop(o, s.objects)
    <2>1. t = Drop(s, o)
        BY <1>1 DEF Effect
    <2> DEFINE objects == {x \in s.objects : ~IsPrefix(o, x)}
               rows == [table \in Seeded |-> IF o = table THEN 0 ELSE s.rows[table]]
    <2>2. t = [s EXCEPT !.objects = objects, !.rows = rows]
        BY <2>1 DEF Drop
    <2>3. objects \in SUBSET ObjectsOf[head] /\ rows \in [Seeded -> Nat]
        BY DEF Schemas
    <2>4. t \in Schemas /\ t.version = s.version /\ t.objects = objects /\ t.rows = rows
        <3> HIDE DEF t, objects, rows
        <3> QED
            BY <2>2, <2>3 DEF Schemas
    <2> QED
        BY <2>4
<1>2. CASE ~MayDrop(o, s.objects)
    <2>1. t = [s EXCEPT !.ok = FALSE]
        BY <1>2 DEF Effect
    <2> QED
        BY <2>1 DEF Schemas
<1> QED
    BY <1>1, <1>2

\* What n statements of the upgrade to v lead to, from schema s.
Upgraded(v, s, n) ==
    LET t == After(s, Up(v))[n]
    IN  /\ t \in Schemas /\ t.version = s.version
        /\ t.ok => /\ t.objects = s.objects \cup Made(v, n)
                   /\ \A table \in Seeded :
                         t.rows[table] = IF ~Wrote(v, n, table) THEN s.rows[table]
                                         ELSE IF table \in Singletons THEN 1
                                         ELSE s.rows[table] + 1

\* ... and n statements of the downgrade from v.
Downgraded(v, s, n) ==
    LET t == After(s, Down(v))[n]
    IN  /\ t \in Schemas /\ t.version = s.version
        /\ t.ok => /\ t.objects = {x \in s.objects :
                                      \A k \in 1 .. n : ~IsPrefix(Down(v)[k][2], x)}
                   /\ \A table \in Seeded :
                         t.rows[table] = IF \E k \in 1 .. n : Down(v)[k][2] = table
                                         THEN 0 ELSE s.rows[table]

LEMMA UpStatement ==
    ASSUME NEW v \in 1 .. head, NEW k \in 0 .. Len(Up(v)) - 1
    PROVE  LET statement == Up(v)[k + 1]
           IN  /\ statement \in {"create", "ensure", "seed"} \X Seq(STRING)
               /\ statement[1] # "seed" => statement[2] \in ObjectsOf[head]
               /\ statement[1] = "seed" =>
                     /\ statement[2] \in Seeded
                     /\ statement = <<"seed", statement[2]>>
                     /\ ~Wrote(v, k, statement[2])
               /\ Made(v, k + 1) = Made(v, k) \cup
                     (IF statement[1] = "seed" THEN {} ELSE {statement[2]})
               /\ \A table \in Seeded : Wrote(v, k + 1, table) <=>
                     Wrote(v, k, table) \/ statement = <<"seed", table>>
<1> DEFINE statement == Up(v)[k + 1]
<1>1. k + 1 \in DOMAIN Up(v) /\ statement \in {"create", "ensure", "seed"} \X Seq(STRING)
    BY RevisionTypes
<1>2. statement \in Statements(head)
    BY <1>1 DEF Statements, ToSet, Up
<1>3. statement[1] # "seed" => statement[2] \in ObjectsOf[head]
    BY <1>2, HeadIsNat DEF ObjectsOf
<1>4. statement[1] = "seed" => statement[2] \in Seeded /\ statement = <<"seed", statement[2]>>
    BY <1>1, <1>2 DEF Seeded
<1>5. statement[1] = "seed" => ~Wrote(v, k, statement[2])
    <2>1. ASSUME statement[1] = "seed" PROVE \A j \in 1 .. k : Up(v)[j] # statement
        BY <1>1, <2>1, ApplicableDef
    <2> QED
        BY <1>4, <2>1 DEF Wrote
<1>6. 1 .. k + 1 = 1 .. k \cup {k + 1}
    OBVIOUS
<1>7. Made(v, k + 1) = Made(v, k) \cup
          (IF statement[1] = "seed" THEN {} ELSE {statement[2]})
    BY <1>6 DEF Made
<1>8. \A table \in Seeded : Wrote(v, k + 1, table) <=>
          Wrote(v, k, table) \/ statement = <<"seed", table>>
    BY <1>6 DEF Wrote
<1> QED
    BY <1>1, <1>3, <1>4, <1>5, <1>7, <1>8

LEMMA UpgradedLemma ==
    ASSUME NEW v \in 1 .. head, NEW s \in Schemas, s.ok
    PROVE  \A n \in 0 .. Len(Up(v)) : Upgraded(v, s, n)
<1> DEFINE A == After(s, Up(v))
           L == Len(Up(v))
           S == {n \in 0 .. L : Upgraded(v, s, n)}
<1>1. /\ L \in Nat
      /\ A[0] = s
      /\ \A k \in 0 .. L - 1 : A[k + 1] = Execute(A[k], Up(v)[k + 1])
    <2>1. Up(v) \in Seq({"create", "ensure", "seed"} \X Seq(STRING))
        BY RevisionTypes
    <2>2. A = [n \in 0 .. L |-> IF n = 0 THEN s ELSE Execute(A[n - 1], Up(v)[n])]
        BY <2>1, AfterDef
    <2> HIDE DEF A
    <2> QED
        BY <2>1, <2>2
<1>2. 0 \in S
    <2>1. Made(v, 0) = {} /\ \A table \in Seeded : ~Wrote(v, 0, table)
        BY DEF Made, Wrote
    <2> QED
        BY <1>1, <2>1 DEF Upgraded
<1>3. ASSUME NEW k \in 0 .. L - 1, k \in S PROVE k + 1 \in S
    <2> DEFINE statement == Up(v)[k + 1]
               verb == statement[1]
               o == statement[2]
               b == A[k]
               a == A[k + 1]
    <2>1. /\ b \in Schemas /\ b.version = s.version
          /\ b.ok => /\ b.objects = s.objects \cup Made(v, k)
                     /\ \A table \in Seeded :
                           b.rows[table] = IF ~Wrote(v, k, table) THEN s.rows[table]
                                           ELSE IF table \in Singletons THEN 1
                                           ELSE s.rows[table] + 1
        BY <1>3 DEF Upgraded
    <2>2. a = IF b.ok THEN Effect(b, verb, o) ELSE b
        BY <1>1, ExecuteDef
    <2>3. /\ verb \in {"create", "ensure", "seed"}
          /\ verb # "seed" => o \in ObjectsOf[head]
          /\ verb = "seed" => o \in Seeded /\ statement = <<"seed", o>> /\ ~Wrote(v, k, o)
          /\ Made(v, k + 1) = Made(v, k) \cup (IF verb = "seed" THEN {} ELSE {o})
          /\ \A table \in Seeded : Wrote(v, k + 1, table) <=>
                Wrote(v, k, table) \/ statement = <<"seed", table>>
        <3>1. statement \in {"create", "ensure", "seed"} \X Seq(STRING)
            BY UpStatement
        <3>2. verb \in {"create", "ensure", "seed"}
            BY <3>1
        <3>3. verb = "seed" => o \in Seeded /\ statement = <<"seed", o>> /\ ~Wrote(v, k, o)
            BY UpStatement
        <3> QED
            BY <3>2, <3>3, UpStatement
    <2>4. \A table \in Seeded : statement = <<"seed", table>> <=> verb = "seed" /\ o = table
        BY <2>3
    <2>5. Upgraded(v, s, k + 1)
        <3> HIDE DEF verb, o, statement, A
        <3>1. CASE ~b.ok
            BY <2>1, <2>2, <3>1 DEF Upgraded, A
        <3>2. CASE b.ok
            <4>1. a = Effect(b, verb, o)
                BY <2>2, <3>2
            <4>2. /\ a \in Schemas /\ a.version = b.version
                  /\ a.ok => /\ a.objects = b.objects \cup (IF verb = "seed" THEN {} ELSE {o})
                             /\ a.rows = IF verb = "seed"
                                         THEN [b.rows EXCEPT ![o] = IF o \in Singletons
                                                                    THEN 1 ELSE @ + 1]
                                         ELSE b.rows
                <5>1. /\ b \in Schemas /\ b.ok /\ verb \in {"create", "ensure", "seed"}
                      /\ verb # "seed" => o \in ObjectsOf[head]
                      /\ verb = "seed" => o \in Seeded
                    BY <2>1, <2>3, <3>2
                <5> HIDE DEF b
                <5> QED
                    BY <4>1, <5>1, EffectUp
            <4>3. a.ok => a.objects = s.objects \cup Made(v, k + 1)
                BY <2>1, <2>3, <3>2, <4>2
            <4>4. b.rows \in [Seeded -> Nat]
                BY <2>1 DEF Schemas
            <4>5. ASSUME a.ok, NEW table \in Seeded
                  PROVE  a.rows[table] = IF ~Wrote(v, k + 1, table) THEN s.rows[table]
                                         ELSE IF table \in Singletons THEN 1
                                         ELSE s.rows[table] + 1
                <5>1. CASE verb = "seed" /\ o = table
                    BY <2>1, <2>3, <2>4, <3>2, <4>2, <4>4, <4>5, <5>1
                <5>2. CASE ~(verb = "seed" /\ o = table)
                    BY <2>1, <2>3, <2>4, <3>2, <4>2, <4>4, <4>5, <5>2
                <5> QED
                    BY <5>1, <5>2
            <4> QED
                BY <2>1, <4>2, <4>3, <4>5 DEF Upgraded, A
        <3> QED
            BY <3>1, <3>2
    <2> QED
        BY <2>5
<1> HIDE DEF L, S
<1>4. 0 .. L \subseteq S
    BY <1>1, <1>2, <1>3, Induction
<1> QED
    BY <1>4 DEF L, S

LEMMA DowngradedLemma ==
    ASSUME NEW v \in 1 .. head, NEW s \in Schemas, s.ok, ObjectsOf[v] \subseteq s.objects
    PROVE  \A n \in 0 .. Len(Down(v)) : Downgraded(v, s, n)
<1> DEFINE A == After(s, Down(v))
           L == Len(Down(v))
           S == {n \in 0 .. L : Downgraded(v, s, n)}
<1>1. /\ L \in Nat
      /\ A[0] = s
      /\ \A k \in 0 .. L - 1 : A[k + 1] = Execute(A[k], Down(v)[k + 1])
    <2>1. Down(v) \in Seq({"drop", "discard"} \X Seq(STRING))
        BY RevisionTypes
    <2>2. A = [n \in 0 .. L |-> IF n = 0 THEN s ELSE Execute(A[n - 1], Down(v)[n])]
        BY <2>1, AfterDef
    <2> HIDE DEF A
    <2> QED
        BY <2>1, <2>2
<1>2. 0 \in S
    BY <1>1 DEF Downgraded
<1>3. ASSUME NEW k \in 0 .. L - 1, k \in S PROVE k + 1 \in S
    <2> DEFINE verb == Down(v)[k + 1][1]
               o == Down(v)[k + 1][2]
               b == A[k]
               a == A[k + 1]
    <2>1. /\ b \in Schemas /\ b.version = s.version
          /\ b.ok => /\ b.objects = {x \in s.objects :
                                        \A j \in 1 .. k : ~IsPrefix(Down(v)[j][2], x)}
                     /\ \A table \in Seeded :
                           b.rows[table] = IF \E j \in 1 .. k : Down(v)[j][2] = table
                                           THEN 0 ELSE s.rows[table]
        BY <1>3 DEF Downgraded
    <2>2. a = IF b.ok THEN Effect(b, verb, o) ELSE b
        BY <1>1, ExecuteDef
    <2>3. k + 1 \in DOMAIN Down(v) /\ verb \in {"drop", "discard"}
        BY RevisionTypes
    <2>4. o \in ObjectsOf[v] /\ \A j \in 1 .. k : ~IsPrefix(Down(v)[j][2], o)
        BY <2>3, RevisionTypes DEF Reversible, Kept, Down
    <2>5. 1 .. k + 1 = 1 .. k \cup {k + 1}
        OBVIOUS
    <2>6. Downgraded(v, s, k + 1)
        <3> HIDE DEF A
        <3>1. CASE ~b.ok
            BY <2>1, <2>2, <3>1 DEF Downgraded, A
        <3>2. CASE b.ok
            <4>1. a = Effect(b, verb, o) /\ o \in b.objects
                BY <2>1, <2>2, <2>4, <3>2
            <4>2. /\ a \in Schemas /\ a.version = b.version
                  /\ a.ok => /\ a.objects = {x \in b.objects : ~IsPrefix(o, x)}
                             /\ a.rows = [table \in Seeded |->
                                             IF o = table THEN 0 ELSE b.rows[table]]
                <5> HIDE DEF verb, o
                <5> QED
                    BY <2>1, <2>3, <3>2, <4>1, EffectDown
            <4>3. a.ok => a.objects = {x \in s.objects :
                              \A j \in 1 .. k + 1 : ~IsPrefix(Down(v)[j][2], x)}
                BY <2>1, <2>5, <3>2, <4>2
            <4>4. a.ok => \A table \in Seeded :
                      a.rows[table] = IF \E j \in 1 .. k + 1 : Down(v)[j][2] = table
                                      THEN 0 ELSE s.rows[table]
                BY <2>1, <2>5, <3>2, <4>2
            <4> QED
                BY <2>1, <4>2, <4>3, <4>4 DEF Downgraded, A
        <3> QED
            BY <3>1, <3>2
    <2> QED
        BY <2>6
<1> HIDE DEF L, S
<1>4. 0 .. L \subseteq S
    BY <1>1, <1>2, <1>3, Induction
<1> QED
    BY <1>4 DEF L, S

----------------------------------------------------------------------------
(* What a revision does to a schema *)

\* How many rows a table is to have, at the least.
Due(s, table) == IF s.version >= SeedVersion[table] THEN 1 ELSE 0

\* A schema is that of its version, with or without values left behind.
Sound(s) ==
    /\ s \in Schemas /\ s.ok
    /\ ObjectsOf[s.version] \subseteq s.objects
    /\ s.objects \subseteq ObjectsOf[s.version] \cup LeftBehind[s.version]
    /\ \A table \in Seeded :
          /\ s.rows[table] >= Due(s, table)
          /\ table \in Singletons => s.rows[table] = Due(s, table)

\* ... and is what upgrades alone lead to.
Exact(s) ==
    /\ s.objects \subseteq ObjectsOf[s.version]
    /\ \A table \in Seeded : s.rows[table] = Due(s, table)

LEMMA MigrateDef ==
    ASSUME NEW s, NEW from, NEW to
    PROVE  LET m == Migrate(s, from, to)
               statements == IF to > from THEN Up(to) ELSE Down(from)
               t == After(s, statements)[Len(statements)]
           IN  /\ m = [ok |-> t.ok /\ s.version = from, version |-> to,
                       objects |-> t.objects, rows |-> t.rows]
    BY DEF Migrate, Up, Down

LEMMA UpgradeSound ==
    ASSUME NEW v \in 1 .. head, NEW s, Sound(s), s.version = v - 1,
           Migrate(s, v - 1, v).ok
    PROVE  LET m == Migrate(s, v - 1, v)
           IN  /\ m.version = v /\ Sound(m)
               /\ Exact(s) => Exact(m)
<1> DEFINE t == After(s, Up(v))[Len(Up(v))]
           m == Migrate(s, v - 1, v)
<1>1. m = [ok |-> t.ok /\ s.version = v - 1, version |-> v,
           objects |-> t.objects, rows |-> t.rows]
    BY MigrateDef
<1>2. t.ok
    <2>1. m.ok
        OBVIOUS
    <2> HIDE DEF t, m
    <2>2. m.ok <=> t.ok /\ s.version = v - 1
        BY <1>1
    <2> QED
        BY <2>1, <2>2
<1>3. Len(Up(v)) \in 0 .. Len(Up(v))
    BY RevisionTypes
<1>4. Upgraded(v, s, Len(Up(v)))
    BY <1>3, UpgradedLemma DEF Sound
<1>5. /\ t \in Schemas
      /\ t.objects = s.objects \cup Made(v, Len(Up(v)))
      /\ \A table \in Seeded :
            t.rows[table] = IF v # SeedVersion[table] THEN s.rows[table]
                            ELSE IF table \in Singletons THEN 1 ELSE s.rows[table] + 1
    BY <1>2, <1>4, WroteIsSeeded DEF Upgraded
<1>6. /\ m \in Schemas /\ m.ok /\ m.version = v
      /\ m.objects = t.objects /\ m.rows = t.rows
    <2> HIDE DEF t, m
    <2> QED
        BY <1>1, <1>2, <1>5, RevisionTypes DEF Schemas
<1>7. LeftBehind[v - 1] \subseteq ObjectsOf[v] \cup LeftBehind[v]
    BY RevisionTypes, NextVersion, LeftBehindDef
<1>8. /\ ObjectsOf[v] \subseteq m.objects
      /\ m.objects \subseteq ObjectsOf[v] \cup LeftBehind[v]
      /\ Exact(s) => m.objects \subseteq ObjectsOf[v]
    <2> HIDE DEF t, m
    <2> QED
        BY <1>5, <1>6, <1>7, NextVersion DEF Sound, Exact
<1>9. ASSUME NEW table \in Seeded
      PROVE  /\ m.rows[table] >= Due(m, table)
             /\ table \in Singletons \/ Exact(s) => m.rows[table] = Due(m, table)
    <2> HIDE DEF t, m
    <2>1. s.rows[table] \in Nat /\ SeedVersion[table] \in 1 .. head
        BY SeedVersionDef DEF Sound, Schemas
    <2>2. /\ s.rows[table] >= Due(s, table)
          /\ table \in Singletons \/ Exact(s) => s.rows[table] = Due(s, table)
        BY DEF Sound, Exact
    <2>3. m.rows[table] = IF v # SeedVersion[table] THEN s.rows[table]
                          ELSE IF table \in Singletons THEN 1 ELSE s.rows[table] + 1
        BY <1>5, <1>6
    <2>4. CASE v = SeedVersion[table]
        BY <1>6, <2>1, <2>2, <2>3, <2>4 DEF Due
    <2>5. CASE v # SeedVersion[table]
        BY <1>6, <2>1, <2>2, <2>3, <2>5 DEF Due
    <2> QED
        BY <2>4, <2>5
<1> QED
    BY <1>6, <1>8, <1>9 DEF Sound, Exact

\* An upgrade of what only upgrades led to raises no exception.
LEMMA UpgradeWorks ==
    ASSUME NEW v \in 1 .. head, NEW s, Sound(s), Exact(s), s.version = v - 1
    PROVE  Migrate(s, v - 1, v).ok
<1> DEFINE A == After(s, Up(v))
           L == Len(Up(v))
           S == {n \in 0 .. L : A[n].ok}
<1>1. /\ L \in Nat
      /\ A[0] = s
      /\ \A k \in 0 .. L - 1 : A[k + 1] = Execute(A[k], Up(v)[k + 1])
    <2>1. Up(v) \in Seq({"create", "ensure", "seed"} \X Seq(STRING))
        BY RevisionTypes
    <2>2. A = [n \in 0 .. L |-> IF n = 0 THEN s ELSE Execute(A[n - 1], Up(v)[n])]
        BY <2>1, AfterDef
    <2> HIDE DEF A
    <2> QED
        BY <2>1, <2>2
<1>2. 0 \in S
    BY <1>1 DEF Sound
<1>3. ASSUME NEW k \in 0 .. L - 1, k \in S PROVE k + 1 \in S
    <2> DEFINE verb == Up(v)[k + 1][1]
               o == Up(v)[k + 1][2]
               b == A[k]
    <2>1. b \in Schemas /\ b.ok /\ b.objects = s.objects \cup Made(v, k)
        BY <1>3, UpgradedLemma DEF Upgraded, Sound
    <2>2. b.objects = Created(v, k)
        BY <2>1 DEF Created, Made, Up, Sound, Exact
    <2>3. k + 1 \in DOMAIN Up(v) /\ verb \in {"create", "ensure", "seed"}
        BY RevisionTypes
    <2>4. /\ verb = "create" => o \notin Created(v, k)
          /\ verb = "seed" => o \in Created(v, k)
          /\ verb # "seed" => MayCreate(o, Created(v, k))
        <3>1. (k + 1) - 1 = k
            OBVIOUS
        <3> QED
            BY <2>3, <3>1, ApplicableDef
    <2>5. Effect(b, verb, o).ok
        <3> HIDE DEF A, verb, o
        <3>1. CASE verb = "ensure" /\ o \in b.objects
            BY <2>1, <3>1 DEF Effect
        <3>2. CASE verb # "seed" /\ o \notin b.objects
            BY <2>1, <2>2, <2>3, <2>4, <3>2 DEF Effect, Create, Schemas
        <3>3. CASE verb = "seed"
            BY <2>1, <2>2, <2>4, <3>3 DEF Effect, Seed, Schemas
        <3> QED
            BY <2>2, <2>3, <2>4, <3>1, <3>2, <3>3
    <2>6. A[k + 1] = Effect(b, verb, o)
        BY <1>1, <2>1, ExecuteDef
    <2> QED
        BY <2>5, <2>6
<1>4. 0 .. L \subseteq S
    <2> HIDE DEF L, S
    <2> QED
        BY <1>1, <1>2, <1>3, Induction
<1>5. A[L].ok
    BY <1>1, <1>4
<1>6. A[L].ok /\ s.version = v - 1 /\ v > v - 1
    BY <1>5
<1> HIDE DEF A, L
<1> QED
    BY <1>6, MigrateDef DEF A, L

LEMMA SeededIsThere ==
    ASSUME NEW table \in Seeded
    PROVE  table \in Seq(STRING) /\ table \in ObjectsOf[SeedVersion[table]]
<1> DEFINE v == SeedVersion[table]
<1>1. v \in 1 .. head /\ SeededBy(v, table)
    BY SeedVersionDef
<1>2. PICK k \in DOMAIN Up(v) : Up(v)[k] = <<"seed", table>>
    BY <1>1 DEF SeededBy, ToSet, Up
<1>3. table \in Created(v, k - 1)
    BY <1>1, <1>2, ApplicableDef
<1>4. k \in 1 .. Len(Up(v)) /\ Up(v)[k] \in {"create", "ensure", "seed"} \X Seq(STRING)
    BY <1>1, <1>2, RevisionTypes
<1>5. Created(v, k - 1) \subseteq ObjectsOf[v]
    BY <1>1, <1>4, NextVersion DEF Created, Made, Up
<1> QED
    BY <1>2, <1>3, <1>4, <1>5

LEMMA DowngradeSound ==
    ASSUME NEW v \in 1 .. head, NEW s, Sound(s), s.version = v, Migrate(s, v, v - 1).ok
    PROVE  LET m == Migrate(s, v, v - 1)
           IN  m.version = v - 1 /\ Sound(m)
<1> DEFINE t == After(s, Down(v))[Len(Down(v))]
           m == Migrate(s, v, v - 1)
           D == DOMAIN Down(v)
<1>1. m = [ok |-> t.ok /\ s.version = v, version |-> v - 1,
           objects |-> t.objects, rows |-> t.rows]
    BY MigrateDef
<1>2. t.ok
    <2>1. m.ok
        OBVIOUS
    <2> HIDE DEF t, m
    <2>2. m.ok <=> t.ok /\ s.version = v
        BY <1>1
    <2> QED
        BY <2>1, <2>2
<1>3. Len(Down(v)) \in 0 .. Len(Down(v)) /\ D = 1 .. Len(Down(v))
    BY RevisionTypes
<1>4. Downgraded(v, s, Len(Down(v)))
    BY <1>3, DowngradedLemma DEF Sound
<1>5. /\ t \in Schemas
      /\ t.objects = {x \in s.objects : \A k \in D : ~IsPrefix(Down(v)[k][2], x)}
      /\ \A table \in Seeded :
            t.rows[table] = IF \E k \in D : Down(v)[k][2] = table
                            THEN 0 ELSE s.rows[table]
    BY <1>2, <1>3, <1>4 DEF Downgraded
<1>6. /\ m \in Schemas /\ m.ok /\ m.version = v - 1
      /\ m.objects = t.objects /\ m.rows = t.rows
    <2> HIDE DEF t, m
    <2> QED
        BY <1>1, <1>2, <1>5, RevisionTypes DEF Schemas
<1>7. /\ \A k \in D : \A x \in ObjectsOf[v - 1] : ~IsPrefix(Down(v)[k][2], x)
      /\ \A x \in ObjectsOf[v] \cup LeftBehind[v] :
            \/ x \in ObjectsOf[v - 1] \cup LeftBehind[v - 1]
            \/ \E k \in D : IsPrefix(Down(v)[k][2], x)
    BY RevisionTypes DEF Reversible, Down
<1>8. /\ ObjectsOf[v - 1] \subseteq m.objects
      /\ m.objects \subseteq ObjectsOf[v - 1] \cup LeftBehind[v - 1]
    <2> HIDE DEF t, m, D
    <2> QED
        BY <1>5, <1>6, <1>7, NextVersion DEF Sound
<1>9. ASSUME NEW table \in Seeded
      PROVE  /\ m.rows[table] >= Due(m, table)
             /\ table \in Singletons => m.rows[table] = Due(m, table)
    <2>1. s.rows[table] \in Nat /\ SeedVersion[table] \in 1 .. head
        BY SeedVersionDef DEF Sound, Schemas
    <2>2. /\ s.rows[table] >= Due(s, table)
          /\ table \in Singletons => s.rows[table] = Due(s, table)
        BY DEF Sound
    <2>3. v = SeedVersion[table] /\ table \in Singletons
              => \E k \in D : Down(v)[k][2] = table
        BY RevisionsAssumption DEF Down
    <2>4. v > SeedVersion[table] => \A k \in D : Down(v)[k][2] # table
        <3>1. ASSUME v > SeedVersion[table] PROVE table \in ObjectsOf[v - 1]
            <4>1. /\ SeedVersion[table] \in Versions /\ v - 1 \in Versions
                  /\ SeedVersion[table] <= v - 1
                BY <2>1, <3>1, HeadIsNat DEF Versions
            <4> QED
                BY <4>1, EarlierVersion, SeededIsThere
        <3>2. IsPrefix(table, table)
            BY SeededIsThere DEF IsPrefix
        <3> QED
            BY <1>7, <3>1, <3>2
    <2> HIDE DEF t, m, D
    <2> QED
        BY <1>5, <1>6, <2>1, <2>2, <2>3, <2>4 DEF Due
<1> QED
    BY <1>6, <1>8, <1>9 DEF Sound

----------------------------------------------------------------------------
(* The invariants *)

TypeInv ==
    /\ holder \in Processes \cup {NoOne}
    /\ at \in [Processes -> Versions]
    /\ goal \in [Processes -> Versions]
    /\ phase \in [Processes -> {"down", "starting", "migrating", "serving", "aborted"}]
    /\ attempts \in [Processes -> 0 .. 4]
    /\ commands \in 0 .. MaxCommands
    /\ troubles \in 0 .. MaxTroubles
    /\ downgraded \in BOOLEAN

\* A container always goes for the head.
GoalInv == \A c \in Containers : goal[c] = head

\* A transaction that has changed something is that of a process that is
\* migrating, has the version this process believes in, and lies between the
\* committed version and the goal.
HolderInv ==
    holder # NoOne =>
        /\ phase[holder] = "migrating"
        /\ tx.version = at[holder]
        /\ \/ schema.version < tx.version /\ tx.version <= goal[holder]
           \/ schema.version > tx.version /\ tx.version >= goal[holder]

\* What is committed, and what is going to be, is the schema of its version.
SchemaInv ==
    /\ Sound(schema) /\ Sound(tx)
    /\ ~downgraded => Exact(schema)
    /\ holder # NoOne /\ ~downgraded /\ schema.version < tx.version => Exact(tx)

\* What a container has to account for: the attempts it has used up, and the
\* one that it loses because another process has committed meanwhile.
Failures(c) == IF phase[c] = "aborted" THEN 5 ELSE attempts[c]
Overtaken(c) == phase[c] = "migrating" /\ holder # c /\ schema.version # at[c]
Weight(c) == Failures(c) + (IF Overtaken(c) THEN 1 ELSE 0)

\* ... and what accounts for it: troubles, commands that have ended, and the
\* one time that the head was reached.
Active == {o \in Operators : phase[o] # "down"}
Ended == commands - Cardinality(Active)
Excuses == troubles + Ended + (IF schema.version = head THEN 1 ELSE 0)

RacesInv ==
    /\ IsFiniteSet(Active)
    /\ ~downgraded => \A c \in Containers : Weight(c) <= Excuses

IInv == TypeInv /\ GoalInv /\ HolderInv /\ SchemaInv /\ RacesInv

LEMMA Apart ==
    /\ NoOne \notin Processes
    /\ \A c \in Containers : c \in Processes /\ c \notin Operators
    /\ \A o \in Operators : o \in Processes
    /\ Goals \subseteq Versions
    /\ 0 \in Versions /\ head \in Versions
    /\ MaxCommands \in Nat /\ MaxTroubles \in Nat
    BY MigrationsAssumption, HeadIsNat DEF Processes, Versions

LEMMA EmptyIsSound == Sound(Empty) /\ Exact(Empty)
<1>1. Empty \in Schemas
    BY Apart DEF Empty, Schemas, NoRows
<1>2. \A table \in Seeded : Empty.rows[table] = 0 /\ Due(Empty, table) = 0
    BY SeedVersionDef DEF Empty, NoRows, Due
<1>3. /\ Empty.ok /\ Empty.version = 0 /\ Empty.objects = {}
      /\ ObjectsOf[Empty.version] = {}
    BY FirstVersion DEF Empty
<1> QED
    BY <1>1, <1>2, <1>3 DEF Sound, Exact

LEMMA InitInv == Init => IInv
<1> SUFFICES ASSUME Init PROVE IInv
    OBVIOUS
<1>1. /\ holder \in Processes \cup {NoOne} /\ downgraded \in BOOLEAN
      /\ commands \in 0 .. MaxCommands /\ troubles \in 0 .. MaxTroubles
    <2>1. 0 \in 0 .. MaxCommands /\ 0 \in 0 .. MaxTroubles
        BY Apart
    <2> QED
        BY <2>1 DEF Init
<1>8. /\ at \in [Processes -> Versions] /\ goal \in [Processes -> Versions]
      /\ phase \in [Processes -> {"down", "starting", "migrating", "serving", "aborted"}]
      /\ attempts \in [Processes -> 0 .. 4]
      /\ \A c \in Containers : goal[c] = head
    BY Apart DEF Init
<1>2. HolderInv /\ SchemaInv
    BY EmptyIsSound DEF Init, HolderInv, SchemaInv
<1>3. Active = {}
    BY Apart DEF Init, Active
<1>4. IsFiniteSet(Active) /\ Cardinality(Active) = 0
    BY <1>3, FS_EmptySet
<1>5. Excuses \in Nat
    BY <1>4 DEF Init, Excuses, Ended
<1>6. \A c \in Containers : Weight(c) = 0
    BY Apart DEF Init, Weight, Failures, Overtaken
<1>7. RacesInv
    BY <1>4, <1>5, <1>6 DEF RacesInv
<1> QED
    BY <1>1, <1>2, <1>7, <1>8 DEF IInv, TypeInv, GoalInv

----------------------------------------------------------------------------
(* Who is accounted for *)

\* A process of operators starts with a command and ends once.
LEMMA ActiveStep ==
    ASSUME TypeInv, RacesInv, NEW p \in Processes,
           NEW l \in {"down", "starting", "migrating", "serving", "aborted"}, Goto(p, l),
           \/ p \in Containers /\ commands' = commands
           \/ p \in Operators /\ phase[p] # "down" /\ commands' = commands
           \/ p \in Operators /\ phase[p] = "down" /\ commands' = commands + 1
    PROVE  /\ IsFiniteSet(Active') /\ Ended \in Int /\ Ended' \in Int /\ Ended' >= Ended
           /\ p \in Operators /\ phase[p] # "down" /\ l = "down" => Ended' >= Ended + 1
<1>1. IsFiniteSet(Active) /\ Cardinality(Active) \in Nat /\ commands \in Nat
    BY FS_CardinalityType DEF RacesInv, TypeInv
<1>2. \A q \in Operators : phase'[q] = IF q = p THEN l ELSE phase[q]
    BY Apart DEF TypeInv, Goto
<1>3. CASE p \in Containers
    <2>1. Active' = Active
        BY <1>2, <1>3, Apart DEF Active
    <2> QED
        BY <1>1, <1>3, <2>1, Apart DEF Ended
<1>4. CASE p \in Operators /\ l = "down"
    <2>1. Active' = Active \ {p}
        BY <1>2, <1>4 DEF Active
    <2>2. p \in Active <=> phase[p] # "down"
        BY <1>4 DEF Active
    <2>3. /\ IsFiniteSet(Active')
          /\ Cardinality(Active') = IF p \in Active THEN Cardinality(Active) - 1
                                    ELSE Cardinality(Active)
        BY <1>1, <2>1, FS_RemoveElement
    <2> QED
        BY <1>1, <1>4, <2>2, <2>3, Apart DEF Ended
<1>5. CASE p \in Operators /\ l # "down"
    <2>1. Active' = Active \cup {p}
        BY <1>2, <1>5 DEF Active
    <2>2. p \in Active <=> phase[p] # "down"
        BY <1>5 DEF Active
    <2>3. /\ IsFiniteSet(Active')
          /\ Cardinality(Active') = IF p \in Active THEN Cardinality(Active)
                                    ELSE Cardinality(Active) + 1
        BY <1>1, <2>1, FS_AddElement
    <2> QED
        BY <1>1, <1>5, <2>2, <2>3, Apart DEF Ended
<1> QED
    BY <1>3, <1>4, <1>5 DEF Processes

\* Nothing is committed: p is accounted for, and nothing changes for others.
LEMMA RacesStep ==
    ASSUME TypeInv, RacesInv, NEW p \in Processes,
           schema' = schema, downgraded' = downgraded, troubles' \in Nat,
           IsFiniteSet(Active'), Ended \in Int, Ended' \in Int, Ended' >= Ended,
           \A q \in Processes \ {p} :
               /\ phase'[q] = phase[q] /\ at'[q] = at[q] /\ attempts'[q] = attempts[q]
               /\ holder' = q <=> holder = q,
           troubles' >= troubles,
           \A c \in Containers \cap {p} : ~downgraded =>
               Weight(c)' \in Int /\ Weight(c)' <= Weight(c) + (troubles' - troubles)
    PROVE  RacesInv'
<1>2. Excuses \in Int /\ Excuses' \in Int /\ Excuses' >= Excuses + (troubles' - troubles)
    <2> DEFINE h == IF schema.version = head THEN 1 ELSE 0
    <2>1. troubles \in Int /\ h \in Int
        BY DEF TypeInv
    <2>2. Excuses = troubles + Ended + h
        BY DEF Excuses
    <2>3. Excuses' = troubles' + Ended' + h
        BY DEF Excuses
    <2>4. \A t, u, e, f, i \in Int :
              f >= e => (u + f) + i >= ((t + e) + i) + (u - t)
        OBVIOUS
    <2>5. troubles' \in Int
        OBVIOUS
    <2> HIDE DEF h
    <2>6. (troubles' + Ended') + h >= ((troubles + Ended) + h) + (troubles' - troubles)
        BY <2>1, <2>4, <2>5
    <2>7. Excuses \in Int /\ Excuses' \in Int
        BY <2>1, <2>2, <2>3, <2>5
    <2> QED
        BY <2>2, <2>3, <2>6, <2>7
<1>3. troubles \in Int /\ troubles' \in Int
    BY DEF TypeInv
<1>4. ASSUME ~downgraded', NEW c \in Containers PROVE Weight(c)' <= Excuses'
    <2>1. Weight(c) <= Excuses /\ Weight(c) \in Int
        BY <1>4, Apart DEF RacesInv, Weight, Failures, TypeInv
    <2>2. Weight(c)' \in Int /\ Weight(c)' <= Weight(c) + (troubles' - troubles)
        <3>1. CASE c = p
            BY <1>4, <3>1
        <3>2. CASE c # p
            BY <1>3, <2>1, <3>2, Apart DEF Weight, Failures, Overtaken
        <3> QED
            BY <3>1, <3>2
    <2>3. \A w, v, e, f, d \in Int : v <= w + d /\ w <= e /\ f >= e + d => v <= f
        OBVIOUS
    <2>4. troubles' - troubles \in Int
        BY <1>3
    <2> QED
        BY <1>2, <2>1, <2>2, <2>3, <2>4
<1> QED
    BY <1>4 DEF RacesInv

----------------------------------------------------------------------------
(* The end of an alembic *)

\* What the ends have in common: p goes to l, with n failures, and the
\* transaction is not its any more.
Leaves(p, l, n) ==
    /\ phase' = [phase EXCEPT ![p] = l]
    /\ at' = [at EXCEPT ![p] = 0]
    /\ attempts' = [attempts EXCEPT ![p] = n]
    /\ goal' = [goal EXCEPT ![p] = head] \/ goal' = [goal EXCEPT ![p] = goal[p]]
    /\ holder' = IF holder = p THEN NoOne ELSE holder
    /\ tx' = IF holder = p THEN Empty ELSE tx

LEMMA EndLeaves ==
    ASSUME NEW p \in Processes, NEW l, NEW n, End(p), Goto(p, l),
           attempts' = [attempts EXCEPT ![p] = n]
    PROVE  Leaves(p, l, n)
    BY DEF End, Goto, Leaves

\* The types, the goals and the holder afterwards.
LEMMA LeavesKeeps ==
    ASSUME IInv, NEW p \in Processes, NEW n \in 0 .. 4,
           NEW l \in {"down", "starting", "serving", "aborted"}, Leaves(p, l, n),
           commands' \in 0 .. MaxCommands, troubles' \in 0 .. MaxTroubles,
           downgraded' \in BOOLEAN, holder = p \/ schema' = schema
    PROVE  TypeInv' /\ GoalInv' /\ HolderInv'
<1>1. TypeInv'
    <2>1. at' \in [Processes -> Versions] /\ goal' \in [Processes -> Versions]
        BY Apart DEF IInv, TypeInv, Leaves
    <2>2. /\ phase' \in [Processes -> {"down", "starting", "migrating", "serving", "aborted"}]
          /\ attempts' \in [Processes -> 0 .. 4]
          /\ holder' \in Processes \cup {NoOne}
        BY DEF IInv, TypeInv, Leaves
    <2> QED
        BY <2>1, <2>2 DEF TypeInv
<1>2. GoalInv'
    BY Apart DEF IInv, TypeInv, GoalInv, Leaves
<1>3. HolderInv'
    <2>1. CASE holder = p
        BY <2>1 DEF HolderInv, Leaves
    <2>2. CASE holder # p /\ holder # NoOne
        <3>1. /\ holder' = holder /\ tx' = tx /\ schema' = schema
              /\ holder \in Processes
            BY <2>2 DEF Leaves, IInv, TypeInv
        <3>2. /\ phase'[holder] = phase[holder] /\ at'[holder] = at[holder]
              /\ goal'[holder] = goal[holder]
            BY <2>2, <3>1 DEF Leaves, IInv, TypeInv
        <3> QED
            BY <3>1, <3>2 DEF IInv, HolderInv
    <2>3. CASE holder # p /\ holder = NoOne
        BY <2>3 DEF HolderInv, Leaves
    <2> QED
        BY <2>1, <2>2, <2>3
<1> QED
    BY <1>1, <1>2, <1>3

\* ... and everything else, if nothing was committed.
LEMMA UndoneKeeps ==
    ASSUME IInv, NEW p \in Processes, NEW n \in 0 .. 4,
           NEW l \in {"down", "starting", "serving", "aborted"}, Leaves(p, l, n),
           p \in Operators => phase[p] # "down",
           schema' = schema, downgraded' = downgraded, commands' = commands,
           troubles' \in 0 .. MaxTroubles, troubles' >= troubles,
           \A c \in Containers \cap {p} : ~downgraded =>
               Failures(c)' <= Weight(c) + (troubles' - troubles)
    PROVE  IInv' /\ phase'[p] = l /\ \A q \in Processes \ {p} : phase'[q] = phase[q]
<1>1. TypeInv' /\ GoalInv' /\ HolderInv'
    BY LeavesKeeps DEF IInv, TypeInv
<1>2. /\ phase'[p] = l /\ attempts'[p] = n
      /\ \A q \in Processes \ {p} :
            /\ phase'[q] = phase[q] /\ at'[q] = at[q] /\ attempts'[q] = attempts[q]
            /\ holder' = q <=> holder = q
    BY Apart DEF Leaves, IInv, TypeInv
<1>3. SchemaInv'
    BY EmptyIsSound DEF IInv, SchemaInv, Leaves
<1>4. RacesInv'
    <2>1. IsFiniteSet(Active') /\ Ended \in Int /\ Ended' \in Int /\ Ended' >= Ended
        BY ActiveStep DEF Goto, Leaves, IInv, Processes
    <2>2. ASSUME NEW c \in Containers \cap {p}, ~downgraded
          PROVE  Weight(c)' \in Int /\ Weight(c)' <= Weight(c) + (troubles' - troubles)
        <3>1. Weight(c)' = Failures(c)' /\ Failures(c)' \in Int
            BY <1>2, <2>2 DEF Weight, Failures, Overtaken
        <3> QED
            BY <2>2, <3>1
    <2> QED
        BY <1>2, <2>1, <2>2, RacesStep DEF IInv
<1> QED
    BY <1>1, <1>2, <1>3, <1>4 DEF IInv

\* A failure is one more attempt.
LEMMA FailLeaves ==
    ASSUME IInv, NEW p \in Processes, Fail(p)
    PROVE  \E l \in {"down", "starting", "aborted"}, n \in 0 .. 4 :
              /\ Leaves(p, l, n)
              /\ phase[p] # "aborted" => (IF l = "aborted" THEN 5 ELSE n) <= Failures(p) + 1
<1> DEFINE last == p \in Operators \/ attempts[p] + 1 >= 5
           n == IF last THEN 0 ELSE attempts[p] + 1
           l == IF p \in Operators THEN "down" ELSE IF last THEN "aborted" ELSE "starting"
<1>1. attempts[p] \in 0 .. 4
    BY DEF IInv, TypeInv
<1>2. /\ n \in 0 .. 4 /\ l \in {"down", "starting", "aborted"}
      /\ (IF l = "aborted" THEN 5 ELSE n) <= attempts[p] + 1
    BY <1>1
<1>3. Goto(p, l) /\ End(p) /\ attempts' = [attempts EXCEPT ![p] = n]
    <2>1. attempts' = [attempts EXCEPT ![p] = IF last THEN 0 ELSE attempts[p] + 1]
        BY DEF Fail, IInv, TypeInv
    <2> QED
        BY <2>1 DEF Fail
<1>4. Leaves(p, l, n)
    <2> HIDE DEF l, n
    <2> QED
        BY <1>3, EndLeaves
<1> HIDE DEF l, n
<1> QED
    BY <1>2, <1>4 DEF Failures

----------------------------------------------------------------------------
(* The steps of alembic *)

\* What HeadAtOnce says of a step.
Honest ==
    /\ schema' # schema =>
         \/ schema'.version = head /\ schema.version < head
         \/ \E o \in Operators : holder = o /\ goal[o] = schema'.version
    /\ \A c \in Containers :
         phase[c] # "down" /\ phase[c] # "serving" /\ phase'[c] = "serving"
             => schema'.version = head

LEMMA SucceedLeaves ==
    ASSUME NEW p \in Processes, Succeed(p)
    PROVE  \E l \in {"down", "serving"} :
              Leaves(p, l, 0) /\ (p \in Operators => l = "down")
<1> DEFINE l == IF p \in Containers THEN "serving" ELSE "down"
<1>1. Goto(p, l) /\ End(p) /\ attempts' = [attempts EXCEPT ![p] = 0]
    BY DEF Succeed
<1>2. Leaves(p, l, 0)
    BY <1>1, EndLeaves
<1>3. l \in {"down", "serving"} /\ (p \in Operators => l = "down")
    BY Apart
<1> QED
    BY <1>2, <1>3

LEMMA ConnectKeeps ==
    ASSUME IInv, NEW p \in Processes, Connect(p)
    PROVE  IInv' /\ Honest
<1>1. /\ schema' = schema /\ phase[p] = "starting"
      /\ UNCHANGED <<downgraded, commands, troubles>>
    BY DEF Connect, bounds
<1>2. troubles \in Nat /\ troubles' \in Nat /\ troubles' = troubles
      /\ troubles' \in 0 .. MaxTroubles
    BY <1>1 DEF IInv, TypeInv
<1>3. CASE Succeed(p) /\ (schema.version = goal[p]
                          \/ goal[p] \in schema.version + 1 .. head - 1)
    <2>1. PICK l \in {"down", "serving"} : Leaves(p, l, 0)
        BY <1>3, SucceedLeaves
    <2>2. ASSUME NEW c \in Containers \cap {p}
          PROVE  Failures(c)' <= Weight(c) + (troubles' - troubles)
        <3>1. Failures(c)' = 0
            BY <2>1 DEF Failures, Leaves, IInv, TypeInv
        <3>2. Weight(c) \in Nat
            BY Apart DEF Weight, Failures, IInv, TypeInv
        <3> QED
            BY <1>2, <3>1, <3>2
    <2>3. IInv' /\ \A q \in Processes \ {p} : phase'[q] = phase[q]
        BY <1>1, <1>2, <2>1, <2>2, UndoneKeeps
    <2>4. p \in Containers => schema'.version = head
        BY <1>1, <1>3, HeadIsNat DEF IInv, GoalInv
    <2> QED
        BY <1>1, <2>3, <2>4, Apart DEF Honest
<1>4. CASE /\ Goto(p, "migrating")
           /\ at' = [at EXCEPT ![p] = schema.version]
           /\ UNCHANGED <<goal, attempts, holder, tx>>
    <2>1. schema.version \in Versions
        BY DEF IInv, SchemaInv, Sound, Schemas
    <2>2. /\ phase'[p] = "migrating" /\ at'[p] = schema.version
          /\ \A q \in Processes \ {p} : phase'[q] = phase[q] /\ at'[q] = at[q]
        BY <1>4 DEF Goto, IInv, TypeInv
    <2>3. TypeInv' /\ GoalInv'
        BY <1>1, <1>4, <2>1 DEF Goto, IInv, TypeInv, GoalInv
    <2>4. holder # p
        BY <1>1, Apart DEF IInv, HolderInv
    <2>5. HolderInv' /\ SchemaInv'
        BY <1>1, <1>4, <2>2, <2>4 DEF IInv, TypeInv, HolderInv, SchemaInv
    <2>6. RacesInv'
        <3>1. IsFiniteSet(Active') /\ Ended \in Int /\ Ended' \in Int /\ Ended' >= Ended
            BY <1>1, <1>4, ActiveStep DEF IInv, Processes
        <3>2. ASSUME NEW c \in Containers \cap {p}, ~downgraded
              PROVE  Weight(c)' \in Int /\ Weight(c)' <= Weight(c) + (troubles' - troubles)
            <4>0. ~Overtaken(c)' /\ Failures(c)' = attempts[c]
                BY <1>1, <1>4, <2>2 DEF Failures, Overtaken
            <4>3. attempts[c] \in Int
                BY Apart DEF IInv, TypeInv
            <4>1. Weight(c)' = attempts[c]
                BY <4>0, <4>3 DEF Weight
            <4>2. Weight(c) = attempts[c] /\ attempts[c] \in Nat
                BY <1>1 DEF Weight, Failures, Overtaken, IInv, TypeInv
            <4> QED
                BY <1>2, <4>1, <4>2
        <3> QED
            BY <1>1, <1>2, <1>4, <2>2, <3>1, <3>2, RacesStep DEF IInv
    <2> QED
        BY <1>1, <2>2, <2>3, <2>5, <2>6, Apart DEF IInv, Honest
<1> QED
    BY <1>3, <1>4 DEF Connect

LEMMA CommitKeeps ==
    ASSUME IInv, NEW p \in Processes, Commit(p)
    PROVE  IInv' /\ Honest
<1>1. /\ holder = p /\ at[p] = goal[p] /\ schema' = tx /\ Succeed(p)
      /\ downgraded' = (downgraded \/ tx.version < schema.version)
      /\ commands' = commands /\ troubles' = troubles
    BY DEF Commit, bounds
<1>2. PICK l \in {"down", "serving"} :
          Leaves(p, l, 0) /\ (p \in Operators => l = "down")
    BY <1>1, SucceedLeaves
<1>3. /\ phase[p] = "migrating" /\ tx.version = goal[p]
      /\ tx.version \in Versions /\ schema.version \in Versions
      /\ tx.version < schema.version \/ schema.version < tx.version
      /\ p \in Containers => tx.version = head /\ schema.version < head
    BY <1>1, Apart, HeadIsNat DEF IInv, TypeInv, GoalInv, HolderInv, SchemaInv, Sound, Schemas,
       Versions
<1>4. TypeInv' /\ GoalInv' /\ HolderInv'
    <2>1. downgraded' \in BOOLEAN
        BY <1>1
    <2> QED
        BY <1>1, <1>2, <2>1, LeavesKeeps DEF IInv, TypeInv
<1>5. holder' = NoOne /\ tx' = Empty
    BY <1>1, <1>2 DEF Leaves
<1>6. ~downgraded' => ~downgraded /\ schema.version < tx.version
    BY <1>1, <1>3
<1>7. SchemaInv'
    BY <1>1, <1>5, <1>6, EmptyIsSound, Apart DEF IInv, SchemaInv
<1>8. /\ phase'[p] = l /\ attempts'[p] = 0
      /\ \A q \in Processes \ {p} :
            phase'[q] = phase[q] /\ at'[q] = at[q] /\ attempts'[q] = attempts[q]
    BY <1>2 DEF Leaves, IInv, TypeInv
<1>9. RacesInv'
    <2>1. /\ IsFiniteSet(Active') /\ Ended \in Int /\ Ended' \in Int /\ Ended' >= Ended
          /\ p \in Operators => Ended' >= Ended + 1
        BY <1>1, <1>2, <1>3, ActiveStep DEF Goto, Leaves, IInv, Processes
    <2>2. ASSUME ~downgraded' PROVE Excuses' >= Excuses + 1 /\ Excuses \in Int
                                    /\ Excuses' \in Int
        <3>1. schema.version < tx.version /\ schema'.version = tx.version
            BY <1>1, <1>6, <2>2
        <3>2. schema.version # head
            BY <1>3, <3>1 DEF Versions
        <3>3. troubles' = troubles /\ troubles \in Int
            BY <1>1 DEF IInv, TypeInv
        <3>4. p \in Containers \/ p \in Operators
            BY DEF Processes
        <3> QED
            BY <1>3, <2>1, <3>1, <3>2, <3>3, <3>4 DEF Excuses
    <2>3. ASSUME ~downgraded', NEW c \in Containers PROVE Weight(c)' <= Excuses'
        <3>1. Weight(c) <= Excuses /\ Weight(c) \in Nat
            BY <1>6, <2>3, Apart DEF IInv, RacesInv, Weight, Failures, TypeInv
        <3>2. Weight(c)' \in Int /\ Weight(c)' <= Weight(c) + 1
            <4>1. CASE c = p
                BY <1>8, <3>1, <4>1 DEF Weight, Failures, Overtaken
            <4>2. CASE c # p
                <5>1. Failures(c)' = Failures(c) /\ Failures(c) \in Nat
                    BY <1>8, <4>2, Apart DEF Failures, IInv, TypeInv
                <5>2. Weight(c)' <= Failures(c)' + 1 /\ Weight(c)' \in Int
                      /\ Weight(c) >= Failures(c)
                    BY <5>1 DEF Weight
                <5> QED
                    BY <3>1, <5>1, <5>2
            <4> QED
                BY <4>1, <4>2
        <3>3. \A w, v, e, f \in Int : v <= w + 1 /\ w <= e /\ f >= e + 1 => v <= f
            OBVIOUS
        <3> QED
            BY <2>2, <2>3, <3>1, <3>2, <3>3
    <2> QED
        BY <2>1, <2>3 DEF RacesInv
<1>10. Honest
    <2>1. CASE p \in Containers
        BY <1>1, <1>3, <1>8, <2>1, Apart DEF Honest
    <2>2. CASE p \in Operators
        BY <1>1, <1>2, <1>3, <1>8, <2>2, Apart DEF Honest
    <2> QED
        BY <2>1, <2>2 DEF Processes
<1> QED
    BY <1>4, <1>7, <1>9, <1>10 DEF IInv

\* A container fails on a revision only if another process has committed since
\* it read the version; that attempt was accounted for.
LEMMA FailsOvertaken ==
    ASSUME IInv, NEW c \in Containers, phase[c] = "migrating", at[c] # goal[c],
           holder \in {NoOne, c}, ~downgraded,
           ~Migrate(IF holder = c THEN tx ELSE schema, at[c], at[c] + 1).ok
    PROVE  Overtaken(c)
<1>1. c \in Processes /\ at[c] \in Versions /\ goal[c] = head /\ at[c] + 1 \in 1 .. head
    BY Apart, HeadIsNat DEF IInv, TypeInv, GoalInv, Versions
<1>2. \A s : Sound(s) /\ Exact(s) /\ s.version = at[c] => Migrate(s, at[c], at[c] + 1).ok
    <2>1. (at[c] + 1) - 1 = at[c]
        BY <1>1 DEF Versions
    <2> QED
        BY <1>1, <2>1, UpgradeWorks
<1>3. CASE holder = c
    <2>1. Sound(tx) /\ tx.version = at[c] /\ schema.version \in Versions
        BY <1>3, <1>1, Apart DEF IInv, HolderInv, SchemaInv, Sound, Schemas
    <2>2. schema.version < tx.version
        BY <1>1, <1>3, <2>1, Apart, HeadIsNat DEF IInv, HolderInv, Versions
    <2>3. Exact(tx)
        BY <1>1, <1>3, <2>2, Apart DEF IInv, SchemaInv
    <2> QED
        BY <1>2, <1>3, <2>1, <2>3
<1>4. CASE holder # c
    <2>1. Sound(schema) /\ Exact(schema)
        BY DEF IInv, SchemaInv
    <2>2. schema.version # at[c]
        BY <1>2, <1>4, <2>1
    <2> QED
        BY <1>4, <2>2 DEF Overtaken
<1> QED
    BY <1>3, <1>4

LEMMA MigrateKeeps ==
    ASSUME IInv, NEW p \in Processes, run_migrations(p)
    PROVE  IInv' /\ Honest
<1> DEFINE to == IF goal[p] > at[p] THEN at[p] + 1 ELSE at[p] - 1
           from == IF holder = p THEN tx ELSE schema
           done == Migrate(from, at[p], to)
<1>1. /\ schema' = schema /\ downgraded' = downgraded
      /\ commands' = commands /\ troubles' = troubles
      /\ phase[p] = "migrating" /\ at[p] # goal[p] /\ holder \in {NoOne, p}
    BY DEF run_migrations, bounds
<1>2. /\ to \in Versions /\ at[p] \in Versions /\ goal[p] \in Versions
      /\ schema.version \in Versions
    BY <1>1, HeadIsNat DEF IInv, TypeInv, SchemaInv, Sound, Schemas, Versions
<1>3. troubles \in Nat /\ troubles' \in 0 .. MaxTroubles
    BY <1>1 DEF IInv, TypeInv
<1>4. CASE ~done.ok /\ Fail(p)
    <2>1. PICK l \in {"down", "starting", "aborted"}, n \in 0 .. 4 :
              /\ Leaves(p, l, n)
              /\ phase[p] # "aborted" => (IF l = "aborted" THEN 5 ELSE n) <= Failures(p) + 1
        BY <1>4, FailLeaves
    <2>2. ASSUME NEW c \in Containers \cap {p}, ~downgraded
          PROVE  Failures(c)' <= Weight(c) + (troubles' - troubles)
        <3>1. goal[p] > at[p]
            BY <1>1, <1>2, <2>2, HeadIsNat DEF IInv, GoalInv, Versions
        <3>2. Overtaken(c)
            <4>1. ~Migrate(IF holder = c THEN tx ELSE schema, at[c], at[c] + 1).ok
                BY <1>4, <2>2, <3>1
            <4> QED
                BY <1>1, <2>2, <4>1, FailsOvertaken
        <3>3. Failures(c)' = IF l = "aborted" THEN 5 ELSE n
            BY <2>1, <2>2 DEF Failures, Leaves, IInv, TypeInv
        <3>4. Weight(c) = Failures(c) + 1 /\ Failures(c) \in Nat
            BY <3>2, Apart DEF Weight, Failures, IInv, TypeInv
        <3>5. Failures(c)' <= Failures(c) + 1
            BY <1>1, <2>1, <2>2, <3>3
        <3>6. Failures(c)' \in Int
            BY <3>3
        <3> QED
            BY <1>1, <1>3, <3>4, <3>5, <3>6
    <2>3. IInv' /\ phase'[p] # "serving" /\ \A q \in Processes \ {p} : phase'[q] = phase[q]
        BY <1>1, <1>3, <2>1, <2>2, UndoneKeeps
    <2> QED
        BY <1>1, <2>3, Apart DEF Honest
<1>5. CASE /\ done.ok
           /\ tx' = done
           /\ at' = [at EXCEPT ![p] = to]
           /\ holder' = p
           /\ UNCHANGED <<phase, goal, attempts>>
    <2>1. Sound(from) /\ from.version = at[p]
        <3>1. Sound(from)
            BY DEF IInv, SchemaInv
        <3>2. from.version = at[p]
            <4> DEFINE statements == IF to > at[p] THEN Up(to) ELSE Down(at[p])
                       t == After(from, statements)[Len(statements)]
            <4>1. done = [ok |-> t.ok /\ from.version = at[p], version |-> to,
                          objects |-> t.objects, rows |-> t.rows]
                BY MigrateDef
            <4>2. done.ok
                BY <1>5
            <4> HIDE DEF done, t, from
            <4>3. done.ok <=> t.ok /\ from.version = at[p]
                BY <4>1
            <4> QED
                BY <4>2, <4>3
        <3> QED
            BY <3>1, <3>2
    <2> DEFINE Outcome ==
                   /\ done.version = to /\ Sound(done)
                   /\ \/ schema.version < to /\ to <= goal[p]
                      \/ schema.version > to /\ to >= goal[p]
                   /\ ~downgraded /\ schema.version < to => Exact(done)
    <2>2. ASSUME goal[p] > at[p] PROVE Outcome
        <3>1. to = at[p] + 1 /\ to \in 1 .. head /\ at[p] = to - 1
            BY <1>2, <2>2 DEF Versions
        <3>2. done.version = to /\ Sound(done) /\ (Exact(from) => Exact(done))
            <4>1. from.version = to - 1 /\ Migrate(from, to - 1, to).ok /\ done = Migrate(from, to - 1, to)
                BY <1>5, <2>1, <3>1
            <4> HIDE DEF to, from, done
            <4> QED
                BY <2>1, <3>1, <4>1, UpgradeSound
        <3>3. schema.version < to /\ to <= goal[p]
            <4>1. CASE holder = p
                BY <1>2, <2>1, <2>2, <3>1, <4>1, Apart DEF IInv, HolderInv, Versions
            <4>2. CASE holder # p
                BY <1>2, <2>1, <2>2, <3>1, <4>2 DEF Versions
            <4> QED
                BY <4>1, <4>2
        <3>4. ~downgraded => Exact(from)
            <4>1. CASE holder = p
                BY <1>2, <2>1, <2>2, <4>1, Apart DEF IInv, HolderInv, SchemaInv, Versions
            <4>2. CASE holder # p
                BY <4>2 DEF IInv, SchemaInv
            <4> QED
                BY <4>1, <4>2
        <3> QED
            BY <3>2, <3>3, <3>4
    <2>3. ASSUME ~(goal[p] > at[p]) PROVE Outcome
        <3>1. to = at[p] - 1 /\ at[p] \in 1 .. head /\ ~(to > at[p])
            BY <1>1, <1>2, <2>3 DEF Versions
        <3>2. done.version = to /\ Sound(done)
            <4>1. done = Migrate(from, at[p], at[p] - 1) /\ Migrate(from, at[p], at[p] - 1).ok
                BY <1>5, <3>1
            <4> HIDE DEF to, from, done
            <4> QED
                BY <2>1, <3>1, <4>1, DowngradeSound
        <3>3. schema.version > to /\ to >= goal[p]
            <4>1. CASE holder = p
                BY <1>1, <1>2, <2>1, <2>3, <3>1, <4>1, Apart DEF IInv, HolderInv, Versions
            <4>2. CASE holder # p
                BY <1>1, <1>2, <2>1, <2>3, <3>1, <4>2 DEF Versions
            <4> QED
                BY <4>1, <4>2
        <3> QED
            BY <1>2, <3>2, <3>3 DEF Versions
    <2>4. /\ done.version = to /\ Sound(done)
          /\ \/ schema.version < to /\ to <= goal[p]
             \/ schema.version > to /\ to >= goal[p]
          /\ ~downgraded /\ schema.version < to => Exact(done)
        <3> HIDE DEF done, from, to
        <3> QED
            BY <2>2, <2>3
    <2>5. TypeInv' /\ GoalInv'
        BY <1>1, <1>2, <1>5 DEF IInv, TypeInv, GoalInv
    <2>6. at'[p] = to /\ \A q \in Processes \ {p} : at'[q] = at[q]
        BY <1>5 DEF IInv, TypeInv
    <2>7. HolderInv'
        <3> HIDE DEF done, to
        <3> QED
            BY <1>1, <1>5, <2>4, <2>6 DEF HolderInv
    <2>8. SchemaInv'
        <3> HIDE DEF done, to
        <3> QED
            BY <1>1, <1>5, <2>4 DEF IInv, SchemaInv
    <2>9. RacesInv'
        <3> HIDE DEF done, to
        <3>1. Active' = Active /\ Ended' = Ended
            BY <1>1, <1>5 DEF Active, Ended
        <3>2. IsFiniteSet(Active') /\ Ended \in Int
            <4>1. IsFiniteSet(Active) /\ commands \in Int
                BY DEF IInv, RacesInv, TypeInv
            <4>2. Cardinality(Active) \in Int
                BY <4>1, FS_CardinalityType
            <4> QED
                BY <3>1, <4>1, <4>2 DEF Ended
        <3>3. ASSUME NEW c \in Containers \cap {p}, ~downgraded
              PROVE  Weight(c)' \in Int /\ Weight(c)' <= Weight(c) + (troubles' - troubles)
            <4>1. Failures(c)' = Failures(c) /\ Failures(c) \in Nat
                BY <1>5, Apart DEF Failures, IInv, TypeInv
            <4>2. Weight(c)' = Failures(c)
                BY <1>5, <4>1 DEF Weight, Overtaken
            <4>3. Weight(c) \in Int /\ Failures(c) <= Weight(c)
                BY <4>1 DEF Weight
            <4> QED
                BY <1>1, <1>3, <4>1, <4>2, <4>3
        <3>4. \A q \in Processes \ {p} : holder' = q <=> holder = q
            BY <1>1, <1>5, Apart
        <3> QED
            BY <1>1, <1>3, <1>5, <2>6, <3>1, <3>2, <3>3, <3>4, RacesStep DEF IInv
    <2> QED
        BY <1>1, <1>5, <2>5, <2>7, <2>8, <2>9 DEF IInv, Honest
<1> QED
    BY <1>4, <1>5 DEF run_migrations

----------------------------------------------------------------------------
(* All steps, and the theorems *)

\* A container starts, with its migrations or without.
LEMMA StartKeeps ==
    ASSUME IInv, NEW c \in Containers, Start(c) \/ StartAsIs(c)
    PROVE  IInv' /\ Honest
<1>1. /\ schema' = schema /\ holder' = holder /\ tx' = tx /\ downgraded' = downgraded
      /\ UNCHANGED <<at, goal, attempts, commands, troubles>>
    BY DEF Start, StartAsIs, database, bounds
<1>2. PICK l \in {"starting", "serving"} :
          Goto(c, l) /\ (l = "serving" => phase[c] = "down")
    BY DEF Start, StartAsIs
<1>3. phase[c] # "migrating" /\ c \in Processes
    BY Apart DEF Start, StartAsIs
<1>4. phase'[c] = l /\ \A q \in Processes \ {c} : phase'[q] = phase[q]
    BY <1>2, <1>3 DEF Goto, IInv, TypeInv
<1>5. TypeInv' /\ GoalInv'
    BY <1>1, <1>2 DEF Goto, IInv, TypeInv, GoalInv
<1>6. HolderInv' /\ SchemaInv'
    BY <1>1, <1>3, <1>4 DEF IInv, TypeInv, HolderInv, SchemaInv
<1>7. RacesInv'
    <2>1. IsFiniteSet(Active') /\ Ended \in Int /\ Ended' \in Int /\ Ended' >= Ended
        BY <1>1, <1>2, <1>3, ActiveStep DEF IInv
    <2>2. Weight(c)' \in Int /\ Weight(c)' <= Weight(c)
        <3>1. attempts'[c] = attempts[c] /\ attempts[c] \in 0 .. 4
            BY <1>1, <1>3 DEF IInv, TypeInv
        <3> QED
            BY <1>3, <1>4, <3>1 DEF Weight, Failures, Overtaken
    <2>3. troubles \in Nat /\ troubles' \in Nat /\ Weight(c) \in Int
        BY <1>1, <1>3 DEF IInv, TypeInv, Weight, Failures
    <2>4. ASSUME NEW d \in Containers \cap {c}
          PROVE  Weight(d)' \in Int /\ Weight(d)' <= Weight(d) + (troubles' - troubles)
        <3>1. Weight(d)' \in Int /\ Weight(d)' <= Weight(d) /\ Weight(d) \in Int
            BY <2>2, <2>3, <2>4
        <3> QED
            BY <1>1, <2>3, <3>1
    <2> QED
        BY <1>1, <1>3, <1>4, <2>1, <2>3, <2>4, RacesStep DEF IInv
<1> QED
    BY <1>1, <1>2, <1>4, <1>5, <1>6, <1>7, Apart DEF IInv, Honest

LEMMA CommandKeeps ==
    ASSUME IInv, NEW o \in Operators, Command(o)
    PROVE  IInv' /\ Honest
<1>1. /\ schema' = schema /\ holder' = holder /\ tx' = tx /\ downgraded' = downgraded
      /\ UNCHANGED <<at, attempts, troubles>>
      /\ phase[o] = "down" /\ commands' = commands + 1 /\ commands < MaxCommands
      /\ Goto(o, "starting")
    BY DEF Command, database
<1>2. PICK v \in Versions : goal' = [goal EXCEPT ![o] = v]
    BY Apart DEF Command
<1>3. o \in Processes /\ o \notin Containers
    BY Apart
<1>4. phase'[o] = "starting" /\ \A q \in Processes \ {o} : phase'[q] = phase[q]
    BY <1>1, <1>3 DEF Goto, IInv, TypeInv
<1>5. TypeInv' /\ GoalInv'
    <2>1. commands' \in 0 .. MaxCommands
        BY <1>1, Apart DEF IInv, TypeInv
    <2> QED
        BY <1>1, <1>2, <1>3, <2>1, Apart DEF Goto, IInv, TypeInv, GoalInv
<1>6. HolderInv' /\ SchemaInv'
    BY <1>1, <1>2, <1>4 DEF IInv, TypeInv, HolderInv, SchemaInv
<1>7. RacesInv'
    <2>1. IsFiniteSet(Active') /\ Ended \in Int /\ Ended' \in Int /\ Ended' >= Ended
        BY <1>1, <1>3, ActiveStep DEF IInv
    <2>2. troubles' \in Nat /\ troubles' >= troubles
        BY <1>1 DEF IInv, TypeInv
    <2> QED
        BY <1>1, <1>3, <1>4, <2>1, <2>2, RacesStep DEF IInv
<1> QED
    BY <1>1, <1>3, <1>4, <1>5, <1>6, <1>7, Apart DEF IInv, Honest

\* A process loses its connection, or a container is killed.
LEMMA TroubleKeeps ==
    ASSUME IInv, NEW p \in Processes, Outage(p) \/ (p \in Containers /\ Kill(p))
    PROVE  IInv' /\ Honest
<1>1. /\ schema' = schema /\ downgraded' = downgraded /\ commands' = commands
      /\ troubles' = troubles + 1 /\ troubles < MaxTroubles
      /\ phase[p] \in {"starting", "migrating", "serving"}
    BY DEF Outage, Kill
<1>2. troubles \in Nat /\ troubles' \in 0 .. MaxTroubles /\ troubles' >= troubles
    BY <1>1, Apart DEF IInv, TypeInv
<1>3. \E l \in {"down", "starting", "aborted"}, n \in 0 .. 4 :
          Leaves(p, l, n) /\ (IF l = "aborted" THEN 5 ELSE n) <= Failures(p) + 1
    <2>1. CASE Outage(p)
        BY <1>1, <2>1, FailLeaves DEF Outage
    <2>2. CASE p \in Containers /\ Kill(p)
        <3>1. Leaves(p, "down", 0)
            BY <2>2, EndLeaves DEF Kill
        <3>2. Failures(p) \in Nat
            BY DEF Failures, IInv, TypeInv
        <3> QED
            BY <3>1, <3>2
    <2> QED
        BY <2>1, <2>2
<1>4. PICK l \in {"down", "starting", "aborted"}, n \in 0 .. 4 :
          Leaves(p, l, n) /\ (IF l = "aborted" THEN 5 ELSE n) <= Failures(p) + 1
    BY <1>3
<1>5. ASSUME NEW c \in Containers \cap {p}, ~downgraded
      PROVE  Failures(c)' <= Weight(c) + (troubles' - troubles)
    <2>1. Failures(c)' = IF l = "aborted" THEN 5 ELSE n
        BY <1>4 DEF Failures, Leaves, IInv, TypeInv
    <2>2. Failures(c) \in Nat /\ Weight(c) \in Nat /\ Failures(c) <= Weight(c)
        BY DEF Weight, Failures, IInv, TypeInv
    <2>3. Failures(c)' <= Failures(c) + 1 /\ Failures(c)' \in Int
        BY <1>4, <1>5, <2>1
    <2> QED
        BY <1>1, <1>2, <2>2, <2>3
<1>6. IInv' /\ phase'[p] # "serving" /\ \A q \in Processes \ {p} : phase'[q] = phase[q]
    BY <1>1, <1>2, <1>4, <1>5, UndoneKeeps
<1> QED
    BY <1>1, <1>6, Apart DEF Honest

LEMMA Step ==
    ASSUME IInv, [Next]_vars
    PROVE  IInv' /\ Honest
<1>1. ASSUME NEW c \in Containers, Start(c) \/ StartAsIs(c) PROVE IInv' /\ Honest
    BY <1>1, StartKeeps
<1>2. ASSUME NEW c \in Containers, Kill(c) PROVE IInv' /\ Honest
    BY <1>2, TroubleKeeps, Apart
<1>3. ASSUME NEW o \in Operators, Command(o) PROVE IInv' /\ Honest
    BY <1>3, CommandKeeps
<1>4. ASSUME NEW p \in Processes, Alembic(p) PROVE IInv' /\ Honest
    BY <1>4, ConnectKeeps, MigrateKeeps, CommitKeeps DEF Alembic
<1>5. ASSUME NEW p \in Processes, Outage(p) PROVE IInv' /\ Honest
    BY <1>5, TroubleKeeps
<1>6. CASE UNCHANGED vars
    <2>1. UNCHANGED <<schema, holder, tx, downgraded, phase, at, goal, attempts,
                      commands, troubles>>
        BY <1>6 DEF vars, database, process, bounds
    <2>2. TypeInv' /\ GoalInv' /\ HolderInv' /\ SchemaInv'
        BY <2>1 DEF IInv, TypeInv, GoalInv, HolderInv, SchemaInv
    <2>3. Active' = Active /\ Excuses' = Excuses
        BY <2>1 DEF Active, Excuses, Ended
    <2>4. RacesInv'
        BY <2>1, <2>3 DEF IInv, RacesInv, Weight, Failures, Overtaken
    <2> QED
        BY <2>1, <2>2, <2>4 DEF IInv, Honest
<1> QED
    BY <1>1, <1>2, <1>3, <1>4, <1>5, <1>6 DEF Next

LEMMA InvTheorem == Spec => []IInv
<1>1. IInv /\ [Next]_vars => IInv'
    BY Step
<1> QED
    BY InitInv, <1>1, PTL DEF Spec

\* The schema, the transaction and the processes have their types, whatever
\* entrypoint.sh and alembic do; a failed statement is never committed.
THEOREM TypeTheorem == Spec => []TypeOK
<1>1. IInv => TypeOK
    <2> SUFFICES ASSUME IInv PROVE TypeOK
        OBVIOUS
    <2>1. ASSUME NEW s \in {schema, tx}
          PROVE  /\ s.ok /\ s.version \in 0 .. head /\ s.objects \subseteq ObjectsOf[head]
                 /\ s.rows \in [Seeded -> Nat]
        BY DEF IInv, SchemaInv, Sound, Schemas, Versions
    <2> QED
        BY <2>1 DEF IInv, TypeInv, TypeOK, Versions
<1> QED
    BY InvTheorem, <1>1, PTL

\* alembic/versions: the schema is that of its version, however upgrades and
\* downgrades race, fail and are killed.
THEOREM SchemaTheorem == Spec => []SchemaOfVersion
<1>1. IInv => SchemaOfVersion
    BY DEF IInv, SchemaInv, Sound, Exact, SchemaOfVersion
<1> QED
    BY InvTheorem, <1>1, PTL

\* alembic/versions: what is seeded is there, and singletons once.
THEOREM SeededTheorem == Spec => []SeededOnce
<1>1. IInv => SeededOnce
    BY DEF IInv, SchemaInv, Sound, Exact, SeededOnce, Due
<1> QED
    BY InvTheorem, <1>1, PTL

\* entrypoint.sh: races alone do not use up the five attempts of a container,
\* however many containers there are.
THEOREM RacesTheorem == Spec => []RacesDontAbort
<1>1. IInv => RacesDontAbort
    <2> SUFFICES ASSUME IInv, NEW c \in Containers, phase[c] = "aborted", ~downgraded
                 PROVE  troubles + commands + 1 >= 5
        BY DEF RacesDontAbort
    <2>1. Weight(c) <= Excuses /\ Weight(c) = 5
        BY DEF IInv, RacesInv, Weight, Failures, Overtaken
    <2>2. Cardinality(Active) \in Nat
        BY FS_CardinalityType DEF IInv, RacesInv
    <2>3. troubles \in Nat /\ commands \in Nat
        BY DEF IInv, TypeInv
    <2> QED
        BY <2>1, <2>2, <2>3 DEF Excuses, Ended
<1> QED
    BY InvTheorem, <1>1, PTL

\* entrypoint.sh: however containers race, fail and are killed, only an
\* operator takes the schema away from the head, nobody ever sees a version on
\* the way to it, and a container that went through its migrations begins to
\* serve on the head.
THEOREM HeadTheorem == Spec => HeadAtOnce
<1>1. IInv /\ [Next]_vars => IInv'
    BY Step
<1>2. IInv /\ [Next]_vars => [Honest]_vars
    BY Step
<1>3. Spec => [][Honest]_vars
    BY InitInv, <1>1, <1>2, PTL DEF Spec
<1> QED
    BY <1>3 DEF Honest, HeadAtOnce
=============================================================================
