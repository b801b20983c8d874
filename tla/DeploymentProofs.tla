-------------------------- MODULE DeploymentProofs ---------------------------
(* Proofs about alembic's runs for every chain of revisions whose upgrades  *)
(* run one after the other and whose downgrades undo them, every set of     *)
(* runners and goals, and every database they start from; and about the     *)
(* seed script for every set of executions and whatever its users do.       *)
EXTENDS Deployment, WellFoundedInduction, TLAPS

-----------------------------------------------------------------------------
(* Executing the statements of a revision                                   *)

LEMMA SetInduction ==
  ASSUME NEW S, 0 \in S, \A n \in Nat : n \in S => n + 1 \in S
  PROVE  \A n \in Nat : n \in S
  <1> DEFINE T == Nat \ S
             R == {ss \in Nat \X Nat : ss[1] < ss[2]}
  <1>1. IsWellFoundedOn(R, Nat)
    BY NatLessThanWellFounded DEF OpToRel
  <1>2. SUFFICES ASSUME T # {} PROVE FALSE
    OBVIOUS
  <1>3. PICK x \in T : \A y \in T : ~(<<y, x>> \in R)
    <2>1. T \subseteq Nat
      OBVIOUS
    <2> HIDE DEF T, R
    <2>2. QED
      BY <1>1, <1>2, <2>1, WFMin
  <1>4. x # 0 /\ x - 1 \in Nat
    OBVIOUS
  <1>5. x - 1 \notin T
    <2>1. <<x - 1, x>> \in Nat \X Nat /\ x - 1 < x
      BY <1>4
    <2>2. <<x - 1, x>> \in R
      BY <2>1
    <2> HIDE DEF T, R
    <2>3. QED
      BY <1>3, <2>2
  <1>6. QED
    BY <1>4, <1>5

\* What is there after each of the first n statements.
IsTrace(t, d, ops, n) ==
  t = [i \in 0..n |->
         IF i = 0 THEN [ok |-> TRUE, db |-> d] ELSE Statement(t[i - 1], ops[i])]

LEMMA TraceExists ==
  ASSUME NEW d, NEW ops, NEW n \in Nat
  PROVE  \E t : IsTrace(t, d, ops, n)
  <1> DEFINE S == {m \in Nat : \E t : IsTrace(t, d, ops, m)}
  <1>1. 0 \in S
    <2>1. IsTrace([i \in 0..0 |-> [ok |-> TRUE, db |-> d]], d, ops, 0)
      BY DEF IsTrace
    <2>2. QED
      BY <2>1
  <1>2. ASSUME NEW m \in Nat, m \in S PROVE m + 1 \in S
    <2>1. PICK t : IsTrace(t, d, ops, m)
      BY <1>2
    <2> DEFINE u == [i \in 0..(m + 1) |->
                       IF i = m + 1 THEN Statement(t[m], ops[m + 1]) ELSE t[i]]
    <2>2. \A i \in 0..(m + 1) :
            u[i] = IF i = 0 THEN [ok |-> TRUE, db |-> d] ELSE Statement(u[i - 1], ops[i])
      <3>1. \A i \in 0..m :
              t[i] = IF i = 0 THEN [ok |-> TRUE, db |-> d] ELSE Statement(t[i - 1], ops[i])
        BY <2>1 DEF IsTrace
      <3>2. TAKE i \in 0..(m + 1)
      <3>3. CASE i = m + 1
        <4>1. u[i] = Statement(t[m], ops[m + 1]) /\ u[i - 1] = t[m] /\ i # 0
          BY <3>3
        <4> HIDE DEF u
        <4>2. QED
          BY <3>3, <4>1
      <3>4. CASE i # m + 1
        <4>1. i \in 0..m /\ u[i] = t[i] /\ (i # 0 => u[i - 1] = t[i - 1])
          BY <3>4
        <4> HIDE DEF u
        <4>2. QED
          BY <3>1, <4>1
      <3>5. QED
        BY <3>3, <3>4
    <2>3. IsTrace(u, d, ops, m + 1)
      BY <2>2 DEF IsTrace
    <2>4. QED
      BY <2>3
  <1> HIDE DEF S
  <1>3. n \in S
    BY <1>1, <1>2, SetInduction
  <1>4. QED
    BY <1>3 DEF S

LEMMA ExecuteTraces ==
  ASSUME NEW d, NEW ops, Len(ops) \in Nat
  PROVE  \E t : IsTrace(t, d, ops, Len(ops)) /\ Execute(d, ops) = t[Len(ops)]
  <1> DEFINE t == CHOOSE t : IsTrace(t, d, ops, Len(ops))
  <1>1. IsTrace(t, d, ops, Len(ops))
    BY TraceExists
  <1>2. Execute(d, ops) = t[Len(ops)]
    BY DEF Execute, IsTrace
  <1>3. QED
    BY <1>1, <1>2

-----------------------------------------------------------------------------
(* Databases that differ in types and values only                           *)

IsDatabase(d) ==
  d = [version |-> d.version, tables |-> d.tables, types |-> d.types,
       columns |-> d.columns, values |-> d.values]

\* Whoever has fewer types accepts what the other accepts, but for new values
\* of a type, and goes on resembling it.
LEMMA AcceptsAlike ==
  ASSUME NEW d, NEW e, Resembles(d, e), NEW o, o.op \in Operations, Accepts(d, o),
         o.op # "add value" \/ d.types = e.types
  PROVE  Accepts(e, o)
  <1>1. /\ d.tables = e.tables /\ d.columns = e.columns /\ e.types \subseteq d.types
        /\ Names(e) = Names(d) /\ \A n : TableOf(e, n) = TableOf(d, n)
    BY DEF Resembles, Names, TableOf
  <1>2. CASE o.op = "create table"
    BY <1>1, <1>2 DEF Accepts
  <1>3. CASE o.op = "drop table"
    BY <1>1, <1>3 DEF Accepts
  <1>4. CASE o.op = "drop if exists"
    BY <1>4 DEF Accepts
  <1>5. CASE o.op = "add key"
    BY <1>1, <1>5 DEF Accepts
  <1>6. CASE o.op = "drop key"
    BY <1>1, <1>6 DEF Accepts
  <1>7. CASE o.op = "add column"
    BY <1>1, <1>7 DEF Accepts
  <1>8. CASE o.op = "drop column"
    BY <1>1, <1>8 DEF Accepts
  <1>9. CASE o.op = "add value"
    BY <1>1, <1>9 DEF Accepts
  <1>10. QED
    BY <1>2, <1>3, <1>4, <1>5, <1>6, <1>7, <1>8, <1>9 DEF Operations

\* What an operation writes, field by field.
LEMMA Rewritten ==
  ASSUME NEW d, IsDatabase(d), NEW T, NEW C
  PROVE  /\ [d EXCEPT !.tables = T] =
              [version |-> d.version, tables |-> T, types |-> d.types,
               columns |-> d.columns, values |-> d.values]
         /\ [d EXCEPT !.tables = T, !.columns = C] =
              [version |-> d.version, tables |-> T, types |-> d.types,
               columns |-> C, values |-> d.values]
  <1> DEFINE r == [version |-> d.version, tables |-> d.tables, types |-> d.types,
                   columns |-> d.columns, values |-> d.values]
  <1>1. d = r
    BY DEF IsDatabase
  <1>2. [r EXCEPT !.tables = T] =
          [version |-> d.version, tables |-> T, types |-> d.types,
           columns |-> d.columns, values |-> d.values]
    OBVIOUS
  <1>3. [r EXCEPT !.tables = T, !.columns = C] =
          [version |-> d.version, tables |-> T, types |-> d.types,
           columns |-> C, values |-> d.values]
    <2> DEFINE q == [version |-> d.version, tables |-> T, types |-> d.types,
                     columns |-> d.columns, values |-> d.values]
    <2>1. [q EXCEPT !.columns = C] =
            [version |-> d.version, tables |-> T, types |-> d.types,
             columns |-> C, values |-> d.values]
      OBVIOUS
    <2>2. [r EXCEPT !.tables = T] = q
      OBVIOUS
    <2>3. [r EXCEPT !.tables = T, !.columns = C] = [[r EXCEPT !.tables = T] EXCEPT !.columns = C]
      BY Zenon
    <2> HIDE DEF q, r
    <2>4. QED
      BY <2>1, <2>2, <2>3
  <1> HIDE DEF r
  <1>4. QED
    BY <1>1, <1>2, <1>3

LEMMA EffectsAlike ==
  ASSUME NEW d, NEW e, IsDatabase(d), IsDatabase(e), Resembles(d, e),
         NEW o, o.op \in Operations
  PROVE  /\ IsDatabase(Effect(d, o)) /\ IsDatabase(Effect(e, o))
         /\ Resembles(Effect(d, o), Effect(e, o))
         /\ d.types = e.types => Effect(d, o).types = Effect(e, o).types
         /\ e.values \subseteq d.values => Effect(e, o).values \subseteq Effect(d, o).values
  <1>1. /\ d.tables = e.tables /\ d.columns = e.columns /\ e.types \subseteq d.types
        /\ Names(e) = Names(d) /\ \A n : TableOf(e, n) = TableOf(d, n)
    BY DEF Resembles, Names, TableOf
  <1>2. ASSUME NEW S
        PROVE  /\ IsDatabase(Without(d, S)) /\ IsDatabase(Without(e, S))
               /\ Resembles(Without(d, S), Without(e, S))
               /\ Without(d, S).types = d.types /\ Without(e, S).types = e.types
               /\ Without(d, S).values = d.values /\ Without(e, S).values = e.values
    <2> DEFINE T == {t \in d.tables : t.name \notin S}
               C == {c \in d.columns : c[1] \notin S}
    <2>1. /\ Without(d, S) = [d EXCEPT !.tables = T, !.columns = C]
          /\ Without(e, S) = [e EXCEPT !.tables = T, !.columns = C]
      BY <1>1 DEF Without
    <2> HIDE DEF T, C
    <2>2. /\ Without(d, S) = [version |-> d.version, tables |-> T, types |-> d.types,
                              columns |-> C, values |-> d.values]
          /\ Without(e, S) = [version |-> e.version, tables |-> T, types |-> e.types,
                              columns |-> C, values |-> e.values]
      BY <2>1, Rewritten
    <2>3. QED
      BY <1>1, <2>2 DEF IsDatabase, Resembles
  <1>3. ASSUME NEW T
        PROVE  /\ IsDatabase([d EXCEPT !.tables = T]) /\ IsDatabase([e EXCEPT !.tables = T])
               /\ Resembles([d EXCEPT !.tables = T], [e EXCEPT !.tables = T])
               /\ [d EXCEPT !.tables = T].types = d.types
               /\ [e EXCEPT !.tables = T].types = e.types
               /\ [d EXCEPT !.tables = T].values = d.values
               /\ [e EXCEPT !.tables = T].values = e.values
    <2>1. /\ [d EXCEPT !.tables = T] =
               [version |-> d.version, tables |-> T, types |-> d.types,
                columns |-> d.columns, values |-> d.values]
          /\ [e EXCEPT !.tables = T] =
               [version |-> e.version, tables |-> T, types |-> e.types,
                columns |-> e.columns, values |-> e.values]
      BY Rewritten
    <2>2. QED
      BY <1>1, <2>1 DEF IsDatabase, Resembles
  <1>4. CASE o.op = "create table"
    BY <1>1, <1>4 DEF Effect, IsDatabase, Resembles
  <1>5. CASE o.op = "drop table"
    BY <1>2, <1>5 DEF Effect
  <1>6. CASE o.op = "drop if exists"
    BY <1>2, <1>6 DEF Effect
  <1>7. CASE o.op = "add key"
    <2> DEFINE ks == TableOf(d, o.name).keys \cup {o.key}
    <2>1. /\ Effect(d, o) = [d EXCEPT !.tables = WithKeys(d, o.name, ks)]
          /\ Effect(e, o) = [e EXCEPT !.tables = WithKeys(d, o.name, ks)]
      BY <1>1, <1>7 DEF Effect, WithKeys
    <2> HIDE DEF ks
    <2>2. QED
      BY <1>3, <2>1
  <1>8. CASE o.op = "drop key"
    <2> DEFINE ks == TableOf(d, o.name).keys \ {o.key}
    <2>1. /\ Effect(d, o) = [d EXCEPT !.tables = WithKeys(d, o.name, ks)]
          /\ Effect(e, o) = [e EXCEPT !.tables = WithKeys(d, o.name, ks)]
      BY <1>1, <1>8 DEF Effect, WithKeys
    <2> HIDE DEF ks
    <2>2. QED
      BY <1>3, <2>1
  <1>9. CASE o.op = "add column"
    BY <1>1, <1>9 DEF Effect, IsDatabase, Resembles
  <1>10. CASE o.op = "drop column"
    BY <1>1, <1>10 DEF Effect, IsDatabase, Resembles
  <1>11. CASE o.op = "add value"
    BY <1>1, <1>11 DEF Effect, IsDatabase, Resembles
  <1>12. QED
    BY <1>4, <1>5, <1>6, <1>7, <1>8, <1>9, <1>10, <1>11 DEF Operations

-----------------------------------------------------------------------------
(* Executions that resemble each other                                      *)

LEMMA TraceBegins ==
  ASSUME NEW d, NEW ops, NEW n \in Nat, NEW t, IsTrace(t, d, ops, n)
  PROVE  t[0].ok /\ t[0].db = d
  <1>1. \A i \in 0..n :
          t[i] = IF i = 0 THEN [ok |-> TRUE, db |-> d] ELSE Statement(t[i - 1], ops[i])
    BY DEF IsTrace
  <1>2. 0 \in 0..n
    OBVIOUS
  <1>3. t[0] = [ok |-> TRUE, db |-> d]
    BY <1>1, <1>2
  <1>4. QED
    BY <1>3

LEMMA TraceStep ==
  ASSUME NEW d, NEW ops, NEW n \in Nat, NEW t, IsTrace(t, d, ops, n), NEW i \in 0..(n - 1)
  PROVE  t[i + 1] = Statement(t[i], ops[i + 1])
  <1>1. \A k \in 0..n :
          t[k] = IF k = 0 THEN [ok |-> TRUE, db |-> d] ELSE Statement(t[k - 1], ops[k])
    BY DEF IsTrace
  <1>2. i + 1 \in 0..n /\ i + 1 # 0 /\ (i + 1) - 1 = i
    OBVIOUS
  <1>3. t[i + 1] = Statement(t[(i + 1) - 1], ops[i + 1])
    BY <1>1, <1>2
  <1>4. QED
    BY <1>2, <1>3

\* No statement before the last was refused.
LEMMA OkThroughout ==
  ASSUME NEW d, NEW ops, Len(ops) \in Nat, NEW t, IsTrace(t, d, ops, Len(ops)), t[Len(ops)].ok
  PROVE  \A i \in 0..Len(ops) : t[i].ok
  <1> DEFINE S == {k \in Nat : \A i \in 0..Len(ops) : i + k = Len(ops) => t[i].ok}
  <1>1. 0 \in S
    OBVIOUS
  <1>2. ASSUME NEW k \in Nat, k \in S PROVE k + 1 \in S
    <2>1. ASSUME NEW i \in 0..Len(ops), i + (k + 1) = Len(ops) PROVE t[i].ok
      <3>1. i + 1 \in 0..Len(ops) /\ (i + 1) + k = Len(ops) /\ i \in 0..(Len(ops) - 1)
        BY <2>1
      <3>2. t[i + 1].ok
        BY <1>2, <3>1
      <3>3. t[i + 1] = Statement(t[i], ops[i + 1])
        BY <3>1, TraceStep
      <3>4. QED
        BY <3>2, <3>3 DEF Statement
    <2>2. QED
      BY <2>1
  <1>3. \A k \in Nat : k \in S
    <2> HIDE DEF S
    <2>1. QED
      BY <1>1, <1>2, SetInduction
  <1>4. SUFFICES ASSUME NEW i \in 0..Len(ops) PROVE t[i].ok
    OBVIOUS
  <1>5. Len(ops) - i \in Nat /\ i + (Len(ops) - i) = Len(ops)
    OBVIOUS
  <1>6. Len(ops) - i \in S
    BY <1>3, <1>5
  <1>7. QED
    BY <1>5, <1>6

\* The statements of a revision make a database of a database.
LEMMA ExecuteDatabase ==
  ASSUME NEW d, IsDatabase(d), NEW ops, Operational(ops)
  PROVE  IsDatabase(Execute(d, ops).db)
  <1>1. PICK t : IsTrace(t, d, ops, Len(ops)) /\ Execute(d, ops) = t[Len(ops)]
    BY ExecuteTraces DEF Operational
  <1> DEFINE S == {i \in Nat : i <= Len(ops) => IsDatabase(t[i].db)}
  <1>2. 0 \in S
    <2>1. t[0].db = d
      BY <1>1, TraceBegins DEF Operational
    <2>2. QED
      BY <2>1
  <1>3. ASSUME NEW i \in Nat, i \in S PROVE i + 1 \in S
    <2> SUFFICES ASSUME i + 1 <= Len(ops) PROVE IsDatabase(t[i + 1].db)
      OBVIOUS
    <2>1. IsDatabase(t[i].db) /\ i + 1 \in 1..Len(ops) /\ i \in 0..(Len(ops) - 1)
      BY <1>3 DEF Operational
    <2>2. t[i + 1] = Statement(t[i], ops[i + 1])
      BY <1>1, <2>1, TraceStep DEF Operational
    <2>3. IsDatabase(Effect(t[i].db, ops[i + 1]))
      BY <2>1, EffectsAlike DEF Operational, Resembles
    <2>4. QED
      BY <2>1, <2>2, <2>3 DEF Statement
  <1> HIDE DEF S
  <1>4. \A i \in Nat : i \in S
    BY <1>2, <1>3, SetInduction
  <1>5. QED
    BY <1>1, <1>4 DEF S, Operational

\* The executions of a revision on two databases, after i statements.
Alike(d, e, t, u, i) ==
  /\ u[i].ok /\ IsDatabase(t[i].db) /\ IsDatabase(u[i].db)
  /\ Resembles(t[i].db, u[i].db)
  /\ d.types = e.types => t[i].db.types = u[i].db.types
  /\ e.values \subseteq d.values => u[i].db.values \subseteq t[i].db.values

\* A database executes what one with more types executes, as far as that adds
\* no enum value or the types are the same, and ends up resembling it.
LEMMA ExecutionsAlike ==
  ASSUME NEW d, NEW e, IsDatabase(d), IsDatabase(e), Resembles(d, e),
         NEW ops, Operational(ops), Execute(d, ops).ok,
         \/ Execute(e, ops).ok
         \/ d.types = e.types
         \/ AddsNoValue(ops)
  PROVE  /\ Execute(e, ops).ok /\ Resembles(Execute(d, ops).db, Execute(e, ops).db)
         /\ e.values \subseteq d.values =>
              Execute(e, ops).db.values \subseteq Execute(d, ops).db.values
  <1>0. Len(ops) \in Nat
    BY DEF Operational
  <1>1. PICK t : IsTrace(t, d, ops, Len(ops)) /\ Execute(d, ops) = t[Len(ops)]
    BY <1>0, ExecuteTraces
  <1>2. PICK u : IsTrace(u, e, ops, Len(ops)) /\ Execute(e, ops) = u[Len(ops)]
    BY <1>0, ExecuteTraces
  <1>3. \A i \in 0..Len(ops) : t[i].ok
    BY <1>0, <1>1, OkThroughout
  <1>4. Execute(e, ops).ok => \A i \in 0..Len(ops) : u[i].ok
    BY <1>0, <1>2, OkThroughout
  <1> DEFINE S == {i \in Nat : i <= Len(ops) => Alike(d, e, t, u, i)}
  <1>5. 0 \in S
    <2>1. t[0].ok /\ t[0].db = d /\ u[0].ok /\ u[0].db = e
      BY <1>0, <1>1, <1>2, TraceBegins
    <2>2. Alike(d, e, t, u, 0)
      BY <2>1 DEF Alike
    <2>3. QED
      BY <2>2
  <1>6. ASSUME NEW i \in Nat, i \in S PROVE i + 1 \in S
    <2> SUFFICES ASSUME i + 1 <= Len(ops)
                 PROVE  Alike(d, e, t, u, i + 1)
      OBVIOUS
    <2> DEFINE o == ops[i + 1]
    <2>1. /\ Alike(d, e, t, u, i)
          /\ i \in 0..Len(ops) /\ i + 1 \in 1..Len(ops) /\ i + 1 \in 0..Len(ops)
          /\ i \in 0..(Len(ops) - 1)
      BY <1>0, <1>6
    <2>2. t[i + 1] = Statement(t[i], o) /\ u[i + 1] = Statement(u[i], o)
      BY <1>0, <1>1, <1>2, <2>1, TraceStep
    <2>3. o.op \in Operations
      BY <2>1 DEF Operational
    <2>4. t[i].ok /\ t[i + 1].ok
      BY <1>0, <1>3, <2>1
    <2>5. Execute(e, ops).ok => u[i + 1].ok
      BY <1>0, <1>4, <2>1
    <2> HIDE DEF o
    <2>6. Accepts(t[i].db, o) /\ t[i + 1].db = Effect(t[i].db, o)
      BY <2>2, <2>4 DEF Statement
    <2>7. Accepts(u[i].db, o)
      <3>1. CASE Execute(e, ops).ok
        BY <2>2, <2>5, <3>1 DEF Statement
      <3>2. CASE d.types = e.types \/ o.op # "add value"
        BY <2>1, <2>3, <2>6, <3>2, AcceptsAlike DEF Alike
      <3>3. QED
        BY <2>1, <3>1, <3>2 DEF o, AddsNoValue
    <2>8. u[i + 1].ok /\ u[i + 1].db = Effect(u[i].db, o)
      BY <2>1, <2>2, <2>7 DEF Statement, Alike
    <2>9. QED
      BY <2>1, <2>3, <2>6, <2>8, EffectsAlike DEF Alike
  <1> HIDE DEF S
  <1>7. Len(ops) \in S
    BY <1>0, <1>5, <1>6, SetInduction
  <1>8. QED
    BY <1>0, <1>1, <1>2, <1>7 DEF S, Alike

-----------------------------------------------------------------------------
(* What the upgrades make                                                   *)

\* The first n upgrades of an empty database.
IsHistory(h, n) ==
  h = [v \in 0..n |->
         IF v = 0 THEN Database({})
         ELSE [Execute(h[v - 1], Revisions[v].up).db EXCEPT !.version = v]]

LEMMA HistoryExists ==
  ASSUME NEW n \in Nat
  PROVE  \E h : IsHistory(h, n)
  <1> DEFINE After(d, v) == [Execute(d, Revisions[v].up).db EXCEPT !.version = v]
             S == {m \in Nat : \E h : IsHistory(h, m)}
  <1>1. 0 \in S
    <2>1. IsHistory([v \in 0..0 |-> Database({})], 0)
      BY DEF IsHistory
    <2>2. QED
      BY <2>1
  <1>2. ASSUME NEW m \in Nat, m \in S PROVE m + 1 \in S
    <2>1. PICK h : IsHistory(h, m)
      BY <1>2
    <2> DEFINE u == [v \in 0..(m + 1) |-> IF v = m + 1 THEN After(h[m], m + 1) ELSE h[v]]
    <2>2. \A v \in 0..(m + 1) : u[v] = IF v = 0 THEN Database({}) ELSE After(u[v - 1], v)
      <3>1. \A v \in 0..m : h[v] = IF v = 0 THEN Database({}) ELSE After(h[v - 1], v)
        BY <2>1 DEF IsHistory
      <3> HIDE DEF After
      <3>2. TAKE v \in 0..(m + 1)
      <3>3. CASE v = m + 1
        <4>1. u[v] = After(h[m], m + 1) /\ u[v - 1] = h[m] /\ v # 0
          BY <3>3
        <4> HIDE DEF u
        <4>2. QED
          BY <3>3, <4>1
      <3>4. CASE v # m + 1
        <4>1. v \in 0..m /\ u[v] = h[v] /\ (v # 0 => u[v - 1] = h[v - 1])
          BY <3>4
        <4> HIDE DEF u
        <4>2. QED
          BY <3>1, <4>1
      <3>5. QED
        BY <3>3, <3>4
    <2>3. IsHistory(u, m + 1)
      BY <2>2 DEF IsHistory
    <2>4. QED
      BY <2>3
  <1> HIDE DEF S
  <1>3. n \in S
    BY <1>1, <1>2, SetInduction
  <1>4. QED
    BY <1>3 DEF S

LEMMA UpgradedIs ==
  /\ Upgraded[0] = Database({})
  /\ \A v \in 1..LastRevision :
       Upgraded[v] = [Execute(Upgraded[v - 1], Revisions[v].up).db EXCEPT !.version = v]
  <1>1. LastRevision \in Nat
    BY RevisionsAssumption
  <1> DEFINE h == CHOOSE h : IsHistory(h, LastRevision)
  <1>2. IsHistory(h, LastRevision)
    BY <1>1, HistoryExists
  <1>3. Upgraded = h
    BY DEF Upgraded, IsHistory
  <1> HIDE DEF h
  <1>4. \A v \in 0..LastRevision :
          Upgraded[v] = IF v = 0 THEN Database({})
                        ELSE [Execute(Upgraded[v - 1], Revisions[v].up).db EXCEPT !.version = v]
    BY <1>2, <1>3 DEF IsHistory
  <1>5. 0 \in 0..LastRevision /\ \A v \in 1..LastRevision : v \in 0..LastRevision /\ v # 0
    BY <1>1
  <1>6. QED
    BY <1>4, <1>5

LEMMA Versioned ==
  ASSUME NEW d, IsDatabase(d), NEW v
  PROVE  /\ IsDatabase([d EXCEPT !.version = v])
         /\ [d EXCEPT !.version = v].version = v
         /\ [d EXCEPT !.version = v].tables = d.tables
         /\ [d EXCEPT !.version = v].columns = d.columns
         /\ [d EXCEPT !.version = v].types = d.types
         /\ [d EXCEPT !.version = v].values = d.values
  <1> DEFINE r == [version |-> d.version, tables |-> d.tables, types |-> d.types,
                   columns |-> d.columns, values |-> d.values]
             q == [version |-> v, tables |-> d.tables, types |-> d.types,
                   columns |-> d.columns, values |-> d.values]
  <1>1. d = r
    BY DEF IsDatabase
  <1>2. [r EXCEPT !.version = v] = q
    OBVIOUS
  <1>3. /\ IsDatabase(q) /\ q.version = v /\ q.tables = d.tables
        /\ q.columns = d.columns /\ q.types = d.types /\ q.values = d.values
    BY DEF IsDatabase
  <1> HIDE DEF q, r
  <1>4. QED
    BY <1>1, <1>2, <1>3

LEMMA UntouchedDatabases ==
  ASSUME NEW v \in 0..LastRevision, NEW d \in Untouched(v)
  PROVE  IsDatabase(d) /\ d.types = Upgraded[v].types
  <1>0. LastRevision \in Nat
    BY RevisionsAssumption
  <1>1. ASSUME NEW ts PROVE IsDatabase(Database(ts)) /\ Database(ts).types = {}
    BY DEF Database, IsDatabase
  <1> DEFINE S == {w \in Nat : w <= LastRevision => IsDatabase(Upgraded[w])}
  <1>2. 0 \in S
    BY <1>1, UpgradedIs
  <1>3. ASSUME NEW w \in Nat, w \in S PROVE w + 1 \in S
    <2> SUFFICES ASSUME w + 1 <= LastRevision PROVE IsDatabase(Upgraded[w + 1])
      OBVIOUS
    <2>1. w + 1 \in 1..LastRevision /\ (w + 1) - 1 = w /\ IsDatabase(Upgraded[w])
      BY <1>0, <1>3
    <2> DEFINE e == Execute(Upgraded[w], Revisions[w + 1].up).db
    <2>2. Upgraded[w + 1] = [e EXCEPT !.version = w + 1]
      BY <2>1, UpgradedIs
    <2>3. IsDatabase(e)
      BY <2>1, ExecuteDatabase, RevisionsAssumption
    <2> HIDE DEF e
    <2>4. QED
      BY <2>2, <2>3, Versioned
  <1> HIDE DEF S
  <1>4. v \in S
    BY <1>0, <1>2, <1>3, SetInduction
  <1>5. CASE v = 0
    <2>1. PICK ts \in Fresh : d = Database(ts)
      BY <1>5 DEF Untouched
    <2>2. QED
      BY <1>1, <1>5, <2>1, UpgradedIs
  <1>6. CASE v # 0
    BY <1>0, <1>4, <1>6 DEF Untouched, S
  <1>7. QED
    BY <1>5, <1>6

-----------------------------------------------------------------------------
(* Runs                                                                     *)

\* A database at a revision: untouched but for types and values left behind.
IsAt(d, v) ==
  /\ IsDatabase(d) /\ d.version = v /\ v \in 0..LastRevision
  /\ \E b \in Untouched(v) : Extends(d, b)

LEMMA UpgradeReaches ==
  ASSUME NEW v \in 1..LastRevision, NEW d, IsAt(d, v - 1), Execute(d, Revisions[v].up).ok
  PROVE  IsAt([Execute(d, Revisions[v].up).db EXCEPT !.version = v], v)
  <1> DEFINE ops == Revisions[v].up
  <1>0. LastRevision \in Nat /\ v \in 0..LastRevision /\ v - 1 \in 0..LastRevision
    BY RevisionsAssumption
  <1>1. Operational(ops)
    BY RevisionsAssumption
  <1>2. PICK b \in Untouched(v - 1) : Extends(d, b)
    BY DEF IsAt
  <1>3. IsDatabase(d) /\ IsDatabase(b)
    BY <1>0, <1>2, UntouchedDatabases DEF IsAt
  <1>4. Execute(b, ops).ok /\ [Execute(b, ops).db EXCEPT !.version = v] \in Untouched(v)
    BY <1>2, UpgradesAssumption
  <1> HIDE DEF ops
  <1>5. Extends(Execute(d, ops).db, Execute(b, ops).db)
    BY <1>1, <1>2, <1>3, <1>4, ExecutionsAlike DEF ops, Extends
  <1>6. IsDatabase(Execute(d, ops).db) /\ IsDatabase(Execute(b, ops).db)
    BY <1>1, <1>3, ExecuteDatabase
  <1> DEFINE e == Execute(d, ops).db
             c == Execute(b, ops).db
  <1>7. Extends(e, c) /\ IsDatabase(e) /\ IsDatabase(c)
        /\ [c EXCEPT !.version = v] \in Untouched(v)
    BY <1>4, <1>5, <1>6
  <1> HIDE DEF e, c
  <1>8. Extends([e EXCEPT !.version = v], [c EXCEPT !.version = v])
    BY <1>7, Versioned DEF Resembles, Extends
  <1>9. IsAt([e EXCEPT !.version = v], v)
    BY <1>0, <1>7, <1>8, Versioned DEF IsAt
  <1>10. QED
    BY <1>9 DEF e, ops

LEMMA DowngradeReaches ==
  ASSUME NEW v \in 1..LastRevision, NEW d, IsAt(d, v), Execute(d, Revisions[v].down).ok
  PROVE  IsAt([Execute(d, Revisions[v].down).db EXCEPT !.version = v - 1], v - 1)
  <1> DEFINE ops == Revisions[v].down
  <1>0. LastRevision \in Nat /\ v \in 0..LastRevision /\ v - 1 \in 0..LastRevision
    BY RevisionsAssumption
  <1>1. Operational(ops) /\ AddsNoValue(ops)
    BY RevisionsAssumption
  <1>2. PICK b \in Untouched(v) : Extends(d, b)
    BY DEF IsAt
  <1>3. IsDatabase(d) /\ IsDatabase(b)
    BY <1>0, <1>2, UntouchedDatabases DEF IsAt
  <1>4. Execute(b, ops).ok =>
          \E a \in Untouched(v - 1) : Extends(Execute(b, ops).db, a)
    BY <1>2, DowngradesAssumption
  <1>5. Execute(d, ops).ok
    OBVIOUS
  <1> HIDE DEF ops
  <1>6. Execute(b, ops).ok /\ Extends(Execute(d, ops).db, Execute(b, ops).db)
    BY <1>1, <1>2, <1>3, <1>5, ExecutionsAlike DEF Extends
  <1>7. PICK a \in Untouched(v - 1) : Extends(Execute(b, ops).db, a)
    BY <1>4, <1>6
  <1> DEFINE e == Execute(d, ops).db
  <1>8. IsDatabase(e)
    BY <1>1, <1>3, ExecuteDatabase
  <1>9. Extends(e, a)
    BY <1>6, <1>7 DEF Resembles, Extends
  <1> HIDE DEF e
  <1>10. Extends([e EXCEPT !.version = v - 1], a)
    BY <1>8, <1>9, Versioned DEF Resembles, Extends
  <1>11. IsAt([e EXCEPT !.version = v - 1], v - 1)
    BY <1>0, <1>7, <1>8, <1>10, Versioned DEF IsAt
  <1>12. QED
    BY <1>11 DEF e, ops

\* Where no type was left behind the next upgrade runs.
LEMMA UpgradeRuns ==
  ASSUME NEW v \in 1..LastRevision, NEW d, IsAt(d, v - 1), d.types = Upgraded[v - 1].types
  PROVE  Execute(d, Revisions[v].up).ok
  <1>0. LastRevision \in Nat /\ v - 1 \in 0..LastRevision
    BY RevisionsAssumption
  <1>1. Operational(Revisions[v].up)
    BY RevisionsAssumption
  <1>2. PICK b \in Untouched(v - 1) : Extends(d, b)
    BY DEF IsAt
  <1>3. IsDatabase(d) /\ IsDatabase(b) /\ b.types = d.types
    BY <1>0, <1>2, UntouchedDatabases DEF IsAt
  <1>4. Execute(b, Revisions[v].up).ok
    BY <1>2, UpgradesAssumption
  <1>5. Resembles(b, d)
    BY <1>2, <1>3 DEF Resembles, Extends
  <1>6. QED
    BY <1>1, <1>3, <1>4, <1>5, ExecutionsAlike

IsRun(x) ==
  /\ x = [pc |-> x.pc, goal |-> x.goal, at |-> x.at, wrote |-> x.wrote, work |-> x.work]
  /\ x.pc = "running" =>
       /\ x.goal \in 0..LastRevision /\ x.at \in 0..LastRevision
       /\ x.wrote => IsAt(x.work, x.at)

\* What is committed is at the revision it records, and what a run has written
\* is at the revision the run has come to, whatever others have committed.
MigrationsInv ==
  /\ IsAt(db, db.version)
  /\ runs = [r \in Runners |-> runs[r]]
  /\ \A r \in Runners : IsRun(runs[r])

LEMMA IdleRuns == IsRun(Idle) /\ Idle.pc = "idle"
  BY DEF IsRun, Idle

\* A step of one run.
LEMMA OneRuns ==
  ASSUME MigrationsInv, NEW r \in Runners, NEW x, IsRun(x), IsAt(db, db.version)',
         runs' = [runs EXCEPT ![r] = x]
  PROVE  MigrationsInv'
  BY DEF MigrationsInv

LEMMA SeenIsAt ==
  ASSUME MigrationsInv, NEW r \in Runners, Running(r)
  PROVE  /\ IsAt(Seen(r), Seen(r).version)
         /\ runs[r].goal \in 0..LastRevision /\ runs[r].at \in 0..LastRevision
  BY DEF MigrationsInv, Running, Seen, IsRun, IsAt

\* What a run becomes.
LEMMA RunWritten ==
  ASSUME NEW p, NEW g, NEW a, NEW n, NEW o, NEW yes, NEW k, NEW w
  PROVE  [[pc |-> p, goal |-> g, at |-> a, wrote |-> o, work |-> k]
            EXCEPT !.at = n, !.wrote = yes, !.work = w] =
         [pc |-> p, goal |-> g, at |-> n, wrote |-> yes, work |-> w]
  <1> DEFINE x == [pc |-> p, goal |-> g, at |-> a, wrote |-> o, work |-> k]
             y == [pc |-> p, goal |-> g, at |-> n, wrote |-> o, work |-> k]
             z == [pc |-> p, goal |-> g, at |-> n, wrote |-> yes, work |-> k]
  <1>a. [x EXCEPT !.at = n] = y
    OBVIOUS
  <1>b. [y EXCEPT !.wrote = yes] = z
    OBVIOUS
  <1>c. [z EXCEPT !.work = w] = [pc |-> p, goal |-> g, at |-> n, wrote |-> yes, work |-> w]
    OBVIOUS
  <1>2. [x EXCEPT !.at = n, !.wrote = yes, !.work = w] =
          [[[x EXCEPT !.at = n] EXCEPT !.wrote = yes] EXCEPT !.work = w]
    BY Zenon
  <1> HIDE DEF x, y, z
  <1>3. [x EXCEPT !.at = n, !.wrote = yes, !.work = w] =
          [pc |-> p, goal |-> g, at |-> n, wrote |-> yes, work |-> w]
    BY <1>a, <1>b, <1>c, <1>2
  <1>4. QED
    BY <1>3 DEF x

LEMMA RunBegun ==
  ASSUME NEW p, NEW q, NEW b, NEW g, NEW a, NEW n, NEW o, NEW k
  PROVE  [[pc |-> p, goal |-> b, at |-> a, wrote |-> o, work |-> k]
            EXCEPT !.pc = q, !.goal = g, !.at = n] =
         [pc |-> q, goal |-> g, at |-> n, wrote |-> o, work |-> k]
  <1> DEFINE x == [pc |-> p, goal |-> b, at |-> a, wrote |-> o, work |-> k]
             y == [pc |-> q, goal |-> b, at |-> a, wrote |-> o, work |-> k]
             z == [pc |-> q, goal |-> g, at |-> a, wrote |-> o, work |-> k]
  <1>a. [x EXCEPT !.pc = q] = y
    OBVIOUS
  <1>b. [y EXCEPT !.goal = g] = z
    OBVIOUS
  <1>c. [z EXCEPT !.at = n] = [pc |-> q, goal |-> g, at |-> n, wrote |-> o, work |-> k]
    OBVIOUS
  <1>2. [x EXCEPT !.pc = q, !.goal = g, !.at = n] =
          [[[x EXCEPT !.pc = q] EXCEPT !.goal = g] EXCEPT !.at = n]
    BY Zenon
  <1> HIDE DEF x, y, z
  <1>3. [x EXCEPT !.pc = q, !.goal = g, !.at = n] =
          [pc |-> q, goal |-> g, at |-> n, wrote |-> o, work |-> k]
    BY <1>a, <1>b, <1>c, <1>2
  <1>4. QED
    BY <1>3 DEF x

LEMMA RunRevisionKeeps ==
  ASSUME MigrationsInv, NEW r \in Runners, RunRevision(r)
  PROVE  MigrationsInv'
  <1>0. LastRevision \in Nat
    BY RevisionsAssumption
  <1> DEFINE at == runs[r].at
  <1>1. /\ Running(r) /\ at # runs[r].goal /\ Migrated(r).ok /\ db' = db
        /\ runs' = [runs EXCEPT ![r] = [@ EXCEPT !.at = NextAt(r), !.wrote = TRUE,
                                                 !.work = Migrated(r).db]]
    BY DEF RunRevision
  <1>2. /\ Execute(Seen(r), Statements(r)).ok /\ Seen(r).version = at
        /\ Migrated(r).db = [Execute(Seen(r), Statements(r)).db EXCEPT !.version = NextAt(r)]
    BY <1>1 DEF Migrated, Matches
  <1>3. /\ IsAt(Seen(r), at) /\ runs[r].goal \in 0..LastRevision /\ at \in 0..LastRevision
    BY <1>1, <1>2, SeenIsAt
  <1>4. IsAt(Migrated(r).db, NextAt(r)) /\ NextAt(r) \in 0..LastRevision
    <2>1. CASE Upwards(r)
      <3>1. NextAt(r) = at + 1 /\ Statements(r) = Revisions[at + 1].up
        BY <2>1 DEF NextAt, Statements
      <3>2. at + 1 \in 1..LastRevision /\ (at + 1) - 1 = at
        BY <1>0, <1>3, <2>1 DEF Upwards
      <3> HIDE DEF at
      <3>3. IsAt(Migrated(r).db, at + 1)
        BY <1>2, <1>3, <3>1, <3>2, UpgradeReaches
      <3>4. QED
        BY <1>0, <3>1, <3>2, <3>3
    <2>2. CASE ~Upwards(r)
      <3>1. NextAt(r) = at - 1 /\ Statements(r) = Revisions[at].down
        BY <2>2 DEF NextAt, Statements
      <3>2. at \in 1..LastRevision
        BY <1>0, <1>1, <1>3, <2>2 DEF Upwards
      <3> HIDE DEF at
      <3>3. IsAt(Migrated(r).db, at - 1)
        BY <1>2, <1>3, <3>1, <3>2, DowngradeReaches
      <3>4. QED
        BY <1>0, <3>1, <3>2, <3>3
    <2>3. QED
      BY <2>1, <2>2
  <1> DEFINE w == Migrated(r).db
             n == NextAt(r)
             yes == TRUE
             y == runs[r]
             x == [y EXCEPT !.at = n, !.wrote = yes, !.work = w]
  <1>5. runs' = [runs EXCEPT ![r] = x]
    BY <1>1
  <1>6. IsAt(w, n) /\ n \in 0..LastRevision
    BY <1>4
  <1>7. x = [pc |-> runs[r].pc, goal |-> runs[r].goal, at |-> n, wrote |-> yes, work |-> w]
    <2>1. y = [pc |-> y.pc, goal |-> y.goal, at |-> y.at, wrote |-> y.wrote, work |-> y.work]
      BY DEF MigrationsInv, IsRun
    <2>2. x = [y EXCEPT !.at = n, !.wrote = yes, !.work = w]
      OBVIOUS
    <2> HIDE DEF w, n, yes, y, x
    <2>3. x = [pc |-> y.pc, goal |-> y.goal, at |-> n, wrote |-> yes, work |-> w]
      BY <2>1, <2>2, RunWritten
    <2>4. QED
      BY <2>3 DEF y
  <1> HIDE DEF w, n, yes, x, y, at
  <1>8. IsRun(x)
    BY <1>3, <1>6, <1>7 DEF IsRun
  <1>9. IsAt(db, db.version)'
    BY <1>1 DEF MigrationsInv
  <1>10. QED
    BY <1>5, <1>8, <1>9, OneRuns

LEMMA NextMigrates == MigrationsInv /\ [MigrationNext]_migrationVars => MigrationsInv'
  <1> SUFFICES ASSUME MigrationsInv, [MigrationNext]_migrationVars PROVE MigrationsInv'
    OBVIOUS
  <1>1. ASSUME NEW r \in Runners, NEW g \in Goals, BeginRun(r, g) PROVE MigrationsInv'
    <2> DEFINE v == db.version
               no == FALSE
               k == Database({})
               q == "running"
               x == [Idle EXCEPT !.pc = q, !.goal = g, !.at = v]
    <2>1. runs' = [runs EXCEPT ![r] = x] /\ db' = db
      BY <1>1 DEF BeginRun
    <2>2. x = [pc |-> q, goal |-> g, at |-> v, wrote |-> no, work |-> k]
      <3> DEFINE y == Idle
      <3>1. y = [pc |-> y.pc, goal |-> y.goal, at |-> y.at, wrote |-> y.wrote, work |-> y.work]
        BY DEF Idle
      <3>2. x = [y EXCEPT !.pc = q, !.goal = g, !.at = v] /\ y.wrote = no /\ y.work = k
        BY DEF Idle
      <3> HIDE DEF v, q, no, k, x, y
      <3>3. x = [pc |-> q, goal |-> g, at |-> v, wrote |-> y.wrote, work |-> y.work]
        BY <3>1, <3>2, RunBegun
      <3>4. QED
        BY <3>2, <3>3
    <2>3. g \in 0..LastRevision /\ v \in 0..LastRevision /\ no = FALSE /\ q \in Pcs
      BY GoalsAssumption DEF MigrationsInv, IsAt, Pcs
    <2> HIDE DEF v, no, k, q, x
    <2>4. IsRun(x)
      BY <2>2, <2>3 DEF IsRun
    <2>5. IsAt(db, db.version)'
      BY <2>1 DEF MigrationsInv
    <2>6. QED
      BY <2>1, <2>4, <2>5, OneRuns
  <1>2. ASSUME NEW r \in Runners, RevisionRefused(r) \/ ConnectionLost(r) PROVE MigrationsInv'
    <2>1. runs' = [runs EXCEPT ![r] = Idle] /\ db' = db
      BY <1>2 DEF RevisionRefused, ConnectionLost
    <2>2. IsAt(db, db.version)'
      BY <2>1 DEF MigrationsInv
    <2>3. QED
      BY <2>1, <2>2, IdleRuns, OneRuns
  <1>3. ASSUME NEW r \in Runners, CommitRun(r) PROVE MigrationsInv'
    <2>1. runs' = [runs EXCEPT ![r] = Idle] /\ db' = Seen(r) /\ Running(r)
      BY <1>3 DEF CommitRun
    <2>2. IsAt(db, db.version)'
      BY <2>1, SeenIsAt
    <2>3. QED
      BY <2>1, <2>2, IdleRuns, OneRuns
  <1>4. CASE UNCHANGED migrationVars
    BY <1>4 DEF MigrationsInv, migrationVars
  <1>5. QED
    BY <1>1, <1>2, <1>3, <1>4, RunRevisionKeeps DEF MigrationNext

LEMMA InitMigrates == Init => MigrationsInv
  <1> SUFFICES ASSUME Init PROVE MigrationsInv
    OBVIOUS
  <1>1. PICK ts \in Fresh : db = Database(ts)
    BY DEF Init, MigrationInit
  <1>2. IsDatabase(Database(ts)) /\ Database(ts).version = 0
    BY DEF Database, IsDatabase
  <1>3. Untouched(0) = {Database(s) : s \in Fresh} /\ 0 \in 0..LastRevision
    BY RevisionsAssumption DEF Untouched
  <1>4. IsAt(db, db.version)
    BY <1>1, <1>2, <1>3 DEF IsAt, Resembles, Extends
  <1>5. runs = [r \in Runners |-> Idle]
    BY DEF Init, MigrationInit
  <1>6. QED
    BY <1>4, <1>5, IdleRuns DEF MigrationsInv

LEMMA AlwaysMigrates == Spec => []MigrationsInv
  <1>1. [Next]_vars => [MigrationNext]_migrationVars
    BY DEF Next, MigrationStep, SeedStep, vars
  <1>2. QED
    BY <1>1, InitMigrates, NextMigrates, PTL DEF Spec

\* The revision that a database records tells its tables, keys and columns,
\* whatever runs up and down overlap, break off or are refused, for every chain
\* of revisions that goes up from an empty database and comes down again.
THEOREM VersionTells == Spec => []VersionTellsTables
  <1>1. MigrationsInv => VersionTellsTables
    <2> SUFFICES ASSUME MigrationsInv PROVE VersionTellsTables
      OBVIOUS
    <2>1. PICK b \in Untouched(db.version) : Extends(db, b)
      BY DEF MigrationsInv, IsAt
    <2>2. CASE db.version = 0
      BY <2>1, <2>2 DEF Untouched, Resembles, Extends, Database, VersionTellsTables
    <2>3. CASE db.version # 0
      BY <2>1, <2>3 DEF Untouched, Resembles, Extends, VersionTellsTables
    <2>4. QED
      BY <2>2, <2>3
  <1>2. QED
    BY <1>1, AlwaysMigrates, PTL

\* An upgrade from the recorded revision is refused only where types are that
\* its upgrades did not make, in a run's own work as in what is committed.
THEOREM LeftTypesBlock == Spec => []OnlyLeftTypesBlockUpgrades
  <1>1. MigrationsInv => OnlyLeftTypesBlockUpgrades
    <2> SUFFICES ASSUME MigrationsInv, NEW r \in Runners, Running(r), Upwards(r),
                        Matches(Seen(r), runs[r].at),
                        Seen(r).types = Upgraded[runs[r].at].types
                 PROVE  Migrated(r).ok
      BY DEF OnlyLeftTypesBlockUpgrades
    <2> DEFINE at == runs[r].at
    <2>1. /\ IsAt(Seen(r), at) /\ Seen(r).version = at
          /\ runs[r].goal \in 0..LastRevision /\ at \in 0..LastRevision
      BY SeenIsAt DEF Matches
    <2>2. at + 1 \in 1..LastRevision /\ (at + 1) - 1 = at
      BY <2>1, RevisionsAssumption DEF Upwards
    <2>3. Statements(r) = Revisions[at + 1].up
      BY DEF Statements
    <2>4. Seen(r).types = Upgraded[at].types
      OBVIOUS
    <2> HIDE DEF at
    <2>5. Execute(Seen(r), Revisions[at + 1].up).ok
      BY <2>1, <2>2, <2>4, UpgradeRuns
    <2>6. QED
      BY <2>1, <2>3, <2>5 DEF Migrated, Matches, at
  <1>2. QED
    BY <1>1, AlwaysMigrates, PTL

\* What the upgrades alone make of a fresh database serves the models.
UpgradesServe == \A d \in Untouched(LastRevision) : Serves(d)

\* If it does, so does every database at the last revision, whichever way up and
\* down it has come there.
THEOREM HeadServes ==
  ASSUME UpgradesServe
  PROVE  Spec => []HeadServesModels
  <1>1. MigrationsInv => HeadServesModels
    BY UpgradesServe DEF UpgradesServe, MigrationsInv, IsAt, Extends, Resembles, Serves, HeadServesModels
  <1>2. QED
    BY <1>1, AlwaysMigrates, PTL

-----------------------------------------------------------------------------
(* The script                                                               *)

LEMMA StagesCounted ==
  /\ DOMAIN Stages = 1..15
  /\ \A i \in 1..15 : Len(Stages[i]) \in Nat /\ DOMAIN Stages[i] = 1..Len(Stages[i])
  <1> USE DEF Stages
  <1>1. DOMAIN Stages = 1..15
    OBVIOUS
  <1>2. Len(SeedTenant) \in Nat /\ DOMAIN SeedTenant = 1..Len(SeedTenant)
    BY DEF SeedTenant
  <1>3. Len(SeedCompanies) \in Nat /\ DOMAIN SeedCompanies = 1..Len(SeedCompanies)
    BY DEF SeedCompanies
  <1>4. Len(SeedUsers) \in Nat /\ DOMAIN SeedUsers = 1..Len(SeedUsers)
    BY DEF SeedUsers
  <1>5. Len(SeedCompanyMembers) \in Nat /\ DOMAIN SeedCompanyMembers = 1..Len(SeedCompanyMembers)
    BY DEF SeedCompanyMembers
  <1>6. Len(SeedCourses) \in Nat /\ DOMAIN SeedCourses = 1..Len(SeedCourses)
    BY DEF SeedCourses
  <1>7. Len(SeedCommunity) \in Nat /\ DOMAIN SeedCommunity = 1..Len(SeedCommunity)
    BY DEF SeedCommunity
  <1>8. Len(SeedProducts) \in Nat /\ DOMAIN SeedProducts = 1..Len(SeedProducts)
    BY DEF SeedProducts
  <1>9. Len(SeedGamification) \in Nat /\ DOMAIN SeedGamification = 1..Len(SeedGamification)
    BY DEF SeedGamification
  <1>10. Len(SeedMessaging) \in Nat /\ DOMAIN SeedMessaging = 1..Len(SeedMessaging)
    BY DEF SeedMessaging
  <1>11. Len(SeedQuiz) \in Nat /\ DOMAIN SeedQuiz = 1..Len(SeedQuiz)
    BY DEF SeedQuiz
  <1>12. Len(SeedEmail) \in Nat /\ DOMAIN SeedEmail = 1..Len(SeedEmail)
    BY DEF SeedEmail
  <1>13. Len(SeedWebhooks) \in Nat /\ DOMAIN SeedWebhooks = 1..Len(SeedWebhooks)
    BY DEF SeedWebhooks
  <1>14. Len(SeedLanding) \in Nat /\ DOMAIN SeedLanding = 1..Len(SeedLanding)
    BY DEF SeedLanding
  <1>15. Len(SeedNotifications) \in Nat /\ DOMAIN SeedNotifications = 1..Len(SeedNotifications)
    BY DEF SeedNotifications
  <1>16. Len(SeedAudit) \in Nat /\ DOMAIN SeedAudit = 1..Len(SeedAudit)
    BY DEF SeedAudit
  <1>17. QED
    BY <1>1, <1>2, <1>3, <1>4, <1>5, <1>6, <1>7, <1>8, <1>9, <1>10, <1>11, <1>12, <1>13,
       <1>14, <1>15, <1>16

\* The tables are those of the stages' classes.
LEMMA TablesSeeded ==
  /\ \A i \in 1..15 : \A k \in 1..Len(Stages[i]) : Stages[i][k].table \in Tables
  /\ \A t \in Tables : \E i \in 1..15 : \E k \in 1..Len(Stages[i]) : t = Stages[i][k].table
  /\ \A i \in 1..15 : ToSet(Stages[i]) = {Stages[i][k] : k \in 1..Len(Stages[i])}
  <1>1. \A i \in 1..15 : ToSet(Stages[i]) = {Stages[i][k] : k \in 1..Len(Stages[i])}
    BY StagesCounted DEF ToSet
  <1>2. Classes = UNION {ToSet(Stages[i]) : i \in 1..15}
    BY StagesCounted DEF Classes
  <1>3. Tables = {c.table : c \in Classes}
    BY DEF Tables, ClassOf
  <1>4. ASSUME NEW i \in 1..15, NEW k \in 1..Len(Stages[i]) PROVE Stages[i][k].table \in Tables
    <2>1. Stages[i][k] \in ToSet(Stages[i])
      BY <1>1
    <2>2. QED
      BY <1>2, <1>3, <2>1
  <1>5. ASSUME NEW t \in Tables
        PROVE  \E i \in 1..15 : \E k \in 1..Len(Stages[i]) : t = Stages[i][k].table
    <2>1. PICK c \in Classes : t = c.table
      BY <1>3
    <2>2. PICK i \in 1..15 : c \in ToSet(Stages[i])
      BY <1>2
    <2>3. PICK k \in 1..Len(Stages[i]) : c = Stages[i][k]
      BY <1>1, <2>2
    <2>4. QED
      BY <2>1, <2>3
  <1>6. QED
    BY <1>1, <1>4, <1>5

\* What the first two stages look for.
LEMMA FirstStages ==
  /\ Len(Stages[1]) = 2 /\ Len(Stages[2]) = 1
  /\ Stages[1][1].table = "tenants" /\ Stages[1][1].key = {"slug"}
  /\ Stages[1][2].table = "menu_configs"
  /\ Stages[2][1].table = "companies" /\ Stages[2][1].found = "rewritten"
  BY DEF Stages, SeedTenant, SeedCompanies, OneOrCreate, OneOrCreateAnew, Row

-----------------------------------------------------------------------------
(* What a stage does                                                        *)

\* What an execution keeps: its stage is one of the script's or the one after,
\* it has written and updated rows of tables, others are ahead of it.
Execution ==
  [pc : {"idle", "running", "done", "failed"}, stage : Nat \ {0}, mine : SUBSET Tables,
   holds : SUBSET Tables, purged : BOOLEAN, behind : SUBSET Seeds, disturbed : BOOLEAN]

SeedsTyped ==
  /\ rows \in [Tables -> Nat] /\ platformOps \in Nat
  /\ seeds \in [Seeds -> Execution]

Begun(s) == [ok |-> TRUE, mine |-> seeds[s].mine, holds |-> seeds[s].holds]

\* What an execution has after each of the first n classes of its stage.
IsStaging(t, s, n) ==
  t = [i \in 0..n |-> IF i = 0 THEN Begun(s) ELSE Take(t[i - 1], Stage(s)[i])]

LEMMA StagingExists ==
  ASSUME NEW s, NEW n \in Nat
  PROVE  \E t : IsStaging(t, s, n)
  <1> DEFINE S == {m \in Nat : \E t : IsStaging(t, s, m)}
  <1>1. 0 \in S
    <2>1. IsStaging([i \in 0..0 |-> Begun(s)], s, 0)
      BY DEF IsStaging
    <2>2. QED
      BY <2>1
  <1>2. ASSUME NEW m \in Nat, m \in S PROVE m + 1 \in S
    <2>1. PICK t : IsStaging(t, s, m)
      BY <1>2
    <2> DEFINE u == [i \in 0..(m + 1) |->
                       IF i = m + 1 THEN Take(t[m], Stage(s)[m + 1]) ELSE t[i]]
    <2>2. \A i \in 0..(m + 1) :
            u[i] = IF i = 0 THEN Begun(s) ELSE Take(u[i - 1], Stage(s)[i])
      <3>1. \A i \in 0..m : t[i] = IF i = 0 THEN Begun(s) ELSE Take(t[i - 1], Stage(s)[i])
        BY <2>1 DEF IsStaging
      <3>2. TAKE i \in 0..(m + 1)
      <3>3. CASE i = m + 1
        <4>1. u[i] = Take(t[m], Stage(s)[m + 1]) /\ u[i - 1] = t[m] /\ i # 0
          BY <3>3
        <4> HIDE DEF u
        <4>2. QED
          BY <3>3, <4>1
      <3>4. CASE i # m + 1
        <4>1. i \in 0..m /\ u[i] = t[i] /\ (i # 0 => u[i - 1] = t[i - 1])
          BY <3>4
        <4> HIDE DEF u
        <4>2. QED
          BY <3>1, <4>1
      <3>5. QED
        BY <3>3, <3>4
    <2>3. IsStaging(u, s, m + 1)
      BY <2>2 DEF IsStaging
    <2>4. QED
      BY <2>3
  <1> HIDE DEF S
  <1>3. n \in S
    BY <1>1, <1>2, SetInduction
  <1>4. QED
    BY <1>3 DEF S

LEMMA StagedIs ==
  ASSUME NEW s, Len(Stage(s)) \in Nat
  PROVE  \E t : IsStaging(t, s, Len(Stage(s))) /\ Staged(s) = t[Len(Stage(s))]
  <1> DEFINE t == CHOOSE t : IsStaging(t, s, Len(Stage(s)))
  <1>1. IsStaging(t, s, Len(Stage(s)))
    BY StagingExists
  <1>2. Staged(s) = t[Len(Stage(s))]
    BY DEF Staged, IsStaging, Begun
  <1>3. QED
    BY <1>1, <1>2

LEMMA StagingSteps ==
  ASSUME NEW s, NEW n \in Nat, NEW t, IsStaging(t, s, n)
  PROVE  /\ t[0] = Begun(s)
         /\ \A i \in 0..(n - 1) : t[i + 1] = Take(t[i], Stage(s)[i + 1])
  <1>1. \A k \in 0..n : t[k] = IF k = 0 THEN Begun(s) ELSE Take(t[k - 1], Stage(s)[k])
    BY DEF IsStaging
  <1>2. 0 \in 0..n
    OBVIOUS
  <1>3. ASSUME NEW i \in 0..(n - 1) PROVE t[i + 1] = Take(t[i], Stage(s)[i + 1])
    <2>1. i + 1 \in 0..n /\ i + 1 # 0 /\ (i + 1) - 1 = i
      OBVIOUS
    <2>2. t[i + 1] = Take(t[(i + 1) - 1], Stage(s)[i + 1])
      BY <1>1, <2>1
    <2>3. QED
      BY <2>1, <2>2
  <1>4. QED
    BY <1>1, <1>2, <1>3

IsTaking(a) == a = [ok |-> a.ok, mine |-> a.mine, holds |-> a.holds]

LEMMA TakingWritten ==
  ASSUME NEW a, IsTaking(a), NEW v, NEW m, NEW h
  PROVE  /\ [a EXCEPT !.ok = v] = [ok |-> v, mine |-> a.mine, holds |-> a.holds]
         /\ [a EXCEPT !.mine = m, !.holds = h] = [ok |-> a.ok, mine |-> m, holds |-> h]
  <1> DEFINE r == [ok |-> a.ok, mine |-> a.mine, holds |-> a.holds]
             q == [ok |-> a.ok, mine |-> m, holds |-> a.holds]
  <1>1. a = r
    BY DEF IsTaking
  <1>2. [r EXCEPT !.ok = v] = [ok |-> v, mine |-> a.mine, holds |-> a.holds]
    OBVIOUS
  <1>3. [r EXCEPT !.mine = m] = q
    OBVIOUS
  <1>4. [q EXCEPT !.holds = h] = [ok |-> a.ok, mine |-> m, holds |-> h]
    OBVIOUS
  <1>5. [r EXCEPT !.mine = m, !.holds = h] = [[r EXCEPT !.mine = m] EXCEPT !.holds = h]
    BY Zenon
  <1> HIDE DEF r, q
  <1>6. [r EXCEPT !.mine = m, !.holds = h] = [ok |-> a.ok, mine |-> m, holds |-> h]
    BY <1>3, <1>4, <1>5
  <1>7. QED
    BY <1>1, <1>2, <1>6

\* Finding or creating the rows of one class.
LEMMA Taken ==
  ASSUME NEW a, IsTaking(a), NEW c
  PROVE  /\ IsTaking(Take(a, c))
         /\ Take(a, c).ok =>
              /\ a.ok /\ Selectable(c.table) /\ ~Ambiguous(c)
              /\ Take(a, c).mine = IF rows[c.table] = 0 THEN a.mine \cup {c.table} ELSE a.mine
              /\ Take(a, c).holds =
                   IF rows[c.table] > 0 /\ Rewrites(c) THEN a.holds \cup {c.table} ELSE a.holds
         /\ a.ok /\ Selectable(c.table) /\ ~Ambiguous(c) /\ Refers(c, a.mine)
              /\ ~DomainTaken(c) => Take(a, c).ok
  <1> DEFINE m == IF rows[c.table] = 0 THEN a.mine \cup {c.table} ELSE a.mine
             h == IF rows[c.table] > 0 /\ Rewrites(c) THEN a.holds \cup {c.table} ELSE a.holds
             no == FALSE
             refused == ~a.ok \/ Refused(c, a.mine)
  <1>1. Take(a, c) = IF refused THEN [a EXCEPT !.ok = no]
                     ELSE [a EXCEPT !.mine = m, !.holds = h]
    BY DEF Take
  <1>2. [a EXCEPT !.ok = no] = [ok |-> no, mine |-> a.mine, holds |-> a.holds]
    <2> HIDE DEF no
    <2>1. QED
      BY TakingWritten
  <1>3. [a EXCEPT !.mine = m, !.holds = h] = [ok |-> a.ok, mine |-> m, holds |-> h]
    <2> HIDE DEF m, h
    <2>1. QED
      BY TakingWritten
  <1> HIDE DEF m, h, refused
  <1>4. CASE refused
    BY <1>1, <1>2, <1>4 DEF IsTaking, refused, Refused
  <1>5. CASE ~refused
    BY <1>1, <1>3, <1>5 DEF IsTaking, refused, Refused, m, h
  <1>6. QED
    BY <1>4, <1>5

\* A class that has been found or created: c by an execution that then has a.
Settled(a, c) ==
  /\ Selectable(c.table)
  /\ rows[c.table] > 0 \/ c.table \in a.mine
  /\ rows[c.table] > 0 /\ c.found = "rewritten" => c.table \in a.holds

\* What an execution has after the first n classes of its stage.
Done(s, a, n) ==
  /\ seeds[s].mine \subseteq a.mine /\ seeds[s].holds \subseteq a.holds
  /\ \A k \in 1..n : Settled(a, Stage(s)[k])
  /\ \A x \in a.mine :
       x \in seeds[s].mine \/ (rows[x] = 0 /\ \E k \in 1..n : x = Stage(s)[k].table)
  /\ \A x \in a.holds : x \in seeds[s].holds \/ \E k \in 1..n : x = Stage(s)[k].table

LEMMA DoneStep ==
  ASSUME NEW s, NEW a, IsTaking(a), NEW i \in Nat, a.ok => Done(s, a, i),
         rows[Stage(s)[i + 1].table] \in Nat, Take(a, Stage(s)[i + 1]).ok
  PROVE  Done(s, Take(a, Stage(s)[i + 1]), i + 1)
  <1> DEFINE c == Stage(s)[i + 1]
             b == Take(a, Stage(s)[i + 1])
             m == rows[c.table]
  <1>1. /\ a.ok /\ Selectable(c.table)
        /\ b.mine = IF m = 0 THEN a.mine \cup {c.table} ELSE a.mine
        /\ b.holds = IF m > 0 /\ Rewrites(c) THEN a.holds \cup {c.table} ELSE a.holds
    BY Taken
  <1>2. Done(s, a, i) /\ m \in Nat
    BY <1>1
  <1>3. a.mine \subseteq b.mine /\ a.holds \subseteq b.holds
    <2> HIDE DEF b, c, m
    <2>1. QED
      BY <1>1
  <1>4. Settled(b, c)
    <2> HIDE DEF b, c
    <2>1. QED
      BY <1>1, <1>2 DEF Settled, Rewrites
  <1>5. \A k \in 1..(i + 1) : Settled(b, Stage(s)[k])
    <2>1. TAKE k \in 1..(i + 1)
    <2>2. CASE k = i + 1
      BY <1>4, <2>2
    <2>3. CASE k # i + 1
      <3>1. Settled(a, Stage(s)[k])
        BY <1>2, <2>3 DEF Done
      <3> HIDE DEF b, c
      <3>2. QED
        BY <1>3, <3>1 DEF Settled
    <2>4. QED
      BY <2>2, <2>3
  <1>6. /\ \A k \in 1..i : k \in 1..(i + 1)
        /\ i + 1 \in 1..(i + 1)
    OBVIOUS
  <1>7. ASSUME NEW x \in b.mine
        PROVE  x \in seeds[s].mine \/ (rows[x] = 0 /\ \E k \in 1..(i + 1) : x = Stage(s)[k].table)
    <2>1. x \in a.mine \/ (rows[x] = 0 /\ x = Stage(s)[i + 1].table)
      <3> HIDE DEF b
      <3>1. QED
        BY <1>1, <1>7
    <2>2. QED
      BY <1>2, <1>6, <2>1 DEF Done
  <1>8. ASSUME NEW x \in b.holds
        PROVE  x \in seeds[s].holds \/ \E k \in 1..(i + 1) : x = Stage(s)[k].table
    <2>1. x \in a.holds \/ x = Stage(s)[i + 1].table
      <3> HIDE DEF b
      <3>1. QED
        BY <1>1, <1>8
    <2>2. QED
      BY <1>2, <1>6, <2>1 DEF Done
  <1>9. seeds[s].mine \subseteq b.mine /\ seeds[s].holds \subseteq b.holds
    BY <1>2, <1>3 DEF Done
  <1> HIDE DEF b, c, m
  <1>10. Done(s, b, i + 1)
    BY <1>5, <1>7, <1>8, <1>9 DEF Done
  <1>11. QED
    BY <1>10 DEF b

\* A stage that succeeds has found or created the rows of all of its classes.
LEMMA StageDone ==
  ASSUME SeedsTyped, NEW s \in Seeds, seeds[s].stage \in 1..15, Staged(s).ok
  PROVE  Done(s, Staged(s), Len(Stage(s)))
  <1> DEFINE n == Len(Stage(s))
  <1>1. /\ n \in Nat
        /\ \A k \in 1..n : rows[Stage(s)[k].table] \in Nat
    BY StagesCounted, TablesSeeded DEF Stage, SeedsTyped
  <1>2. PICK t : IsStaging(t, s, n) /\ Staged(s) = t[n]
    BY <1>1, StagedIs
  <1>3. /\ t[0] = Begun(s)
        /\ \A i \in 0..(n - 1) : t[i + 1] = Take(t[i], Stage(s)[i + 1])
    BY <1>1, <1>2, StagingSteps
  <1> HIDE DEF n
  <1> DEFINE S == {i \in Nat : i <= n => IsTaking(t[i]) /\ (t[i].ok => Done(s, t[i], i))}
  <1>4. 0 \in S
    <2>1. IsTaking(Begun(s)) /\ Done(s, Begun(s), 0)
      BY DEF IsTaking, Begun, Done
    <2>2. QED
      BY <1>3, <2>1
  <1>5. ASSUME NEW i \in Nat, i \in S PROVE i + 1 \in S
    <2> SUFFICES ASSUME i + 1 <= n
                 PROVE  IsTaking(t[i + 1]) /\ (t[i + 1].ok => Done(s, t[i + 1], i + 1))
      OBVIOUS
    <2>1. /\ i \in 0..(n - 1) /\ i + 1 \in 1..n
          /\ IsTaking(t[i]) /\ (t[i].ok => Done(s, t[i], i))
      BY <1>1, <1>5
    <2>2. t[i + 1] = Take(t[i], Stage(s)[i + 1]) /\ rows[Stage(s)[i + 1].table] \in Nat
      BY <1>1, <1>3, <2>1
    <2>3. IsTaking(Take(t[i], Stage(s)[i + 1]))
      BY <2>1, Taken
    <2>4. Take(t[i], Stage(s)[i + 1]).ok => Done(s, Take(t[i], Stage(s)[i + 1]), i + 1)
      BY <2>1, <2>2, DoneStep
    <2>5. QED
      BY <2>2, <2>3, <2>4
  <1> HIDE DEF S
  <1>6. n \in S
    BY <1>1, <1>4, <1>5, SetInduction
  <1>7. QED
    BY <1>1, <1>2, <1>6 DEF S, n

-----------------------------------------------------------------------------
(* The steps of the script and of its users                                 *)

LEMMA StageTables ==
  ASSUME SeedsTyped, NEW s \in Seeds, seeds[s].stage \in 1..15, Staged(s).ok
  PROVE  Staged(s).mine \subseteq Tables /\ Staged(s).holds \subseteq Tables
  <1>1. Done(s, Staged(s), Len(Stage(s)))
    BY StageDone
  <1>2. \A k \in 1..Len(Stage(s)) : Stage(s)[k].table \in Tables
    BY TablesSeeded DEF Stage
  <1>3. seeds[s].mine \subseteq Tables /\ seeds[s].holds \subseteq Tables
    BY DEF SeedsTyped, Execution
  <1>4. QED
    BY <1>1, <1>2, <1>3 DEF Done

\* An execution, written out.
Written(p, g, m, h, u, b, d) ==
  [pc |-> p, stage |-> g, mine |-> m, holds |-> h, purged |-> u, behind |-> b,
   disturbed |-> d]

LEMMA ExecutionIs ==
  /\ \A x \in Execution :
       x = Written(x.pc, x.stage, x.mine, x.holds, x.purged, x.behind, x.disturbed)
  /\ \A p \in {"idle", "running", "done", "failed"}, g \in Nat \ {0}, m \in SUBSET Tables,
        h \in SUBSET Tables, u \in BOOLEAN, b \in SUBSET Seeds, d \in BOOLEAN :
       Written(p, g, m, h, u, b, d) \in Execution
  <1>1. \A x \in Execution :
          x = Written(x.pc, x.stage, x.mine, x.holds, x.purged, x.behind, x.disturbed)
    BY DEF Execution, Written
  <1>2. QED
    BY <1>1 DEF Execution, Written

LEMMA FieldsWritten ==
  ASSUME NEW p, NEW g, NEW m, NEW h, NEW u, NEW b, NEW d
  PROVE  /\ Written(p, g, m, h, u, b, d).pc = p /\ Written(p, g, m, h, u, b, d).stage = g
         /\ Written(p, g, m, h, u, b, d).mine = m /\ Written(p, g, m, h, u, b, d).holds = h
         /\ Written(p, g, m, h, u, b, d).behind = b
         /\ Written(p, g, m, h, u, b, d).disturbed = d
  BY DEF Written

\* An execution that is over, or has only begun.
Reset(q) == [NotRunning EXCEPT !.pc = q]
Anew(q, e) == [NotRunning EXCEPT !.pc = q, !.disturbed = e]

LEMMA StartsOver ==
  ASSUME NEW q \in {"idle", "running", "done", "failed"}, NEW e \in BOOLEAN
  PROVE  /\ Anew(q, e) \in Execution /\ Anew(q, e).pc = q /\ Anew(q, e).disturbed = e
         /\ Anew(q, e).stage = 1 /\ Anew(q, e).mine = {}
         /\ Reset(q) \in Execution /\ Reset(q).pc = q
         /\ NotRunning \in Execution
  <1> DEFINE no == FALSE
             one == 1
             none == {}
             idle == "idle"
  <1>1. NotRunning = Written(idle, one, none, none, no, none, no)
    BY DEF NotRunning, Written
  <1>2. /\ idle \in {"idle", "running", "done", "failed"} /\ one \in Nat \ {0}
        /\ none \in SUBSET Tables /\ none \in SUBSET Seeds /\ no \in BOOLEAN
    OBVIOUS
  <1> HIDE DEF no, one, none, idle
  <1>3. Anew(q, e) = Written(q, one, none, none, no, none, e)
    <2> DEFINE x == Written(idle, one, none, none, no, none, no)
    <2>1. [x EXCEPT !.pc = q] = Written(q, one, none, none, no, none, no)
      BY DEF Written
    <2>2. [Written(q, one, none, none, no, none, no) EXCEPT !.disturbed = e] =
            Written(q, one, none, none, no, none, e)
      BY DEF Written
    <2>3. [x EXCEPT !.pc = q, !.disturbed = e] = [[x EXCEPT !.pc = q] EXCEPT !.disturbed = e]
      BY Zenon
    <2>4. QED
      BY <1>1, <2>1, <2>2, <2>3 DEF Anew
  <1>4. Reset(q) = Written(q, one, none, none, no, none, no)
    BY <1>1 DEF Written, Reset
  <1>5. /\ Written(idle, one, none, none, no, none, no) \in Execution
        /\ Written(q, one, none, none, no, none, no) \in Execution
        /\ Written(q, one, none, none, no, none, e) \in Execution
    BY <1>2, ExecutionIs
  <1>6. QED
    BY <1>1, <1>3, <1>4, <1>5, FieldsWritten DEF one, none

\* An execution keeps its place and what it has.
Kept(o) ==
  /\ seeds'[o].pc = seeds[o].pc /\ seeds'[o].stage = seeds[o].stage
  /\ seeds'[o].mine = seeds[o].mine /\ seeds'[o].holds = seeds[o].holds

LEMMA Disturbs ==
  ASSUME NEW x \in Execution, NEW d \in BOOLEAN
  PROVE  LET y == [x EXCEPT !.disturbed = d]
         IN  /\ y \in Execution /\ y.disturbed = d
             /\ y.pc = x.pc /\ y.stage = x.stage /\ y.mine = x.mine /\ y.holds = x.holds
  BY DEF Execution

LEMMA Begins ==
  ASSUME SeedsTyped, NEW s \in Seeds, BeginSeed(s)
  PROVE  /\ SeedsTyped'
         /\ seeds'[s].stage = 1 /\ seeds'[s].mine = {}
         /\ \A o \in Seeds \ {s} : Kept(o) /\ seeds'[o].disturbed
         /\ UNCHANGED <<rows, platformOps>>
  <1> DEFINE q == "running"
             e == Others(s) # {}
             yes == TRUE
             x == Anew(q, e)
  <1>1. \A o \in Seeds : seeds[o] \in Execution
    BY DEF SeedsTyped
  <1>2. /\ seeds' = [o \in Seeds |-> IF o = s THEN x ELSE [seeds[o] EXCEPT !.disturbed = yes]]
        /\ UNCHANGED <<rows, platformOps>>
    BY DEF BeginSeed, Anew
  <1>3. q \in {"idle", "running", "done", "failed"} /\ e \in BOOLEAN /\ yes \in BOOLEAN
    OBVIOUS
  <1> HIDE DEF q, e
  <1>4. x \in Execution /\ x.stage = 1 /\ x.mine = {}
    BY <1>3, StartsOver
  <1> HIDE DEF x
  <1>5. seeds'[s] \in Execution /\ seeds'[s].stage = 1 /\ seeds'[s].mine = {}
    BY <1>2, <1>4
  <1>6. ASSUME NEW o \in Seeds \ {s}
        PROVE  seeds'[o] \in Execution /\ Kept(o) /\ seeds'[o].disturbed
    <2>1. seeds'[o] = [seeds[o] EXCEPT !.disturbed = yes] /\ seeds[o] \in Execution
      BY <1>1, <1>2
    <2> HIDE DEF yes
    <2>2. seeds'[o] \in Execution /\ Kept(o) /\ seeds'[o].disturbed = yes
      BY <1>3, <2>1, Disturbs DEF Kept
    <2>3. QED
      BY <2>2 DEF yes
  <1>7. SeedsTyped'
    BY <1>2, <1>5, <1>6 DEF SeedsTyped
  <1>8. QED
    BY <1>2, <1>5, <1>6, <1>7

\* A stage that is executed.
LEMMA Proceeds ==
  ASSUME SeedsTyped, NEW s \in Seeds, RunStage(s)
  PROVE  /\ SeedsTyped' /\ seeds[s].stage \in 1..15 /\ Done(s, Staged(s), Len(Stage(s)))
         /\ seeds'[s].stage = seeds[s].stage + 1 /\ seeds'[s].pc = seeds[s].pc
         /\ seeds'[s].mine = Staged(s).mine /\ seeds'[s].holds = Staged(s).holds
         /\ seeds'[s].disturbed = seeds[s].disturbed
         /\ \A o \in Seeds \ {s} : seeds'[o] = seeds[o]
         /\ UNCHANGED <<rows, platformOps>>
  <1>1. seeds[s].stage \in 1..15 /\ Staged(s).ok
    BY StagesCounted DEF RunStage, MayRun, Seeding
  <1>2. Done(s, Staged(s), Len(Stage(s)))
    BY <1>1, StageDone
  <1> DEFINE x == seeds[s]
             p == Purges(s)
             m == Staged(s).mine
             h == Staged(s).holds
             n == x.stage + 1
             y == [x EXCEPT !.stage = n, !.mine = m, !.holds = h, !.purged = p]
             z == Written(x.pc, n, m, h, p, x.behind, x.disturbed)
  <1>3. seeds' = [seeds EXCEPT ![s] = y]
    BY DEF RunStage
  <1>4. x \in Execution /\ p \in BOOLEAN /\ n \in Nat \ {0}
    BY DEF SeedsTyped, Execution, Purges
  <1>5. m \in SUBSET Tables /\ h \in SUBSET Tables
    BY <1>1, StageTables
  <1> HIDE DEF x, p, m, h, n
  <1>6. x = Written(x.pc, x.stage, x.mine, x.holds, x.purged, x.behind, x.disturbed)
    BY <1>4, ExecutionIs
  <1>7. UNCHANGED <<rows, platformOps>>
    BY DEF RunStage
  <1>8. y = z
    <2> DEFINE c == x.pc
               b == x.behind
               d == x.disturbed
               w == Written(c, x.stage, x.mine, x.holds, x.purged, b, d)
    <2>1. x = w
      BY <1>6
    <2> HIDE DEF c, b, d
    <2>2. [w EXCEPT !.stage = n] = Written(c, n, x.mine, x.holds, x.purged, b, d)
      BY DEF Written
    <2>3. [Written(c, n, x.mine, x.holds, x.purged, b, d) EXCEPT !.mine = m] =
            Written(c, n, m, x.holds, x.purged, b, d)
      BY DEF Written
    <2>4. [Written(c, n, m, x.holds, x.purged, b, d) EXCEPT !.holds = h] =
            Written(c, n, m, h, x.purged, b, d)
      BY DEF Written
    <2>5. [Written(c, n, m, h, x.purged, b, d) EXCEPT !.purged = p] =
            Written(c, n, m, h, p, b, d)
      BY DEF Written
    <2>6. [w EXCEPT !.stage = n, !.mine = m, !.holds = h, !.purged = p] =
            [[[[w EXCEPT !.stage = n] EXCEPT !.mine = m] EXCEPT !.holds = h] EXCEPT !.purged = p]
      BY Zenon
    <2> HIDE DEF w
    <2>7. [w EXCEPT !.stage = n, !.mine = m, !.holds = h, !.purged = p] =
            Written(c, n, m, h, p, b, d)
      BY <2>2, <2>3, <2>4, <2>5, <2>6
    <2>8. QED
      BY <2>1, <2>7 DEF c, b, d
  <1>9. z \in Execution
    <2>1. /\ x.pc \in {"idle", "running", "done", "failed"} /\ x.behind \in SUBSET Seeds
          /\ x.disturbed \in BOOLEAN
      BY <1>4 DEF Execution
    <2>2. QED
      BY <1>4, <1>5, <2>1, ExecutionIs
  <1>10. /\ z.stage = n /\ z.pc = x.pc /\ z.mine = m /\ z.holds = h
         /\ z.disturbed = x.disturbed
    BY FieldsWritten
  <1> HIDE DEF y, z
  <1>11. /\ SeedsTyped' /\ seeds'[s] = z
         /\ \A o \in Seeds \ {s} : seeds'[o] = seeds[o]
    BY <1>3, <1>7, <1>8, <1>9 DEF SeedsTyped
  <1>12. QED
    BY <1>1, <1>2, <1>7, <1>10, <1>11 DEF x, m, h, n

\* An execution that fails, waits or goes on.
LEMMA Fails ==
  ASSUME SeedsTyped, NEW s \in Seeds, Abort(s)
  PROVE  /\ SeedsTyped' /\ seeds'[s].pc = "failed"
         /\ \A o \in Seeds \ {s} : seeds'[o] = seeds[o]
         /\ UNCHANGED <<rows, platformOps>>
  <1> DEFINE q == "failed"
             x == Reset(q)
  <1>1. seeds' = [seeds EXCEPT ![s] = x] /\ UNCHANGED <<rows, platformOps>>
    BY DEF Abort, Reset
  <1>2. q \in {"idle", "running", "done", "failed"} /\ q = "failed" /\ FALSE \in BOOLEAN
    OBVIOUS
  <1> HIDE DEF q
  <1>3. x \in Execution /\ x.pc = q
    BY <1>2, StartsOver
  <1> HIDE DEF x
  <1>4. QED
    BY <1>1, <1>2, <1>3 DEF SeedsTyped

LEMMA Waits ==
  ASSUME SeedsTyped, NEW s \in Seeds, InsertWaits(s) \/ InsertGoesOn(s)
  PROVE  /\ SeedsTyped' /\ Kept(s) /\ seeds'[s].disturbed = seeds[s].disturbed
         /\ \A o \in Seeds \ {s} : seeds'[o] = seeds[o]
         /\ UNCHANGED <<rows, platformOps>>
  <1>1. PICK b \in SUBSET Seeds : seeds' = [seeds EXCEPT ![s].behind = b]
    BY DEF InsertWaits, InsertGoesOn, Colliding, Others
  <1>2. UNCHANGED <<rows, platformOps>>
    BY DEF InsertWaits, InsertGoesOn
  <1>3. QED
    BY <1>1, <1>2 DEF SeedsTyped, Execution, Kept

LEMMA Commits ==
  ASSUME SeedsTyped, NEW s \in Seeds, CommitSeed(s)
  PROVE  /\ SeedsTyped' /\ seeds'[s].pc = "done" /\ seeds[s].stage > 15
         /\ \A o \in Seeds \ {s} : seeds'[o] = seeds[o]
         /\ \A t \in Tables :
              rows'[t] = IF t \in seeds[s].mine /\ rows[t] < 2 THEN rows[t] + 1 ELSE rows[t]
         /\ UNCHANGED platformOps
  <1> DEFINE q == "done"
             d == seeds[s].disturbed
             x == Anew(q, d)
  <1>1. /\ seeds' = [seeds EXCEPT ![s] = x] /\ UNCHANGED platformOps
        /\ rows' = [t \in Tables |-> IF t \in seeds[s].mine /\ rows[t] < 2 THEN rows[t] + 1
                                     ELSE rows[t]]
    BY DEF CommitSeed, Anew
  <1>2. seeds[s].stage > 15
    <2>1. seeds[s].stage \in Nat \ {0}
      BY DEF SeedsTyped, Execution
    <2>2. seeds[s].stage \notin 1..15
      BY StagesCounted DEF CommitSeed
    <2>3. QED
      BY <2>1, <2>2
  <1>3. rows' \in [Tables -> Nat]
    BY <1>1 DEF SeedsTyped
  <1>4. q \in {"idle", "running", "done", "failed"} /\ q = "done" /\ d \in BOOLEAN
    BY DEF SeedsTyped, Execution
  <1> HIDE DEF q, d
  <1>5. x \in Execution /\ x.pc = q
    BY <1>4, StartsOver
  <1> HIDE DEF x
  <1>6. QED
    BY <1>1, <1>2, <1>3, <1>4, <1>5 DEF SeedsTyped

\* What users do disturbs whoever is under way.
LEMMA PlatformActs ==
  ASSUME SeedsTyped, PlatformStep, rows' \in [Tables -> Nat]
  PROVE  /\ SeedsTyped' /\ platformOps' # 0
         /\ \A s \in Seeds : Kept(s) /\ (Seeding(s) => seeds'[s].disturbed)
  <1> DEFINE yes == TRUE
  <1>1. /\ platformOps' = platformOps + 1
        /\ seeds' = [s \in Seeds |-> IF Seeding(s) THEN [seeds[s] EXCEPT !.disturbed = yes]
                                     ELSE seeds[s]]
    BY DEF PlatformStep
  <1>2. ASSUME NEW s \in Seeds
        PROVE  seeds'[s] \in Execution /\ Kept(s) /\ (Seeding(s) => seeds'[s].disturbed)
    <2>1. seeds[s] \in Execution /\ yes \in BOOLEAN
      BY DEF SeedsTyped
    <2>2. CASE Seeding(s)
      <3>1. seeds'[s] = [seeds[s] EXCEPT !.disturbed = yes]
        BY <1>1, <2>2
      <3> HIDE DEF yes
      <3>2. seeds'[s] \in Execution /\ Kept(s) /\ seeds'[s].disturbed = yes
        BY <2>1, <3>1, Disturbs DEF Kept
      <3>3. QED
        BY <3>2 DEF yes
    <2>3. CASE ~Seeding(s)
      BY <1>1, <2>1, <2>3 DEF Kept
    <2>4. QED
      BY <2>2, <2>3
  <1>3. seeds' \in [Seeds -> Execution]
    <2> DEFINE F(s) == IF Seeding(s) THEN [seeds[s] EXCEPT !.disturbed = yes] ELSE seeds[s]
    <2>1. seeds' = [s \in Seeds |-> F(s)]
      BY <1>1
    <2> HIDE DEF F
    <2>2. QED
      BY <1>2, <2>1
  <1>4. platformOps' \in Nat /\ platformOps' # 0
    BY <1>1 DEF SeedsTyped
  <1>5. SeedsTyped'
    BY <1>3, <1>4 DEF SeedsTyped
  <1>6. QED
    BY <1>2, <1>4, <1>5

\* What happens while the script may run, and between revisions.
LEMMA SeedStepIs ==
  ASSUME SeedsTyped, SeedStep
  PROVE  \/ \E s \in Seeds :
              \/ BeginSeed(s) \/ RunStage(s) \/ Abort(s) \/ CommitSeed(s)
              \/ InsertWaits(s) \/ InsertGoesOn(s)
         \/ PlatformStep /\ rows' \in [Tables -> Nat]
  <1>1. CASE \E s \in Seeds :
               \/ BeginSeed(s) \/ RunStage(s) \/ StageFails(s) \/ InsertWaits(s)
               \/ InsertFails(s) \/ InsertGoesOn(s) \/ CommitSeed(s) \/ SeedDies(s)
    BY <1>1 DEF StageFails, InsertFails, SeedDies
  <1>2. CASE \E t \in Creatable : PlatformCreates(t)
    <2>1. PICK t \in Creatable : PlatformCreates(t)
      BY <1>2
    <2>2. rows' = [rows EXCEPT ![t] = @ + 1] /\ PlatformStep
      BY <2>1 DEF PlatformCreates
    <2>3. rows' \in [Tables -> Nat]
      <3>1. \A u \in Tables : rows'[u] = IF u = t THEN rows[u] + 1 ELSE rows[u]
        BY <2>2 DEF SeedsTyped
      <3>2. rows' \in [Tables -> Nat] <=> \A u \in Tables : rows'[u] \in Nat
        BY <2>2 DEF SeedsTyped
      <3>3. QED
        BY <3>1, <3>2 DEF SeedsTyped
    <2>4. QED
      BY <2>2, <2>3
  <1>3. CASE \E t \in Deletable : PlatformDeletes(t)
    <2>1. PICK t \in Deletable : PlatformDeletes(t)
      BY <1>3
    <2>2. /\ rows' = [u \in Tables |-> IF u \in Cascade[t] THEN 0 ELSE rows[u]]
          /\ PlatformStep
      BY <2>1 DEF PlatformDeletes
    <2>3. QED
      BY <2>2 DEF SeedsTyped
  <1>4. CASE PlatformRegisters
    BY <1>4 DEF PlatformRegisters, SeedsTyped
  <1>5. CASE \E d \in {"free", "own", "taken"} : PlatformMovesDomain(d)
    BY <1>5 DEF PlatformMovesDomain, SeedsTyped
  <1>6. QED
    BY <1>1, <1>2, <1>3, <1>4, <1>5 DEF SeedStep, SeedNext

LEMMA MigrationStepIs ==
  ASSUME SeedsTyped, MigrationStep
  PROVE  /\ SeedsTyped' /\ MigrationNext
         /\ \A s \in Seeds : ~Seeding(s)
         /\ \A t \in Tables : rows'[t] = IF t \in Names(db') THEN rows[t] ELSE 0
         /\ UNCHANGED <<seeds, platformOps>>
  <1>1. /\ rows' = [t \in Tables |-> IF t \in Names(db') THEN rows[t] ELSE 0]
        /\ MigrationNext /\ \A s \in Seeds : ~Seeding(s)
        /\ UNCHANGED <<seeds, platformOps>>
    BY DEF MigrationStep, RowsAfter, AnySeeding
  <1>2. QED
    BY <1>1 DEF SeedsTyped

-----------------------------------------------------------------------------
(* What an undisturbed execution has behind it is there.                    *)

Furnished(s) ==
  \A i \in 1..15 : i < seeds[s].stage =>
    \A k \in 1..Len(Stages[i]) :
      rows[Stages[i][k].table] > 0 \/ Stages[i][k].table \in seeds[s].mine

RestoreInv ==
  /\ SeedsTyped
  /\ \A s \in Seeds : Seeding(s) /\ ~seeds[s].disturbed => Furnished(s)

\* Rows that stay, and an execution that keeps what it has written.
LEMMA StaysFurnished ==
  ASSUME SeedsTyped, NEW s \in Seeds, Furnished(s), seeds'[s].stage = seeds[s].stage,
         seeds[s].mine \subseteq seeds'[s].mine,
         \A t \in Tables : rows[t] > 0 => rows'[t] > 0
  PROVE  Furnished(s)'
  BY TablesSeeded DEF Furnished

LEMMA InitSeeds == Init => RestoreInv
  <1> SUFFICES ASSUME Init PROVE RestoreInv
    OBVIOUS
  <1>1. NotRunning \in Execution
    BY StartsOver
  <1>2. /\ rows = [t \in Tables |-> 0] /\ seeds = [s \in Seeds |-> NotRunning]
        /\ platformOps = 0
    BY DEF Init, SeedInit
  <1>3. NotRunning.pc = "idle"
    BY DEF NotRunning
  <1> HIDE DEF NotRunning
  <1>4. QED
    BY <1>1, <1>2, <1>3 DEF RestoreInv, SeedsTyped, Seeding

LEMMA NextRestores == RestoreInv /\ [Next]_vars => RestoreInv'
  <1> SUFFICES ASSUME RestoreInv, [Next]_vars PROVE RestoreInv'
    OBVIOUS
  <1>1. SeedsTyped /\ \A s \in Seeds : Seeding(s) /\ ~seeds[s].disturbed => Furnished(s)
    BY DEF RestoreInv
  <1>2. CASE MigrationStep
    BY <1>1, <1>2, MigrationStepIs DEF RestoreInv, Seeding
  <1>3. ASSUME NEW s \in Seeds, BeginSeed(s) PROVE RestoreInv'
    <2>1. /\ SeedsTyped' /\ seeds'[s].stage = 1
          /\ \A o \in Seeds \ {s} : seeds'[o].disturbed
      BY <1>1, <1>3, Begins
    <2>2. Furnished(s)'
      BY <2>1 DEF Furnished
    <2>3. QED
      BY <2>1, <2>2 DEF RestoreInv
  <1>4. ASSUME NEW s \in Seeds, RunStage(s) PROVE RestoreInv'
    <2>1. /\ SeedsTyped' /\ seeds[s].stage \in 1..15 /\ Done(s, Staged(s), Len(Stage(s)))
          /\ seeds'[s].stage = seeds[s].stage + 1 /\ seeds'[s].pc = seeds[s].pc
          /\ seeds'[s].mine = Staged(s).mine
          /\ seeds'[s].disturbed = seeds[s].disturbed
          /\ \A o \in Seeds \ {s} : seeds'[o] = seeds[o]
          /\ rows' = rows
      BY <1>1, <1>4, Proceeds
    <2>2. ASSUME Furnished(s) PROVE Furnished(s)'
      <3>1. ASSUME NEW i \in 1..15, i < seeds'[s].stage, NEW k \in 1..Len(Stages[i])
            PROVE  rows[Stages[i][k].table] > 0 \/ Stages[i][k].table \in seeds'[s].mine
        <4>1. CASE i < seeds[s].stage
          <5>1. rows[Stages[i][k].table] > 0 \/ Stages[i][k].table \in seeds[s].mine
            BY <2>2, <3>1, <4>1 DEF Furnished
          <5>2. seeds[s].mine \subseteq seeds'[s].mine
            BY <2>1 DEF Done
          <5>3. QED
            BY <5>1, <5>2
        <4>2. CASE i = seeds[s].stage
          <5>1. Settled(Staged(s), Stages[i][k])
            <6>1. Stage(s) = Stages[i]
              BY <4>2 DEF Stage
            <6>2. QED
              BY <2>1, <3>1, <6>1 DEF Done
          <5>2. QED
            BY <2>1, <5>1 DEF Settled
        <4>3. i < seeds[s].stage \/ i = seeds[s].stage
          <5>1. seeds[s].stage \in 1..15 /\ seeds'[s].stage = seeds[s].stage + 1
            BY <2>1
          <5>2. \A n \in 1..15 : i < n + 1 => i < n \/ i = n
            OBVIOUS
          <5>3. QED
            BY <3>1, <5>1, <5>2
        <4>4. QED
          BY <4>1, <4>2, <4>3
      <3>2. QED
        BY <2>1, <3>1 DEF Furnished
    <2>3. ASSUME NEW o \in Seeds \ {s}, Furnished(o) PROVE Furnished(o)'
      BY <1>1, <2>1, <2>3, StaysFurnished
    <2>4. QED
      BY <1>1, <2>1, <2>2, <2>3 DEF RestoreInv, Seeding
  <1>5. ASSUME NEW s \in Seeds, Abort(s) PROVE RestoreInv'
    <2>1. /\ SeedsTyped' /\ seeds'[s].pc = "failed" /\ rows' = rows
          /\ \A o \in Seeds \ {s} : seeds'[o] = seeds[o]
      BY <1>1, <1>5, Fails
    <2>2. ASSUME NEW o \in Seeds \ {s}, Furnished(o) PROVE Furnished(o)'
      BY <1>1, <2>1, <2>2, StaysFurnished
    <2>3. QED
      BY <1>1, <2>1, <2>2 DEF RestoreInv, Seeding
  <1>6. ASSUME NEW s \in Seeds, CommitSeed(s) PROVE RestoreInv'
    <2>1. /\ SeedsTyped' /\ seeds'[s].pc = "done"
          /\ \A o \in Seeds \ {s} : seeds'[o] = seeds[o]
          /\ \A t \in Tables :
               rows'[t] = IF t \in seeds[s].mine /\ rows[t] < 2 THEN rows[t] + 1 ELSE rows[t]
      BY <1>1, <1>6, Commits
    <2>2. \A t \in Tables : rows[t] > 0 => rows'[t] > 0
      BY <1>1, <2>1 DEF SeedsTyped
    <2>3. ASSUME NEW o \in Seeds \ {s}, Furnished(o) PROVE Furnished(o)'
      BY <1>1, <2>1, <2>2, <2>3, StaysFurnished
    <2>4. QED
      BY <1>1, <2>1, <2>3 DEF RestoreInv, Seeding
  <1>7. ASSUME NEW s \in Seeds, InsertWaits(s) \/ InsertGoesOn(s) PROVE RestoreInv'
    <2>1. /\ SeedsTyped' /\ Kept(s) /\ seeds'[s].disturbed = seeds[s].disturbed
          /\ rows' = rows
          /\ \A o \in Seeds \ {s} : seeds'[o] = seeds[o]
      BY <1>1, <1>7, Waits
    <2>2. ASSUME NEW o \in Seeds, Furnished(o) PROVE Furnished(o)'
      BY <1>1, <2>1, <2>2, StaysFurnished DEF Kept
    <2>3. QED
      BY <1>1, <2>1, <2>2 DEF RestoreInv, Seeding, Kept
  <1>8. ASSUME PlatformStep, rows' \in [Tables -> Nat] PROVE RestoreInv'
    <2>1. /\ SeedsTyped'
          /\ \A s \in Seeds : Kept(s) /\ (Seeding(s) => seeds'[s].disturbed)
      BY <1>1, <1>8, PlatformActs
    <2>2. QED
      BY <2>1 DEF RestoreInv, Seeding, Kept
  <1>9. CASE SeedStep
    BY <1>1, <1>3, <1>4, <1>5, <1>6, <1>7, <1>8, <1>9, SeedStepIs
  <1>10. CASE UNCHANGED vars
    BY <1>1, <1>10 DEF RestoreInv, SeedsTyped, Seeding, Furnished, vars, seedVars, migrationVars
  <1>11. QED
    BY <1>2, <1>9, <1>10 DEF Next

\* An execution that nobody disturbs leaves rows of every class behind: they
\* were there, or it has written them, when the last stage was over (seed.py:1224).
THEOREM QuietRestores == Spec => QuietSeedsRestore
  <1> DEFINE Restored == \A s \in Seeds :
               Seeding(s) /\ ~seeds[s].disturbed /\ seeds'[s].pc = "done" =>
                 \A t \in Tables : rows'[t] > 0
  <1>1. RestoreInv /\ [Next]_vars => [Restored]_<<db, rows, seeds>>
    <2> SUFFICES ASSUME RestoreInv, [Next]_vars, NEW s \in Seeds, Seeding(s),
                        ~seeds[s].disturbed, seeds'[s].pc = "done"
                 PROVE  \A t \in Tables : rows'[t] > 0
      OBVIOUS
    <2>1. SeedsTyped /\ Furnished(s)
      BY DEF RestoreInv
    <2>2. CASE CommitSeed(s)
      <3>1. /\ seeds[s].stage > 15
            /\ \A t \in Tables :
                 rows'[t] = IF t \in seeds[s].mine /\ rows[t] < 2 THEN rows[t] + 1 ELSE rows[t]
        BY <2>1, <2>2, Commits
      <3>2. \A t \in Tables : rows[t] > 0 \/ t \in seeds[s].mine
        <4>1. \A i \in 1..15 : i < seeds[s].stage
          BY <2>1, <3>1 DEF SeedsTyped, Execution
        <4>2. TAKE t \in Tables
        <4>3. PICK i \in 1..15 : \E k \in 1..Len(Stages[i]) : t = Stages[i][k].table
          BY TablesSeeded
        <4>4. QED
          BY <2>1, <4>1, <4>3 DEF Furnished
      <3>3. QED
        BY <2>1, <3>1, <3>2 DEF SeedsTyped
    <2>3. CASE ~CommitSeed(s)
      <3>1. ~SeedStep
        <4> SUFFICES ASSUME SeedStep PROVE FALSE
          OBVIOUS
        <4>1. ASSUME NEW o \in Seeds, BeginSeed(o) PROVE FALSE
          <5>1. o # s
            BY <4>1 DEF BeginSeed, Seeding
          <5>2. QED
            BY <2>1, <4>1, <5>1, Begins DEF Kept, Seeding
        <4>2. ASSUME NEW o \in Seeds, RunStage(o) PROVE FALSE
          BY <2>1, <4>2, Proceeds DEF Seeding
        <4>3. ASSUME NEW o \in Seeds, Abort(o) PROVE FALSE
          BY <2>1, <4>3, Fails DEF Seeding
        <4>4. ASSUME NEW o \in Seeds, CommitSeed(o) PROVE FALSE
          BY <2>1, <2>3, <4>4, Commits DEF Seeding
        <4>5. ASSUME NEW o \in Seeds, InsertWaits(o) \/ InsertGoesOn(o) PROVE FALSE
          BY <2>1, <4>5, Waits DEF Seeding, Kept
        <4>6. ASSUME PlatformStep, rows' \in [Tables -> Nat] PROVE FALSE
          BY <2>1, <4>6, PlatformActs DEF Seeding, Kept
        <4>7. QED
          BY <2>1, <4>1, <4>2, <4>3, <4>4, <4>5, <4>6, SeedStepIs
      <3>2. ~MigrationStep
        BY <2>1, MigrationStepIs DEF Seeding
      <3>3. UNCHANGED seeds
        BY <3>1, <3>2 DEF Next, vars, seedVars
      <3>4. QED
        BY <3>3 DEF Seeding
    <2>4. QED
      BY <2>2, <2>3
  <1>2. QED
    BY InitSeeds, NextRestores, <1>1, PTL DEF Spec, QuietSeedsRestore

-----------------------------------------------------------------------------
(* The tables of the first stages stay.                                     *)

\* Only one run has written anything, and what it has written keeps the tables
\* of the first stages where the committed database has them.
KeepInv ==
  /\ \A r, o \in Runners :
       Running(r) /\ runs[r].wrote /\ Running(o) /\ runs[o].wrote => r = o
  /\ \A r \in Runners :
       Running(r) /\ runs[r].wrote /\ Setup \subseteq Names(db) =>
         Setup \subseteq Names(runs[r].work)

LEMMA SetupSurvives ==
  ASSUME MigrationsInv, NEW r \in Runners, RunRevision(r), Setup \subseteq Names(Seen(r))
  PROVE  Setup \subseteq Names(Migrated(r).db)
  <1>0. LastRevision \in Nat
    BY RevisionsAssumption
  <1> DEFINE at == runs[r].at
             ops == Statements(r)
  <1>1. /\ Running(r) /\ at # runs[r].goal /\ Execute(Seen(r), ops).ok
        /\ Seen(r).version = at
        /\ Migrated(r).db = [Execute(Seen(r), ops).db EXCEPT !.version = NextAt(r)]
    BY DEF RunRevision, Migrated, Matches
  <1>2. /\ IsAt(Seen(r), at) /\ runs[r].goal \in 0..LastRevision /\ at \in 0..LastRevision
    BY <1>1, SeenIsAt
  <1>3. PICK b \in Untouched(at) : Resembles(Seen(r), b)
    BY <1>2 DEF IsAt, Extends
  <1>4. IsDatabase(Seen(r)) /\ IsDatabase(b) /\ Setup \subseteq Names(b)
    BY <1>2, <1>3, UntouchedDatabases DEF IsAt, Resembles, Names
  <1>5. Operational(ops) /\ Execute(b, ops).ok /\ Setup \subseteq Names(Execute(b, ops).db)
    <2>1. CASE Upwards(r)
      <3>1. at + 1 \in 1..LastRevision /\ (at + 1) - 1 = at /\ ops = Revisions[at + 1].up
        BY <1>0, <1>2, <2>1 DEF Upwards, Statements
      <3> HIDE DEF at, ops
      <3>2. QED
        BY <1>3, <1>4, <3>1, RevisionsAssumption, UpgradesAssumption, SetupAssumption
    <2>2. CASE ~Upwards(r)
      <3>1. at \in 1..LastRevision /\ ops = Revisions[at].down
        BY <1>0, <1>1, <1>2, <2>2 DEF Upwards, Statements
      <3> HIDE DEF at, ops
      <3>2. Operational(ops) /\ AddsNoValue(ops)
        BY <3>1, RevisionsAssumption
      <3>3. Execute(b, ops).ok
        BY <1>1, <1>3, <1>4, <3>2, ExecutionsAlike
      <3>4. QED
        BY <1>3, <1>4, <3>1, <3>2, <3>3, SetupAssumption
    <2>3. QED
      BY <2>1, <2>2
  <1> HIDE DEF at, ops
  <1>6. Resembles(Execute(Seen(r), ops).db, Execute(b, ops).db)
    BY <1>1, <1>3, <1>4, <1>5, ExecutionsAlike
  <1>7. IsDatabase(Execute(Seen(r), ops).db)
    BY <1>4, <1>5, ExecuteDatabase
  <1> DEFINE e == Execute(Seen(r), ops).db
  <1> HIDE DEF e
  <1>8. [e EXCEPT !.version = NextAt(r)].tables = e.tables
    BY <1>7, Versioned DEF e
  <1>9. QED
    BY <1>1, <1>5, <1>6, <1>8 DEF Names, Resembles, e

\* What a run has after a revision.
LEMMA RunAdvances ==
  ASSUME MigrationsInv, NEW r \in Runners, RunRevision(r)
  PROVE  /\ runs'[r].pc = runs[r].pc /\ runs'[r].wrote /\ runs'[r].work = Migrated(r).db
         /\ \A o \in Runners \ {r} : runs'[o] = runs[o]
         /\ \A o \in Runners \ {r} : ~(Running(o) /\ runs[o].wrote)
  <1> DEFINE w == Migrated(r).db
             n == NextAt(r)
             yes == TRUE
             y == runs[r]
             x == [y EXCEPT !.at = n, !.wrote = yes, !.work = w]
  <1>1. runs' = [runs EXCEPT ![r] = x] /\ ~Locked(r)
    BY DEF RunRevision
  <1>2. /\ y = [pc |-> y.pc, goal |-> y.goal, at |-> y.at, wrote |-> y.wrote, work |-> y.work]
        /\ runs = [o \in Runners |-> runs[o]]
    BY DEF MigrationsInv, IsRun
  <1>3. x = [pc |-> y.pc, goal |-> y.goal, at |-> n, wrote |-> yes, work |-> w]
    <2>1. x = [y EXCEPT !.at = n, !.wrote = yes, !.work = w]
      OBVIOUS
    <2> HIDE DEF w, n, yes, y, x
    <2>2. QED
      BY <1>2, <2>1, RunWritten
  <1> HIDE DEF w, n, yes, x
  <1>4. x.pc = y.pc /\ x.wrote = yes /\ x.work = w
    BY <1>3
  <1>5. runs'[r] = x /\ \A o \in Runners \ {r} : runs'[o] = runs[o]
    BY <1>1, <1>2
  <1>6. \A o \in Runners \ {r} : ~(Running(o) /\ runs[o].wrote)
    BY <1>1 DEF Locked
  <1>7. QED
    BY <1>4, <1>5, <1>6 DEF w, yes

\* Runs that begin or end have written nothing.
LEMMA RunResets ==
  ASSUME MigrationsInv, NEW r \in Runners,
         \/ \E g \in Goals : BeginRun(r, g)
         \/ RevisionRefused(r) \/ CommitRun(r) \/ ConnectionLost(r)
  PROVE  /\ ~(Running(r)' /\ runs'[r].wrote)
         /\ \A o \in Runners \ {r} : runs'[o] = runs[o]
         /\ db' = db \/ (Running(r) /\ runs[r].wrote /\ db' = runs[r].work)
  <1>1. runs = [o \in Runners |-> runs[o]]
    BY DEF MigrationsInv
  <1>2. ASSUME NEW g \in Goals, BeginRun(r, g)
        PROVE  ~runs'[r].wrote /\ db' = db /\ \A o \in Runners \ {r} : runs'[o] = runs[o]
    BY <1>1, <1>2 DEF BeginRun, Idle
  <1>3. CASE RevisionRefused(r) \/ CommitRun(r) \/ ConnectionLost(r)
    <2>1. runs' = [runs EXCEPT ![r] = Idle] /\ Idle.pc = "idle"
      BY <1>3, IdleRuns DEF RevisionRefused, CommitRun, ConnectionLost
    <2>2. runs'[r].pc = "idle" /\ \A o \in Runners \ {r} : runs'[o] = runs[o]
      BY <1>1, <2>1
    <2>3. db' = db \/ (Running(r) /\ runs[r].wrote /\ db' = runs[r].work)
      BY <1>3 DEF RevisionRefused, CommitRun, ConnectionLost, Seen
    <2>4. QED
      BY <2>2, <2>3 DEF Running
  <1>4. QED
    BY <1>2, <1>3

LEMMA NextKeeps ==
  ASSUME MigrationsInv, KeepInv, [MigrationNext]_migrationVars
  PROVE  /\ KeepInv'
         /\ Setup \subseteq Names(db) => Setup \subseteq Names(db')
  <1>1. ASSUME NEW r \in Runners, RunRevision(r)
        PROVE  KeepInv' /\ db' = db
    <2>1. /\ Running(r) /\ db' = db
          /\ Setup \subseteq Names(Seen(r)) => Setup \subseteq Names(Migrated(r).db)
      BY <1>1, SetupSurvives DEF RunRevision
    <2>2. Setup \subseteq Names(db) => Setup \subseteq Names(Seen(r))
      BY <2>1 DEF KeepInv, Seen
    <2>3. QED
      BY <1>1, <2>1, <2>2, RunAdvances DEF KeepInv, Running
  <1>2. ASSUME NEW r \in Runners,
               \/ \E g \in Goals : BeginRun(r, g)
               \/ RevisionRefused(r) \/ CommitRun(r) \/ ConnectionLost(r)
        PROVE  KeepInv' /\ (Setup \subseteq Names(db) => Setup \subseteq Names(db'))
    <2>1. /\ ~(Running(r)' /\ runs'[r].wrote)
          /\ \A o \in Runners \ {r} : runs'[o] = runs[o]
          /\ db' = db \/ (Running(r) /\ runs[r].wrote /\ db' = runs[r].work)
      BY <1>2, RunResets
    <2>2. CASE db' = db
      BY <2>1, <2>2 DEF KeepInv, Running
    <2>3. CASE Running(r) /\ runs[r].wrote /\ db' = runs[r].work
      BY <2>1, <2>3 DEF KeepInv, Running
    <2>4. QED
      BY <2>1, <2>2, <2>3
  <1>3. CASE UNCHANGED migrationVars
    BY <1>3 DEF KeepInv, Running, migrationVars
  <1>4. QED
    BY <1>1, <1>2, <1>3 DEF MigrationNext

-----------------------------------------------------------------------------
(* Executions beside each other: the tenant's slug and the companies' rows  *)
(* let only one through.                                                    *)

\* What an execution has found or created once its first stages are over.
PastTenant(s) ==
  seeds[s].stage > 1 =>
    /\ "menu_configs" \in Names(db)
    /\ rows["tenants"] > 0 \/ "tenants" \in seeds[s].mine
    /\ rows["menu_configs"] > 0 \/ "menu_configs" \in seeds[s].mine

PastCompanies(s) ==
  seeds[s].stage > 2 =>
    /\ "companies" \in Names(db)
    /\ rows["companies"] > 0 \/ "companies" \in seeds[s].mine
    /\ rows["tenants"] > 0 => "companies" \in seeds[s].holds

\* What it has written is written by nobody else, and little at first.
WritesAnew(s) ==
  /\ \A t \in seeds[s].mine : rows[t] = 0
  /\ seeds[s].stage = 1 => seeds[s].mine = {}
  /\ seeds[s].stage = 2 => seeds[s].mine \subseteq {"tenants", "menu_configs"}

Setting(s) == PastTenant(s) /\ PastCompanies(s) /\ WritesAnew(s)

\* At most one execution is past the n-th stage.
OneInside(n) ==
  \A s, o \in Seeds :
    Seeding(s) /\ Seeding(o) /\ seeds[s].stage > n /\ seeds[o].stage > n => s = o

\* The tenant is there only with the rest of the first stages.
TenantSettled ==
  rows["tenants"] > 0 =>
    rows["menu_configs"] > 0 /\ rows["companies"] > 0 /\ Setup \subseteq Names(db)

\* As long as no user has made or deleted rows.
OnceInv ==
  platformOps = 0 =>
    /\ \A t \in Tables : rows[t] <= 1
    /\ \A s \in Seeds : Seeding(s) => Setting(s)
    /\ OneInside(2)
    /\ rows["tenants"] = 0 => OneInside(1)
    /\ TenantSettled

LEMMA SetupTables == {"tenants", "menu_configs", "companies"} \subseteq Tables
  <1>1. /\ 1 \in 1..15 /\ 2 \in 1..15 /\ 1 \in 1..2 /\ 2 \in 1..2 /\ 1 \in 1..1
    OBVIOUS
  <1>2. QED
    BY <1>1, FirstStages, TablesSeeded

\* The index on the tenants' slugs.
LEMMA SlugUnique ==
  ASSUME MigrationsInv, "tenants" \in Names(db)
  PROVE  Unique(Stages[1][1])
  <1>1. PICK b \in Untouched(db.version) : Resembles(db, b)
    BY DEF MigrationsInv, IsAt, Extends
  <1>2. db.version \in 0..LastRevision /\ b.tables = db.tables
    BY <1>1 DEF MigrationsInv, IsAt, Resembles
  <1>3. {"slug"} \in TableOf(b, "tenants").unique
    BY <1>1, <1>2, SlugAssumption DEF Names
  <1>4. TableOf(b, "tenants") = TableOf(db, "tenants")
    BY <1>2 DEF TableOf
  <1>5. QED
    BY <1>3, <1>4, FirstStages DEF Unique

\* Nobody gets into the script behind an execution that has created the tenant.
LEMMA SlugCollides ==
  ASSUME MigrationsInv, NEW s \in Seeds, RunStage(s), seeds[s].stage = 1,
         "tenants" \in Names(db), rows["tenants"] = 0,
         NEW o \in Seeds, Seeding(o), "tenants" \in seeds[o].mine
  PROVE  s = o
  <1> SUFFICES ASSUME s # o PROVE FALSE
    OBVIOUS
  <1>1. o \in Others(s) /\ Colliding(s) = {}
    BY DEF Others, RunStage
  <1> DEFINE c == Stages[1][1]
  <1>2. c \in ToSet(Stage(s)) /\ c.table = "tenants"
    <2>1. Stage(s) = Stages[1] /\ Len(Stages[1]) = 2 /\ 1 \in 1..2 /\ 1 \in 1..15
      BY FirstStages DEF Stage
    <2>2. ToSet(Stages[1]) = {Stages[1][k] : k \in 1..Len(Stages[1])}
      BY DEF Stages, SeedTenant, ToSet
    <2>3. QED
      BY <2>1, <2>2, FirstStages
  <1>3. Unique(c)
    BY SlugUnique
  <1> HIDE DEF c
  <1>4. o \in Colliding(s)
    BY <1>1, <1>2, <1>3 DEF Colliding
  <1>5. QED
    BY <1>1, <1>4

\* Nobody gets past the companies behind an execution that has updated them.
LEMMA CompanyBlocks ==
  ASSUME NEW s \in Seeds, RunStage(s), seeds[s].stage = 2, rows["companies"] > 0,
         NEW o \in Seeds, Seeding(o), "companies" \in seeds[o].holds
  PROVE  s = o
  <1> SUFFICES ASSUME s # o PROVE FALSE
    OBVIOUS
  <1>1. o \in Others(s) /\ ~UpdateWaits(s)
    BY DEF Others, RunStage, MayRun
  <1> DEFINE c == Stages[2][1]
  <1>2. c \in ToSet(Stage(s)) /\ c.table = "companies" /\ c.found = "rewritten"
    <2>1. Stage(s) = Stages[2] /\ Len(Stages[2]) = 1 /\ 1 \in 1..1
      BY FirstStages DEF Stage
    <2>2. ToSet(Stages[2]) = {Stages[2][k] : k \in 1..Len(Stages[2])}
      BY DEF Stages, SeedCompanies, ToSet
    <2>3. QED
      BY <2>1, <2>2, FirstStages
  <1> HIDE DEF c
  <1>3. QED
    BY <1>1, <1>2 DEF UpdateWaits, Rewrites

\* The stage that is executed finds or creates what Setting says of it.
LEMMA StageSets ==
  ASSUME SeedsTyped, OnceInv, platformOps = 0, NEW s \in Seeds, RunStage(s), Seeding(s),
         UNCHANGED db
  PROVE  Setting(s)'
  <1>1. /\ seeds[s].stage \in 1..15 /\ Done(s, Staged(s), Len(Stage(s)))
        /\ seeds'[s].stage = seeds[s].stage + 1
        /\ seeds'[s].mine = Staged(s).mine /\ seeds'[s].holds = Staged(s).holds
        /\ rows' = rows
    BY Proceeds
  <1>2. Setting(s) /\ TenantSettled
    BY DEF OnceInv
  <1>3. /\ seeds[s].mine \subseteq seeds'[s].mine /\ seeds[s].holds \subseteq seeds'[s].holds
        /\ \A k \in 1..Len(Stage(s)) : Settled(Staged(s), Stage(s)[k])
        /\ \A x \in seeds'[s].mine :
             \/ x \in seeds[s].mine
             \/ rows[x] = 0 /\ \E k \in 1..Len(Stage(s)) : x = Stage(s)[k].table
    BY <1>1 DEF Done
  <1>4. CASE seeds[s].stage = 1
    <2>1. Stage(s) = Stages[1] /\ seeds'[s].stage = 2 /\ 1 \in 1..2 /\ 2 \in 1..2
      BY <1>1, <1>4 DEF Stage
    <2>2. Settled(Staged(s), Stages[1][1]) /\ Settled(Staged(s), Stages[1][2])
      BY <1>3, <2>1, FirstStages
    <2>3. PastTenant(s)'
      BY <1>1, <2>2, FirstStages DEF PastTenant, Settled, Selectable
    <2>4. seeds'[s].mine \subseteq {"tenants", "menu_configs"}
      <3>1. ASSUME NEW k \in 1..Len(Stage(s))
            PROVE  Stage(s)[k].table \in {"tenants", "menu_configs"}
        <4>1. k = 1 \/ k = 2
          BY <2>1, FirstStages
        <4>2. QED
          BY <2>1, <4>1, FirstStages
      <3>2. seeds[s].mine = {}
        BY <1>2, <1>4 DEF Setting, WritesAnew
      <3>3. QED
        BY <1>3, <3>1, <3>2
    <2>5. WritesAnew(s)'
      BY <1>1, <1>2, <1>3, <2>1, <2>4 DEF WritesAnew, Setting
    <2>6. PastCompanies(s)'
      BY <2>1 DEF PastCompanies
    <2>7. QED
      BY <2>3, <2>5, <2>6 DEF Setting
  <1>5. CASE seeds[s].stage > 1
    <2>1. PastTenant(s)'
      BY <1>1, <1>2, <1>3, <1>5 DEF Setting, PastTenant
    <2>2. PastCompanies(s)'
      <3>1. CASE seeds[s].stage = 2
        <4>1. Stage(s) = Stages[2] /\ 1 \in 1..1
          BY <3>1 DEF Stage
        <4>2. Settled(Staged(s), Stages[2][1])
          BY <1>3, <4>1, FirstStages
        <4>3. rows["tenants"] > 0 => rows["companies"] > 0
          BY <1>2 DEF TenantSettled
        <4>4. QED
          BY <1>1, <4>2, <4>3, FirstStages DEF PastCompanies, Settled, Selectable
      <3>2. CASE seeds[s].stage > 2
        BY <1>1, <1>2, <1>3, <3>2 DEF Setting, PastCompanies
      <3>3. QED
        BY <1>1, <1>5, <3>1, <3>2
    <2>3. WritesAnew(s)'
      <3>1. seeds'[s].stage # 1 /\ seeds'[s].stage # 2
        <4>1. seeds[s].stage \in 1..15 /\ seeds'[s].stage = seeds[s].stage + 1
          BY <1>1
        <4>2. QED
          BY <1>5, <4>1
      <3>2. \A x \in seeds'[s].mine : rows'[x] = 0
        BY <1>1, <1>2, <1>3 DEF Setting, WritesAnew
      <3>3. QED
        BY <3>1, <3>2 DEF WritesAnew
    <2>4. QED
      BY <2>1, <2>2, <2>3 DEF Setting
  <1>6. QED
    BY <1>1, <1>4, <1>5

\* An execution keeps its setting where no row has come or gone.
LEMMA SettingKept ==
  ASSUME NEW s \in Seeds, Setting(s), seeds'[s].stage = seeds[s].stage,
         seeds'[s].mine = seeds[s].mine, seeds'[s].holds = seeds[s].holds,
         UNCHANGED <<db, rows>>
  PROVE  Setting(s)'
  BY DEF Setting, PastTenant, PastCompanies, WritesAnew

LEMMA RunOnce ==
  ASSUME SeedsTyped, MigrationsInv, OnceInv, NEW s \in Seeds, RunStage(s), UNCHANGED db
  PROVE  OnceInv'
  <1>1. /\ seeds[s].stage \in 1..15
        /\ seeds'[s].stage = seeds[s].stage + 1 /\ seeds'[s].pc = seeds[s].pc
        /\ \A o \in Seeds \ {s} : seeds'[o] = seeds[o]
        /\ UNCHANGED <<rows, platformOps>> /\ Seeding(s)
    BY Proceeds DEF RunStage, MayRun
  <1> SUFFICES ASSUME platformOps = 0
               PROVE  /\ \A t \in Tables : rows[t] <= 1
                      /\ \A o \in Seeds : Seeding(o)' => Setting(o)'
                      /\ OneInside(2)'
                      /\ rows["tenants"] = 0 => OneInside(1)'
                      /\ TenantSettled
    BY <1>1 DEF OnceInv, TenantSettled
  <1>2. /\ \A t \in Tables : rows[t] <= 1
        /\ \A o \in Seeds : Seeding(o) => Setting(o)
        /\ OneInside(2) /\ (rows["tenants"] = 0 => OneInside(1)) /\ TenantSettled
    BY DEF OnceInv
  <1>3. \A o \in Seeds : Seeding(o)' => Setting(o)'
    <2>1. Setting(s)'
      BY <1>1, StageSets
    <2>2. ASSUME NEW o \in Seeds \ {s}, Seeding(o)' PROVE Setting(o)'
      <3>1. Setting(o)
        BY <1>1, <1>2, <2>2 DEF Seeding
      <3>2. QED
        BY <1>1, <3>1, SettingKept
    <2>3. QED
      BY <2>1, <2>2
  <1>4. rows["tenants"] \in Nat
    BY SetupTables DEF SeedsTyped
  <1>5. ASSUME rows["tenants"] = 0, NEW o \in Seeds, Seeding(o), seeds[o].stage > 1
        PROVE  s = o
    <2>1. CASE seeds[s].stage = 1
      <3>1. "tenants" \in seeds[o].mine
        BY <1>2, <1>5 DEF Setting, PastTenant
      <3>2. "tenants" \in Names(db)
        <4>1. Stage(s) = Stages[1] /\ 1 \in 1..2
          BY <2>1 DEF Stage
        <4>2. Settled(Staged(s), Stages[1][1])
          BY <4>1, Proceeds, FirstStages DEF Done
        <4>3. QED
          BY <4>2, FirstStages DEF Settled, Selectable
      <3>3. QED
        BY <1>5, <2>1, <3>1, <3>2, SlugCollides
    <2>2. CASE seeds[s].stage # 1
      BY <1>1, <1>2, <1>5, <2>2 DEF OneInside
    <2>3. QED
      BY <2>1, <2>2
  <1>6. ASSUME NEW o \in Seeds, Seeding(o), seeds[o].stage > 2, seeds[s].stage > 1
        PROVE  s = o
    <2>1. CASE rows["tenants"] = 0
      BY <1>5, <1>6, <2>1 DEF SeedsTyped, Execution
    <2>2. CASE rows["tenants"] > 0 /\ seeds[s].stage = 2
      <3>1. rows["companies"] > 0 /\ "companies" \in seeds[o].holds
        BY <1>2, <1>6, <2>2 DEF TenantSettled, Setting, PastCompanies
      <3>2. QED
        BY <1>6, <2>2, <3>1, CompanyBlocks
    <2>3. CASE seeds[s].stage > 2
      BY <1>1, <1>2, <1>6, <2>3 DEF OneInside
    <2>4. QED
      BY <1>1, <1>4, <1>6, <2>1, <2>2, <2>3
  <1>7. OneInside(2)'
    <2> SUFFICES ASSUME NEW p \in Seeds, NEW o \in Seeds, Seeding(p)', Seeding(o)',
                        seeds'[p].stage > 2, seeds'[o].stage > 2
                 PROVE  p = o
      BY DEF OneInside
    <2>1. /\ Seeding(p) /\ Seeding(o)
          /\ p # s => seeds[p].stage > 2
          /\ o # s => seeds[o].stage > 2
          /\ p = s \/ o = s => seeds[s].stage > 1
      BY <1>1 DEF Seeding
    <2>2. QED
      BY <1>2, <1>6, <2>1 DEF OneInside
  <1>8. ASSUME rows["tenants"] = 0 PROVE OneInside(1)'
    <2> SUFFICES ASSUME NEW p \in Seeds, NEW o \in Seeds, Seeding(p)', Seeding(o)',
                        seeds'[p].stage > 1, seeds'[o].stage > 1
                 PROVE  p = o
      BY DEF OneInside
    <2>1. /\ Seeding(p) /\ Seeding(o)
          /\ p # s => seeds[p].stage > 1
          /\ o # s => seeds[o].stage > 1
      BY <1>1 DEF Seeding
    <2>2. QED
      BY <1>2, <1>5, <1>8, <2>1 DEF OneInside
  <1>9. QED
    BY <1>2, <1>3, <1>7, <1>8

LEMMA CommitOnce ==
  ASSUME SeedsTyped, OnceInv, NEW s \in Seeds, CommitSeed(s), UNCHANGED db
  PROVE  OnceInv'
  <1>1. /\ seeds'[s].pc = "done" /\ seeds[s].stage > 15
        /\ \A o \in Seeds \ {s} : seeds'[o] = seeds[o]
        /\ \A t \in Tables :
             rows'[t] = IF t \in seeds[s].mine /\ rows[t] < 2 THEN rows[t] + 1 ELSE rows[t]
        /\ UNCHANGED platformOps /\ Seeding(s)
    BY Commits DEF CommitSeed
  <1>2. CASE platformOps # 0
    BY <1>1, <1>2 DEF OnceInv
  <1>3. CASE platformOps = 0
    <2>1. /\ \A t \in Tables : rows[t] <= 1
          /\ \A o \in Seeds : Seeding(o) => Setting(o)
          /\ OneInside(2) /\ (rows["tenants"] = 0 => OneInside(1)) /\ TenantSettled
      BY <1>3 DEF OnceInv
    <2>2. /\ \A t \in Tables : rows[t] \in Nat
          /\ \A o \in Seeds : seeds[o].stage \in Nat \ {0}
      BY DEF SeedsTyped, Execution
    <2>3. Setting(s) /\ seeds[s].stage > 2 /\ seeds[s].stage > 1
      BY <1>1, <2>1, <2>2
    <2>4. \A t \in Tables : rows'[t] <= 1
      BY <1>1, <2>1, <2>2, <2>3 DEF Setting, WritesAnew
    <2>5. /\ rows'["tenants"] > 0 /\ rows'["menu_configs"] > 0 /\ rows'["companies"] > 0
          /\ Setup \subseteq Names(db)
      BY <1>1, <2>2, <2>3, SetupTables DEF Setting, PastTenant, PastCompanies, Setup
    <2>6. \A o \in Seeds : Seeding(o)' => o # s /\ Seeding(o) /\ seeds'[o] = seeds[o]
      BY <1>1 DEF Seeding
    <2>7. ASSUME NEW o \in Seeds, Seeding(o)' PROVE Setting(o)'
      <3>1. o # s /\ Seeding(o) /\ seeds'[o] = seeds[o] /\ Setting(o)
        BY <2>1, <2>6, <2>7
      <3>2. ~(seeds[o].stage > 2)
        BY <1>1, <2>1, <2>3, <3>1 DEF OneInside
      <3>3. CASE seeds[o].stage = 1
        BY <3>1, <3>3 DEF Setting, PastTenant, PastCompanies, WritesAnew
      <3>4. CASE seeds[o].stage = 2
        <4>1. rows["tenants"] > 0 /\ rows["menu_configs"] > 0
          <5>1. rows["tenants"] # 0
            BY <1>1, <2>1, <2>3, <3>1, <3>4 DEF OneInside
          <5>2. QED
            BY <2>1, <2>2, <5>1, SetupTables DEF TenantSettled
        <4>2. seeds[o].mine = {}
          BY <3>1, <3>4, <4>1 DEF Setting, WritesAnew
        <4>3. QED
          BY <2>5, <3>1, <3>4, <4>2 DEF Setting, PastTenant, PastCompanies, WritesAnew
      <3>5. QED
        BY <2>2, <3>2, <3>3, <3>4
    <2>8. OneInside(2)'
      BY <2>1, <2>6 DEF OneInside
    <2>9. QED
      BY <2>4, <2>5, <2>7, <2>8 DEF OnceInv, TenantSettled
  <1>4. QED
    BY <1>2, <1>3

\* The invariants of the script beside others, together.
SeedInv == RestoreInv /\ MigrationsInv /\ KeepInv /\ OnceInv

LEMMA InitOnce == Init => KeepInv /\ OnceInv
  <1> SUFFICES ASSUME Init PROVE KeepInv /\ OnceInv
    OBVIOUS
  <1>1. /\ rows = [t \in Tables |-> 0] /\ seeds = [s \in Seeds |-> NotRunning]
        /\ runs = [r \in Runners |-> Idle]
    BY DEF Init, SeedInit, MigrationInit
  <1>2. \A s \in Seeds : ~Seeding(s)
    BY <1>1 DEF Seeding, NotRunning
  <1>3. \A r \in Runners : ~Running(r)
    BY <1>1, IdleRuns DEF Running
  <1>4. \A t \in Tables : rows[t] = 0
    BY <1>1
  <1> HIDE DEF Idle, NotRunning
  <1>5. QED
    BY <1>2, <1>3, <1>4, SetupTables DEF KeepInv, OnceInv, OneInside, TenantSettled

LEMMA SeedOnce ==
  ASSUME SeedsTyped, MigrationsInv, OnceInv, SeedStep
  PROVE  OnceInv'
  <1>1. UNCHANGED db
    BY DEF SeedStep, migrationVars
  <1>2. ASSUME NEW s \in Seeds,
               BeginSeed(s) \/ Abort(s) \/ InsertWaits(s) \/ InsertGoesOn(s)
        PROVE  OnceInv'
    <2>1. /\ UNCHANGED <<rows, platformOps>>
          /\ \A o \in Seeds \ {s} : Kept(o)
          /\ \/ seeds'[s].stage = 1 /\ seeds'[s].mine = {}
             \/ seeds'[s].pc = "failed"
             \/ Kept(s)
      BY <1>2, Begins, Fails, Waits DEF Kept
    <2> SUFFICES ASSUME platformOps = 0 PROVE OnceInv'
      BY <2>1 DEF OnceInv
    <2>2. ASSUME NEW o \in Seeds, Seeding(o)' PROVE Setting(o)'
      <3>1. CASE Kept(o)
        <4>1. Setting(o)
          BY <2>2, <3>1 DEF OnceInv, Seeding, Kept
        <4>2. QED
          BY <1>1, <2>1, <3>1, <4>1, SettingKept DEF Kept
      <3>2. CASE seeds'[o].stage = 1 /\ seeds'[o].mine = {}
        BY <3>2 DEF Setting, PastTenant, PastCompanies, WritesAnew
      <3>3. QED
        BY <2>1, <2>2, <3>1, <3>2 DEF Seeding
    <2>3. ASSUME NEW n \in 1..2, OneInside(n) PROVE OneInside(n)'
      <3>1. ASSUME NEW o \in Seeds, Seeding(o)', seeds'[o].stage > n
            PROVE  Seeding(o) /\ seeds[o].stage > n
        BY <2>1, <3>1 DEF Seeding, Kept
      <3>2. QED
        BY <2>3, <3>1 DEF OneInside
    <2>4. QED
      BY <1>1, <2>1, <2>2, <2>3 DEF OnceInv, TenantSettled
  <1>3. ASSUME PlatformStep, rows' \in [Tables -> Nat] PROVE OnceInv'
    BY <1>3, PlatformActs DEF OnceInv
  <1>4. QED
    BY <1>1, <1>2, <1>3, RunOnce, CommitOnce, SeedStepIs

LEMMA NextOnce == SeedInv /\ [Next]_vars => SeedInv'
  <1> SUFFICES ASSUME SeedInv, [Next]_vars PROVE SeedInv'
    OBVIOUS
  <1>1. RestoreInv /\ MigrationsInv /\ KeepInv /\ OnceInv /\ SeedsTyped
    BY DEF SeedInv, RestoreInv
  <1>2. [MigrationNext]_migrationVars
    BY DEF Next, MigrationStep, SeedStep, vars
  <1>3. RestoreInv' /\ MigrationsInv' /\ KeepInv'
    BY <1>1, <1>2, NextRestores, NextMigrates, NextKeeps
  <1>4. ASSUME MigrationStep PROVE OnceInv'
    <2>1. /\ \A s \in Seeds : ~Seeding(s)'
          /\ \A t \in Tables : rows'[t] = IF t \in Names(db') THEN rows[t] ELSE 0
          /\ UNCHANGED platformOps
      BY <1>1, <1>4, MigrationStepIs DEF Seeding
    <2>2. Setup \subseteq Names(db) => Setup \subseteq Names(db')
      BY <1>1, <1>2, NextKeeps
    <2> SUFFICES ASSUME platformOps = 0 PROVE OnceInv'
      BY <2>1 DEF OnceInv
    <2>3. \A t \in Tables : rows'[t] <= 1
      BY <1>1, <2>1 DEF OnceInv
    <2>4. TenantSettled'
      BY <1>1, <2>1, <2>2, SetupTables DEF OnceInv, TenantSettled, Setup
    <2>5. QED
      BY <2>1, <2>3, <2>4 DEF OnceInv, OneInside
  <1>5. ASSUME SeedStep PROVE OnceInv'
    BY <1>1, <1>5, SeedOnce
  <1>6. ASSUME UNCHANGED vars PROVE OnceInv'
    <2>1. UNCHANGED <<db, rows, seeds, platformOps>>
      BY <1>6 DEF vars, seedVars, migrationVars
    <2>2. QED
      BY <1>1, <2>1 DEF OnceInv, Setting, PastTenant, PastCompanies, WritesAnew, OneInside,
                        TenantSettled, Seeding
  <1>7. QED
    BY <1>3, <1>4, <1>5, <1>6 DEF Next, SeedInv

\* However many executions run beside each other, die and start again, and
\* however revisions go up and down between them, they leave at most one row of
\* a key, for every chain of revisions that keeps the slugs' index and does not
\* drop the tables of the first stages (seed.py:51).
THEOREM SeedsOnce == Spec => []SeedsNeverDuplicate
  <1>1. Init => SeedInv
    <2>1. Init => MigrationsInv
      BY InitMigrates
    <2>2. QED
      BY <2>1, InitSeeds, InitOnce DEF SeedInv
  <1>2. SeedInv => SeedsNeverDuplicate
    BY DEF SeedInv, OnceInv, SeedsNeverDuplicate
  <1>3. QED
    BY <1>1, <1>2, NextOnce, PTL DEF Spec

-----------------------------------------------------------------------------
(* A stage finds what its rows point at.                                    *)

\* The place of a table's rows in the script, and what comes before a place.
Place(t, j, l) == l \in 1..Len(Stages[j]) /\ Stages[j][l].table = t

Before(t, i, k) ==
  \E j \in 1..15, l \in Nat : Place(t, j, l) /\ (j < i \/ (j = i /\ l < k))

\* Where the rows that others point at are found or created.
LEMMA Placed ==
  /\ Place("tenants", 1, 1)
  /\ Place("companies", 2, 1)
  /\ Place("users", 3, 1)
  /\ Place("courses", 5, 1)
  /\ Place("modules", 5, 2)
  /\ Place("lessons", 5, 3)
  /\ Place("spaces", 6, 1)
  /\ Place("channels", 6, 2)
  /\ Place("posts", 6, 3)
  /\ Place("products", 7, 1)
  /\ Place("badges", 8, 1)
  /\ Place("conversations", 9, 1)
  /\ Place("quiz_battles", 10, 1)
  /\ Place("email_audiences", 11, 1)
  /\ Place("email_templates", 11, 2)
  /\ Place("email_campaigns", 11, 4)
  /\ Place("landing_pages", 13, 1)
  <1> USE DEF Place, Stages, Row, OneOrCreate, OneOrCreateAnew, Related
  <1>1. Place("tenants", 1, 1)
    BY DEF SeedTenant
  <1>2. Place("companies", 2, 1)
    BY DEF SeedCompanies
  <1>3. Place("users", 3, 1)
    BY DEF SeedUsers
  <1>4. Place("courses", 5, 1)
    BY DEF SeedCourses
  <1>5. Place("modules", 5, 2)
    BY DEF SeedCourses
  <1>6. Place("lessons", 5, 3)
    BY DEF SeedCourses
  <1>7. Place("spaces", 6, 1)
    BY DEF SeedCommunity
  <1>8. Place("channels", 6, 2)
    BY DEF SeedCommunity
  <1>9. Place("posts", 6, 3)
    BY DEF SeedCommunity
  <1>10. Place("products", 7, 1)
    BY DEF SeedProducts
  <1>11. Place("badges", 8, 1)
    BY DEF SeedGamification
  <1>12. Place("conversations", 9, 1)
    BY DEF SeedMessaging
  <1>13. Place("quiz_battles", 10, 1)
    BY DEF SeedQuiz
  <1>14. Place("email_audiences", 11, 1)
    BY DEF SeedEmail
  <1>15. Place("email_templates", 11, 2)
    BY DEF SeedEmail
  <1>16. Place("email_campaigns", 11, 4)
    BY DEF SeedEmail
  <1>17. Place("landing_pages", 13, 1)
    BY DEF SeedLanding
  <1> HIDE DEF Place, Stages
  <1>18. QED
    BY <1>1, <1>2, <1>3, <1>4, <1>5, <1>6, <1>7, <1>8, <1>9, <1>10, <1>11, <1>12, <1>13,
       <1>14, <1>15, <1>16, <1>17

LEMMA ComesBefore ==
  ASSUME NEW t, NEW j \in 1..15, NEW l \in Nat, Place(t, j, l), NEW i, NEW k,
         j < i \/ (j = i /\ l < k)
  PROVE  Before(t, i, k)
  BY DEF Before

LEMMA PlacedBefore ==
  ASSUME NEW i \in 1..15, NEW k \in Nat
  PROVE  /\ i > 1 \/ (i = 1 /\ k > 1) => Before("tenants", i, k)
         /\ i > 2 => Before("companies", i, k)
         /\ i > 3 => Before("users", i, k)
         /\ i > 5 \/ (i = 5 /\ k > 1) => Before("courses", i, k)
         /\ i > 5 \/ (i = 5 /\ k > 2) => Before("modules", i, k)
         /\ i > 5 => Before("lessons", i, k)
         /\ i > 6 \/ (i = 6 /\ k > 1) => Before("spaces", i, k)
         /\ i > 6 \/ (i = 6 /\ k > 2) => Before("channels", i, k)
         /\ i > 6 \/ (i = 6 /\ k > 3) => Before("posts", i, k)
         /\ i > 7 \/ (i = 7 /\ k > 1) => Before("products", i, k)
         /\ i > 8 \/ (i = 8 /\ k > 1) => Before("badges", i, k)
         /\ i > 9 \/ (i = 9 /\ k > 1) => Before("conversations", i, k)
         /\ i > 10 \/ (i = 10 /\ k > 1) => Before("quiz_battles", i, k)
         /\ i > 11 \/ (i = 11 /\ k > 1) => Before("email_audiences", i, k)
         /\ i > 11 \/ (i = 11 /\ k > 2) => Before("email_templates", i, k)
         /\ i > 11 \/ (i = 11 /\ k > 4) => Before("email_campaigns", i, k)
         /\ i > 13 \/ (i = 13 /\ k > 1) => Before("landing_pages", i, k)
  <1>1. i > 1 \/ (i = 1 /\ k > 1) => Before("tenants", i, k)
    BY Placed, ComesBefore, 1 \in 1..15, 1 \in Nat
  <1>2. i > 2 => Before("companies", i, k)
    BY Placed, ComesBefore, 2 \in 1..15, 1 \in Nat
  <1>3. i > 3 => Before("users", i, k)
    BY Placed, ComesBefore, 3 \in 1..15, 1 \in Nat
  <1>4. i > 5 \/ (i = 5 /\ k > 1) => Before("courses", i, k)
    BY Placed, ComesBefore, 5 \in 1..15, 1 \in Nat
  <1>5. i > 5 \/ (i = 5 /\ k > 2) => Before("modules", i, k)
    BY Placed, ComesBefore, 5 \in 1..15, 2 \in Nat
  <1>6. i > 5 => Before("lessons", i, k)
    BY Placed, ComesBefore, 5 \in 1..15, 3 \in Nat
  <1>7. i > 6 \/ (i = 6 /\ k > 1) => Before("spaces", i, k)
    BY Placed, ComesBefore, 6 \in 1..15, 1 \in Nat
  <1>8. i > 6 \/ (i = 6 /\ k > 2) => Before("channels", i, k)
    BY Placed, ComesBefore, 6 \in 1..15, 2 \in Nat
  <1>9. i > 6 \/ (i = 6 /\ k > 3) => Before("posts", i, k)
    BY Placed, ComesBefore, 6 \in 1..15, 3 \in Nat
  <1>10. i > 7 \/ (i = 7 /\ k > 1) => Before("products", i, k)
    BY Placed, ComesBefore, 7 \in 1..15, 1 \in Nat
  <1>11. i > 8 \/ (i = 8 /\ k > 1) => Before("badges", i, k)
    BY Placed, ComesBefore, 8 \in 1..15, 1 \in Nat
  <1>12. i > 9 \/ (i = 9 /\ k > 1) => Before("conversations", i, k)
    BY Placed, ComesBefore, 9 \in 1..15, 1 \in Nat
  <1>13. i > 10 \/ (i = 10 /\ k > 1) => Before("quiz_battles", i, k)
    BY Placed, ComesBefore, 10 \in 1..15, 1 \in Nat
  <1>14. i > 11 \/ (i = 11 /\ k > 1) => Before("email_audiences", i, k)
    BY Placed, ComesBefore, 11 \in 1..15, 1 \in Nat
  <1>15. i > 11 \/ (i = 11 /\ k > 2) => Before("email_templates", i, k)
    BY Placed, ComesBefore, 11 \in 1..15, 2 \in Nat
  <1>16. i > 11 \/ (i = 11 /\ k > 4) => Before("email_campaigns", i, k)
    BY Placed, ComesBefore, 11 \in 1..15, 4 \in Nat
  <1>17. i > 13 \/ (i = 13 /\ k > 1) => Before("landing_pages", i, k)
    BY Placed, ComesBefore, 13 \in 1..15, 1 \in Nat
  <1>18. QED
    BY <1>1, <1>2, <1>3, <1>4, <1>5, <1>6, <1>7, <1>8, <1>9, <1>10, <1>11, <1>12, <1>13,
       <1>14, <1>15, <1>16, <1>17

\* What the rows of a stage point at comes before them.
LEMMA RefersBefore ==
  ASSUME NEW i \in 1..15, NEW k \in 1..Len(Stages[i]), NEW t \in Stages[i][k].refs
  PROVE  Before(t, i, k)
  <1>0. k \in Nat
    BY StagesCounted
  <1>1. CASE i = 1
    <2>1. Stages[i] = SeedTenant
      BY <1>1 DEF Stages
    <2>2. t \in SeedTenant[k].refs /\ k \in 1..2
      BY <2>1 DEF SeedTenant
    <2>3. k = 2 /\ t \in {"tenants"}
      BY <2>2 DEF SeedTenant, Row, OneOrCreate, OneOrCreateAnew, Related
    <2>4. QED
      BY <1>0, <1>1, <2>3, PlacedBefore
  <1>2. CASE i = 2
    <2>1. Stages[i] = SeedCompanies
      BY <1>2 DEF Stages
    <2>2. t \in SeedCompanies[k].refs /\ k \in 1..1
      BY <2>1 DEF SeedCompanies
    <2>3. k = 1 /\ t \in {"tenants"}
      BY <2>2 DEF SeedCompanies, Row, OneOrCreate, OneOrCreateAnew, Related
    <2>4. QED
      BY <1>0, <1>2, <2>3, PlacedBefore
  <1>3. CASE i = 3
    <2>1. Stages[i] = SeedUsers
      BY <1>3 DEF Stages
    <2>2. t \in SeedUsers[k].refs /\ k \in 1..1
      BY <2>1 DEF SeedUsers
    <2>3. k = 1 /\ t \in {"tenants", "companies"}
      BY <2>2 DEF SeedUsers, Row, OneOrCreate, OneOrCreateAnew, Related
    <2>4. QED
      BY <1>0, <1>3, <2>3, PlacedBefore
  <1>4. CASE i = 4
    <2>1. Stages[i] = SeedCompanyMembers
      BY <1>4 DEF Stages
    <2>2. t \in SeedCompanyMembers[k].refs /\ k \in 1..2
      BY <2>1 DEF SeedCompanyMembers
    <2>3. \/ k = 1 /\ t \in {"companies", "users"}
          \/ k = 2 /\ t \in {"companies"}
      BY <2>2 DEF SeedCompanyMembers, Row, OneOrCreate, OneOrCreateAnew, Related
    <2>4. QED
      BY <1>0, <1>4, <2>3, PlacedBefore
  <1>5. CASE i = 5
    <2>1. Stages[i] = SeedCourses
      BY <1>5 DEF Stages
    <2>2. t \in SeedCourses[k].refs /\ k \in 1..3
      BY <2>1 DEF SeedCourses
    <2>3. \/ k = 1 /\ t \in {"tenants", "users"}
          \/ k = 2 /\ t \in {"tenants", "courses"}
          \/ k = 3 /\ t \in {"tenants", "modules"}
      BY <2>2 DEF SeedCourses, Row, OneOrCreate, OneOrCreateAnew, Related
    <2>4. QED
      BY <1>0, <1>5, <2>3, PlacedBefore
  <1>6. CASE i = 6
    <2>1. Stages[i] = SeedCommunity
      BY <1>6 DEF Stages
    <2>2. t \in SeedCommunity[k].refs /\ k \in 1..5
      BY <2>1 DEF SeedCommunity
    <2>3. \/ k = 1 /\ t \in {"tenants"}
          \/ k = 2 /\ t \in {"tenants", "spaces"}
          \/ k = 3 /\ t \in {"tenants", "channels", "users"}
          \/ k = 4 /\ t \in {"tenants", "posts", "users"}
          \/ k = 5 /\ t \in {"posts", "users"}
      BY <2>2 DEF SeedCommunity, Row, OneOrCreate, OneOrCreateAnew, Related
    <2>4. QED
      BY <1>0, <1>6, <2>3, PlacedBefore
  <1>7. CASE i = 7
    <2>1. Stages[i] = SeedProducts
      BY <1>7 DEF Stages
    <2>2. t \in SeedProducts[k].refs /\ k \in 1..4
      BY <2>1 DEF SeedProducts
    <2>3. \/ k = 1 /\ t \in {"tenants"}
          \/ k = 2 /\ t \in {"products", "courses"}
          \/ k = 3 /\ t \in {"products", "spaces"}
          \/ k = 4 /\ t \in {"tenants", "users", "products"}
      BY <2>2 DEF SeedProducts, Row, OneOrCreate, OneOrCreateAnew, Related
    <2>4. QED
      BY <1>0, <1>7, <2>3, PlacedBefore
  <1>8. CASE i = 8
    <2>1. Stages[i] = SeedGamification
      BY <1>8 DEF Stages
    <2>2. t \in SeedGamification[k].refs /\ k \in 1..7
      BY <2>1 DEF SeedGamification
    <2>3. \/ k = 1 /\ t \in {"tenants"}
          \/ k = 2 /\ t \in {"users", "lessons"}
          \/ k = 3 /\ t \in {"tenants", "users", "companies"}
          \/ k = 4 /\ t \in {"tenants", "users"}
          \/ k = 5 /\ t \in {"users", "companies"}
          \/ k = 6 /\ t \in {"users", "lessons"}
          \/ k = 7 /\ t \in {"users", "badges"}
      BY <2>2 DEF SeedGamification, Row, OneOrCreate, OneOrCreateAnew, Related
    <2>4. QED
      BY <1>0, <1>8, <2>3, PlacedBefore, SMTT(30)
  <1>9. CASE i = 9
    <2>1. Stages[i] = SeedMessaging
      BY <1>9 DEF Stages
    <2>2. t \in SeedMessaging[k].refs /\ k \in 1..3
      BY <2>1 DEF SeedMessaging
    <2>3. \/ k = 1 /\ t \in {"tenants"}
          \/ k = 2 /\ t \in {"conversations", "users"}
          \/ k = 3 /\ t \in {"conversations", "users"}
      BY <2>2 DEF SeedMessaging, Row, OneOrCreate, OneOrCreateAnew, Related
    <2>4. QED
      BY <1>0, <1>9, <2>3, PlacedBefore
  <1>10. CASE i = 10
    <2>1. Stages[i] = SeedQuiz
      BY <1>10 DEF Stages
    <2>2. t \in SeedQuiz[k].refs /\ k \in 1..2
      BY <2>1 DEF SeedQuiz
    <2>3. \/ k = 1 /\ t \in {"tenants", "users", "courses"}
          \/ k = 2 /\ t \in {"quiz_battles", "users"}
      BY <2>2 DEF SeedQuiz, Row, OneOrCreate, OneOrCreateAnew, Related
    <2>4. QED
      BY <1>0, <1>10, <2>3, PlacedBefore
  <1>11. CASE i = 11
    <2>1. Stages[i] = SeedEmail
      BY <1>11 DEF Stages
    <2>2. t \in SeedEmail[k].refs /\ k \in 1..5
      BY <2>1 DEF SeedEmail
    <2>3. \/ k = 1 /\ t \in {"tenants"}
          \/ k = 2 /\ t \in {"tenants"}
          \/ k = 3 /\ t \in {"tenants"}
          \/ k = 4 /\ t \in {"tenants", "email_templates", "email_audiences"}
          \/ k = 5 /\ t \in {"email_campaigns", "users"}
      BY <2>2 DEF SeedEmail, Row, OneOrCreate, OneOrCreateAnew, Related
    <2>4. QED
      BY <1>0, <1>11, <2>3, PlacedBefore
  <1>12. CASE i = 12
    <2>1. Stages[i] = SeedWebhooks
      BY <1>12 DEF Stages
    <2>2. t \in SeedWebhooks[k].refs /\ k \in 1..2
      BY <2>1 DEF SeedWebhooks
    <2>3. \/ k = 1 /\ t \in {"tenants"}
          \/ k = 2 /\ t \in {"tenants"}
      BY <2>2 DEF SeedWebhooks, Row, OneOrCreate, OneOrCreateAnew, Related
    <2>4. QED
      BY <1>0, <1>12, <2>3, PlacedBefore
  <1>13. CASE i = 13
    <2>1. Stages[i] = SeedLanding
      BY <1>13 DEF Stages
    <2>2. t \in SeedLanding[k].refs /\ k \in 1..2
      BY <2>1 DEF SeedLanding
    <2>3. \/ k = 1 /\ t \in {"tenants", "products"}
          \/ k = 2 /\ t \in {"landing_pages"}
      BY <2>2 DEF SeedLanding, Row, OneOrCreate, OneOrCreateAnew, Related
    <2>4. QED
      BY <1>0, <1>13, <2>3, PlacedBefore
  <1>14. CASE i = 14
    <2>1. Stages[i] = SeedNotifications
      BY <1>14 DEF Stages
    <2>2. t \in SeedNotifications[k].refs /\ k \in 1..1
      BY <2>1 DEF SeedNotifications
    <2>3. k = 1 /\ t \in {"tenants", "users"}
      BY <2>2 DEF SeedNotifications, Row, OneOrCreate, OneOrCreateAnew, Related
    <2>4. QED
      BY <1>0, <1>14, <2>3, PlacedBefore
  <1>15. CASE i = 15
    <2>1. Stages[i] = SeedAudit
      BY <1>15 DEF Stages
    <2>2. t \in SeedAudit[k].refs /\ k \in 1..1
      BY <2>1 DEF SeedAudit
    <2>3. k = 1 /\ t \in {"tenants", "users"}
      BY <2>2 DEF SeedAudit, Row, OneOrCreate, OneOrCreateAnew, Related
    <2>4. QED
      BY <1>0, <1>15, <2>3, PlacedBefore
  <1>16. QED
    BY <1>1, <1>2, <1>3, <1>4, <1>5, <1>6, <1>7, <1>8, <1>9, <1>10, <1>11, <1>12, <1>13,
       <1>14, <1>15

\* What the models name.
Modelled(t) == \E m \in Models : m.name = t

\* Every table of the script is one of the models.
LEMMA TablesModelled ==
  ASSUME NEW i \in 1..15, NEW k \in 1..Len(Stages[i])
  PROVE  Modelled(Stages[i][k].table)
  <1>1. Modelled("audit_logs")
    <2>1. AuditModels \subseteq Models
      BY DEF Models
    <2>2. QED
      BY <2>1 DEF Modelled, AuditModels, Table
  <1>2. Modelled("spaces") /\ Modelled("channels") /\ Modelled("posts")
        /\ Modelled("comments") /\ Modelled("post_likes")
    <2>1. CommunityModels \subseteq Models
      BY DEF Models
    <2>2. QED
      BY <2>1 DEF Modelled, CommunityModels, Table
  <1>3. Modelled("companies") /\ Modelled("company_members") /\ Modelled("company_goals")
    <2>1. CompanyModels \subseteq Models
      BY DEF Models
    <2>2. QED
      BY <2>1 DEF Modelled, CompanyModels, Table
  <1>4. Modelled("courses") /\ Modelled("modules") /\ Modelled("lessons")
    <2>1. CourseModels \subseteq Models
      BY DEF Models
    <2>2. QED
      BY <2>1 DEF Modelled, CourseModels, Table
  <1>5. Modelled("email_campaigns") /\ Modelled("email_sends") /\ Modelled("email_audiences")
        /\ Modelled("email_templates") /\ Modelled("email_automations")
    <2>1. EmailModels \subseteq Models
      BY DEF Models
    <2>2. \A n \in {"email_audiences", "email_templates", "email_automations"} :
            Table(n, OwnedBy({"tenants"}), {}, {}) \in EmailModels
      BY DEF EmailModels
    <2>3. /\ Table("email_campaigns", OwnedBy({"email_audiences", "email_templates", "tenants"}),
                   {"campaign_status"}, {}) \in EmailModels
          /\ Table("email_sends", OwnedBy({"email_campaigns", "email_automations", "users"}),
                   {"email_send_status"}, {}) \in EmailModels
      BY DEF EmailModels
    <2>4. \A n, f, y, u : Table(n, f, y, u).name = n
      BY DEF Table
    <2>5. QED
      BY <2>1, <2>2, <2>3, <2>4 DEF Modelled
  <1>6. Modelled("enrollments")
    <2>1. EnrollmentModels \subseteq Models
      BY DEF Models
    <2>2. QED
      BY <2>1 DEF Modelled, EnrollmentModels, Table
  <1>7. Modelled("xp_events") /\ Modelled("user_levels") /\ Modelled("badges") /\ Modelled("user_badges")
    <2>1. PointsModels \subseteq Models
      BY DEF Models
    <2>2. QED
      BY <2>1 DEF Modelled, PointsModels, Table
  <1>8. Modelled("user_streaks")
    <2>1. ContestModels \subseteq Models
      BY DEF Models
    <2>2. QED
      BY <2>1 DEF Modelled, ContestModels, Table
  <1>9. Modelled("landing_pages") /\ Modelled("page_views")
    <2>1. LandingPageModels \subseteq Models
      BY DEF Models
    <2>2. QED
      BY <2>1 DEF Modelled, LandingPageModels, Table
  <1>10. Modelled("menu_configs")
    <2>1. MenuModels \subseteq Models
      BY DEF Models
    <2>2. QED
      BY <2>1 DEF Modelled, MenuModels, Table
  <1>11. Modelled("conversations") /\ Modelled("conversation_participants") /\ Modelled("messages")
    <2>1. MessagingModels \subseteq Models
      BY DEF Models
    <2>2. QED
      BY <2>1 DEF Modelled, MessagingModels, Table
  <1>12. Modelled("notifications")
    <2>1. NotificationModels \subseteq Models
      BY DEF Models
    <2>2. Table("notifications", OwnedBy({"users", "tenants"}), {}, {}) \in NotificationModels
      BY DEF NotificationModels
    <2>3. \A n, f : Table(n, f, {}, {}).name = n
      BY DEF Table
    <2>4. QED
      BY <2>1, <2>2, <2>3 DEF Modelled
  <1>13. Modelled("products") /\ Modelled("product_courses") /\ Modelled("product_spaces")
    <2>1. ProductModels \subseteq Models
      BY DEF Models
    <2>2. QED
      BY <2>1 DEF Modelled, ProductModels, Table
  <1>14. Modelled("lesson_progress") /\ Modelled("notes")
    <2>1. ProgressModels \subseteq Models
      BY DEF Models
    <2>2. QED
      BY <2>1 DEF Modelled, ProgressModels, Table
  <1>15. Modelled("quiz_battles") /\ Modelled("quiz_battle_answers")
    <2>1. QuizModels \subseteq Models
      BY DEF Models
    <2>2. QED
      BY <2>1 DEF Modelled, QuizModels, Table
  <1>16. Modelled("tenants")
    <2>1. TenantModels \subseteq Models
      BY DEF Models
    <2>2. QED
      BY <2>1 DEF Modelled, TenantModels, Table
  <1>17. Modelled("users")
    <2>1. UserModels \subseteq Models
      BY DEF Models
    <2>2. QED
      BY <2>1 DEF Modelled, UserModels, Table
  <1>18. Modelled("webhook_logs") /\ Modelled("leads")
    <2>1. WebhookModels \subseteq Models
      BY DEF Models
    <2>2. QED
      BY <2>1 DEF Modelled, WebhookModels, Table
  <1>19. CASE i = 1
    <2>1. Stages[i] = SeedTenant
      BY <1>19 DEF Stages
    <2>2. QED
      BY <2>1, <1>10, <1>16 DEF SeedTenant, Row, OneOrCreate,
         OneOrCreateAnew, Related
  <1>20. CASE i = 2
    <2>1. Stages[i] = SeedCompanies
      BY <1>20 DEF Stages
    <2>2. QED
      BY <2>1, <1>3 DEF SeedCompanies, Row, OneOrCreate,
         OneOrCreateAnew, Related
  <1>21. CASE i = 3
    <2>1. Stages[i] = SeedUsers
      BY <1>21 DEF Stages
    <2>2. QED
      BY <2>1, <1>17 DEF SeedUsers, Row, OneOrCreate,
         OneOrCreateAnew, Related
  <1>22. CASE i = 4
    <2>1. Stages[i] = SeedCompanyMembers
      BY <1>22 DEF Stages
    <2>2. QED
      BY <2>1, <1>3 DEF SeedCompanyMembers, Row, OneOrCreate,
         OneOrCreateAnew, Related
  <1>23. CASE i = 5
    <2>1. Stages[i] = SeedCourses
      BY <1>23 DEF Stages
    <2>2. QED
      BY <2>1, <1>4 DEF SeedCourses, Row, OneOrCreate,
         OneOrCreateAnew, Related
  <1>24. CASE i = 6
    <2>1. Stages[i] = SeedCommunity
      BY <1>24 DEF Stages
    <2>2. QED
      BY <2>1, <1>2 DEF SeedCommunity, Row, OneOrCreate,
         OneOrCreateAnew, Related
  <1>25. CASE i = 7
    <2>1. Stages[i] = SeedProducts
      BY <1>25 DEF Stages
    <2>2. QED
      BY <2>1, <1>6, <1>13 DEF SeedProducts, Row, OneOrCreate,
         OneOrCreateAnew, Related
  <1>26. CASE i = 8
    <2>1. Stages[i] = SeedGamification
      BY <1>26 DEF Stages
    <2>2. QED
      BY <2>1, <1>7, <1>8, <1>14 DEF SeedGamification, Row, OneOrCreate,
         OneOrCreateAnew, Related
  <1>27. CASE i = 9
    <2>1. Stages[i] = SeedMessaging
      BY <1>27 DEF Stages
    <2>2. QED
      BY <2>1, <1>11 DEF SeedMessaging, Row, OneOrCreate,
         OneOrCreateAnew, Related
  <1>28. CASE i = 10
    <2>1. Stages[i] = SeedQuiz
      BY <1>28 DEF Stages
    <2>2. QED
      BY <2>1, <1>15 DEF SeedQuiz, Row, OneOrCreate,
         OneOrCreateAnew, Related
  <1>29. CASE i = 11
    <2>1. Stages[i] = SeedEmail
      BY <1>29 DEF Stages
    <2>2. QED
      BY <2>1, <1>5 DEF SeedEmail, Row, OneOrCreate,
         OneOrCreateAnew, Related
  <1>30. CASE i = 12
    <2>1. Stages[i] = SeedWebhooks
      BY <1>30 DEF Stages
    <2>2. QED
      BY <2>1, <1>18 DEF SeedWebhooks, Row, OneOrCreate,
         OneOrCreateAnew, Related
  <1>31. CASE i = 13
    <2>1. Stages[i] = SeedLanding
      BY <1>31 DEF Stages
    <2>2. QED
      BY <2>1, <1>9 DEF SeedLanding, Row, OneOrCreate,
         OneOrCreateAnew, Related
  <1>32. CASE i = 14
    <2>1. Stages[i] = SeedNotifications
      BY <1>32 DEF Stages
    <2>2. QED
      BY <2>1, <1>12 DEF SeedNotifications, Row, OneOrCreate,
         OneOrCreateAnew, Related
  <1>33. CASE i = 15
    <2>1. Stages[i] = SeedAudit
      BY <1>33 DEF Stages
    <2>2. QED
      BY <2>1, <1>1 DEF SeedAudit, Row, OneOrCreate,
         OneOrCreateAnew, Related
  <1>34. QED
    BY <1>19, <1>20, <1>21, <1>22, <1>23, <1>24, <1>25, <1>26, <1>27, <1>28, <1>29, <1>30,
       <1>31, <1>32, <1>33

\* Where the models' tables are there, everything earlier has been found or
\* created, no key has two rows and no other tenant has the script's domain, no
\* class of the stage is refused.
LEMMA StageSucceeds ==
  ASSUME SeedsTyped, NEW s \in Seeds, seeds[s].stage \in 1..15, Furnished(s), Serves(db),
         \A c \in Classes : ~Ambiguous(c), domain # "taken"
  PROVE  Staged(s).ok
  <1> DEFINE n == Len(Stage(s))
  <1>1. /\ n \in Nat /\ Stage(s) = Stages[seeds[s].stage]
        /\ \A k \in 1..n : rows[Stage(s)[k].table] \in Nat
    BY StagesCounted, TablesSeeded DEF Stage, SeedsTyped
  <1>2. PICK t : IsStaging(t, s, n) /\ Staged(s) = t[n]
    BY <1>1, StagedIs
  <1>3. /\ t[0] = Begun(s)
        /\ \A i \in 0..(n - 1) : t[i + 1] = Take(t[i], Stage(s)[i + 1])
    BY <1>1, <1>2, StagingSteps
  <1>4. ASSUME NEW k \in 1..n
        PROVE  Selectable(Stage(s)[k].table) /\ ~Ambiguous(Stage(s)[k])
    <2>1. Modelled(Stage(s)[k].table)
      BY <1>1, TablesModelled
    <2>2. Selectable(Stage(s)[k].table)
      BY <2>1 DEF Serves, Selectable, Modelled, Names
    <2>3. Stage(s)[k] \in Classes
      <3>1. k \in 1..Len(Stages[seeds[s].stage])
        BY <1>1
      <3>2. Stage(s)[k] \in ToSet(Stages[seeds[s].stage])
        BY <1>1, <3>1, TablesSeeded
      <3>3. seeds[s].stage \in DOMAIN Stages
        BY StagesCounted
      <3>4. QED
        BY <3>2, <3>3 DEF Classes
    <2>4. QED
      BY <2>2, <2>3
  <1>5. ASSUME NEW i \in 0..(n - 1), Done(s, t[i], i)
        PROVE  Refers(Stage(s)[i + 1], t[i].mine)
    <2> SUFFICES ASSUME NEW u \in Stage(s)[i + 1].refs
                 PROVE  rows[u] > 0 \/ u \in t[i].mine
      BY DEF Refers
    <2>1. i + 1 \in 1..n
      BY <1>1
    <2>2. Before(u, seeds[s].stage, i + 1)
      BY <1>1, <2>1, RefersBefore
    <2>3. PICK j \in 1..15, l \in Nat :
            Place(u, j, l) /\ (j < seeds[s].stage \/ (j = seeds[s].stage /\ l < i + 1))
      BY <2>2 DEF Before
    <2>4. CASE j < seeds[s].stage
      BY <1>5, <2>3, <2>4 DEF Furnished, Place, Done
    <2>5. CASE j = seeds[s].stage /\ l < i + 1
      <3>1. l \in 1..i /\ Stage(s)[l].table = u
        BY <1>1, <2>3, <2>5 DEF Place
      <3>2. QED
        BY <1>5, <3>1 DEF Done, Settled
    <2>6. QED
      BY <2>3, <2>4, <2>5
  <1> HIDE DEF n
  <1> DEFINE S == {i \in Nat : i <= n => IsTaking(t[i]) /\ t[i].ok /\ Done(s, t[i], i)}
  <1>6. 0 \in S
    <2>1. IsTaking(Begun(s)) /\ Begun(s).ok /\ Done(s, Begun(s), 0)
      BY DEF IsTaking, Begun, Done
    <2>2. QED
      BY <1>3, <2>1
  <1>7. ASSUME NEW i \in Nat, i \in S PROVE i + 1 \in S
    <2> SUFFICES ASSUME i + 1 <= n
                 PROVE  IsTaking(t[i + 1]) /\ t[i + 1].ok /\ Done(s, t[i + 1], i + 1)
      OBVIOUS
    <2>1. /\ i \in 0..(n - 1) /\ i + 1 \in 1..n
          /\ IsTaking(t[i]) /\ t[i].ok /\ Done(s, t[i], i)
      BY <1>1, <1>7
    <2>2. /\ t[i + 1] = Take(t[i], Stage(s)[i + 1]) /\ rows[Stage(s)[i + 1].table] \in Nat
          /\ Selectable(Stage(s)[i + 1].table) /\ ~Ambiguous(Stage(s)[i + 1])
          /\ Refers(Stage(s)[i + 1], t[i].mine) /\ ~DomainTaken(Stage(s)[i + 1])
      BY <1>1, <1>3, <1>4, <1>5, <2>1 DEF DomainTaken
    <2>3. IsTaking(Take(t[i], Stage(s)[i + 1])) /\ Take(t[i], Stage(s)[i + 1]).ok
      BY <2>1, <2>2, Taken
    <2>4. Done(s, Take(t[i], Stage(s)[i + 1]), i + 1)
      BY <2>1, <2>2, <2>3, DoneStep
    <2>5. QED
      BY <2>2, <2>3, <2>4
  <1> HIDE DEF S
  <1>8. n \in S
    BY <1>1, <1>6, <1>7, SetInduction
  <1>9. QED
    BY <1>1, <1>2, <1>8 DEF S

\* An execution that nobody disturbs finds all it points at, on every database
\* at the last revision, if the upgrades lead to what the models declare: only a
\* key with two rows, or another tenant with the domain it writes, stops it
\* (seed.py:53, 69, 115).
THEOREM QuietSucceeds ==
  ASSUME UpgradesServe
  PROVE  Spec => []QuietSeedsSucceed
  <1>1. RestoreInv /\ HeadServesModels => QuietSeedsSucceed
    <2> SUFFICES ASSUME RestoreInv, HeadServesModels, NEW s \in Seeds, Seeding(s),
                        ~seeds[s].disturbed, seeds[s].stage \in DOMAIN Stages,
                        db.version = LastRevision, \A c \in Classes : ~Ambiguous(c),
                        domain # "taken"
                 PROVE  Staged(s).ok
      BY DEF QuietSeedsSucceed
    <2>1. SeedsTyped /\ Furnished(s) /\ Serves(db) /\ seeds[s].stage \in 1..15
      BY StagesCounted DEF RestoreInv, HeadServesModels
    <2>2. QED
      BY <2>1, StageSucceeds
  <1>2. Spec => []RestoreInv
    BY InitSeeds, NextRestores, PTL DEF Spec
  <1>3. QED
    BY <1>1, <1>2, HeadServes, UpgradesServe, PTL
=============================================================================
