--------------------------- MODULE ReversalProofs ---------------------------
(***************************************************************************)
(* The reverse SQL of a history of row changes takes the database back,    *)
(* for all tables, keys and rows.                                          *)
(*                                                                         *)
(* The histories are sequences of any length, so the proofs are by         *)
(* induction.  The induction principles of the library are schemas over a  *)
(* predicate; here the least number principle is drawn from WFMin, which   *)
(* is about sets, and everything inductive is reduced to it.               *)
(***************************************************************************)
EXTENDS Reversal, SequencesExt, FiniteSetTheorems, SequenceTheorems,
        WellFoundedInduction, TLAPS

-----------------------------------------------------------------------------
(* Induction and recursion over the naturals, in terms of sets. *)

LEMMA LeastNumber ==
  ASSUME NEW T \in SUBSET Nat, T # {}
  PROVE  \E n \in T : \A m \in T : n <= m
<1> DEFINE R == OpToRel(<, Nat)
<1>1. IsWellFoundedOn(R, Nat)
  BY NatLessThanWellFounded
<1>2. \A x, y \in Nat : y < x => <<y, x>> \in R
  BY DEF OpToRel
<1> HIDE DEF R
<1>3. PICK n \in T : \A y \in T : ~(<<y, n>> \in R)
  BY <1>1, WFMin
<1>4. \A m \in T : ~(m < n)
  BY <1>2, <1>3
<1>5. QED BY <1>4

LEMMA Induction ==
  ASSUME NEW P, 0 \in P, \A n \in Nat : n \in P => n + 1 \in P
  PROVE  \A n \in Nat : n \in P
<1> SUFFICES ASSUME NEW k \in Nat, k \notin P PROVE FALSE
  OBVIOUS
<1>1. PICK n \in Nat \ P : \A m \in Nat \ P : n <= m
  BY LeastNumber
<1>2. n # 0 /\ n - 1 \in Nat
  BY <1>1
<1>3. n - 1 \in P
  BY <1>1, <1>2
<1>4. QED BY <1>1, <1>2, <1>3

\* What a step function makes of a, within D and up to the N-th step.
StepsWithin(D, N, step) == \A d \in D, i \in 1 .. N : step[<<d, i>>] \in D

Iterates(f, D, N, a, step) ==
  f \in [0 .. N -> D] /\ f[0] = a /\ \A i \in 1 .. N : f[i] = step[<<f[i - 1], i>>]

LEMMA Recursion ==
  ASSUME NEW D, NEW a \in D, NEW N \in Nat, NEW step, StepsWithin(D, N, step)
  PROVE  \E f : Iterates(f, D, N, a, step)
<1> USE DEF StepsWithin, Iterates
<1> DEFINE Upto(k, f) == f[0] = a /\ \A i \in 1 .. k : f[i] = step[<<f[i - 1], i>>]
           P == {k \in Nat : k <= N => \E f \in [0 .. k -> D] : Upto(k, f)}
<1>1. 0 \in P
  <2>1. [i \in 0 .. 0 |-> a] \in [0 .. 0 -> D] /\ Upto(0, [i \in 0 .. 0 |-> a])
    OBVIOUS
  <2>2. QED BY <2>1
<1>2. ASSUME NEW k \in Nat, k \in P PROVE k + 1 \in P
  <2>1. SUFFICES ASSUME k + 1 <= N PROVE \E f \in [0 .. k + 1 -> D] : Upto(k + 1, f)
    OBVIOUS
  <2>2. PICK g \in [0 .. k -> D] : Upto(k, g)
    BY <1>2, <2>1
  <2> DEFINE h == [i \in 0 .. k + 1 |-> IF i <= k THEN g[i] ELSE step[<<g[k], k + 1>>]]
  <2>3. step[<<g[k], k + 1>>] \in D
    BY <2>1, k + 1 \in 1 .. N
  <2>4. h \in [0 .. k + 1 -> D]
    BY <2>3
  <2>5. h[0] = a /\ \A i \in 1 .. k + 1 : h[i] = step[<<h[i - 1], i>>]
    <3>1. \A i \in 0 .. k : h[i] = g[i]
      OBVIOUS
    <3>2. h[k + 1] = step[<<g[k], k + 1>>]
      OBVIOUS
    <3> HIDE DEF h
    <3>3. h[0] = a
      BY <2>2, <3>1
    <3>4. ASSUME NEW i \in 1 .. k PROVE h[i] = step[<<h[i - 1], i>>]
      BY <2>2, <3>1, i - 1 \in 0 .. k, i \in 0 .. k
    <3>5. h[k] = g[k]
      BY <3>1
    <3>6. h[k + 1] = step[<<h[k], k + 1>>]
      BY <3>2, <3>5
    <3>7. ASSUME NEW i \in 1 .. k + 1 PROVE h[i] = step[<<h[i - 1], i>>]
      <4>1. CASE i = k + 1
        BY <3>6, <4>1, i - 1 = k
      <4>2. CASE i \in 1 .. k
        BY <3>4, <4>2
      <4>3. QED BY <4>1, <4>2
    <3>8. QED BY <3>3, <3>7
  <2> HIDE DEF h
  <2>6. QED BY <2>4, <2>5
<1> HIDE DEF P
<1>3. \A k \in Nat : k \in P
  BY <1>1, <1>2, Induction
<1>4. N \in P
  BY <1>3
<1>5. QED BY <1>4 DEF P

-----------------------------------------------------------------------------
(* Sequences of sequences. *)

\* f[i] is what the first i elements of seqs make together.
Joins(f, seqs, S) ==
  /\ f \in [0 .. Len(seqs) -> Seq(S)]
  /\ f[0] = <<>>
  /\ \A i \in 1 .. Len(seqs) : f[i] = f[i - 1] \o seqs[i]

LEMMA JoinsExists ==
  ASSUME NEW S, NEW seqs \in Seq(Seq(S))
  PROVE  \E f : Joins(f, seqs, S)
<1> DEFINE n == Len(seqs)
           E == Seq(S)
           step == [p \in E \X (1 .. n) |-> p[1] \o seqs[p[2]]]
<1>1. n \in Nat /\ <<>> \in E
  OBVIOUS
<1>2. ASSUME NEW d \in E, NEW i \in 1 .. n PROVE d \o seqs[i] \in E
  <2>1. seqs[i] \in Seq(S)
    BY ElementOfSeq
  <2>2. QED BY <2>1, ConcatProperties
<1>3. \A d \in E, i \in 1 .. n : step[<<d, i>>] = d \o seqs[i]
  OBVIOUS
<1> HIDE DEF n, E, step
<1>4. PICK f : Iterates(f, E, n, <<>>, step)
  BY <1>1, <1>2, <1>3, Recursion DEF StepsWithin
<1>5. ASSUME NEW i \in 1 .. n PROVE f[i] = f[i - 1] \o seqs[i]
  <2>1. i - 1 \in 0 .. n
    BY <1>1
  <2>2. QED BY <1>3, <1>4, <2>1 DEF Iterates
<1>6. QED BY <1>4, <1>5 DEF Iterates, Joins, n, E

LEMMA FlattenJoins ==
  ASSUME NEW S, NEW seqs \in Seq(Seq(S)), NEW f, Joins(f, seqs, S)
  PROVE  FlattenSeq(seqs) = f[Len(seqs)] /\ FlattenSeq(seqs) \in Seq(S)
<1> DEFINE n == Len(seqs)
           Flat(g) == g = [i \in 1 .. n |-> IF i = 1 THEN seqs[i] ELSE g[i - 1] \o seqs[i]]
           e == [i \in 1 .. n |-> f[i]]
<1>1. n \in Nat
  OBVIOUS
<1>2. ASSUME n # 0 PROVE Flat(e)
  <2>1. ASSUME NEW i \in 1 .. n, i # 1 PROVE e[i] = e[i - 1] \o seqs[i]
    BY <1>1, <2>1, i - 1 \in 1 .. n DEF Joins
  <2>2. e[1] = seqs[1]
    <3>1. seqs[1] \in Seq(S)
      BY <1>1, <1>2, ElementOfSeq
    <3>2. f[1] = <<>> \o seqs[1]
      BY <1>1, <1>2, 1 \in 1 .. n, 1 - 1 = 0 DEF Joins
    <3>3. QED BY <1>1, <1>2, <3>1, <3>2, ConcatEmptySeq
  <2>3. \A i \in 1 .. n : e[i] = IF i = 1 THEN seqs[i] ELSE e[i - 1] \o seqs[i]
    BY <2>1, <2>2
  <2> HIDE DEF e
  <2>4. [i \in 1 .. n |-> e[i]] = [i \in 1 .. n |-> IF i = 1 THEN seqs[i] ELSE e[i - 1] \o seqs[i]]
    BY <2>3
  <2>5. e = [i \in 1 .. n |-> e[i]]
    BY DEF e
  <2>6. QED BY <2>4, <2>5
<1>3. CASE n = 0
  <2>1. seqs = <<>>
    BY <1>3
  <2>2. QED BY <1>3, <2>1 DEF FlattenSeq, Joins
<1>4. CASE n # 0
  <2> DEFINE g == CHOOSE g : Flat(g)
  <2>1. Flat(g)
    BY <1>2, <1>4
  <2>2. FlattenSeq(seqs) = g[n]
    BY <1>4 DEF FlattenSeq
  <2> HIDE DEF g
  <2> DEFINE P == {k \in Nat : k + 1 \in 1 .. n => g[k + 1] = f[k + 1]}
  <2>3. \A i \in 1 .. n : g[i] = IF i = 1 THEN seqs[i] ELSE g[i - 1] \o seqs[i]
    BY <2>1
  <2>4. \A i \in 1 .. n : f[i] = IF i = 1 THEN seqs[i] ELSE f[i - 1] \o seqs[i]
    <3>1. \A i \in 1 .. n : e[i] = IF i = 1 THEN seqs[i] ELSE e[i - 1] \o seqs[i]
      <4> HIDE DEF e
      <4>1. QED BY <1>2, <1>4
    <3>2. \A i \in 1 .. n : e[i] = f[i]
      OBVIOUS
    <3> HIDE DEF e
    <3>3. ASSUME NEW i \in 1 .. n PROVE f[i] = IF i = 1 THEN seqs[i] ELSE f[i - 1] \o seqs[i]
      <4>1. CASE i = 1
        BY <3>1, <3>2, <4>1
      <4>2. CASE i # 1
        BY <1>1, <3>1, <3>2, <4>2, i - 1 \in 1 .. n
      <4>3. QED BY <4>1, <4>2
    <3>4. QED BY <3>3
  <2>5. 0 \in P
    <3>1. g[1] = seqs[1] /\ f[1] = seqs[1]
      BY <1>1, <1>4, <2>3, <2>4, 1 \in 1 .. n
    <3>2. QED BY <3>1
  <2>6. ASSUME NEW k \in Nat, k \in P PROVE k + 1 \in P
    <3>1. SUFFICES ASSUME k + 1 + 1 \in 1 .. n PROVE g[k + 1 + 1] = f[k + 1 + 1]
      OBVIOUS
    <3>2. k + 1 \in 1 .. n /\ k + 1 + 1 # 1 /\ k + 1 + 1 - 1 = k + 1
      BY <1>1, <3>1
    <3>3. QED BY <2>3, <2>4, <2>6, <3>1, <3>2
  <2> HIDE DEF P
  <2>7. \A k \in Nat : k \in P
    BY <2>5, <2>6, Induction
  <2>8. n - 1 \in Nat /\ n - 1 + 1 = n
    BY <1>1, <1>4
  <2>9. n - 1 \in P
    BY <2>7, <2>8
  <2>10. g[n] = f[n]
    BY <1>1, <1>4, <2>8, <2>9 DEF P
  <2>11. QED BY <1>1, <2>2, <2>10 DEF Joins
<1>5. QED BY <1>3, <1>4

LEMMA FlattenType ==
  ASSUME NEW S, NEW seqs \in Seq(Seq(S))
  PROVE  FlattenSeq(seqs) \in Seq(S)
BY JoinsExists, FlattenJoins

LEMMA FlattenAppend ==
  ASSUME NEW S, NEW seqs \in Seq(Seq(S)), NEW s \in Seq(S)
  PROVE  FlattenSeq(Append(seqs, s)) = FlattenSeq(seqs) \o s
<1> DEFINE n == Len(seqs)
           more == Append(seqs, s)
<1>1. PICK f : Joins(f, seqs, S)
  BY JoinsExists
<1> DEFINE h == [i \in 0 .. n + 1 |-> IF i <= n THEN f[i] ELSE f[n] \o s]
<1>2. /\ n \in Nat /\ more \in Seq(Seq(S)) /\ Len(more) = n + 1 /\ more[n + 1] = s
      /\ \A i \in 1 .. n : more[i] = seqs[i]
  BY AppendProperties
<1>3. f[n] \o s \in Seq(S)
  BY <1>1, <1>2, ConcatProperties DEF Joins
<1>4. Joins(h, more, S)
  <2>1. h \in [0 .. n + 1 -> Seq(S)]
    BY <1>1, <1>2, <1>3 DEF Joins
  <2>2. h[0] = <<>>
    BY <1>1, <1>2 DEF Joins
  <2>3. ASSUME NEW i \in 1 .. n PROVE h[i] = h[i - 1] \o more[i]
    <3>1. h[i] = f[i] /\ h[i - 1] = f[i - 1]
      BY <1>2
    <3> HIDE DEF h, more
    <3>2. QED BY <1>1, <1>2, <3>1 DEF Joins
  <2>4. h[n + 1] = h[n] \o more[n + 1]
    <3>1. h[n + 1] = f[n] \o s /\ h[n] = f[n]
      BY <1>2
    <3> HIDE DEF h, more
    <3>2. QED BY <1>2, <3>1
  <2> HIDE DEF h, more
  <2>5. ASSUME NEW i \in 1 .. n + 1 PROVE h[i] = h[i - 1] \o more[i]
    <3>1. CASE i \in 1 .. n
      BY <2>3, <3>1
    <3>2. CASE i = n + 1
      BY <1>2, <2>4, <3>2, i - 1 = n
    <3>3. QED BY <1>2, <3>1, <3>2
  <2>6. QED BY <1>2, <2>1, <2>2, <2>5 DEF Joins
<1>5. h[n + 1] = f[n] \o s
  BY <1>2
<1> HIDE DEF h, more
<1>6. FlattenSeq(more) = h[n + 1]
  BY <1>2, <1>4, FlattenJoins
<1>7. FlattenSeq(seqs) = f[n]
  BY <1>1, FlattenJoins
<1>8. QED BY <1>5, <1>6, <1>7 DEF more

LEMMA FlattenEmpty == FlattenSeq(<<>>) = <<>>
BY DEF FlattenSeq

LEMMA FlattenSingle ==
  ASSUME NEW S, NEW s \in Seq(S)
  PROVE  FlattenSeq(<<s>>) = s
<1>1. FlattenSeq(Append(<<>>, s)) = <<>> \o s
  BY FlattenAppend, FlattenEmpty, <<>> \in Seq(Seq(S))
<1>2. Append(<<>>, s) = <<s>>
  OBVIOUS
<1>3. QED BY <1>1, <1>2, ConcatEmptySeq

\* u[k] is what the last k elements make together.
JoinsBack(u, seqs, S) ==
  /\ u \in [0 .. Len(seqs) -> Seq(S)]
  /\ u[0] = <<>>
  /\ \A k \in 1 .. Len(seqs) : u[k] = seqs[Len(seqs) + 1 - k] \o u[k - 1]

LEMMA FlattenFromEnd ==
  ASSUME NEW S, NEW seqs \in Seq(Seq(S)), NEW u, JoinsBack(u, seqs, S)
  PROVE  FlattenSeq(seqs) = u[Len(seqs)]
<1> DEFINE n == Len(seqs)
           E == Seq(S)
<1>1. PICK f : Joins(f, seqs, S)
  BY JoinsExists
<1>2. n \in Nat /\ f \in [0 .. n -> E] /\ u \in [0 .. n -> E]
  BY <1>1 DEF Joins, JoinsBack
<1>3. ASSUME NEW i \in 1 .. n PROVE seqs[i] \in E /\ f[i] = f[i - 1] \o seqs[i]
  <2>1. n = Len(seqs)
    OBVIOUS
  <2>2. f[i] = f[i - 1] \o seqs[i]
    BY <1>1 DEF Joins
  <2>3. QED BY <2>2, ElementOfSeq
<1>4. ASSUME NEW k \in 1 .. n PROVE u[k] = seqs[n + 1 - k] \o u[k - 1]
  BY DEF JoinsBack
<1>5. ASSUME NEW a \in E, NEW b \in E, NEW c \in E PROVE (a \o b) \o c = a \o (b \o c)
  BY ConcatAssociative, SMTT(30)
<1>6. \A a \in E : a \o <<>> = a /\ <<>> \o a = a
  BY ConcatEmptySeq
<1>7. f[0] = <<>> /\ u[0] = <<>> /\ FlattenSeq(seqs) = f[n]
  BY <1>1, FlattenJoins DEF Joins, JoinsBack
<1> DEFINE Both(k) == f[n - k] \o u[k]
<1> HIDE DEF n, E
<1>8. Both(0) = f[n]
  <2>1. f[n] \in E /\ n - 0 = n
    BY <1>2
  <2>2. QED BY <1>6, <1>7, <2>1
<1>9. ASSUME NEW k \in Nat, k + 1 <= n PROVE Both(k + 1) = Both(k)
  <2> DEFINE m == n - (k + 1)
  <2>1. /\ n - k \in 1 .. n /\ k + 1 \in 1 .. n /\ n + 1 - (k + 1) = n - k
        /\ m \in 0 .. n /\ n - k - 1 = m /\ k \in 0 .. n /\ (k + 1) - 1 = k
    BY <1>2, <1>9
  <2> HIDE DEF m
  <2>2. u[k + 1] = seqs[n - k] \o u[k]
    <3>1. u[k + 1] = seqs[n + 1 - (k + 1)] \o u[(k + 1) - 1]
      BY <1>4, <2>1, Zenon
    <3>2. QED BY <2>1, <3>1, Zenon
  <2>3. f[n - k] = f[m] \o seqs[n - k]
    <3>1. f[n - k] = f[n - k - 1] \o seqs[n - k]
      BY <1>3, <2>1, Zenon
    <3>2. QED BY <2>1, <3>1, Zenon
  <2>4. f[m] \in E /\ seqs[n - k] \in E /\ u[k] \in E
    BY <1>2, <1>3, <2>1
  <2>5. f[m] \o (seqs[n - k] \o u[k]) = (f[m] \o seqs[n - k]) \o u[k]
    BY <1>5, <2>4, Zenon
  <2>6. QED BY <2>2, <2>3, <2>5, Zenon DEF m
<1>10. Both(n) = u[n]
  <2>1. u[n] \in E /\ n - n = 0
    BY <1>2
  <2>2. QED BY <1>6, <1>7, <2>1
<1> HIDE DEF Both
<1> DEFINE P == {k \in Nat : k <= n => Both(k) = f[n]}
<1>11. 0 \in P
  BY <1>8
<1>12. ASSUME NEW k \in Nat, k \in P PROVE k + 1 \in P
  BY <1>2, <1>9, <1>12
<1> HIDE DEF P
<1>13. n \in P
  BY <1>2, <1>11, <1>12, Induction
<1>14. QED BY <1>2, <1>7, <1>10, <1>13 DEF P, n

-----------------------------------------------------------------------------
(* Databases and what statements make of them. *)

Databases ==
  {d \in [Tables -> UNION {[Rows[t] -> Nat] : t \in Tables}] :
     \A t \in Tables : d[t] \in [Rows[t] -> Nat]}

\* The statements the generator produces.
Statement == {BuildReverseSQL(c) : c \in RowChange} \union {Warning(t) : t \in Tables}

LEMMA DatabaseUpdate ==
  ASSUME NEW d \in Databases, NEW t \in Tables, NEW bag \in [Rows[t] -> Nat]
  PROVE  [d EXCEPT ![t] = bag] \in Databases
<1> DEFINE e == [d EXCEPT ![t] = bag]
           B == UNION {[Rows[u] -> Nat] : u \in Tables}
<1>1. d \in [Tables -> B] /\ \A u \in Tables : d[u] \in [Rows[u] -> Nat]
  BY DEF Databases
<1>2. bag \in B
  OBVIOUS
<1> HIDE DEF B
<1>3. e \in [Tables -> B] /\ \A u \in Tables : e[u] \in [Rows[u] -> Nat]
  BY <1>1, <1>2
<1>4. QED BY <1>3 DEF Databases, B

LEMMA HowManyType ==
  ASSUME NEW t \in Tables, NEW bag \in [Rows[t] -> Nat], NEW S \in SUBSET Rows[t]
  PROVE  HowMany(bag, S) \in Nat
<1> DEFINE Copies(r) == {r} \X (1 .. bag[r])
           all == {Copies(r) : r \in S}
<1>1. IsFiniteSet(S)
  BY FS_Subset, ReversalAssumption DEF ReversalAssumption
<1>2. ASSUME NEW r \in S PROVE IsFiniteSet(Copies(r))
  <2>1. IsFiniteSet({r})
    BY FS_Singleton
  <2>2. IsFiniteSet(1 .. bag[r])
    BY FS_Interval, 1 \in Int, bag[r] \in Int
  <2>3. QED BY <2>1, <2>2, FS_Product
<1> HIDE DEF Copies
<1>3. IsFiniteSet(all)
  <2> DEFINE f == [r \in S |-> Copies(r)]
  <2>1. f \in Surjection(S, all)
    BY DEF Surjection
  <2>2. QED BY <1>1, <2>1, FS_Surjection
<1>4. IsFiniteSet(UNION all)
  BY <1>2, <1>3, FS_UNION
<1>5. QED BY <1>4, FS_CardinalityType DEF HowMany, Copies

\* What a statement is, case by case.
LEMMA StatementCases ==
  ASSUME NEW s \in Statement
  PROVE  /\ s.table \in Tables
         /\ \/ s.sql = "INSERT" /\ s.row \in Rows[s.table]
            \/ s.sql = "DELETE"
            \/ s.sql = "UPDATE" /\ s.row \in Rows[s.table]
            \/ s.sql = ""
<1>1. CASE \E t \in Tables : s = Warning(t)
  <2>1. PICK t \in Tables : s = Warning(t)
    BY <1>1
  <2>2. s.table = t /\ s.sql = ""
    BY <2>1 DEF Warning
  <2>3. QED BY <2>2
<1>2. CASE \E c \in RowChange : s = BuildReverseSQL(c)
  <2>1. PICK c \in RowChange : s = BuildReverseSQL(c)
    BY <1>2
  <2>2. PICK t \in Tables :
          \/ \E r \in Rows[t] : c = Insert(t, r)
          \/ \E r \in Rows[t] : c = Delete(t, r)
          \/ \E r, q \in Rows[t] : c = Update(t, r, q)
    BY DEF RowChange
  <2>3. CASE \E r \in Rows[t] : c = Insert(t, r)
    <3>1. s.table = t /\ s.sql = "DELETE"
      BY <2>1, <2>3 DEF BuildReverseSQL, Insert
    <3>2. QED BY <3>1
  <2>4. CASE \E r \in Rows[t] : c = Delete(t, r)
    <3>1. s.table = t /\ s.sql = "INSERT" /\ s.row \in Rows[t]
      BY <2>1, <2>4 DEF BuildReverseSQL, Delete
    <3>2. QED BY <3>1
  <2>5. CASE \E r, q \in Rows[t] : c = Update(t, r, q)
    <3>1. s.table = t /\ s.sql = "UPDATE" /\ s.row \in Rows[t]
      BY <2>1, <2>5 DEF BuildReverseSQL, Update
    <3>2. QED BY <3>1
  <2>6. QED BY <2>2, <2>3, <2>4, <2>5
<1>3. QED BY <1>1, <1>2 DEF Statement

LEMMA ExecutedType ==
  ASSUME NEW d \in Databases, NEW s \in Statement
  PROVE  Executed(d, s) \in Databases
<1> DEFINE t == s.table
           bag == d[t]
<1>1. t \in Tables
  BY StatementCases
<1>2. bag \in [Rows[t] -> Nat]
  BY <1>1 DEF Databases
<1>3. Outcome(t, bag, s) \in [Rows[t] -> Nat]
  <2>1. ASSUME NEW w PROVE Removed(t, bag, w) \in [Rows[t] -> Nat]
    BY <1>2 DEF Removed
  <2>2. ASSUME s.row \in Rows[t] PROVE Inserted(bag, s.row) \in [Rows[t] -> Nat]
    BY <1>2, <2>2 DEF Inserted
  <2>3. ASSUME NEW w, s.row \in Rows[t] PROVE Rewritten(t, bag, w, s.row) \in [Rows[t] -> Nat]
    <3>1. HowMany(bag, Hits(t, bag, w)) \in Nat
      BY <1>1, <1>2, HowManyType DEF Hits
    <3> DEFINE kept == Removed(t, bag, w)
    <3>2. kept \in [Rows[t] -> Nat]
      BY <2>1
    <3> HIDE DEF kept
    <3>3. [kept EXCEPT ![s.row] = @ + HowMany(bag, Hits(t, bag, w))] \in [Rows[t] -> Nat]
      BY <2>3, <3>1, <3>2
    <3>4. QED BY <3>3 DEF Rewritten, kept
  <2> HIDE DEF t, bag
  <2>4. QED BY <1>2, <2>1, <2>2, <2>3, StatementCases DEF Outcome, t
<1>4. [d EXCEPT ![t] = Outcome(t, bag, s)] \in Databases
  BY <1>1, <1>3, DatabaseUpdate
<1>5. QED BY <1>4 DEF Executed

\* f[i] is the database after the first i statements.
Executes(f, d, stmts) ==
  /\ f \in [0 .. Len(stmts) -> Databases]
  /\ f[0] = d
  /\ \A i \in 1 .. Len(stmts) : f[i] = Executed(f[i - 1], stmts[i])

LEMMA ExecutesExists ==
  ASSUME NEW d \in Databases, NEW stmts \in Seq(Statement)
  PROVE  \E f : Executes(f, d, stmts)
<1> DEFINE n == Len(stmts)
           step == [p \in Databases \X (1 .. n) |-> Executed(p[1], stmts[p[2]])]
<1>1. n \in Nat
  OBVIOUS
<1>2. ASSUME NEW e \in Databases, NEW i \in 1 .. n
      PROVE  step[<<e, i>>] = Executed(e, stmts[i]) /\ step[<<e, i>>] \in Databases
  BY ExecutedType
<1> HIDE DEF step
<1>3. PICK f : Iterates(f, Databases, n, d, step)
  BY <1>1, <1>2, Recursion DEF StepsWithin
<1>4. ASSUME NEW i \in 1 .. n PROVE f[i] = Executed(f[i - 1], stmts[i])
  BY <1>1, <1>2, <1>3, i - 1 \in 0 .. n DEF Iterates
<1>5. QED BY <1>3, <1>4 DEF Iterates, Executes

LEMMA ExecuteAllIs ==
  ASSUME NEW d, NEW stmts \in Seq(Statement), NEW f, Executes(f, d, stmts)
  PROVE  ExecuteAll(d, stmts) = f[Len(stmts)]
<1> DEFINE n == Len(stmts)
           After(g) == g = [i \in 0 .. n |-> IF i = 0 THEN d ELSE Executed(g[i - 1], stmts[i])]
           h == CHOOSE g : After(g)
<1>1. n \in Nat
  OBVIOUS
<1>2. After(f)
  <2>1. \A i \in 0 .. n : f[i] = IF i = 0 THEN d ELSE Executed(f[i - 1], stmts[i])
    BY <1>1 DEF Executes
  <2>2. f = [i \in 0 .. n |-> f[i]]
    BY DEF Executes
  <2>3. [i \in 0 .. n |-> f[i]]
          = [i \in 0 .. n |-> IF i = 0 THEN d ELSE Executed(f[i - 1], stmts[i])]
    BY <2>1
  <2>4. QED BY <2>2, <2>3
<1>3. After(h)
  BY <1>2
<1>4. ExecuteAll(d, stmts) = h[n]
  BY DEF ExecuteAll
<1> DEFINE P == {k \in Nat : k <= n => h[k] = f[k]}
<1>5. \A i \in 1 .. n : h[i] = Executed(h[i - 1], stmts[i]) /\ f[i] = Executed(f[i - 1], stmts[i])
  <2> HIDE DEF h
  <2>1. QED BY <1>1, <1>3 DEF Executes
<1>6. h[0] = d /\ f[0] = d
  <2> HIDE DEF h
  <2>1. QED BY <1>1, <1>3 DEF Executes
<1> HIDE DEF n, h
<1>7. 0 \in P
  BY <1>6
<1>8. ASSUME NEW k \in Nat, k \in P PROVE k + 1 \in P
  BY <1>1, <1>5, <1>8, (k + 1) - 1 = k
<1> HIDE DEF P
<1>9. n \in P
  BY <1>1, <1>7, <1>8, Induction
<1>10. QED BY <1>1, <1>4, <1>9 DEF P, n

LEMMA ExecuteAllType ==
  ASSUME NEW d \in Databases, NEW stmts \in Seq(Statement)
  PROVE  ExecuteAll(d, stmts) \in Databases
<1>1. PICK f : Executes(f, d, stmts)
  BY ExecutesExists
<1>2. QED BY <1>1, ExecuteAllIs DEF Executes

-----------------------------------------------------------------------------
(* The reverse SQL of one change, and of a history of changes. *)

\* A database in which no two rows are alike and the primary keys hold.
Sane(d) ==
  /\ d \in Databases
  /\ Distinct(d)
  /\ \A t \in Tables : KeysHold(t, d[t])

\* The WHERE clause picks out the row whose image it was built from.
LEMMA HitsOne ==
  ASSUME NEW t \in Tables, NEW bag \in [Rows[t] -> Nat], KeysHold(t, bag),
         NEW r \in Rows[t], bag[r] > 0
  PROVE  Hits(t, bag, BuildWhere(t, r)) = {r}
<1> DEFINE usable == {c \in Keys[t] : r[c] # Null}
           cols == IF usable # {} THEN usable ELSE Columns
           where == BuildWhere(t, r)
<1>1. Keys[t] \subseteq Columns /\ usable = Keys[t]
  BY ReversalAssumption DEF ReversalAssumption
<1>2. where = [c \in cols |-> r[c]]
  BY DEF BuildWhere, BuildWhereCols
<1>3. r \in Hits(t, bag, where)
  BY <1>2 DEF Hits
<1>4. ASSUME NEW s \in Hits(t, bag, where) PROVE s = r
  <2>1. s \in Rows[t] /\ bag[s] > 0 /\ \A c \in cols : s[c] = r[c]
    BY <1>2 DEF Hits
  <2>2. CASE Keys[t] = {}
    <3>1. \A c \in Columns : s[c] = r[c]
      BY <1>1, <2>1, <2>2
    <3>2. r = [c \in Columns |-> r[c]] /\ s = [c \in Columns |-> s[c]]
      BY <2>1, ReversalAssumption DEF ReversalAssumption
    <3>3. QED BY <3>1, <3>2
  <2>3. CASE Keys[t] # {}
    <3>1. SameKey(t, s, r)
      BY <1>1, <2>1, <2>3 DEF SameKey
    <3>2. QED BY <2>1, <3>1 DEF KeysHold
  <2>4. QED BY <2>2, <2>3
<1> HIDE DEF where
<1>5. QED BY <1>3, <1>4 DEF where

\* Undoing a change, table by table.
LEMMA UndoInsert ==
  ASSUME NEW t \in Tables, NEW bag \in [Rows[t] -> Nat], NEW r \in Rows[t],
         KeysHold(t, bag), bag[r] = 0
  PROVE  LET new == [bag EXCEPT ![r] = @ + 1]
         IN KeysHold(t, new) => Removed(t, new, BuildWhere(t, r)) = bag
<1> DEFINE new == [bag EXCEPT ![r] = @ + 1]
<1>1. SUFFICES ASSUME KeysHold(t, new) PROVE Removed(t, new, BuildWhere(t, r)) = bag
  OBVIOUS
<1>2. /\ new \in [Rows[t] -> Nat] /\ new[r] = 1
      /\ \A s \in Rows[t] : s # r => new[s] = bag[s]
  OBVIOUS
<1> HIDE DEF new
<1>3. Hits(t, new, BuildWhere(t, r)) = {r}
  BY <1>1, <1>2, HitsOne
<1>4. \A s \in Rows[t] : bag[s] = IF s \in {r} THEN 0 ELSE new[s]
  BY <1>2
<1>5. QED BY <1>3, <1>4 DEF Removed

LEMMA UndoDelete ==
  ASSUME NEW t \in Tables, NEW bag \in [Rows[t] -> Nat], NEW r \in Rows[t], bag[r] > 0
  PROVE  Inserted([bag EXCEPT ![r] = @ - 1], r) = bag
<1>1. bag[r] \in Nat /\ (bag[r] - 1) + 1 = bag[r]
  OBVIOUS
<1>2. QED BY <1>1 DEF Inserted

LEMMA UndoUpdate ==
  ASSUME NEW t \in Tables, NEW bag \in [Rows[t] -> Nat], NEW r \in Rows[t], NEW s \in Rows[t],
         r # s, bag[r] > 0, bag[s] = 0
  PROVE  LET new == [[bag EXCEPT ![r] = @ - 1] EXCEPT ![s] = @ + 1]
         IN KeysHold(t, new) => Rewritten(t, new, BuildWhere(t, s), r) = bag
<1> DEFINE new == [[bag EXCEPT ![r] = @ - 1] EXCEPT ![s] = @ + 1]
           where == BuildWhere(t, s)
           kept == Removed(t, new, where)
<1>1. SUFFICES ASSUME KeysHold(t, new) PROVE Rewritten(t, new, where, r) = bag
  OBVIOUS
<1>2. bag[r] \in Nat /\ bag[r] - 1 \in Nat /\ (bag[r] - 1) + 1 = bag[r]
  OBVIOUS
<1>3. /\ new \in [Rows[t] -> Nat] /\ new[s] = 1 /\ new[r] = bag[r] - 1
      /\ \A q \in Rows[t] : q # r /\ q # s => new[q] = bag[q]
  BY <1>2
<1> HIDE DEF new
<1>4. Hits(t, new, where) = {s}
  BY <1>1, <1>3, HitsOne
<1>5. HowMany(new, {s}) = 1
  <2>1. {{q} \X (1 .. new[q]) : q \in {s}} = {{s} \X (1 .. 1)}
    BY <1>3
  <2>2. {s} \X (1 .. 1) = {<<s, 1>>}
    <3>1. 1 .. 1 = {1}
      OBVIOUS
    <3>2. QED BY <3>1
  <2>3. UNION {{q} \X (1 .. new[q]) : q \in {s}} = {<<s, 1>>}
    BY <2>1, <2>2
  <2>4. Cardinality({<<s, 1>>}) = 1
    BY FS_Singleton
  <2>5. QED BY <2>3, <2>4 DEF HowMany
<1> HIDE DEF where
<1>6. kept = [q \in Rows[t] |-> IF q = s THEN 0 ELSE new[q]]
  BY <1>4 DEF Removed
<1>7. [kept EXCEPT ![r] = @ + 1] = bag
  BY <1>2, <1>3, <1>6
<1> HIDE DEF kept
<1>8. QED BY <1>4, <1>5, <1>7 DEF Rewritten, kept

\* What a change does, case by case.
LEMMA MovedInsert ==
  ASSUME NEW bag, NEW t, NEW r
  PROVE  Moved(bag, Insert(t, r)) = [bag EXCEPT ![r] = @ + 1]
<1>1. Insert(t, r).action = "insert" /\ Insert(t, r).after = r
  BY DEF Insert
<1>2. QED BY <1>1 DEF Moved

LEMMA MovedDelete ==
  ASSUME NEW bag, NEW t, NEW r
  PROVE  Moved(bag, Delete(t, r)) = [bag EXCEPT ![r] = @ - 1]
<1>1. Delete(t, r).action = "delete" /\ Delete(t, r).before = r
  BY DEF Delete
<1>2. QED BY <1>1 DEF Moved

LEMMA MovedUpdate ==
  ASSUME NEW bag, NEW t, NEW r, NEW q
  PROVE  Moved(bag, Update(t, r, q)) = [[bag EXCEPT ![r] = @ - 1] EXCEPT ![q] = @ + 1]
<1>1. /\ Update(t, r, q).action = "update"
      /\ Update(t, r, q).before = r /\ Update(t, r, q).after = q
  BY DEF Update
<1>2. QED BY <1>1 DEF Moved

\* The reverse SQL of a change takes the database back to what it was before.
THEOREM UndoOne ==
  ASSUME NEW d, Sane(d), NEW c \in RowChange, Possible(d, c), Sane(Changed(d, c))
  PROVE  Executed(Changed(d, c), BuildReverseSQL(c)) = d
<1> DEFINE e == Changed(d, c)
           t == c.table
           s == BuildReverseSQL(c)
<1>1. c \in Changes(d) /\ d \in Databases /\ e \in Databases
  BY DEF Possible, Sane
<1>2. PICK u \in Tables : c \in ChangesOf(u, d[u])
  BY <1>1 DEF Changes
<1>3. t = u /\ t \in Tables
  BY <1>2 DEF ChangesOf, Insert, Delete, Update
<1>4. d[t] \in [Rows[t] -> Nat] /\ KeysHold(t, d[t]) /\ KeysHold(t, e[t])
      /\ \A r \in Rows[t] : d[t][r] <= 1 /\ e[t][r] <= 1
  BY <1>1, <1>3 DEF Sane, Databases, Distinct
<1>5. d = [w \in Tables |-> d[w]]
  BY <1>1 DEF Databases
<1>6. e = [d EXCEPT ![t] = Moved(d[t], c)] /\ e[t] = Moved(d[t], c)
  BY <1>3, <1>5 DEF Changed
<1> HIDE DEF e
<1> SUFFICES s.table = t /\ Outcome(t, e[t], s) = d[t]
  <2>1. ASSUME s.table = t, Outcome(t, e[t], s) = d[t] PROVE Executed(e, s) = d
    <3>1. Executed(e, s) = [e EXCEPT ![t] = d[t]]
      BY <2>1 DEF Executed
    <3>2. QED BY <1>3, <1>5, <1>6, <3>1
  <2>2. QED BY <2>1 DEF e
<1> HIDE DEF t
<1>7. CASE c \in {Insert(u, r) : r \in Rows[u]}
  <2>1. PICK r \in Rows[t] : c = Insert(t, r)
    BY <1>3, <1>7
  <2>2. e[t] = [d[t] EXCEPT ![r] = @ + 1]
    <3>1. Moved(d[t], Insert(t, r)) = [d[t] EXCEPT ![r] = @ + 1]
      BY MovedInsert
    <3>2. QED BY <1>6, <2>1, <3>1
  <2>3. d[t][r] = 0
    BY <1>4, <2>2
  <2>4. s = [sql |-> "DELETE", table |-> t, where |-> BuildWhere(t, r), row |-> NoRow]
    BY <2>1 DEF BuildReverseSQL, Insert
  <2>5. Removed(t, e[t], BuildWhere(t, r)) = d[t]
    BY <1>3, <1>4, <2>2, <2>3, UndoInsert
  <2>6. Outcome(t, e[t], s) = d[t]
    BY <1>4, <2>4, <2>5 DEF Outcome
  <2>7. QED BY <2>4, <2>6
<1>8. CASE c \in {Delete(u, r) : r \in {r \in Rows[u] : d[u][r] > 0}}
  <2>1. PICK r \in Rows[t] : c = Delete(t, r) /\ d[t][r] > 0
    BY <1>3, <1>8
  <2>2. e[t] = [d[t] EXCEPT ![r] = @ - 1]
    <3>1. Moved(d[t], Delete(t, r)) = [d[t] EXCEPT ![r] = @ - 1]
      BY MovedDelete
    <3>2. QED BY <1>6, <2>1, <3>1
  <2>3. s = [sql |-> "INSERT", table |-> t, where |-> <<>>, row |-> r]
    BY <2>1 DEF BuildReverseSQL, Delete
  <2>4. Inserted(e[t], r) = d[t]
    BY <1>3, <1>4, <2>1, <2>2, UndoDelete
  <2>5. Outcome(t, e[t], s) = d[t]
    BY <1>4, <2>3, <2>4 DEF Outcome
  <2>6. QED BY <2>3, <2>5
<1>9. CASE c \in {Update(u, h[1], h[2]) :
               h \in {p \in {r \in Rows[u] : d[u][r] > 0} \X Rows[u] : p[1] # p[2]}}
  <2>1. PICK r \in Rows[t], q \in Rows[t] : c = Update(t, r, q) /\ d[t][r] > 0 /\ r # q
    BY <1>3, <1>9
  <2>2. e[t] = [[d[t] EXCEPT ![r] = @ - 1] EXCEPT ![q] = @ + 1]
    <3>1. Moved(d[t], Update(t, r, q)) = [[d[t] EXCEPT ![r] = @ - 1] EXCEPT ![q] = @ + 1]
      BY MovedUpdate
    <3>2. QED BY <1>6, <2>1, <3>1
  <2>3. d[t][q] = 0
    BY <1>4, <2>1, <2>2
  <2>4. s = [sql |-> "UPDATE", table |-> t, where |-> BuildWhere(t, q), row |-> r]
    BY <2>1 DEF BuildReverseSQL, Update
  <2>5. Rewritten(t, e[t], BuildWhere(t, q), r) = d[t]
    BY <1>3, <1>4, <2>1, <2>2, <2>3, UndoUpdate
  <2>6. Outcome(t, e[t], s) = d[t]
    BY <1>4, <2>4, <2>5 DEF Outcome
  <2>7. QED BY <2>4, <2>6
<1>10. QED BY <1>2, <1>7, <1>8, <1>9 DEF ChangesOf

\* The changes rows may lead from the database d to e.
Leads(d, rows, e) ==
  \E g \in [0 .. Len(rows) -> Databases] :
    /\ g[0] = d /\ g[Len(rows)] = e
    /\ \A i \in 0 .. Len(rows) : Sane(g[i])
    /\ \A i \in 1 .. Len(rows) :
         Possible(g[i - 1], rows[i]) /\ g[i] = Changed(g[i - 1], rows[i])

LEMMA LeadsNowhere ==
  ASSUME NEW d, Sane(d)
  PROVE  Leads(d, <<>>, d)
<1> DEFINE g == [i \in 0 .. 0 |-> d]
<1>1. Len(<<>>) = 0 /\ d \in Databases
  BY DEF Sane
<1>2. /\ g \in [0 .. 0 -> Databases] /\ g[0] = d
      /\ \A i \in 0 .. 0 : Sane(g[i])
  BY <1>1
<1> HIDE DEF g
<1>3. QED BY <1>1, <1>2 DEF Leads

LEMMA LeadsOn ==
  ASSUME NEW r \in Seq(RowChange), NEW s \in Seq(RowChange), NEW d, NEW e, NEW f,
         Leads(d, r, e), Leads(e, s, f)
  PROVE  Leads(d, r \o s, f)
<1> DEFINE m == Len(r)
           n == Len(s)
           rs == r \o s
           Step(g, rows, i) == Possible(g[i - 1], rows[i]) /\ g[i] = Changed(g[i - 1], rows[i])
<1>1. m \in Nat /\ n \in Nat
  OBVIOUS
<1>2. PICK g \in [0 .. m -> Databases] :
        /\ g[0] = d /\ g[m] = e
        /\ \A i \in 0 .. m : Sane(g[i])
        /\ \A i \in 1 .. m : Step(g, r, i)
  BY DEF Leads
<1>3. PICK h \in [0 .. n -> Databases] :
        /\ h[0] = e /\ h[n] = f
        /\ \A i \in 0 .. n : Sane(h[i])
        /\ \A i \in 1 .. n : Step(h, s, i)
  BY DEF Leads
<1>4. /\ Len(rs) = m + n
      /\ \A i \in 1 .. m : rs[i] = r[i]
      /\ \A i \in m + 1 .. m + n : rs[i] = s[i - m]
  BY ConcatProperties
<1> DEFINE p == [i \in 0 .. m + n |-> IF i <= m THEN g[i] ELSE h[i - m]]
<1> HIDE DEF m, n, rs
<1>5. /\ p \in [0 .. m + n -> Databases]
      /\ \A i \in 0 .. m : p[i] = g[i]
      /\ \A i \in m .. m + n : p[i] = h[i - m]
  <2>1. ASSUME NEW i \in 0 .. m + n PROVE p[i] \in Databases
    BY <1>1, <1>2, <1>3
  <2>2. ASSUME NEW i \in m .. m + n PROVE p[i] = h[i - m]
    BY <1>1, <1>2, <1>3, m - m = 0
  <2>3. ASSUME NEW i \in 0 .. m PROVE p[i] = g[i]
    BY <1>1
  <2>4. p \in [0 .. m + n -> Databases]
    BY <2>1
  <2>5. QED BY <2>2, <2>3, <2>4
<1> HIDE DEF p
<1>6. p[0] = d /\ p[m + n] = f
  BY <1>1, <1>2, <1>3, <1>5, (m + n) - m = n
<1>7. ASSUME NEW i \in 0 .. m + n PROVE Sane(p[i])
  <2>1. CASE i <= m
    BY <1>1, <1>2, <1>5, <2>1
  <2>2. CASE i > m
    BY <1>1, <1>3, <1>5, <2>2, i - m \in 0 .. n
  <2>3. QED BY <1>1, <2>1, <2>2
<1>8. ASSUME NEW i \in 1 .. m + n PROVE Step(p, rs, i)
  <2>1. CASE i <= m
    <3>1. p[i] = g[i] /\ p[i - 1] = g[i - 1] /\ rs[i] = r[i] /\ Step(g, r, i)
      BY <1>1, <1>2, <1>4, <1>5, <2>1
    <3>2. QED BY <3>1
  <2>2. CASE i > m
    <3>1. i - m \in 1 .. n /\ i - 1 \in m .. m + n /\ (i - 1) - m = (i - m) - 1
          /\ i \in m + 1 .. m + n
      BY <1>1, <2>2
    <3>2. p[i] = h[i - m] /\ p[i - 1] = h[(i - m) - 1] /\ rs[i] = s[i - m] /\ Step(h, s, i - m)
      BY <1>1, <1>3, <1>4, <1>5, <3>1
    <3>3. QED BY <3>2
  <2>3. QED BY <1>1, <2>1, <2>2
<1> HIDE DEF Step
<1>9. \E q \in [0 .. m + n -> Databases] :
        /\ q[0] = d /\ q[m + n] = f
        /\ \A i \in 0 .. m + n : Sane(q[i])
        /\ \A i \in 1 .. m + n : Step(q, rs, i)
  BY <1>5, <1>6, <1>7, <1>8
<1>10. QED BY <1>4, <1>9, Zenon DEF Leads, Step, rs

LEMMA LeadsOne ==
  ASSUME NEW d, Sane(d), NEW c, Possible(d, c), Sane(Changed(d, c))
  PROVE  Leads(d, <<c>>, Changed(d, c))
<1> DEFINE g == [i \in 0 .. 1 |-> IF i = 0 THEN d ELSE Changed(d, c)]
<1>1. Len(<<c>>) = 1 /\ <<c>>[1] = c
  OBVIOUS
<1>2. g \in [0 .. 1 -> Databases] /\ g[0] = d /\ g[1] = Changed(d, c)
  BY DEF Sane
<1> HIDE DEF g
<1>3. \A i \in 0 .. 1 : Sane(g[i])
  BY <1>2
<1>4. QED BY <1>1, <1>2, <1>3 DEF Leads

LEMMA LeadsMore ==
  ASSUME NEW rows \in Seq(RowChange), NEW d, NEW e, Leads(d, rows, e), Sane(e),
         NEW c \in RowChange, Possible(e, c), Sane(Changed(e, c))
  PROVE  Leads(d, Append(rows, c), Changed(e, c))
<1>1. Leads(d, rows \o <<c>>, Changed(e, c))
  BY LeadsOne, LeadsOn, <<c>> \in Seq(RowChange)
<1>2. QED BY <1>1, AppendIsConcat

\* What Generate returns for tables whose columns are known.
LEMMA GenerateIs ==
  ASSUME NEW rows \in Seq(RowChange)
  PROVE  /\ Generate(rows, Tables) \in Seq(Statement)
         /\ Len(Generate(rows, Tables)) = Len(rows)
         /\ \A i \in 1 .. Len(rows) :
              Generate(rows, Tables)[i] = BuildReverseSQL(rows[Len(rows) + 1 - i])
<1> DEFINE n == Len(rows)
           stmts == Generate(rows, Tables)
<1>1. n \in Nat
  OBVIOUS
<1>2. ASSUME NEW c \in RowChange PROVE c.table \in Tables
  BY DEF RowChange, Insert, Delete, Update
<1>3. ASSUME NEW i \in 1 .. n PROVE rows[n + 1 - i] \in RowChange
  BY <1>1, n + 1 - i \in 1 .. n, ElementOfSeq
<1>4. stmts = [i \in 1 .. n |-> BuildReverseSQL(rows[n + 1 - i])]
  BY <1>2, <1>3 DEF Generate
<1>5. \A i \in 1 .. n : BuildReverseSQL(rows[n + 1 - i]) \in Statement
  BY <1>3 DEF Statement
<1> HIDE DEF n, stmts
<1>6. stmts \in [1 .. n -> Statement]
  BY <1>4, <1>5
<1>7. stmts \in Seq(Statement) /\ Len(stmts) = n
  BY <1>1, <1>6
<1>8. QED BY <1>4, <1>7 DEF n, stmts

\* For any tables whose columns are known, and what it takes for none of the
\* statements to be a mere warning.
LEMMA GenerateType ==
  ASSUME NEW rows \in Seq(RowChange), NEW schema
  PROVE  /\ Generate(rows, schema) \in Seq(Statement)
         /\ (\A k \in 1 .. Len(Generate(rows, schema)) : Generate(rows, schema)[k].sql # "")
              => Generate(rows, schema) = Generate(rows, Tables)
<1> DEFINE n == Len(rows)
           S(i, known) == IF rows[n + 1 - i].table \in known THEN BuildReverseSQL(rows[n + 1 - i])
                          ELSE Warning(rows[n + 1 - i].table)
           g == Generate(rows, schema)
           h == Generate(rows, Tables)
<1>1. n \in Nat
  OBVIOUS
<1>2. ASSUME NEW i \in 1 .. n
      PROVE  rows[n + 1 - i] \in RowChange /\ rows[n + 1 - i].table \in Tables
  <2>1. rows[n + 1 - i] \in RowChange
    BY <1>1, n + 1 - i \in 1 .. n, ElementOfSeq
  <2>2. ASSUME NEW c \in RowChange PROVE c.table \in Tables
    BY DEF RowChange, Insert, Delete, Update
  <2>3. QED BY <2>1, <2>2
<1>3. ASSUME NEW i \in 1 .. n PROVE S(i, schema) \in Statement
  BY <1>2 DEF Statement
<1>4. g = [i \in 1 .. n |-> S(i, schema)] /\ h = [i \in 1 .. n |-> S(i, Tables)]
  BY DEF Generate
<1>5. ASSUME NEW i \in 1 .. n, S(i, schema).sql # "" PROVE S(i, schema) = S(i, Tables)
  BY <1>2, <1>5 DEF Warning
<1> HIDE DEF n, S, g, h
<1>6. g \in [1 .. n -> Statement]
  BY <1>3, <1>4
<1>7. g \in Seq(Statement) /\ Len(g) = n
  BY <1>1, <1>6
<1>8. ASSUME \A k \in 1 .. n : g[k].sql # "" PROVE g = h
  <2>1. \A i \in 1 .. n : S(i, schema).sql # ""
    BY <1>4, <1>8
  <2>2. \A i \in 1 .. n : S(i, schema) = S(i, Tables)
    BY <1>5, <2>1
  <2>3. QED BY <1>4, <2>2
<1>9. QED BY <1>7, <1>8 DEF g, h

\* Executing the reverse SQL of a history, newest change first, takes the
\* database back to where the history began (generator.go:21-92).
THEOREM UndoAll ==
  ASSUME NEW rows \in Seq(RowChange), NEW d, NEW e, Leads(d, rows, e)
  PROVE  ExecuteAll(e, Generate(rows, Tables)) = d
<1> DEFINE n == Len(rows)
           stmts == Generate(rows, Tables)
<1>1. n \in Nat
  OBVIOUS
<1>2. PICK g \in [0 .. n -> Databases] :
        /\ g[0] = d /\ g[n] = e
        /\ \A i \in 0 .. n : Sane(g[i])
        /\ \A i \in 1 .. n :
             Possible(g[i - 1], rows[i]) /\ g[i] = Changed(g[i - 1], rows[i])
  BY DEF Leads
<1>3. stmts \in Seq(Statement) /\ Len(stmts) = n
      /\ \A i \in 1 .. n : stmts[i] = BuildReverseSQL(rows[n + 1 - i])
  BY GenerateIs
<1>4. \A i \in 1 .. n : rows[i] \in RowChange
  BY ElementOfSeq
<1> HIDE DEF n, stmts
<1> DEFINE f == [i \in 0 .. n |-> g[n - i]]
<1>5. f \in [0 .. n -> Databases] /\ f[0] = e /\ f[n] = d
  BY <1>1, <1>2, n - 0 = n, n - n = 0
<1>6. ASSUME NEW i \in 1 .. n PROVE f[i] = Executed(f[i - 1], stmts[i])
  <2> DEFINE k == n + 1 - i
  <2>1. k \in 1 .. n /\ k - 1 \in 0 .. n /\ k \in 0 .. n /\ f[i] = g[k - 1] /\ f[i - 1] = g[k]
    <3>1. n - i = k - 1 /\ n - (i - 1) = k
      BY <1>1
    <3>2. QED BY <1>1, <3>1
  <2> HIDE DEF k, f
  <2>2. Possible(g[k - 1], rows[k]) /\ g[k] = Changed(g[k - 1], rows[k])
        /\ Sane(g[k - 1]) /\ Sane(g[k]) /\ rows[k] \in RowChange
    BY <1>2, <1>4, <2>1
  <2>3. stmts[i] = BuildReverseSQL(rows[k])
    BY <1>3 DEF k
  <2>4. Executed(g[k], stmts[i]) = g[k - 1]
    BY <2>2, <2>3, UndoOne
  <2>5. QED BY <2>1, <2>4
<1> HIDE DEF f
<1>7. Executes(f, e, stmts)
  BY <1>3, <1>5, <1>6 DEF Executes
<1>8. QED BY <1>3, <1>5, <1>7, ExecuteAllIs DEF stmts

\* The statements of several transactions, the newest transaction first, are
\* those of all their changes.
LEMMA GenerateConcat ==
  ASSUME NEW r \in Seq(RowChange), NEW s \in Seq(RowChange)
  PROVE  Generate(r \o s, Tables) = Generate(s, Tables) \o Generate(r, Tables)
<1> DEFINE m == Len(r)
           n == Len(s)
           rs == r \o s
           G(q) == Generate(q, Tables)
           a == G(rs)
           b == G(s) \o G(r)
<1> m \in Nat /\ n \in Nat
  OBVIOUS
<1>1. /\ rs \in Seq(RowChange) /\ Len(rs) = m + n
      /\ \A i \in 1 .. m + n : rs[i] = IF i <= m THEN r[i] ELSE s[i - m]
  BY ConcatProperties
<1> HIDE DEF rs
<1>2. /\ G(rs) \in Seq(Statement) /\ Len(G(rs)) = m + n
      /\ \A i \in 1 .. m + n : G(rs)[i] = BuildReverseSQL(rs[m + n + 1 - i])
  BY <1>1, GenerateIs
<1>3. /\ G(r) \in Seq(Statement) /\ Len(G(r)) = m
      /\ \A i \in 1 .. m : G(r)[i] = BuildReverseSQL(r[m + 1 - i])
  BY GenerateIs
<1>4. /\ G(s) \in Seq(Statement) /\ Len(G(s)) = n
      /\ \A i \in 1 .. n : G(s)[i] = BuildReverseSQL(s[n + 1 - i])
  BY GenerateIs
<1> HIDE DEF m, n, G
<1>5. /\ b \in Seq(Statement) /\ Len(b) = n + m
      /\ \A i \in 1 .. n + m : b[i] = IF i <= n THEN G(s)[i] ELSE G(r)[i - n]
  <2>1. \A x, y \in Seq(Statement) :
          /\ x \o y \in Seq(Statement) /\ Len(x \o y) = Len(x) + Len(y)
          /\ \A i \in 1 .. Len(x) + Len(y) :
               (x \o y)[i] = IF i <= Len(x) THEN x[i] ELSE y[i - Len(x)]
    BY ConcatProperties
  <2>2. QED BY <1>3, <1>4, <2>1
<1> HIDE DEF a, b
<1>6. ASSUME NEW i \in 1 .. m + n PROVE a[i] = b[i]
  <2> DEFINE k == m + n + 1 - i
  <2>1. k \in 1 .. m + n /\ i \in 1 .. n + m
    OBVIOUS
  <2>2. a[i] = BuildReverseSQL(rs[k])
    BY <1>2 DEF a
  <2>3. CASE i <= n
    <3>1. k > m /\ k - m = n + 1 - i /\ i \in 1 .. n
      BY <2>3
    <3> HIDE DEF k
    <3>2. rs[k] = s[n + 1 - i]
      <4>1. rs[k] = s[k - m]
        BY <1>1, <2>1, <3>1
      <4>2. QED BY <3>1, <4>1
    <3>3. b[i] = G(s)[i]
      BY <1>5, <2>1, <2>3
    <3>4. G(s)[i] = BuildReverseSQL(s[n + 1 - i])
      BY <1>4, <3>1
    <3>5. QED BY <2>2, <3>2, <3>3, <3>4
  <2>4. CASE i > n
    <3>1. k <= m /\ k = m + 1 - (i - n) /\ i - n \in 1 .. m
      BY <2>4
    <3> HIDE DEF k
    <3>2. rs[k] = r[k]
      BY <1>1, <2>1, <3>1
    <3>3. b[i] = G(r)[i - n]
      BY <1>5, <2>1, <2>4
    <3>4. G(r)[i - n] = BuildReverseSQL(r[m + 1 - (i - n)])
      BY <1>3, <3>1
    <3>5. QED BY <2>2, <3>1, <3>2, <3>3, <3>4
  <2>5. QED BY <2>3, <2>4
<1>7. a \in Seq(Statement) /\ Len(a) = m + n /\ b \in Seq(Statement) /\ Len(b) = m + n
  BY <1>2, <1>5 DEF a
<1>8. a = b
  BY <1>6, <1>7, SeqEqual
<1>9. QED BY <1>8 DEF a, b, G, rs

LEMMA FlattenGenerate ==
  ASSUME NEW seqs \in Seq(Seq(RowChange))
  PROVE  FlattenSeq(Reverse([i \in 1 .. Len(seqs) |-> Generate(seqs[i], Tables)]))
           = Generate(FlattenSeq(seqs), Tables)
<1> DEFINE n == Len(seqs)
           stmts == [i \in 1 .. n |-> Generate(seqs[i], Tables)]
           rev == Reverse(stmts)
<1>1. PICK f : Joins(f, seqs, RowChange)
  BY JoinsExists
<1>2. n \in Nat /\ f \in [0 .. n -> Seq(RowChange)] /\ f[0] = <<>>
      /\ \A i \in 1 .. n : seqs[i] \in Seq(RowChange)
  BY <1>1, ElementOfSeq DEF Joins
<1>3. FlattenSeq(seqs) = f[n]
  BY <1>1, FlattenJoins
<1>4. stmts \in [1 .. n -> Seq(Statement)]
  BY <1>2, GenerateIs
<1>5. Len(stmts) = n
  BY <1>2, <1>4
<1>6. rev = [i \in 1 .. n |-> stmts[n - i + 1]]
  BY <1>5 DEF Reverse
<1>7. rev \in [1 .. n -> Seq(Statement)] /\ \A i \in 1 .. n : rev[n + 1 - i] = Generate(seqs[i], Tables)
  <2>1. n \in Nat
    OBVIOUS
  <2>2. \A i \in 1 .. n : stmts[i] = Generate(seqs[i], Tables)
    OBVIOUS
  <2> HIDE DEF n, stmts, rev
  <2>3. ASSUME NEW i \in 1 .. n PROVE n - i + 1 \in 1 .. n
    BY <2>1
  <2>4. ASSUME NEW i \in 1 .. n PROVE rev[n + 1 - i] = Generate(seqs[i], Tables)
    <3>1. n + 1 - i \in 1 .. n /\ n - (n + 1 - i) + 1 = i
      BY <2>1
    <3>2. QED BY <1>6, <2>2, <3>1
  <2>5. QED BY <1>4, <1>6, <2>3, <2>4
<1>8. rev \in Seq(Seq(Statement)) /\ Len(rev) = n
  <2> HIDE DEF n, rev
  <2>1. QED BY <1>2, <1>7
<1> DEFINE u == [k \in 0 .. n |-> Generate(f[k], Tables)]
<1>9. u \in [0 .. n -> Seq(Statement)]
  BY <1>2, GenerateIs
<1>10. u[0] = <<>>
  BY <1>2 DEF Generate
<1>11. ASSUME NEW k \in 1 .. n PROVE u[k] = rev[n + 1 - k] \o u[k - 1]
  <2>1. f[k] = f[k - 1] \o seqs[k]
    BY <1>1 DEF Joins
  <2>2. k - 1 \in 0 .. n /\ f[k - 1] \in Seq(RowChange) /\ seqs[k] \in Seq(RowChange)
    <3>1. k - 1 \in 0 .. n
      OBVIOUS
    <3> HIDE DEF n
    <3>2. QED BY <1>2, <3>1
  <2>3. Generate(f[k], Tables) = Generate(seqs[k], Tables) \o Generate(f[k - 1], Tables)
    BY <2>1, <2>2, GenerateConcat
  <2>4. u[k] = Generate(f[k], Tables) /\ u[k - 1] = Generate(f[k - 1], Tables)
    BY <2>2
  <2>5. rev[n + 1 - k] = Generate(seqs[k], Tables)
    BY <1>7
  <2>6. QED BY <2>3, <2>4, <2>5
<1> HIDE DEF u, rev
<1>12. JoinsBack(u, rev, Statement)
  BY <1>8, <1>9, <1>10, <1>11 DEF JoinsBack
<1>13. FlattenSeq(rev) = u[n]
  BY <1>8, <1>12, FlattenFromEnd
<1>14. u[n] = Generate(f[n], Tables)
  BY <1>2 DEF u
<1>15. QED BY <1>3, <1>13, <1>14 DEF rev
=============================================================================
