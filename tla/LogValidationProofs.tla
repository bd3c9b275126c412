--------------------------- MODULE LogValidationProofs ---------------------------
(***************************************************************************)
(* Proofs about LogValidation: that the verdict is the right one and the   *)
(* report complete, for every file and registration, whatever its tables.  *)
(* The issues are counted by subject: a list is put together with \o, and  *)
(* the first lemmas say what that does to the counts.                      *)
(***************************************************************************)
EXTENDS LogValidation, FiniteSetTheorems, FunctionTheorems, LeastNumber

(***************************************************************************)
(* Counting issues                                                         *)
(***************************************************************************)

LEMMA IntervalIsFinite ==
    ASSUME NEW n \in Nat
    PROVE  IsFiniteSet(1..n) /\ Cardinality(1..n) = n
BY FS_Interval

LEMMA CountIsNat ==
    ASSUME NEW list \in Seq(Issues), NEW about
    PROVE  /\ IsFiniteSet({i \in DOMAIN list : list[i].about = about})
           /\ About(list, about) \in Nat
           /\ About(list, about) = 0 <=> \A i \in DOMAIN list : list[i].about # about
<1> DEFINE places == {i \in DOMAIN list : list[i].about = about}
<1>1. IsFiniteSet(places)
  <2>1. places \subseteq 1..Len(list) /\ Len(list) \in Nat
    OBVIOUS
  <2> HIDE DEF places
  <2> QED BY <2>1, IntervalIsFinite, FS_Subset
<1>2. About(list, about) = Cardinality(places)
  BY DEF About
<1>3. places = {} <=> \A i \in DOMAIN list : list[i].about # about
  OBVIOUS
<1> HIDE DEF places
<1>4. Cardinality(places) \in Nat /\ (Cardinality(places) = 0 <=> places = {})
  BY <1>1, FS_CardinalityType, FS_EmptySet
<1> QED BY <1>1, <1>2, <1>3, <1>4 DEF places

LEMMA CountOfNone ==
    ASSUME NEW about
    PROVE  <<>> \in Seq(Issues) /\ About(<<>>, about) = 0
<1>1. {i \in DOMAIN <<>> : <<>>[i].about = about} = {}
  OBVIOUS
<1> QED BY <1>1, FS_EmptySet DEF About

\* The issues of two lists, one after the other, are counted together.
LEMMA CountOfBoth ==
    ASSUME NEW a \in Seq(Issues), NEW b \in Seq(Issues), NEW about
    PROVE  /\ a \o b \in Seq(Issues)
           /\ About(a \o b, about) = About(a, about) + About(b, about)
<1> DEFINE n == Len(a)
           inA == {i \in DOMAIN a : a[i].about = about}
           inB == {i \in DOMAIN b : b[i].about = about}
           moved == {i \in DOMAIN (a \o b) : i > n /\ (a \o b)[i].about = about}
           both == {i \in DOMAIN (a \o b) : (a \o b)[i].about = about}
<1>1. /\ n \in Nat /\ a \o b \in Seq(Issues)
      /\ DOMAIN a = 1..n /\ DOMAIN b = 1..Len(b) /\ Len(b) \in Nat
      /\ DOMAIN (a \o b) = 1..(n + Len(b))
      /\ \A i \in 1..n : (a \o b)[i] = a[i]
      /\ \A i \in 1..Len(b) : (a \o b)[n + i] = b[i]
  OBVIOUS
<1>2. both = inA \cup moved /\ inA \cap moved = {}
  BY <1>1
<1>3. IsFiniteSet(inA) /\ IsFiniteSet(inB) /\ IsFiniteSet(both)
  BY <1>1, CountIsNat
<1>4. IsFiniteSet(moved)
  <2>1. moved \subseteq both
    BY <1>2
  <2> HIDE DEF moved, both
  <2> QED BY <1>3, <2>1, FS_Subset
<1>5. Cardinality(moved) = Cardinality(inB)
  <2> DEFINE f == [i \in inB |-> n + i]
  <2>1. \A i \in inB : i \in Nat /\ n + i \in moved
    BY <1>1
  <2>2. \A j \in moved : j - n \in inB /\ n + (j - n) = j
    <3> SUFFICES ASSUME NEW j \in moved PROVE j - n \in inB /\ n + (j - n) = j
      OBVIOUS
    <3>1. j \in 1..(n + Len(b)) /\ j > n
      BY <1>1
    <3>2. PICK k \in 1..Len(b) : j = n + k
      <4>1. j - n \in 1..Len(b) /\ j = n + (j - n)
        BY <1>1, <3>1
      <4> QED BY <4>1
    <3>3. b[k].about = about
      BY <1>1, <3>2
    <3> QED BY <1>1, <3>2, <3>3
  <2> HIDE DEF inB, moved
  <2>3. f \in Bijection(inB, moved)
    <3>1. f \in [inB -> moved]
      BY <2>1
    <3>2. \A i, j \in inB : f[i] = f[j] => i = j
      BY <1>1, <2>1
    <3>3. \A j \in moved : \E i \in inB : f[i] = j
      BY <2>2
    <3> QED BY <3>1, <3>2, <3>3, Fun_IsBij
  <2>4. ExistsBijection(inB, moved)
    BY <2>3 DEF ExistsBijection
  <2> QED BY <1>3, <2>4, FS_Bijection
<1>6. Cardinality(both) = Cardinality(inA) + Cardinality(inB)
  <2>1. Cardinality(inA \cup moved) =
            Cardinality(inA) + Cardinality(moved) - Cardinality(inA \cap moved)
    <3> HIDE DEF inA, moved
    <3> QED BY <1>3, <1>4, FS_Union
  <2>2. Cardinality({}) = 0 /\ Cardinality(inA) \in Nat /\ Cardinality(inB) \in Nat
    BY <1>3, FS_EmptySet, FS_CardinalityType
  <2>3. Cardinality(both) = Cardinality(inA \cup moved) /\ Cardinality(inA \cap moved) = 0
    BY <1>2, <2>2
  <2> HIDE DEF inA, inB, moved, both
  <2> QED BY <1>5, <2>1, <2>2, <2>3
<1> QED BY <1>1, <1>6 DEF About

LEMMA CountOfRepeat ==
    ASSUME NEW issue \in Issues, NEW n \in Nat, NEW about
    PROVE  /\ Repeat(issue, n) \in Seq(Issues) /\ Len(Repeat(issue, n)) = n
           /\ \A i \in DOMAIN Repeat(issue, n) : Repeat(issue, n)[i] = issue
           /\ About(Repeat(issue, n), about) = IF issue.about = about THEN n ELSE 0
<1>1. /\ Repeat(issue, n) \in Seq(Issues) /\ Len(Repeat(issue, n)) = n
      /\ DOMAIN Repeat(issue, n) = 1..n
      /\ \A i \in 1..n : Repeat(issue, n)[i] = issue
  BY DEF Repeat
<1>2. {i \in DOMAIN Repeat(issue, n) : Repeat(issue, n)[i].about = about} =
          IF issue.about = about THEN 1..n ELSE {}
  BY <1>1
<1>3. About(Repeat(issue, n), about) = IF issue.about = about THEN n ELSE 0
  BY <1>2, IntervalIsFinite, FS_EmptySet DEF About
<1> QED BY <1>1, <1>3

(***************************************************************************)
(* What a table is reported with                                           *)
(***************************************************************************)

\* Pairs with the same first part are counted by their second.
LEMMA PairsWithOne ==
    ASSUME NEW r, NEW S, IsFiniteSet(S)
    PROVE  IsFiniteSet({r} \X S) /\ Cardinality({r} \X S) = Cardinality(S)
<1> DEFINE pairs == {r} \X S
           f == [k \in S |-> <<r, k>>]
<1>1. f \in Bijection(S, pairs)
  <2>1. f \in [S -> pairs]
    OBVIOUS
  <2>2. \A i, j \in S : f[i] = f[j] => i = j
    OBVIOUS
  <2>3. \A p \in pairs : \E k \in S : f[k] = p
    OBVIOUS
  <2> HIDE DEF f, pairs
  <2> QED BY <2>1, <2>2, <2>3, Fun_IsBij
<1>2. ExistsBijection(S, pairs)
  <2> HIDE DEF f, pairs
  <2> QED BY <1>1 DEF ExistsBijection
<1> HIDE DEF pairs
<1> QED BY <1>2, FS_Bijection DEF pairs

\* The cells of one row.
LEMMA CellsOfRow ==
    ASSUME NEW r, NEW n \in Nat
    PROVE  IsFiniteSet({r} \X (1..n)) /\ Cardinality({r} \X (1..n)) = n
BY IntervalIsFinite, PairsWithOne

\* FlattenSeq puts its lists one after the other: it is the last value of f.
LEMMA FlattenInTurn ==
    ASSUME NEW S, NEW lists \in Seq(Seq(S)), lists # <<>>
    PROVE  \E f : /\ FlattenSeq(lists) = f[Len(lists)]
                  /\ f[1] = lists[1]
                  /\ \A i \in 2..Len(lists) : f[i] = f[i - 1] \o lists[i]
<1> DEFINE N == Len(lists)
           IsFlat(g, n) == g = [i \in 1..n |-> IF i = 1 THEN lists[i] ELSE g[i - 1] \o lists[i]]
           failing == {n \in Nat : ~\E g : IsFlat(g, n)}
<1>1. N \in Nat /\ N > 0
  OBVIOUS
<1>2. \E g : IsFlat(g, 0)
  <2>1. IsFlat([i \in 1..0 |-> lists], 0)
    OBVIOUS
  <2> QED BY <2>1
<1>3. ASSUME NEW n \in Nat, NEW g, IsFlat(g, n) PROVE \E h : IsFlat(h, n + 1)
  <2> DEFINE h == [i \in 1..n + 1 |->
                      IF i \in 1..n THEN g[i]
                      ELSE IF i = 1 THEN lists[i] ELSE g[i - 1] \o lists[i]]
  <2>1. \A i \in 1..n : g[i] = IF i = 1 THEN lists[i] ELSE g[i - 1] \o lists[i]
    BY <1>3
  <2>2. \A i \in 1..n + 1 : i # 1 => i - 1 \in 1..n /\ h[i - 1] = g[i - 1]
    OBVIOUS
  <2>3. \A i \in 1..n + 1 : h[i] = IF i = 1 THEN lists[i] ELSE h[i - 1] \o lists[i]
    BY <2>1, <2>2
  <2>4. h = [i \in 1..n + 1 |-> h[i]]
    OBVIOUS
  <2> HIDE DEF h
  <2>5. IsFlat(h, n + 1)
    BY <2>3, <2>4
  <2> QED BY <2>5
<1>4. failing = {}
  <2> SUFFICES ASSUME failing # {} PROVE FALSE
    OBVIOUS
  <2> HIDE DEF IsFlat
  <2>1. failing \in SUBSET Nat
    OBVIOUS
  <2>2. PICK n \in failing : \A m \in failing : n <= m
    <3> HIDE DEF failing
    <3> QED BY <2>1, LeastOf
  <2>3. n \in Nat /\ n # 0 /\ n - 1 \in Nat /\ n - 1 \notin failing
    <3>1. n \in Nat /\ ~\E g : IsFlat(g, n)
      OBVIOUS
    <3>2. n # 0
      BY <1>2, <3>1
    <3> HIDE DEF failing
    <3>3. n - 1 \in failing => n <= n - 1
      BY <2>2
    <3> QED BY <3>1, <3>2, <3>3
  <2>4. PICK g : IsFlat(g, n - 1)
    BY <2>3
  <2>5. \E h : IsFlat(h, n - 1 + 1)
    BY <1>3, <2>3, <2>4
  <2> QED BY <2>3, <2>5
<1>5. PICK g : IsFlat(g, N)
  <2> HIDE DEF IsFlat
  <2> QED BY <1>1, <1>4
<1>6. PICK f : f = CHOOSE h :
            h = [i \in 1..N |-> IF i = 1 THEN lists[i] ELSE h[i - 1] \o lists[i]]
  OBVIOUS
<1>7. f = [i \in 1..N |-> IF i = 1 THEN lists[i] ELSE f[i - 1] \o lists[i]]
  BY <1>5, <1>6, Zenon
<1>8. FlattenSeq(lists) = f[N]
  BY <1>1, <1>6 DEF FlattenSeq
<1>9. f[1] = lists[1] /\ \A i \in 2..N : f[i] = f[i - 1] \o lists[i]
  <2>1. \A i \in 1..N : f[i] = IF i = 1 THEN lists[i] ELSE f[i - 1] \o lists[i]
    BY <1>7
  <2>2. 1 \in 1..N /\ \A i \in 2..N : i \in 1..N /\ i # 1
    BY <1>1
  <2> HIDE DEF N
  <2> QED BY <2>1, <2>2
<1> QED BY <1>8, <1>9

\* A table's bad cells are reported one by one, as errors.
LEMMA RowIssuesAreBadCells ==
    ASSUME NEW t, t.rows \in Seq(Nat)
    PROVE  /\ RowIssues(t) \in Seq(Issues)
           /\ \A i \in DOMAIN RowIssues(t) :
                RowIssues(t)[i].about = "cell" /\ RowIssues(t)[i].severity = "error"
           /\ IsFiniteSet(BadCells(t)) /\ Cardinality(BadCells(t)) = Len(RowIssues(t))
<1> DEFINE N == Len(t.rows)
           CellErrors == [severity : {"error"}, about : {"cell"}, row : Nat]
           lists == [r \in 1..N |-> Repeat(CellError(r), t.rows[r])]
           cells(n) == UNION {{r} \X (1..t.rows[r]) : r \in 1..n}
<1>1. N \in Nat /\ DOMAIN t.rows = 1..N /\ \A r \in 1..N : t.rows[r] \in Nat
  OBVIOUS
<1>2. lists \in Seq(Seq(CellErrors)) /\ Len(lists) = N
      /\ \A r \in 1..N : lists[r] \in Seq(CellErrors) /\ Len(lists[r]) = t.rows[r]
  <2>1. ASSUME NEW r \in 1..N PROVE Repeat(CellError(r), t.rows[r]) \in Seq(CellErrors)
                                    /\ Len(Repeat(CellError(r), t.rows[r])) = t.rows[r]
    <3>1. PICK issue : issue = CellError(r)
      OBVIOUS
    <3>2. issue \in CellErrors /\ t.rows[r] \in Nat
      BY <1>1, <3>1 DEF CellError
    <3> HIDE DEF CellErrors
    <3>3. PICK list : list = Repeat(issue, t.rows[r])
      OBVIOUS
    <3>4. list = [i \in 1..t.rows[r] |-> issue]
      BY <3>3, Zenon DEF Repeat
    <3>5. list \in Seq(CellErrors) /\ Len(list) = t.rows[r]
      BY <3>2, <3>4
    <3> QED BY <3>1, <3>3, <3>5
  <2> HIDE DEF CellErrors
  <2> QED BY <1>1, <2>1
<1>3. RowIssues(t) = FlattenSeq(lists) /\ BadCells(t) = cells(N)
  BY <1>1 DEF RowIssues, BadCells
<1>4. CellErrors \subseteq Issues
  BY DEF Issues, Subjects
<1>5. CASE N = 0
  <2>1. RowIssues(t) = lists /\ lists = <<>>
    BY <1>2, <1>3, <1>5 DEF FlattenSeq
  <2>2. BadCells(t) = {}
    BY <1>3, <1>5
  <2> QED BY <2>1, <2>2, FS_EmptySet
<1>6. CASE N # 0
  <2> HIDE DEF lists
  <2>1. PICK f : /\ FlattenSeq(lists) = f[N]
                 /\ f[1] = lists[1]
                 /\ \A i \in 2..N : f[i] = f[i - 1] \o lists[i]
    <3> HIDE DEF CellErrors
    <3>1. lists # <<>> /\ Len(lists) = N
      BY <1>1, <1>2, <1>6
    <3>2. PICK f : /\ FlattenSeq(lists) = f[Len(lists)]
                   /\ f[1] = lists[1]
                   /\ \A i \in 2..Len(lists) : f[i] = f[i - 1] \o lists[i]
      BY <1>2, <3>1, FlattenInTurn
    <3> QED BY <3>1, <3>2
  <2> DEFINE Good(n) == /\ f[n] \in Seq(CellErrors)
                        /\ IsFiniteSet(cells(n)) /\ Cardinality(cells(n)) = Len(f[n])
             bad == {n \in Nat : n \in 1..N /\ ~Good(n)}
  <2>2. Good(1)
    <3>1. cells(1) = {1} \X (1..t.rows[1])
      OBVIOUS
    <3>2. 1 \in 1..N
      BY <1>1, <1>6
    <3> HIDE DEF cells, CellErrors, N
    <3>3. f[1] \in Seq(CellErrors) /\ Len(f[1]) = t.rows[1]
      BY <1>2, <2>1, <3>2
    <3>4. PICK n \in Nat : n = t.rows[1]
      BY <1>1, <3>2
    <3>5. IsFiniteSet({1} \X (1..n)) /\ Cardinality({1} \X (1..n)) = n
      BY CellsOfRow
    <3> QED BY <3>1, <3>3, <3>4, <3>5
  <2>3. ASSUME NEW n \in 1..N, n # 1, Good(n - 1) PROVE Good(n)
    <3>1. n \in 2..N /\ n - 1 \in 1..N /\ n \in Nat
      BY <1>1, <2>3
    <3>2. f[n] = f[n - 1] \o lists[n] /\ lists[n] \in Seq(CellErrors) /\ Len(lists[n]) = t.rows[n]
      BY <1>2, <2>1, <3>1
    <3>3. f[n] \in Seq(CellErrors) /\ Len(f[n]) = Len(f[n - 1]) + t.rows[n]
      <4>1. f[n - 1] \in Seq(CellErrors)
        BY <2>3
      <4>2. \A a, b \in Seq(CellErrors) : a \o b \in Seq(CellErrors) /\ Len(a \o b) = Len(a) + Len(b)
        <5> HIDE DEF CellErrors
        <5> QED OBVIOUS
      <4> HIDE DEF CellErrors, Good, cells
      <4>3. lists[n] \in Seq(CellErrors) /\ Len(lists[n]) = t.rows[n]
        BY <3>2
      <4> QED BY <3>2, <4>1, <4>2, <4>3
    <3> DEFINE new == {n} \X (1..t.rows[n])
               old == cells(n - 1)
    <3>4. cells(n) = old \cup new
      <4>1. 1..n = (1..n - 1) \cup {n}
        BY <3>1
      <4> QED BY <4>1
    <3>5. old \cap new = {}
      BY <3>1
    <3>6. IsFiniteSet(new) /\ Cardinality(new) = t.rows[n]
      BY <1>1, CellsOfRow
    <3>7. IsFiniteSet(old) /\ Cardinality(old) = Len(f[n - 1])
      BY <2>3
    <3> HIDE DEF new, old, cells, CellErrors
    <3>8. /\ IsFiniteSet(old \cup new)
          /\ Cardinality(old \cup new) = Cardinality(old) + Cardinality(new) - Cardinality({})
      <4>1. /\ IsFiniteSet(old \cup new)
            /\ Cardinality(old \cup new) =
                   Cardinality(old) + Cardinality(new) - Cardinality(old \cap new)
        <5> HIDE DEF Good
        <5> QED BY <3>6, <3>7, FS_Union
      <4> QED BY <3>5, <4>1
    <3>9. Cardinality(old \cup new) = Len(f[n])
      <4>1. Len(f[n - 1]) \in Nat /\ t.rows[n] \in Nat /\ Cardinality({}) = 0
        BY <1>1, <2>3, FS_EmptySet
      <4> QED BY <3>3, <3>6, <3>7, <3>8, <4>1
    <3> QED BY <3>3, <3>4, <3>8, <3>9
  <2>4. bad = {}
    <3> SUFFICES ASSUME bad # {} PROVE FALSE
      OBVIOUS
    <3> HIDE DEF Good
    <3>1. bad \in SUBSET Nat
      OBVIOUS
    <3>2. PICK n \in bad : \A m \in bad : n <= m
      <4> HIDE DEF bad
      <4> QED BY <3>1, LeastOf
    <3>3. n \in 1..N /\ ~Good(n) /\ n # 1
      BY <2>2, <3>2
    <3>4. n - 1 \in 1..N /\ n - 1 \in Nat /\ n - 1 \notin bad
      BY <1>1, <3>2, <3>3
    <3> QED BY <2>3, <3>3, <3>4
  <2>5. Good(N)
    <3> HIDE DEF Good
    <3> QED BY <1>1, <1>6, <2>4
  <2>6. RowIssues(t) \in Seq(CellErrors)
    <3> HIDE DEF CellErrors
    <3> QED BY <1>3, <2>1, <2>5
  <2>7. \A i \in DOMAIN RowIssues(t) : RowIssues(t)[i] \in CellErrors
    <3> HIDE DEF CellErrors
    <3> QED BY <2>6
  <2>8. RowIssues(t) \in Seq(Issues)
    <3> HIDE DEF CellErrors
    <3> QED BY <1>4, <2>6, <2>7
  <2> QED BY <1>3, <2>1, <2>5, <2>7, <2>8
<1> QED BY <1>5, <1>6

\* A table with a schema is reported with the headers it lacks, or else with its
\* bad cells.
LEMMA ExpectedOfTable ==
    ASSUME NEW t \in Tables
    PROVE  /\ HeaderIssues(t) \in Seq(Issues) /\ Expected(t) \in Seq(Issues)
           /\ SeverityTells(Expected(t))
           /\ \A i \in DOMAIN Expected(t) : Expected(t)[i].about \in {"header", "cell"}
           /\ About(Expected(t), "header") = t.missing
           /\ About(Expected(t), "cell") = IF t.missing = 0 THEN Cardinality(BadCells(t)) ELSE 0
           /\ IsFiniteSet(BadCells(t))
<1>1. t.missing \in Nat /\ t.rows \in Seq(Nat)
  BY TablesAssumption
<1>2. PICK header : header = Fatal("header")
  OBVIOUS
<1>3. header \in Issues /\ header.about = "header" /\ header.severity = "fatal"
  BY <1>2 DEF Fatal, Issues, Subjects
<1>4. PICK hs : hs = HeaderIssues(t)
  OBVIOUS
<1>5. /\ hs \in Seq(Issues) /\ Len(hs) = t.missing
      /\ \A i \in DOMAIN hs : hs[i] = header
      /\ About(hs, "header") = t.missing /\ About(hs, "cell") = 0
  <2>1. hs = Repeat(header, t.missing)
    BY <1>2, <1>4 DEF HeaderIssues
  <2> QED BY <1>1, <1>3, <2>1, CountOfRepeat
<1>6. IsFatal(hs) <=> t.missing # 0
  BY <1>1, <1>3, <1>5 DEF IsFatal
<1>7. PICK rs : rs = RowIssues(t)
  OBVIOUS
<1>8. /\ rs \in Seq(Issues)
      /\ \A i \in DOMAIN rs : rs[i].about = "cell" /\ rs[i].severity = "error"
      /\ IsFiniteSet(BadCells(t)) /\ Cardinality(BadCells(t)) = Len(rs)
  BY <1>1, <1>7, RowIssuesAreBadCells
<1>9. About(rs, "header") = 0 /\ About(rs, "cell") = Len(rs)
  <2>1. {i \in DOMAIN rs : rs[i].about = "cell"} = 1..Len(rs) /\ Len(rs) \in Nat
    BY <1>8
  <2>2. About(rs, "cell") = Len(rs)
    BY <2>1, IntervalIsFinite DEF About
  <2> QED BY <1>8, <2>2, CountIsNat
<1>10. CASE t.missing = 0
  <2>1. Expected(t) = hs \o rs
    BY <1>4, <1>6, <1>7, <1>10 DEF Expected
  <2>2. hs \o rs = rs
    BY <1>5, <1>8, <1>10
  <2> QED BY <1>4, <1>5, <1>8, <1>9, <1>10, <2>1, <2>2 DEF SeverityTells
<1>11. CASE t.missing # 0
  <2>1. Expected(t) = hs \o <<>>
    BY <1>4, <1>6, <1>11 DEF Expected
  <2>2. hs \o <<>> = hs
    BY <1>5
  <2> QED BY <1>3, <1>4, <1>5, <1>8, <1>11, <2>1, <2>2 DEF SeverityTells
<1> QED BY <1>10, <1>11

(***************************************************************************)
(* The file                                                                *)
(***************************************************************************)

LEMMA FileShape ==
    ASSUME TypeOK
    PROVE  /\ file.meta \in MetaCells
           /\ DOMAIN file.meta = {"PROCESSING_TYPE", "TEMPLATE_VERSION", "MATERIAL",
                                  "ACCREDITATION", "REGISTRATION"}
           /\ file.tables \in Seq(Tables) /\ OneWithSchema(file.tables)
           /\ HasSchema \subseteq 1..Len(file.tables)
           /\ \A i, j \in HasSchema : i = j
<1>1. file.meta \in MetaCells /\ file.tables \in {ts \in BoundedSeq(Tables, MaxTables) : OneWithSchema(ts)}
  BY DEF TypeOK, Files
<1>2. file.tables \in Seq(Tables) /\ OneWithSchema(file.tables)
  <2>1. PICK n \in 0..MaxTables : file.tables \in [1..n -> Tables]
    BY <1>1 DEF BoundedSeq, SeqOf
  <2>2. n \in Nat
    BY <2>1, MaxTablesAssumption
  <2> QED BY <1>1, <2>1, <2>2
<1>3. DOMAIN file.meta = {"PROCESSING_TYPE", "TEMPLATE_VERSION", "MATERIAL",
                          "ACCREDITATION", "REGISTRATION"}
  BY <1>1 DEF MetaCells
<1>4. HasSchema \subseteq 1..Len(file.tables)
  BY <1>2 DEF HasSchema
<1>5. \A i, j \in HasSchema : i = j
  BY <1>2 DEF HasSchema, OneWithSchema
<1> QED BY <1>1, <1>2, <1>3, <1>4, <1>5

LEMMA SyntaxSplits ==
    ASSUME TypeOK
    PROVE  /\ IsFiniteSet(BadMetaDetails)
           /\ Cardinality(BadMetaDetails) \in Nat
           /\ Cardinality(BadMetaDetails) = 0 <=> BadMetaDetails = {}
           /\ SyntaxIsSound <=> BadMetaDetails = {} /\ MissingHeaders = {}
<1>1. IsFiniteSet(BadMetaDetails)
  <2>1. /\ IsFiniteSet({"PROCESSING_TYPE"}) /\ IsFiniteSet({"TEMPLATE_VERSION"})
        /\ IsFiniteSet({"MATERIAL"}) /\ IsFiniteSet({"ACCREDITATION"}) /\ IsFiniteSet({"REGISTRATION"})
    BY FS_Singleton
  <2>2. IsFiniteSet({"PROCESSING_TYPE"} \cup {"TEMPLATE_VERSION"})
    BY <2>1, FS_Union
  <2>3. IsFiniteSet(({"PROCESSING_TYPE"} \cup {"TEMPLATE_VERSION"}) \cup {"MATERIAL"})
    BY <2>1, <2>2, FS_Union
  <2>4. IsFiniteSet((({"PROCESSING_TYPE"} \cup {"TEMPLATE_VERSION"}) \cup {"MATERIAL"}) \cup {"ACCREDITATION"})
    BY <2>1, <2>3, FS_Union
  <2>5. PICK most : most = (({"PROCESSING_TYPE"} \cup {"TEMPLATE_VERSION"}) \cup {"MATERIAL"}) \cup {"ACCREDITATION"}
    OBVIOUS
  <2>6. IsFiniteSet(most \cup {"REGISTRATION"})
    BY <2>1, <2>4, <2>5, FS_Union
  <2>7. PICK fields : fields = most \cup {"REGISTRATION"}
    OBVIOUS
  <2>8. DOMAIN file.meta \subseteq fields
    BY <2>5, <2>7, FileShape
  <2>9. /\ IsFiniteSet({"required"}) /\ IsFiniteSet({"malformed"}) /\ IsFiniteSet({"malformed too"})
    BY FS_Singleton
  <2>10. IsFiniteSet({"required"} \cup {"malformed"})
    BY <2>9, FS_Union
  <2>11. PICK kinds : kinds = ({"required"} \cup {"malformed"}) \cup {"malformed too"}
    OBVIOUS
  <2>12. IsFiniteSet(fields \X kinds)
    BY <2>6, <2>7, <2>9, <2>10, <2>11, FS_Union, FS_Product
  <2>13. \A f \in DOMAIN file.meta : Refusals(f) \subseteq kinds
    BY <2>11 DEF Refusals
  <2>14. BadMetaDetails \subseteq fields \X kinds
    BY <2>8, <2>13 DEF BadMetaDetails
  <2> QED BY <2>12, <2>14, FS_Subset
<1>2. BadMetaDetails = {} <=>
          /\ \A f \in DOMAIN file.meta : file.meta[f] \notin {Malformed, TwiceMalformed}
          /\ \A f \in DOMAIN file.meta \ {"ACCREDITATION"} : file.meta[f] # Absent
  <2>1. ASSUME NEW f
        PROVE  Refusals(f) = {} <=> /\ file.meta[f] \notin {Malformed, TwiceMalformed}
                                    /\ file.meta[f] = Absent => f = "ACCREDITATION"
    <3>1. "required" \in Refusals(f) <=> file.meta[f] = Absent /\ f # "ACCREDITATION"
      BY DEF Refusals
    <3>2. "malformed" \in Refusals(f) <=> file.meta[f] \in {Malformed, TwiceMalformed}
      BY DEF Refusals
    <3>3. "malformed too" \in Refusals(f) <=> file.meta[f] = TwiceMalformed
      BY DEF Refusals
    <3>4. Refusals(f) \subseteq {"required", "malformed", "malformed too"}
      BY DEF Refusals
    <3> QED BY <3>1, <3>2, <3>3, <3>4
  <2>2. BadMetaDetails = {} <=> \A f \in DOMAIN file.meta : Refusals(f) = {}
    <3>1. ASSUME NEW f \in DOMAIN file.meta, NEW d \in Refusals(f) PROVE <<f, d>> \in BadMetaDetails
      BY DEF BadMetaDetails
    <3>2. ASSUME \A f \in DOMAIN file.meta : Refusals(f) = {} PROVE BadMetaDetails = {}
      BY <3>2 DEF BadMetaDetails
    <3> QED BY <3>1, <3>2
  <2> QED BY <2>1, <2>2
<1>3. MissingHeaders = {} <=> \A t \in Range(file.tables) : t.schema => t.missing = 0
  <2>1. \A i \in DOMAIN file.tables : file.tables[i].missing \in Nat
    BY FileShape, TablesAssumption
  <2>2. \A n \in Nat : 1..n = {} <=> n = 0
    OBVIOUS
  <2>3. MissingHeaders = {} <=> \A i \in HasSchema : 1..file.tables[i].missing = {}
    <3>1. ASSUME NEW i \in HasSchema, NEW k \in 1..file.tables[i].missing
          PROVE  <<i, k>> \in MissingHeaders
      BY DEF MissingHeaders
    <3>2. ASSUME \A i \in HasSchema : 1..file.tables[i].missing = {} PROVE MissingHeaders = {}
      BY <3>2 DEF MissingHeaders
    <3> QED BY <3>1, <3>2
  <2>4. MissingHeaders = {} <=> \A i \in HasSchema : file.tables[i].missing = 0
    BY <2>1, <2>2, <2>3 DEF HasSchema
  <2> QED BY <2>4 DEF HasSchema, Range
<1>4. Cardinality(BadMetaDetails) \in Nat /\ (Cardinality(BadMetaDetails) = 0 <=> BadMetaDetails = {})
  BY <1>1, FS_CardinalityType, FS_EmptySet
<1> QED BY <1>1, <1>2, <1>3, <1>4 DEF SyntaxIsSound

\* After the last table, found holds exactly the file's table problems.
LEMMA FoundAtTheEnd ==
    ASSUME TypeOK, FoundInTables, table > Len(file.tables)
    PROVE  /\ \A i \in DOMAIN found : found[i].about \in {"header", "cell"}
           /\ About(found, "header") = Cardinality(MissingHeaders)
           /\ About(found, "cell") = IF MissingHeaders = {} THEN Cardinality(AllBadCells) ELSE 0
           /\ Cardinality(MissingHeaders) \in Nat
           /\ Cardinality(MissingHeaders) = 0 <=> MissingHeaders = {}
<1>1. CASE HasSchema = {}
  <2>1. found = <<>> /\ MissingHeaders = {} /\ AllBadCells = {}
    BY <1>1 DEF FoundInTables, MissingHeaders, AllBadCells
  <2> QED BY <2>1, CountOfNone, FS_EmptySet
<1>2. CASE HasSchema # {}
  <2>1. PICK i \in HasSchema : TRUE
    BY <1>2
  <2>2. PICK t \in Tables : t = file.tables[i]
    BY FileShape DEF HasSchema
  <2>3. i < table
    BY FileShape DEF TypeOK
  <2>4. found = Expected(t)
    BY <2>2, <2>3 DEF FoundInTables
  <2>5. \A j \in HasSchema : j = i
    BY FileShape
  <2>6. MissingHeaders = {i} \X (1..t.missing) /\ AllBadCells = {i} \X BadCells(t)
    BY <2>2, <2>5 DEF MissingHeaders, AllBadCells
  <2>7. t.missing \in Nat
    BY TablesAssumption
  <2>8. IsFiniteSet(MissingHeaders) /\ Cardinality(MissingHeaders) = t.missing
    BY <2>6, <2>7, CellsOfRow
  <2>9. Cardinality(AllBadCells) = Cardinality(BadCells(t))
    BY <2>6, PairsWithOne, ExpectedOfTable
  <2>10. MissingHeaders = {} <=> t.missing = 0
    BY <2>7, <2>8, FS_EmptySet
  <2> QED BY <2>4, <2>7, <2>8, <2>9, <2>10, ExpectedOfTable
<1> QED BY <1>1, <1>2

(***************************************************************************)
(* The steps                                                               *)
(***************************************************************************)

LEMMA FatalsAreCounted ==
    ASSUME NEW list \in Seq(Issues), SeverityTells(list)
    PROVE  IsFatal(list) <=> \E about \in Subjects \ {"cell"} : About(list, about) # 0
<1>1. \A i \in DOMAIN list : list[i].about \in Subjects
  <2>1. \A i \in DOMAIN list : list[i] \in Issues
    OBVIOUS
  <2> QED BY <2>1 DEF Issues
<1>2. IsFatal(list) <=> \E i \in DOMAIN list : list[i].about # "cell"
  BY DEF IsFatal, SeverityTells
<1>3. \A about : About(list, about) # 0 <=> \E i \in DOMAIN list : list[i].about = about
  BY CountIsNat
<1> QED BY <1>1, <1>2, <1>3

LEMMA FatalIssue ==
    ASSUME NEW about \in Subjects, about # "cell"
    PROVE  /\ Fatal(about) \in Issues
           /\ Fatal(about).about = about /\ Fatal(about).severity = "fatal"
BY DEF Fatal, Issues

\* What merging a list does to the issues.
LEMMA MergeCounts ==
    ASSUME TypeOK, SeverityTells(issues),
           NEW list \in Seq(Issues), SeverityTells(list), Merge(list)
    PROVE  /\ issues' \in Seq(Issues) /\ SeverityTells(issues')
           /\ \A about : About(issues', about) = About(issues, about) + About(list, about)
           /\ Thrown' <=> Thrown \/ \E i \in DOMAIN list : list[i].about \in {"exception", "emptyException"}
<1>1. PICK both : both = issues \o list /\ issues' = both
  BY DEF Merge
<1>2. issues \in Seq(Issues)
  BY DEF TypeOK
<1>3. both \in Seq(Issues) /\ \A about : About(both, about) = About(issues, about) + About(list, about)
  BY <1>1, <1>2, CountOfBoth
<1>4. /\ \A i \in DOMAIN both : \/ i \in DOMAIN issues /\ both[i] = issues[i]
                               \/ \E j \in DOMAIN list : both[i] = list[j]
      /\ \A i \in DOMAIN issues : i \in DOMAIN both /\ both[i] = issues[i]
      /\ \A j \in DOMAIN list : \E i \in DOMAIN both : both[i] = list[j]
  <2>1. /\ Len(both) = Len(issues) + Len(list) /\ DOMAIN both = 1..Len(both)
        /\ Len(issues) \in Nat /\ Len(list) \in Nat
        /\ DOMAIN issues = 1..Len(issues) /\ DOMAIN list = 1..Len(list)
        /\ \A i \in 1..Len(issues) : both[i] = issues[i]
        /\ \A i \in 1..Len(both) : i > Len(issues) => both[i] = list[i - Len(issues)]
    BY <1>1, <1>2
  <2>2. \A j \in DOMAIN list : Len(issues) + j \in DOMAIN both /\ both[Len(issues) + j] = list[j]
    BY <2>1
  <2>3. \A i \in 1..Len(both) : i > Len(issues) => i - Len(issues) \in DOMAIN list
    BY <2>1
  <2>4. ASSUME NEW i \in DOMAIN both
        PROVE  \/ i \in DOMAIN issues /\ both[i] = issues[i]
               \/ \E j \in DOMAIN list : both[i] = list[j]
    <3>1. CASE i > Len(issues)
      BY <2>1, <2>3, <3>1
    <3>2. CASE ~(i > Len(issues))
      BY <2>1, <3>2
    <3> QED BY <3>1, <3>2
  <2>5. ASSUME NEW i \in DOMAIN issues PROVE i \in DOMAIN both /\ both[i] = issues[i]
    BY <2>1
  <2>6. ASSUME NEW j \in DOMAIN list PROVE \E i \in DOMAIN both : both[i] = list[j]
    BY <2>2
  <2> QED BY <2>4, <2>5, <2>6
<1>5. SeverityTells(both)
  BY <1>4 DEF SeverityTells
<1>6. Thrown' <=> \E i \in DOMAIN both : both[i].about \in {"exception", "emptyException"}
  BY <1>1 DEF Thrown
<1>7. Thrown' <=> Thrown \/ \E i \in DOMAIN list : list[i].about \in {"exception", "emptyException"}
  BY <1>4, <1>6 DEF Thrown
<1> QED BY <1>1, <1>3, <1>5, <1>7

LEMMA NothingMerged ==
    /\ <<>> \in Seq(Issues) /\ SeverityTells(<<>>)
    /\ \A about : About(<<>>, about) = 0
BY CountOfNone DEF SeverityTells

LEMMA OneMerged ==
    ASSUME NEW about \in Subjects, about # "cell"
    PROVE  /\ <<Fatal(about)>> \in Seq(Issues) /\ SeverityTells(<<Fatal(about)>>)
           /\ \A other : About(<<Fatal(about)>>, other) = IF other = about THEN 1 ELSE 0
           /\ \A i \in DOMAIN <<Fatal(about)>> : <<Fatal(about)>>[i].about = about
<1>1. PICK issue \in Issues : issue = Fatal(about) /\ issue.about = about /\ issue.severity = "fatal"
  BY FatalIssue
<1>2. DOMAIN <<issue>> = {1} /\ <<issue>>[1] = issue /\ <<issue>> \in Seq(Issues)
  OBVIOUS
<1>3. ASSUME NEW other PROVE About(<<issue>>, other) = IF other = about THEN 1 ELSE 0
  <2>1. {i \in DOMAIN <<issue>> : <<issue>>[i].about = other} = IF other = about THEN {1} ELSE {}
    BY <1>1, <1>2
  <2> QED BY <2>1, FS_Singleton, FS_EmptySet DEF About
<1> QED BY <1>1, <1>2, <1>3 DEF SeverityTells

\* What the file says does not change.
LEMMA FileStays ==
    ASSUME UNCHANGED file
    PROVE  /\ BadMetaDetails' = BadMetaDetails /\ HasSchema' = HasSchema
           /\ MissingHeaders' = MissingHeaders /\ AllBadCells' = AllBadCells
           /\ SyntaxIsSound' <=> SyntaxIsSound
<1>1. HasSchema' = HasSchema
  BY DEF HasSchema
<1> QED BY <1>1 DEF BadMetaDetails, Refusals, MissingHeaders, AllBadCells, BadCells, SyntaxIsSound, Range

\* An exception ends the checks with a fatal issue.
LEMMA ThrowKeeps ==
    ASSUME IInv, Throw, step \in {"extract", "fetch"},
           UNCHANGED <<file, registration, table, found, result>>
    PROVE  IInv'
<1>1. PICK about \in {"exception", "emptyException"} : Merge(<<Fatal(about)>>)
  BY DEF Throw
<1>2. PICK list : list = <<Fatal(about)>>
  OBVIOUS
<1>3. /\ list \in Seq(Issues) /\ SeverityTells(list)
      /\ \A i \in DOMAIN list : list[i].about = about /\ 1 \in DOMAIN list
  BY <1>2, OneMerged DEF Subjects
<1>4. issues' \in Seq(Issues) /\ SeverityTells(issues') /\ Thrown'
  <2>1. list[1].about = about /\ 1 \in DOMAIN list
    BY <1>2, <1>3
  <2> QED BY <1>1, <1>2, <1>3, <2>1, MergeCounts DEF IInv
<1>5. step' = "conclude"
  BY DEF Throw, Goto
<1>6. TypeOK'
  BY <1>4, <1>5 DEF IInv, TypeOK, Steps
<1>7. registration = Absent /\ result = Unstored
  BY DEF IInv, AfterFetch, AfterNumber, AfterType, AfterAccreditation, AfterMaterial
<1>8. FoundInTables'
  BY FileStays DEF IInv, FoundInTables
<1> QED BY <1>4, <1>5, <1>6, <1>7, <1>8 DEF IInv, SeverityTells, AfterMaterial, AfterFetch, AfterTables,
           AfterNumber, AfterType, AfterAccreditation

\* Where an exception cannot have been.
LEMMA NotThrown ==
    ASSUME IInv, step \notin AfterMaterial
    PROVE  /\ TypeOK /\ ~Thrown /\ SyntaxReported /\ ChecksReported /\ result = Unstored
           /\ issues \in Seq(Issues) /\ SeverityTells(issues)
BY DEF IInv, AfterMaterial, TypeOK

LEMMA FoundStays ==
    ASSUME IInv, UNCHANGED <<file, found, table>>
    PROVE  SeverityTells(found)' /\ FoundInTables'
<1>1. FoundInTables'
  BY FileStays DEF IInv, FoundInTables
<1> QED BY <1>1 DEF IInv, SeverityTells

LEMMA ExtractKeeps ==
    ASSUME IInv, Extract
    PROVE  IInv'
<1>1. CASE Throw
  BY <1>1, ThrowKeeps DEF Extract
<1>2. CASE Goto("meta") /\ UNCHANGED issues
  <2>1. /\ step = "extract" /\ step' = "meta"
        /\ UNCHANGED <<file, registration, table, found, result, issues>>
    BY <1>2 DEF Extract, Goto
  <2>2. issues = <<>> /\ found = <<>> /\ table = 1 /\ registration = Absent
    BY <2>1 DEF IInv, AfterFetch, AfterNumber, AfterType, AfterAccreditation, AfterMaterial
  <2>3. ~Thrown /\ SyntaxReported /\ ChecksReported /\ result = Unstored /\ TypeOK
    BY <2>1, NotThrown DEF AfterMaterial
  <2>4. TypeOK'
    BY <2>1, <2>3 DEF TypeOK, Steps
  <2>5. SyntaxReported' /\ ChecksReported'
    BY <2>1, <2>2, CountOfNone DEF SyntaxReported, ChecksReported, Checked,
       AfterTables, AfterFetch, AfterNumber, AfterType, AfterAccreditation, AfterMaterial
  <2>6. ~Thrown' /\ SeverityTells(issues)'
    BY <2>1, <2>2 DEF Thrown, SeverityTells
  <2> QED BY <2>1, <2>2, <2>3, <2>4, <2>5, <2>6, FoundStays DEF IInv,
       AfterTables, AfterFetch, AfterNumber, AfterType, AfterAccreditation, AfterMaterial
<1> QED BY <1>1, <1>2 DEF Extract

LEMMA MetaSyntaxKeeps ==
    ASSUME IInv, ValidateMetaSyntax
    PROVE  IInv'
<1>1. /\ step = "meta" /\ step' = "tables"
      /\ UNCHANGED <<file, registration, table, found, result>>
  BY DEF ValidateMetaSyntax, Goto
<1>2. /\ TypeOK /\ ~Thrown /\ SyntaxReported /\ ChecksReported /\ result = Unstored
      /\ SeverityTells(issues) /\ registration = Absent
  BY <1>1, NotThrown DEF IInv, AfterFetch, AfterNumber, AfterType, AfterAccreditation, AfterMaterial
<1>3. PICK issue \in Issues : issue = Fatal("meta") /\ issue.about = "meta" /\ issue.severity = "fatal"
  BY FatalIssue DEF Subjects
<1>4. PICK n \in Nat : n = Cardinality(BadMetaDetails)
  BY <1>2, SyntaxSplits
<1>5. PICK list : list = Repeat(issue, n)
  OBVIOUS
<1>6. /\ list \in Seq(Issues) /\ \A i \in DOMAIN list : list[i] = issue
      /\ \A about : About(list, about) = IF about = "meta" THEN n ELSE 0
  BY <1>3, <1>5, CountOfRepeat
<1>7. SeverityTells(list) /\ Merge(list)
  BY <1>3, <1>4, <1>5, <1>6 DEF SeverityTells, ValidateMetaSyntax
<1>8. /\ issues' \in Seq(Issues) /\ SeverityTells(issues') /\ ~Thrown'
      /\ \A about : About(issues', about) = About(issues, about) + (IF about = "meta" THEN n ELSE 0)
  BY <1>2, <1>3, <1>6, <1>7, MergeCounts
<1>9. TypeOK'
  BY <1>1, <1>2, <1>8 DEF TypeOK, Steps
<1>10. /\ About(issues', "meta") = n /\ About(issues', "header") = 0 /\ About(issues', "cell") = 0
       /\ About(issues', "registration") = 0 /\ About(issues', "type") = 0
       /\ About(issues', "accreditation") = 0 /\ About(issues', "material") = 0
  <2>1. /\ About(issues, "meta") = 0 /\ About(issues, "header") = 0 /\ About(issues, "cell") = 0
        /\ About(issues, "registration") = 0 /\ About(issues, "type") = 0
        /\ About(issues, "accreditation") = 0 /\ About(issues, "material") = 0
    BY <1>1, <1>2 DEF SyntaxReported, ChecksReported, Checked, AfterTables, AfterFetch,
       AfterNumber, AfterType, AfterAccreditation, AfterMaterial
  <2> QED BY <1>8, <2>1
<1>11. SyntaxReported'
  BY <1>1, <1>4, <1>10, FileStays DEF SyntaxReported, AfterTables, AfterFetch, AfterNumber,
     AfterType, AfterAccreditation, AfterMaterial
<1>12. ChecksReported'
  BY <1>1, <1>10 DEF ChecksReported, Checked, AfterNumber, AfterType,
     AfterAccreditation, AfterMaterial
<1> QED BY <1>1, <1>2, <1>8, <1>9, <1>11, <1>12, FoundStays DEF IInv, AfterTables, AfterFetch,
     AfterNumber, AfterType, AfterAccreditation, AfterMaterial

LEMMA TableKeeps ==
    ASSUME IInv, ValidateTable
    PROVE  IInv'
<1>1. /\ step = "tables" /\ table <= Len(file.tables) /\ table' = table + 1
      /\ UNCHANGED <<file, registration, step, issues, result>>
      /\ found' = found \o (IF file.tables[table].schema THEN TableIssues(file.tables[table]) ELSE <<>>)
  BY DEF ValidateTable
<1>2. /\ TypeOK /\ ~Thrown /\ SyntaxReported /\ ChecksReported /\ result = Unstored
      /\ SeverityTells(issues) /\ registration = Absent
  BY <1>1, NotThrown DEF IInv, AfterFetch, AfterNumber, AfterType, AfterAccreditation, AfterMaterial
<1>3. /\ table \in Nat /\ found \in Seq(Issues) /\ file.tables \in Seq(Tables)
      /\ HasSchema \subseteq 1..Len(file.tables) /\ \A i, j \in HasSchema : i = j
  BY <1>2, FileShape DEF TypeOK
<1>4. table' \in Nat /\ SeverityTells(found') /\ found' \in Seq(Issues) /\ FoundInTables'
  <2>1. CASE table \in HasSchema
    <3>1. file.tables[table].schema /\ \A i \in HasSchema : i = table
      BY <1>3, <2>1 DEF HasSchema
    <3>2. found = <<>>
      BY <1>3, <3>1 DEF IInv, FoundInTables
    <3>3. PICK t \in Tables : t = file.tables[table]
      BY <1>3, <2>1
    <3>4. PICK hs \in Seq(Issues) : hs = HeaderIssues(t)
      BY ExpectedOfTable
    <3>5. <<>> \o hs = hs
      BY <3>4
    <3>6. TableIssues(t) = Expected(t)
      BY <3>2, <3>4, <3>5 DEF TableIssues, Expected
    <3>7. found' = Expected(t)
      <4>1. found' = <<>> \o Expected(t)
        BY <1>1, <3>1, <3>2, <3>3, <3>6
      <4> QED BY <4>1, ExpectedOfTable
    <3>8. SeverityTells(found') /\ found' \in Seq(Issues)
      BY <3>7, ExpectedOfTable
    <3>9. FoundInTables'
      <4>1. HasSchema' = HasSchema /\ file' = file
        BY <1>1, FileStays
      <4>2. \A i \in HasSchema' : i < table' /\ file'.tables[i] = t
        BY <1>1, <1>3, <3>1, <3>3, <4>1
      <4>3. \A i \in HasSchema' : found' = Expected(file'.tables[i])
        BY <3>7, <4>2
      <4>4. ~\A i \in HasSchema' : i >= table'
        BY <1>1, <1>3, <2>1, <4>1
      <4> QED BY <4>3, <4>4 DEF FoundInTables
    <3> QED BY <1>1, <1>3, <3>8, <3>9
  <2>2. CASE table \notin HasSchema
    <3>1. ~file.tables[table].schema
      <4>1. table \in DOMAIN file.tables
        BY <1>1, <1>2, <1>3 DEF TypeOK, IInv
      <4> QED BY <2>2, <4>1 DEF HasSchema
    <3>2. found' = found \o <<>>
      BY <1>1, <3>1
    <3>3. found' = found
      BY <1>3, <3>2
    <3>4. \A i \in HasSchema : i < table' <=> i < table
      BY <1>1, <1>3, <2>2
    <3>5. FoundInTables'
      <4>1. HasSchema' = HasSchema /\ file' = file
        BY <1>1, FileStays
      <4>2. \A i \in HasSchema : i >= table' <=> i >= table
        BY <1>1, <1>3, <2>2
      <4>3. FoundInTables
        BY DEF IInv
      <4> QED BY <3>3, <3>4, <4>1, <4>2, <4>3 DEF FoundInTables
    <3>6. table' \in Nat
      BY <1>1, <1>3
    <3>7. SeverityTells(found')
      BY <3>3 DEF IInv
    <3> QED BY <1>3, <3>3, <3>5, <3>6, <3>7
  <2> QED BY <2>1, <2>2
<1>5. TypeOK'
  BY <1>1, <1>2, <1>4 DEF TypeOK
<1>6. SyntaxReported' /\ ChecksReported'
  BY <1>1, <1>2, FileStays DEF SyntaxReported, ChecksReported, Checked, AfterTables, AfterFetch,
     AfterNumber, AfterType, AfterAccreditation, AfterMaterial
<1>7. ~Thrown' /\ SeverityTells(issues')
  BY <1>1, <1>2 DEF Thrown
<1> QED BY <1>1, <1>2, <1>4, <1>5, <1>6, <1>7 DEF IInv, AfterTables, AfterFetch,
     AfterNumber, AfterType, AfterAccreditation, AfterMaterial

LEMMA TablesDoneKeeps ==
    ASSUME IInv, TablesDone
    PROVE  IInv'
<1>1. /\ step = "tables" /\ table > Len(file.tables) /\ Merge(found)
      /\ step' = (IF IsFatal(issues') THEN "conclude" ELSE "fetch")
      /\ UNCHANGED <<file, registration, table, found, result>>
  BY DEF TablesDone, Goto, Merge
<1>2. /\ TypeOK /\ ~Thrown /\ SyntaxReported /\ ChecksReported /\ result = Unstored
      /\ SeverityTells(issues) /\ registration = Absent
      /\ found \in Seq(Issues) /\ SeverityTells(found) /\ FoundInTables
  BY <1>1, NotThrown DEF IInv, TypeOK, AfterFetch, AfterNumber, AfterType, AfterAccreditation, AfterMaterial
<1>3. /\ \A i \in DOMAIN found : found[i].about \in {"header", "cell"}
      /\ About(found, "header") = Cardinality(MissingHeaders)
      /\ About(found, "cell") = IF MissingHeaders = {} THEN Cardinality(AllBadCells) ELSE 0
      /\ Cardinality(MissingHeaders) \in Nat
      /\ Cardinality(MissingHeaders) = 0 <=> MissingHeaders = {}
  BY <1>1, <1>2, FoundAtTheEnd
<1>4. \A about : about \notin {"header", "cell"} => About(found, about) = 0
  BY <1>2, <1>3, CountIsNat
<1>5. /\ issues' \in Seq(Issues) /\ SeverityTells(issues') /\ ~Thrown'
      /\ \A about : About(issues', about) = About(issues, about) + About(found, about)
  BY <1>1, <1>2, <1>3, MergeCounts
<1>6. /\ About(issues, "meta") = Cardinality(BadMetaDetails)
      /\ About(issues, "header") = 0 /\ About(issues, "cell") = 0
      /\ About(issues, "registration") = 0 /\ About(issues, "type") = 0
      /\ About(issues, "accreditation") = 0 /\ About(issues, "material") = 0
  BY <1>1, <1>2 DEF SyntaxReported, ChecksReported, Checked, AfterTables, AfterFetch,
     AfterNumber, AfterType, AfterAccreditation, AfterMaterial
<1>7. /\ Cardinality(BadMetaDetails) \in Nat
      /\ Cardinality(BadMetaDetails) = 0 <=> BadMetaDetails = {}
      /\ SyntaxIsSound <=> BadMetaDetails = {} /\ MissingHeaders = {}
  BY <1>2, SyntaxSplits
<1>8. About(found, "cell") \in Nat
  BY <1>2, CountIsNat
<1>9. /\ About(issues', "meta") = Cardinality(BadMetaDetails)
      /\ About(issues', "header") = Cardinality(MissingHeaders)
      /\ About(issues', "cell") = IF MissingHeaders = {} THEN Cardinality(AllBadCells) ELSE 0
      /\ About(issues', "registration") = 0 /\ About(issues', "type") = 0
      /\ About(issues', "accreditation") = 0 /\ About(issues', "material") = 0
  BY <1>3, <1>4, <1>5, <1>6, <1>7, <1>8
<1>10. IsFatal(issues') <=> ~SyntaxIsSound
  <2>1. About(issues', "exception") = 0 /\ About(issues', "emptyException") = 0
    BY <1>5, CountIsNat DEF Thrown
  <2>2. IsFatal(issues') <=> About(issues', "meta") # 0 \/ About(issues', "header") # 0
    BY <1>5, <1>9, <2>1, FatalsAreCounted DEF Subjects
  <2> QED BY <1>3, <1>7, <1>9, <2>2
<1>11. /\ step' \in {"fetch", "conclude"} /\ (step' = "fetch" <=> SyntaxIsSound)
       /\ SyntaxIsSound' <=> SyntaxIsSound
  BY <1>1, <1>10, FileStays
<1>12. TypeOK'
  BY <1>1, <1>2, <1>5, <1>11 DEF TypeOK, Steps
<1>13. SyntaxReported'
  BY <1>1, <1>9, <1>11, FileStays DEF SyntaxReported, AfterTables, AfterFetch, AfterNumber,
     AfterType, AfterAccreditation, AfterMaterial
<1>14. ChecksReported'
  BY <1>9, <1>11 DEF ChecksReported, Checked, AfterNumber, AfterType,
     AfterAccreditation, AfterMaterial
<1> QED BY <1>1, <1>2, <1>5, <1>11, <1>12, <1>13, <1>14, FoundStays DEF IInv, AfterTables, AfterFetch,
     AfterNumber, AfterType, AfterAccreditation, AfterMaterial

LEMMA FetchKeeps ==
    ASSUME IInv, FetchRegistration
    PROVE  IInv'
<1>1. CASE Throw /\ UNCHANGED registration
  BY <1>1, ThrowKeeps DEF FetchRegistration
<1>2. CASE \E r \in Registrations : registration' = r /\ Goto("number") /\ UNCHANGED issues
  <2>1. /\ step = "fetch" /\ step' = "number" /\ registration' \in Registrations
        /\ UNCHANGED <<file, table, found, result, issues>>
    BY <1>2 DEF FetchRegistration, Goto
  <2>2. /\ TypeOK /\ ~Thrown /\ SyntaxReported /\ ChecksReported /\ result = Unstored
        /\ SeverityTells(issues) /\ SyntaxIsSound
    BY <2>1, NotThrown DEF IInv, AfterTables, AfterFetch, AfterNumber, AfterType,
       AfterAccreditation, AfterMaterial
  <2>3. TypeOK'
    BY <2>1, <2>2 DEF TypeOK, Steps
  <2>4. SyntaxReported'
    BY <2>1, <2>2, FileStays DEF SyntaxReported, AfterTables, AfterFetch, AfterNumber, AfterType,
       AfterAccreditation, AfterMaterial
  <2>5. ChecksReported'
    BY <2>1, <2>2 DEF ChecksReported, Checked, AfterNumber, AfterType, AfterAccreditation, AfterMaterial
  <2>6. registration' # Absent
    BY <2>1, SentinelsAssumption
  <2>7. ~Thrown' /\ SeverityTells(issues') /\ SyntaxIsSound'
    BY <2>1, <2>2, FileStays DEF Thrown
  <2> QED BY <2>1, <2>2, <2>3, <2>4, <2>5, <2>6, <2>7, FoundStays DEF IInv, AfterTables, AfterFetch,
       AfterNumber, AfterType, AfterAccreditation, AfterMaterial
<1> QED BY <1>1, <1>2 DEF FetchRegistration

\* What the four checks have in common.
LEMMA CheckCounts ==
    ASSUME IInv, NEW here \in {"number", "type", "accreditation", "material"}, NEW next,
           NEW about \in {"registration", "type", "accreditation", "material"},
           NEW passes \in BOOLEAN, Check(here, next, about, passes)
    PROVE  /\ step = here /\ step' = next
           /\ UNCHANGED <<file, registration, table, found, result>>
           /\ TypeOK /\ ~Thrown /\ SyntaxReported /\ ChecksReported /\ result = Unstored
           /\ SyntaxIsSound /\ registration \in Registrations /\ registration # Absent
           /\ issues' \in Seq(Issues) /\ SeverityTells(issues') /\ ~Thrown'
           /\ \A other : About(issues, other) \in Nat
           /\ \A other : About(issues', other) =
                 About(issues, other) + IF other = about /\ ~passes THEN 1 ELSE 0
           /\ SyntaxIsSound' /\ FoundInTables' /\ SeverityTells(found')
           /\ next \in Steps => TypeOK'
<1>1. /\ step = here /\ step' = next /\ UNCHANGED <<file, registration, table, found, result>>
      /\ Merge(IF passes THEN <<>> ELSE <<Fatal(about)>>)
  BY DEF Check, Goto
<1>2. /\ TypeOK /\ ~Thrown /\ SyntaxReported /\ ChecksReported /\ result = Unstored
      /\ SeverityTells(issues) /\ SyntaxIsSound /\ registration # Absent
      /\ issues \in Seq(Issues)
  BY <1>1, NotThrown DEF IInv, AfterTables, AfterFetch, AfterNumber, AfterType,
     AfterAccreditation, AfterMaterial
<1>3. registration \in Registrations
  BY <1>2 DEF TypeOK
<1>4. PICK list : list = IF passes THEN <<>> ELSE <<Fatal(about)>>
  OBVIOUS
<1>5. /\ list \in Seq(Issues) /\ SeverityTells(list)
      /\ \A other : About(list, other) = IF other = about /\ ~passes THEN 1 ELSE 0
      /\ ~\E i \in DOMAIN list : list[i].about \in {"exception", "emptyException"}
  <2>1. CASE passes
    BY <1>4, <2>1, NothingMerged
  <2>2. CASE ~passes
    BY <1>4, <2>2, OneMerged DEF Subjects
  <2> QED BY <2>1, <2>2
<1>6. /\ issues' \in Seq(Issues) /\ SeverityTells(issues') /\ ~Thrown'
      /\ \A other : About(issues', other) = About(issues, other) + About(list, other)
  BY <1>1, <1>2, <1>4, <1>5, MergeCounts
<1>7. \A other : About(issues, other) \in Nat
  BY <1>2, CountIsNat
<1>8. SyntaxIsSound' /\ FoundInTables' /\ SeverityTells(found')
  BY <1>1, <1>2, FileStays, FoundStays
<1>9. next \in Steps => TypeOK'
  BY <1>1, <1>2, <1>6 DEF TypeOK
<1> QED BY <1>1, <1>2, <1>3, <1>5, <1>6, <1>7, <1>8, <1>9

\* The counts of syntax problems stay as they are while the checks are made.
LEMMA SyntaxStays ==
    ASSUME SyntaxReported, step \in AfterTables, step' \in AfterTables, UNCHANGED file,
           \A about \in {"meta", "header", "cell"} : About(issues', about) = About(issues, about)
    PROVE  SyntaxReported'
BY FileStays DEF SyntaxReported, AfterTables, AfterFetch, AfterNumber, AfterType,
   AfterAccreditation, AfterMaterial

LEMMA NumberKeeps ==
    ASSUME IInv, ValidateRegistrationNumber
    PROVE  IInv'
<1> DEFINE passes == /\ registration.wasteRegistrationNumber # Absent
                     /\ file.meta.REGISTRATION = registration.wasteRegistrationNumber
<1>0. passes \in BOOLEAN /\ Check("number", "type", "registration", passes)
  BY DEF ValidateRegistrationNumber
<1> HIDE DEF passes
<1>1. /\ step = "number" /\ step' = "type"
      /\ UNCHANGED <<file, registration, table, found, result>>
      /\ TypeOK /\ ~Thrown /\ SyntaxReported /\ ChecksReported /\ result = Unstored
      /\ SyntaxIsSound /\ registration \in Registrations /\ registration # Absent
      /\ issues' \in Seq(Issues) /\ SeverityTells(issues') /\ ~Thrown'
      /\ \A other : About(issues, other) \in Nat
      /\ \A other : About(issues', other) =
            About(issues, other) + IF other = "registration" /\ ~passes THEN 1 ELSE 0
      /\ SyntaxIsSound' /\ FoundInTables' /\ SeverityTells(found')
      /\ TypeOK'
  BY <1>0, CheckCounts DEF Steps
<1>2. passes <=> file.meta.REGISTRATION = registration.wasteRegistrationNumber
  <2>1. "REGISTRATION" \in DOMAIN file.meta \ {"ACCREDITATION"}
    BY <1>1, FileShape
  <2>2. file.meta.REGISTRATION # Absent
    BY <1>1, <2>1 DEF SyntaxIsSound
  <2> QED BY <2>2 DEF passes
<1>3. SyntaxReported'
  BY <1>1, SyntaxStays DEF AfterTables, AfterFetch, AfterNumber, AfterType, AfterAccreditation, AfterMaterial
<1>4. ChecksReported'
  <2>1. \A other : other # "registration" => About(issues', other) = About(issues, other)
    BY <1>1
  <2>2. About(issues', "registration") = IF file.meta.REGISTRATION = registration.wasteRegistrationNumber THEN 0 ELSE 1
    <3>1. About(issues, "registration") = 0
      BY <1>1 DEF ChecksReported, Checked, AfterNumber, AfterType, AfterAccreditation, AfterMaterial
    <3> QED BY <1>1, <1>2, <3>1
  <2> QED BY <1>1, <2>1, <2>2 DEF ChecksReported, Checked, TypeAgrees, MaterialAgrees,
       AfterNumber, AfterType, AfterAccreditation, AfterMaterial
<1> QED BY <1>1, <1>3, <1>4 DEF IInv, AfterTables, AfterFetch, AfterNumber, AfterType,
     AfterAccreditation, AfterMaterial

LEMMA TypeKeeps ==
    ASSUME IInv, ValidateProcessingType
    PROVE  IInv'
<1> DEFINE passes == /\ registration.wasteProcessingType \in Range(ProcessingTypeMap)
                     /\ Lookup(ProcessingTypeMap, file.meta.PROCESSING_TYPE) = registration.wasteProcessingType
<1>0. passes \in BOOLEAN /\ Check("type", "accreditation", "type", passes)
  BY DEF ValidateProcessingType
<1> HIDE DEF passes
<1>1. /\ step = "type" /\ step' = "accreditation"
      /\ UNCHANGED <<file, registration, table, found, result>>
      /\ TypeOK /\ ~Thrown /\ SyntaxReported /\ ChecksReported /\ result = Unstored
      /\ SyntaxIsSound /\ registration \in Registrations /\ registration # Absent
      /\ issues' \in Seq(Issues) /\ SeverityTells(issues') /\ ~Thrown'
      /\ \A other : About(issues, other) \in Nat
      /\ \A other : About(issues', other) =
            About(issues, other) + IF other = "type" /\ ~passes THEN 1 ELSE 0
      /\ SyntaxIsSound' /\ FoundInTables' /\ SeverityTells(found')
      /\ TypeOK'
  BY <1>0, CheckCounts DEF Steps
<1>2. passes <=> TypeAgrees(registration)
  <2>1. registration.wasteProcessingType \in {"reprocessor", "exporter", "unexpected"}
    BY <1>1 DEF Registrations
  <2>2. Range(ProcessingTypeMap) = {"reprocessor", "exporter"}
    BY DEF Range, ProcessingTypeMap
  <2> QED BY <2>1, <2>2 DEF passes, Lookup, ProcessingTypeMap, TypeAgrees
<1>3. SyntaxReported'
  BY <1>1, SyntaxStays DEF AfterTables, AfterFetch, AfterNumber, AfterType, AfterAccreditation, AfterMaterial
<1>4. ChecksReported'
  <2>1. \A other : other # "type" => About(issues', other) = About(issues, other)
    BY <1>1
  <2>2. About(issues', "type") = IF TypeAgrees(registration) THEN 0 ELSE 1
    <3>1. About(issues, "type") = 0
      BY <1>1 DEF ChecksReported, Checked, AfterNumber, AfterType, AfterAccreditation, AfterMaterial
    <3> QED BY <1>1, <1>2, <3>1
  <2> QED BY <1>1, <2>1, <2>2 DEF ChecksReported, Checked, TypeAgrees, MaterialAgrees,
       AfterNumber, AfterType, AfterAccreditation, AfterMaterial
<1> QED BY <1>1, <1>3, <1>4 DEF IInv, AfterTables, AfterFetch, AfterNumber, AfterType,
     AfterAccreditation, AfterMaterial

LEMMA AccreditationKeeps ==
    ASSUME IInv, ValidateAccreditationNumber
    PROVE  IInv'
<1> DEFINE passes == file.meta.ACCREDITATION = registration.accreditationNumber
<1>0. passes \in BOOLEAN /\ Check("accreditation", "material", "accreditation", passes)
  BY DEF ValidateAccreditationNumber
<1> HIDE DEF passes
<1>1. /\ step = "accreditation" /\ step' = "material"
      /\ UNCHANGED <<file, registration, table, found, result>>
      /\ TypeOK /\ ~Thrown /\ SyntaxReported /\ ChecksReported /\ result = Unstored
      /\ SyntaxIsSound /\ registration \in Registrations /\ registration # Absent
      /\ issues' \in Seq(Issues) /\ SeverityTells(issues') /\ ~Thrown'
      /\ \A other : About(issues, other) \in Nat
      /\ \A other : About(issues', other) =
            About(issues, other) + IF other = "accreditation" /\ ~passes THEN 1 ELSE 0
      /\ SyntaxIsSound' /\ FoundInTables' /\ SeverityTells(found')
      /\ TypeOK'
  BY <1>0, CheckCounts DEF Steps
<1>2. passes <=> file.meta.ACCREDITATION = registration.accreditationNumber
  BY DEF passes
<1>3. SyntaxReported'
  BY <1>1, SyntaxStays DEF AfterTables, AfterFetch, AfterNumber, AfterType, AfterAccreditation, AfterMaterial
<1>4. ChecksReported'
  <2>1. \A other : other # "accreditation" => About(issues', other) = About(issues, other)
    BY <1>1
  <2>2. About(issues', "accreditation") = IF file.meta.ACCREDITATION = registration.accreditationNumber THEN 0 ELSE 1
    <3>1. About(issues, "accreditation") = 0
      BY <1>1 DEF ChecksReported, Checked, AfterNumber, AfterType, AfterAccreditation, AfterMaterial
    <3> QED BY <1>1, <1>2, <3>1
  <2> QED BY <1>1, <2>1, <2>2 DEF ChecksReported, Checked, TypeAgrees, MaterialAgrees,
       AfterNumber, AfterType, AfterAccreditation, AfterMaterial
<1> QED BY <1>1, <1>3, <1>4 DEF IInv, AfterTables, AfterFetch, AfterNumber, AfterType,
     AfterAccreditation, AfterMaterial

LEMMA MaterialKeeps ==
    ASSUME IInv, ValidateMaterialType
    PROVE  IInv'
<1> DEFINE passes == /\ registration.material \in Range(MaterialMap)
                     /\ Lookup(MaterialMap, file.meta.MATERIAL) = registration.material
<1>0. passes \in BOOLEAN /\ Check("material", "conclude", "material", passes)
  BY DEF ValidateMaterialType
<1> HIDE DEF passes
<1>1. /\ step = "material" /\ step' = "conclude"
      /\ UNCHANGED <<file, registration, table, found, result>>
      /\ TypeOK /\ ~Thrown /\ SyntaxReported /\ ChecksReported /\ result = Unstored
      /\ SyntaxIsSound /\ registration \in Registrations /\ registration # Absent
      /\ issues' \in Seq(Issues) /\ SeverityTells(issues') /\ ~Thrown'
      /\ \A other : About(issues, other) \in Nat
      /\ \A other : About(issues', other) =
            About(issues, other) + IF other = "material" /\ ~passes THEN 1 ELSE 0
      /\ SyntaxIsSound' /\ FoundInTables' /\ SeverityTells(found')
      /\ TypeOK'
  BY <1>0, CheckCounts DEF Steps
<1>2. passes <=> MaterialAgrees(registration)
  <2>1. registration.material \in {"plastic", "wood", "unexpected"}
    BY <1>1 DEF Registrations
  <2>2. Range(MaterialMap) = {"plastic", "wood"}
    BY DEF Range, MaterialMap
  <2> QED BY <2>1, <2>2 DEF passes, Lookup, MaterialMap, MaterialAgrees
<1>3. SyntaxReported'
  BY <1>1, SyntaxStays DEF AfterTables, AfterFetch, AfterNumber, AfterType, AfterAccreditation, AfterMaterial
<1>4. ChecksReported'
  <2>1. \A other : other # "material" => About(issues', other) = About(issues, other)
    BY <1>1
  <2>2. About(issues', "material") = IF MaterialAgrees(registration) THEN 0 ELSE 1
    <3>1. About(issues, "material") = 0
      BY <1>1 DEF ChecksReported, Checked, AfterNumber, AfterType, AfterAccreditation, AfterMaterial
    <3> QED BY <1>1, <1>2, <3>1
  <2> QED BY <1>1, <2>1, <2>2 DEF ChecksReported, Checked, TypeAgrees, MaterialAgrees,
       AfterNumber, AfterType, AfterAccreditation, AfterMaterial
<1> QED BY <1>1, <1>3, <1>4 DEF IInv, AfterTables, AfterFetch, AfterNumber, AfterType,
     AfterAccreditation, AfterMaterial

\* The verdict: nothing but what is stored changes.
LEMMA StoreKeeps ==
    ASSUME IInv, Store \/ StoreRefused
    PROVE  IInv'
<1>1. /\ step = "conclude" /\ step' \in {"stored", "refused"}
      /\ UNCHANGED <<file, registration, table, found, issues>>
      /\ \/ step' = "stored" /\ result' = Update(issues)
         \/ result' = result
  BY DEF Store, StoreRefused, Goto
<1>2. TypeOK /\ issues \in Seq(Issues) /\ result = Unstored
  BY <1>1 DEF IInv, TypeOK
<1>3. Update(issues) \in Results
  <2>1. CASE IsFatal(issues)
    <3>1. issues[1] \in Issues
      <4>1. 1 \in DOMAIN issues
        BY <1>2, <2>1 DEF IsFatal
      <4> QED BY <1>2, <4>1
    <3> QED BY <1>2, <2>1, <3>1 DEF Update, Status, FailureReason, Results
  <2>2. CASE ~IsFatal(issues)
    BY <1>2, <2>2 DEF Update, Status, FailureReason, Results
  <2> QED BY <2>1, <2>2
<1>4. TypeOK'
  BY <1>1, <1>2, <1>3 DEF TypeOK, Steps
<1>5. SeverityTells(issues)' /\ (Thrown' <=> Thrown) /\ (SyntaxIsSound' <=> SyntaxIsSound)
  BY <1>1, FileStays DEF IInv, Thrown
<1>6. ~Thrown => SyntaxReported' /\ ChecksReported'
  BY <1>1, <1>5, FileStays DEF IInv, SyntaxReported, ChecksReported, Checked, TypeAgrees,
     MaterialAgrees, AfterTables, AfterFetch, AfterNumber, AfterType, AfterAccreditation, AfterMaterial
<1>7. result' # Unstored => step' = "stored" /\ result' = Update(issues')
  BY <1>1, <1>2
<1> QED BY <1>1, <1>4, <1>5, <1>6, <1>7, FoundStays DEF IInv, AfterTables, AfterFetch, AfterNumber,
     AfterType, AfterAccreditation, AfterMaterial

LEMMA StutterKeeps ==
    ASSUME IInv, UNCHANGED vars
    PROVE  IInv'
<1>1. UNCHANGED <<file, registration, step, table, found, issues, result>>
  BY DEF vars
<1>2. TypeOK' /\ SeverityTells(issues)' /\ (Thrown' <=> Thrown) /\ (SyntaxIsSound' <=> SyntaxIsSound)
  BY <1>1, FileStays DEF IInv, TypeOK, Thrown
<1>3. ~Thrown => SyntaxReported' /\ ChecksReported'
  BY <1>1, <1>2, FileStays DEF IInv, SyntaxReported, ChecksReported, Checked, TypeAgrees,
     MaterialAgrees
<1>4. result' # Unstored => step' = "stored" /\ result' = Update(issues')
  BY <1>1 DEF IInv
<1> QED BY <1>1, <1>2, <1>3, <1>4, FoundStays DEF IInv

LEMMA InitKeeps == Init => IInv
<1> SUFFICES ASSUME Init PROVE IInv
  OBVIOUS
<1>1. /\ file \in Files /\ registration = Absent /\ step = "extract" /\ table = 1
      /\ found = <<>> /\ issues = <<>> /\ result = Unstored
  BY DEF Init
<1>2. TypeOK
  BY <1>1 DEF TypeOK, Steps
<1>3. FoundInTables
  <2>1. \A i \in HasSchema : ~(i < table)
    BY <1>1, <1>2, FileShape
  <2> QED BY <1>1, <2>1 DEF FoundInTables
<1>4. SyntaxReported /\ ChecksReported
  BY <1>1, CountOfNone DEF SyntaxReported, ChecksReported, Checked,
     AfterTables, AfterFetch, AfterNumber, AfterType, AfterAccreditation, AfterMaterial
<1>5. ~Thrown /\ SeverityTells(issues) /\ SeverityTells(found)
  BY <1>1 DEF Thrown, SeverityTells
<1> QED BY <1>1, <1>2, <1>3, <1>4, <1>5 DEF IInv,
     AfterTables, AfterFetch, AfterNumber, AfterType, AfterAccreditation, AfterMaterial

LEMMA MissingAreCounted ==
    ASSUME TypeOK
    PROVE  Cardinality(MissingHeaders) = 0 <=> MissingHeaders = {}
<1>1. CASE HasSchema = {}
  BY <1>1, FS_EmptySet DEF MissingHeaders
<1>2. CASE HasSchema # {}
  <2>1. PICK i \in HasSchema : TRUE
    BY <1>2
  <2>2. PICK n \in Nat : n = file.tables[i].missing
    <3>1. file.tables[i] \in Tables
      BY FileShape DEF HasSchema
    <3> QED BY <3>1, TablesAssumption
  <2>3. MissingHeaders = {i} \X (1..n)
    BY <2>2, FileShape DEF MissingHeaders
  <2>4. IsFiniteSet(MissingHeaders)
    BY <2>3, CellsOfRow
  <2> QED BY <2>4, FS_EmptySet
<1> QED BY <1>1, <1>2

\* What the checks have left behind when all are made.
LEMMA StoredChecks ==
    ASSUME IInv, ~Thrown, step \in AfterMaterial, SyntaxIsSound
    PROVE  /\ registration # Absent
           /\ About(issues, "registration") = 0
                <=> file.meta.REGISTRATION = registration.wasteRegistrationNumber
           /\ About(issues, "type") = 0 <=> TypeAgrees(registration)
           /\ About(issues, "accreditation") = 0
                <=> file.meta.ACCREDITATION = registration.accreditationNumber
           /\ About(issues, "material") = 0 <=> MaterialAgrees(registration)
<1>1. ChecksReported /\ registration # Absent
  BY DEF IInv
<1>2. step \in AfterNumber /\ step \in AfterType /\ step \in AfterAccreditation
  BY DEF AfterNumber, AfterType, AfterAccreditation
<1> QED BY <1>1, <1>2 DEF ChecksReported, Checked

(***************************************************************************)
(* The theorems                                                            *)
(***************************************************************************)

\* The strengthened invariant holds in every reachable state.
THEOREM InductiveInvariant == Spec => []IInv
<1>1. IInv /\ [Next]_vars => IInv'
  BY ExtractKeeps, MetaSyntaxKeeps, TableKeeps, TablesDoneKeeps, FetchKeeps, NumberKeeps,
     TypeKeeps, AccreditationKeeps, MaterialKeeps, StoreKeeps, StutterKeeps DEF Next
<1> QED BY <1>1, InitKeeps, PTL DEF Spec

\* Every variable has its type.
THEOREM TypeCorrect == Spec => []TypeOK
<1>1. IInv => TypeOK
  BY DEF IInv
<1> QED BY <1>1, InductiveInvariant, PTL

\* The log is validated exactly when its file can be processed and belongs to the
\* registration (performValidationChecks).
THEOREM VerdictRight == Spec => []VerdictIsRight
<1>1. IInv => VerdictIsRight
  <2> SUFFICES ASSUME IInv, result # Unstored
               PROVE  result.status = "validated"
                        <=> registration # Absent /\ SyntaxIsSound /\ BelongsTo(registration)
    BY DEF VerdictIsRight
  <2>1. /\ step = "stored" /\ result = Update(issues) /\ TypeOK
        /\ issues \in Seq(Issues) /\ SeverityTells(issues)
    BY DEF IInv, TypeOK
  <2>2. result.status = "validated" <=> ~IsFatal(issues)
    BY <2>1 DEF Update, Status
  <2>3. CASE Thrown
    <3>1. IsFatal(issues)
      BY <2>1, <2>3 DEF IsFatal, Thrown, SeverityTells
    <3> QED BY <2>2, <2>3, <3>1 DEF IInv
  <2>4. CASE ~Thrown
    <3>1. /\ About(issues, "exception") = 0 /\ About(issues, "emptyException") = 0
      BY <2>1, <2>4, CountIsNat DEF Thrown
    <3>2. /\ About(issues, "meta") = 0 <=> BadMetaDetails = {}
          /\ About(issues, "header") = 0 <=> MissingHeaders = {}
      <4>1. /\ About(issues, "meta") = Cardinality(BadMetaDetails)
            /\ About(issues, "header") = Cardinality(MissingHeaders)
        BY <2>1, <2>4 DEF IInv, SyntaxReported, AfterTables, AfterFetch, AfterNumber, AfterType,
           AfterAccreditation, AfterMaterial
      <4> QED BY <2>1, <4>1, SyntaxSplits, MissingAreCounted
    <3>3. SyntaxIsSound =>
            /\ registration # Absent
            /\ About(issues, "registration") = 0
                 <=> file.meta.REGISTRATION = registration.wasteRegistrationNumber
            /\ About(issues, "type") = 0 <=> TypeAgrees(registration)
            /\ About(issues, "accreditation") = 0
                 <=> file.meta.ACCREDITATION = registration.accreditationNumber
            /\ About(issues, "material") = 0 <=> MaterialAgrees(registration)
      BY <2>1, <2>4, StoredChecks DEF AfterMaterial
    <3>4. ~IsFatal(issues) <=>
            /\ About(issues, "meta") = 0 /\ About(issues, "header") = 0
            /\ About(issues, "registration") = 0 /\ About(issues, "type") = 0
            /\ About(issues, "accreditation") = 0 /\ About(issues, "material") = 0
      BY <2>1, <3>1, FatalsAreCounted DEF Subjects
    <3>5. ~SyntaxIsSound => IsFatal(issues)
      BY <2>1, <3>2, <3>4, SyntaxSplits
    <3>6. SyntaxIsSound => (~IsFatal(issues) <=> BelongsTo(registration))
      BY <2>1, <3>2, <3>3, <3>4, SyntaxSplits DEF BelongsTo
    <3> QED BY <2>2, <3>3, <3>5, <3>6
  <2> QED BY <2>3, <2>4
<1> QED BY <1>1, InductiveInvariant, PTL

\* The report tells of every syntax problem, and when there is none, of every
\* mismatch (validate.js, data-syntax.js).
THEOREM ReportComplete == Spec => []ReportIsComplete
<1>1. IInv => ReportIsComplete
  <2> SUFFICES ASSUME IInv, result # Unstored,
                      About(issues, "exception") + About(issues, "emptyException") = 0
               PROVE  /\ About(issues, "meta") = Cardinality(BadMetaDetails)
                      /\ About(issues, "header") = Cardinality(MissingHeaders)
                      /\ About(issues, "cell") =
                          (IF MissingHeaders # {} THEN 0 ELSE Cardinality(AllBadCells))
                      /\ SyntaxIsSound /\ ~BelongsTo(registration) =>
                          /\ (About(issues, "registration") = 0)
                               <=> (file.meta.REGISTRATION = registration.wasteRegistrationNumber)
                          /\ (About(issues, "accreditation") = 0)
                               <=> (file.meta.ACCREDITATION = registration.accreditationNumber)
                          /\ (About(issues, "type") = 0) <=> TypeAgrees(registration)
                          /\ (About(issues, "material") = 0) <=> MaterialAgrees(registration)
    BY DEF ReportIsComplete
  <2>1. step = "stored" /\ issues \in Seq(Issues)
    BY DEF IInv, TypeOK
  <2>2. ~Thrown
    <3>1. About(issues, "exception") = 0 /\ About(issues, "emptyException") = 0
      <4>1. About(issues, "exception") \in Nat /\ About(issues, "emptyException") \in Nat
        BY <2>1, CountIsNat
      <4> QED BY <4>1
    <3> QED BY <2>1, <3>1, CountIsNat DEF Thrown
  <2>3. SyntaxReported
    BY <2>2 DEF IInv
  <2>4. /\ About(issues, "meta") = Cardinality(BadMetaDetails)
        /\ About(issues, "header") = Cardinality(MissingHeaders)
        /\ About(issues, "cell") =
             (IF MissingHeaders # {} THEN 0 ELSE Cardinality(AllBadCells))
    BY <2>1, <2>3 DEF SyntaxReported, AfterTables, AfterFetch, AfterNumber, AfterType,
       AfterAccreditation, AfterMaterial
  <2> QED BY <2>1, <2>2, <2>4, StoredChecks DEF AfterMaterial
<1> QED BY <1>1, InductiveInvariant, PTL
================================================================================
