----------------------------- MODULE RowLemmas -----------------------------
(***************************************************************************)
(* The algebra of coded rows, for any field of characteristic 2: what the  *)
(* operators of CodedRows do to equations that hold, and that elimination  *)
(* and reduction, which go through a row column by column, clear what they *)
(* are given and add nothing else.                                         *)
(***************************************************************************)
EXTENDS CodedRows, DataLemmas, SequenceTheorems

-----------------------------------------------------------------------------
(***************************************************************************)
(* The algebra of rows.                                                    *)
(***************************************************************************)

(* Nought absorbs, and a product is nought only if a factor is.            *)
LEMMA Products ==
    ASSUME NEW a \in Field
    PROVE  /\ Mul(a, Nought) = Nought /\ Mul(Nought, a) = Nought
           /\ \A b \in Field : Mul(a, b) = Nought => a = Nought \/ b = Nought
<1>0. Nought \in Field /\ One \in Field
  BY FieldAssumption
<1>1. Mul(a, Nought) = Nought
  <2>1. Add(One, One) = Nought
    BY <1>0, FieldAssumption
  <2>2. Mul(a, Add(One, One)) = Add(Mul(a, One), Mul(a, One))
    BY <1>0, FieldAssumption
  <2>3. Mul(a, One) = a /\ Add(a, a) = Nought
    BY FieldAssumption
  <2>. QED  BY <2>1, <2>2, <2>3
<1>2. Mul(Nought, a) = Nought
  BY <1>0, <1>1, FieldAssumption
<1>3. ASSUME NEW b \in Field, Mul(a, b) = Nought, a # Nought
      PROVE  b = Nought
  <2>1. Inv(a) \in Field /\ Mul(a, Inv(a)) = One
    BY <1>3, FieldAssumption
  <2>2. Mul(Inv(a), Nought) = Nought
    <3>1. Mul(Inv(a), Add(One, One)) = Add(Mul(Inv(a), One), Mul(Inv(a), One))
      BY <1>0, <2>1, FieldAssumption
    <3>. QED  BY <1>0, <2>1, <3>1, FieldAssumption
  <2>3. Mul(Inv(a), Mul(a, b)) = Mul(Mul(Inv(a), a), b)
    BY <1>3, <2>1, FieldAssumption
  <2>4. Mul(Inv(a), a) = One
    BY <2>1, FieldAssumption
  <2>5. Mul(One, b) = b
    BY <1>0, <1>3, FieldAssumption
  <2>. QED  BY <1>3, <2>2, <2>3, <2>4, <2>5
<1>. QED  BY <1>1, <1>2, <1>3

(* What a combination is, column by column.                                *)
LEMMA Combination ==
    ASSUME NEW v \in Vec, NEW w \in Vec, NEW f \in Field
    PROVE  /\ mul_acc(v, f, w) \in Vec
           /\ \A s \in Seqs : mul_acc(v, f, w)[s] = Add(v[s], Mul(f, w[s]))
<1>1. \A s \in Seqs : v[s] \in Field /\ w[s] \in Field
  BY DEF Vec
<1>2. \A s \in Seqs : Add(v[s], Mul(f, w[s])) \in Field
  BY <1>1, FieldAssumption
<1>. QED  BY <1>2 DEF mul_acc, Vec

(* The payload of a source, as a vector.                                   *)
LEMMA UnitVector ==
    /\ Zero \in Vec
    /\ \A s \in Seqs : /\ Unit(s) \in Vec /\ Unit(s)[s] = One
                       /\ \A q \in Seqs \ {s} : Unit(s)[q] = Nought
BY FieldAssumption DEF Unit, Zero, Vec

SoundRow == {row \in Row : RowSound(row)}

(* A sound row is a vector twice.                                          *)
LEMMA SoundRowIsVector ==
    ASSUME NEW row \in SoundRow
    PROVE  /\ row.c \in Vec /\ row.d = row.c
           /\ row = [c |-> row.c, d |-> row.c]
           /\ \A s \in Seqs : row.c[s] \in Field
BY DEF SoundRow, RowSound, Row, Vec

(* A vector taken as coefficients and as payload is a sound row.           *)
LEMMA VectorIsSoundRow ==
    ASSUME NEW v \in Vec
    PROVE  [c |-> v, d |-> v] \in SoundRow
BY DEF SoundRow, RowSound, Row

(* Taking a known column out of a sound row leaves a sound row.            *)
LEMMA SubstituteSound ==
    ASSUME NEW row \in SoundRow, NEW s \in Seqs
    PROVE  /\ substitute(row, s, Unit(s)) \in SoundRow
           /\ substitute(row, s, Unit(s)).c[s] = Nought
           /\ \A q \in Seqs \ {s} : substitute(row, s, Unit(s)).c[q] = row.c[q]
<1> DEFINE v == [row.c EXCEPT ![s] = Nought]
           w == mul_acc(row.d, row.c[s], Unit(s))
<1>1. /\ row.c \in Vec /\ row.d = row.c /\ row.c[s] \in Field /\ Unit(s) \in Vec
      /\ \A q \in Seqs : row.c[q] \in Field
  BY SoundRowIsVector, UnitVector
<1>2. v \in Vec /\ v[s] = Nought /\ \A q \in Seqs \ {s} : v[q] = row.c[q]
  BY <1>1, FieldAssumption DEF Vec
<1>3. w \in Vec /\ \A q \in Seqs : w[q] = Add(row.c[q], Mul(row.c[s], Unit(s)[q]))
  <2>1. \A x, y \in Vec, f \in Field :
           /\ mul_acc(x, f, y) \in Vec
           /\ \A q \in Seqs : mul_acc(x, f, y)[q] = Add(x[q], Mul(f, y[q]))
    BY Combination
  <2>2. row.d \in Vec
    BY <1>1
  <2>3. /\ mul_acc(row.d, row.c[s], Unit(s)) \in Vec
        /\ \A q \in Seqs : mul_acc(row.d, row.c[s], Unit(s))[q] = Add(row.d[q], Mul(row.c[s], Unit(s)[q]))
    BY <1>1, <2>1, <2>2
  <2>. QED  BY <1>1, <2>3
<1>4. w[s] = Nought
  <2>1. w[s] = Add(row.c[s], Mul(row.c[s], One))
    BY <1>3, UnitVector
  <2>. QED  BY <1>1, <2>1, FieldAssumption
<1>5. ASSUME NEW q \in Seqs \ {s}
      PROVE  w[q] = row.c[q]
  <2>1. w[q] = Add(row.c[q], Mul(row.c[s], Nought))
    BY <1>3, UnitVector
  <2>2. Mul(row.c[s], Nought) = Nought
    BY <1>1, Products
  <2>. QED  BY <1>1, <2>1, <2>2, FieldAssumption
<1>6. v = w
  BY <1>2, <1>3, <1>4, <1>5 DEF Vec
<1>7. substitute(row, s, Unit(s)) = [c |-> v, d |-> v]
  BY <1>6 DEF substitute
<1>8. [c |-> v, d |-> v] \in SoundRow
  BY <1>2, VectorIsSoundRow
<1>. HIDE DEF v, w
<1>. QED  BY <1>2, <1>7, <1>8

(* Reducing a sound row by another leaves a sound row.                     *)
LEMMA SubScaledSound ==
    ASSUME NEW row \in SoundRow, NEW other \in SoundRow, NEW f \in Field
    PROVE  /\ sub_scaled(row, f, other) \in SoundRow
           /\ \A q \in Seqs : sub_scaled(row, f, other).c[q] = Add(row.c[q], Mul(f, other.c[q]))
<1> DEFINE v == mul_acc(row.c, f, other.c)
<1>1. v \in Vec /\ \A q \in Seqs : v[q] = Add(row.c[q], Mul(f, other.c[q]))
  BY SoundRowIsVector, Combination
<1>2. sub_scaled(row, f, other) = [c |-> v, d |-> v]
  BY SoundRowIsVector DEF sub_scaled
<1>3. [c |-> v, d |-> v] \in SoundRow
  BY <1>1, VectorIsSoundRow
<1>. HIDE DEF v
<1>. QED  BY <1>1, <1>2, <1>3

(* The lead of a row is its leftmost column.                               *)
LEMMA LeadIsLeast ==
    ASSUME NEW row, Support(row) # {}
    PROVE  lead(row) \in Support(row) /\ \A q \in Support(row) : lead(row) <= q
<1>1. Support(row) \in SUBSET Nat
  BY SizeAssumption DEF Support, Seqs
<1>2. PICK m \in Support(row) : \A q \in Support(row) : m <= q
  BY <1>1, LeastMember
<1>. QED  BY <1>2 DEF lead

(* Scaling a sound row to lead with 1 keeps its columns.                   *)
LEMMA NormalizedSound ==
    ASSUME NEW row \in SoundRow, Support(row) # {}
    PROVE  /\ normalized(row) \in SoundRow
           /\ Support(normalized(row)) = Support(row)
           /\ lead(normalized(row)) = lead(row)
           /\ normalized(row).c[lead(row)] = One
<1> DEFINE l == lead(row)
           f == Inv(row.c[l])
           v == mul_acc(Zero, f, row.c)
<1>1. l \in Seqs /\ row.c[l] # Nought /\ row.c[l] \in Field
  BY LeadIsLeast, SoundRowIsVector DEF Support
<1>2. f \in Field /\ Mul(row.c[l], f) = One /\ Nought \in Field /\ One \in Field
  BY <1>1, FieldAssumption
<1>3. row.c \in Vec /\ row.d = row.c /\ \A q \in Seqs : row.c[q] \in Field
  BY SoundRowIsVector
<1>. HIDE DEF l, f
<1>4. v \in Vec /\ \A q \in Seqs : v[q] = Add(Zero[q], Mul(f, row.c[q]))
  BY <1>2, <1>3, Combination, UnitVector
<1>5. \A q \in Seqs : v[q] = Mul(f, row.c[q])
  <2>1. \A q \in Seqs : Zero[q] = Nought /\ Mul(f, row.c[q]) \in Field
    BY <1>2, <1>3, FieldAssumption DEF Zero
  <2>2. \A x \in Field : Add(Nought, x) = x
    BY <1>2, FieldAssumption
  <2>. QED  BY <1>4, <2>1, <2>2
<1>6. normalized(row) = [c |-> v, d |-> v]
  BY <1>3 DEF normalized, scale, l, f
<1>7. [c |-> v, d |-> v] \in SoundRow
  BY <1>4, VectorIsSoundRow
<1>8. f # Nought
  <2>1. Mul(row.c[l], Nought) = Nought
    BY <1>1, Products
  <2>. QED  BY <1>2, <2>1, FieldAssumption
<1>9. \A q \in Seqs : v[q] = Nought <=> row.c[q] = Nought
  BY <1>2, <1>3, <1>5, <1>8, Products
<1>10. v[l] = One
  <2>1. v[l] = Mul(f, row.c[l])
    BY <1>1, <1>5 DEF l
  <2>2. Mul(f, row.c[l]) = Mul(row.c[l], f)
    BY <1>1, <1>2, FieldAssumption
  <2>. QED  BY <1>2, <2>1, <2>2
<1>. HIDE DEF v
<1>11. Support(normalized(row)) = Support(row)
  BY <1>6, <1>9 DEF Support
<1>12. lead(normalized(row)) = lead(row)
  BY <1>11 DEF lead
<1>. QED  BY <1>6, <1>7, <1>10, <1>11, <1>12 DEF l

-----------------------------------------------------------------------------
(***************************************************************************)
(* Elimination and reduction.                                              *)
(***************************************************************************)

(* A set of columns is finite, and its enumeration names each.             *)
LEMMA Columns ==
    ASSUME NEW cols \in SUBSET Seqs
    PROVE  /\ cols \in SUBSET Int /\ IsFiniteSet(cols) /\ Cardinality(cols) \in Nat
           /\ Ascending(cols) \in [1 .. Cardinality(cols) -> cols]
           /\ \A s \in cols : \E k \in 1 .. Cardinality(cols) : Ascending(cols)[k] = s
           /\ \A i, k \in 1 .. Cardinality(cols) : Ascending(cols)[i] = Ascending(cols)[k] => i = k
           /\ DOMAIN Ascending(cols) = 1 .. Cardinality(cols)
<1>1. cols \in SUBSET Int /\ IsFiniteSet(cols)
  <2>1. IsFiniteSet(Seqs) /\ Seqs \subseteq Int
    BY SizeAssumption, FS_Interval DEF Seqs
  <2>. QED  BY <2>1, FS_Subset
<1> DEFINE n == Cardinality(cols)
           a == Ascending(cols)
<1>2. /\ n \in Nat /\ a \in [1 .. n -> cols]
      /\ \A i, k \in 1 .. n : i < k => a[i] < a[k]
      /\ \A s \in cols : \E k \in 1 .. n : a[k] = s
  BY <1>1, AscendingEnumerates
<1>. HIDE DEF n, a
<1>3. ASSUME NEW i \in 1 .. n, NEW k \in 1 .. n, a[i] = a[k]
      PROVE  i = k
  <2>1. \A j \in 1 .. n : a[j] \in Int
    BY <1>1, <1>2
  <2>2. ~(i < k) /\ ~(k < i)
    BY <1>2, <1>3, <2>1
  <2>. QED  BY <1>2, <2>2
<1>. QED  BY <1>1, <1>2, <1>3 DEF n, a

(* Elimination goes through the row column by column.                      *)
LEMMA EliminateSteps ==
    ASSUME NEW row \in SoundRow, NEW known, DOMAIN known \in SUBSET Seqs,
           \A s \in DOMAIN known : known[s] = Unit(s)
    PROVE  \E st \in [0 .. Cardinality(DOMAIN known) -> SoundRow] :
              /\ st[0] = row
              /\ \A k \in 1 .. Cardinality(DOMAIN known) :
                    st[k] = substitute(st[k - 1], Ascending(DOMAIN known)[k],
                                       Unit(Ascending(DOMAIN known)[k]))
              /\ eliminate_known(row, known) = st[Cardinality(DOMAIN known)]
<1> DEFINE cols == DOMAIN known
           n == Cardinality(cols)
           a == Ascending(cols)
           Eq(f) == f = [s \in SUBSET (1 .. n) |-> IF s = {} THEN row
                            ELSE substitute(f[s \ {Max(s)}], a[Max(s)], known[a[Max(s)]])]
           iter == CHOOSE f : Eq(f)
           step == [x \in SoundRow \X (1 .. n) |-> substitute(x[1], a[x[2]], Unit(a[x[2]]))]
           st == [k \in 0 .. n |-> iter[1 .. k]]
<1>1. n \in Nat /\ a \in [1 .. n -> cols] /\ DOMAIN a = 1 .. n /\ cols \in SUBSET Seqs
  BY Columns
<1>2. eliminate_known(row, known)
         = (CHOOSE f : f = [s \in SUBSET (DOMAIN a) |-> IF s = {} THEN row
              ELSE substitute(f[s \ {Max(s)}], a[Max(s)], known[a[Max(s)]])])[DOMAIN a]
  BY DEF eliminate_known, FoldLeft, MapThenFoldSet
<1>. HIDE DEF n, a, cols
<1>3. eliminate_known(row, known) = iter[1 .. n]
  BY <1>1, <1>2
<1>4. \A s : Max(s) = Greatest(s)
  BY DEF Max, Greatest
<1>5. step \in [SoundRow \X (1 .. n) -> SoundRow]
  BY <1>1, SubstituteSound
<1>6. PICK h \in [SUBSET (1 .. n) -> SoundRow] : FoldBy(h, n, row, step)
  <2>. HIDE DEF step
  <2>. QED  BY <1>1, <1>5, FoldExists
<1>7. ASSUME NEW s \in SUBSET (1 .. n), s # {}
      PROVE  /\ Greatest(s) \in 1 .. n /\ s \ {Greatest(s)} \in SUBSET (1 .. n)
             /\ known[a[Greatest(s)]] = Unit(a[Greatest(s)])
  BY <1>1, <1>7, PositionsCount DEF cols
<1>8. Eq(h)
  <2>1. \A s \in SUBSET (1 .. n) : s # {} =>
           step[<<h[s \ {Greatest(s)}], Greatest(s)>>]
             = substitute(h[s \ {Greatest(s)}], a[Greatest(s)], known[a[Greatest(s)]])
    BY <1>6, <1>7
  <2>. HIDE DEF step
  <2>2. h = [s \in SUBSET (1 .. n) |-> IF s = {} THEN row
               ELSE step[<<h[s \ {Greatest(s)}], Greatest(s)>>]]
    BY <1>6 DEF FoldBy
  <2>. QED  BY <1>4, <2>1, <2>2
<1>9. Eq(iter)
  <2>. HIDE DEF Eq
  <2>. QED  BY <1>8
<1>10. iter[1 .. 0] = row /\ \A k \in 1 .. n :
          iter[1 .. k] = substitute(iter[1 .. k - 1], a[k], Unit(a[k]))
  <2>. HIDE DEF iter
  <2>1. iter[{}] = row
    BY <1>9
  <2>2. ASSUME NEW k \in 1 .. n
        PROVE  iter[1 .. k] = substitute(iter[1 .. k - 1], a[k], Unit(a[k]))
    <3>1. /\ 1 .. k \in SUBSET (1 .. n) /\ 1 .. k # {}
          /\ Greatest(1 .. k) = k /\ (1 .. k) \ {k} = 1 .. k - 1
      BY <1>1, IntervalTop
    <3>2. known[a[k]] = Unit(a[k])
      BY <1>1 DEF cols
    <3>3. iter[1 .. k] = substitute(iter[(1 .. k) \ {Max(1 .. k)}], a[Max(1 .. k)],
                                    known[a[Max(1 .. k)]])
      BY <1>9, <3>1
    <3>4. Max(1 .. k) = k
      BY <1>4, <3>1
    <3>. QED  BY <3>1, <3>2, <3>3, <3>4
  <2>. QED  BY <2>1, <2>2
<1>. HIDE DEF iter
<1>11. \A k \in 0 .. n : iter[1 .. k] \in SoundRow
  <2> DEFINE S == {k \in 0 .. n : iter[1 .. k] \in SoundRow}
  <2>1. 0 \in S
    BY <1>1, <1>10
  <2>2. ASSUME NEW k \in 0 .. n - 1, k \in S
        PROVE  k + 1 \in S
    <3>1. k + 1 \in 1 .. n /\ k + 1 \in 0 .. n /\ (k + 1) - 1 = k
      BY <1>1
    <3>2. iter[1 .. k + 1] = substitute(iter[1 .. k], a[k + 1], Unit(a[k + 1]))
      BY <1>10, <3>1
    <3>3. iter[1 .. k] \in SoundRow /\ a[k + 1] \in Seqs
      BY <1>1, <2>2, <3>1
    <3>. QED  BY <3>1, <3>2, <3>3, SubstituteSound
  <2>. HIDE DEF S
  <2>3. 0 .. n \subseteq S
    BY <1>1, <2>1, <2>2, IntervalInduction
  <2>. QED  BY <2>3 DEF S
<1>12. /\ st \in [0 .. n -> SoundRow] /\ st[0] = row
       /\ \A k \in 1 .. n : st[k] = substitute(st[k - 1], a[k], Unit(a[k]))
       /\ eliminate_known(row, known) = st[n]
  BY <1>1, <1>3, <1>10, <1>11
<1>. HIDE DEF st
<1>. QED  BY <1>12 DEF n, a, cols

(* What elimination leaves: the other columns, as they were.               *)
LEMMA Eliminated ==
    ASSUME NEW row \in SoundRow, NEW known, DOMAIN known \in SUBSET Seqs,
           \A s \in DOMAIN known : known[s] = Unit(s)
    PROVE  /\ eliminate_known(row, known) \in SoundRow
           /\ \A q \in Seqs : eliminate_known(row, known).c[q]
                                 = IF q \in DOMAIN known THEN Nought ELSE row.c[q]
<1> DEFINE cols == DOMAIN known
           n == Cardinality(cols)
           a == Ascending(cols)
<1>1. /\ n \in Nat /\ a \in [1 .. n -> cols] /\ cols \in SUBSET Seqs
      /\ \A s \in cols : \E k \in 1 .. n : a[k] = s
  BY Columns
<1>2. PICK st \in [0 .. n -> SoundRow] :
         /\ st[0] = row
         /\ \A k \in 1 .. n : st[k] = substitute(st[k - 1], a[k], Unit(a[k]))
         /\ eliminate_known(row, known) = st[n]
  BY EliminateSteps
<1>. HIDE DEF cols, n, a
<1> DEFINE Cleared(k) == \A q \in Seqs :
              st[k].c[q] = IF \E j \in 1 .. k : a[j] = q THEN Nought ELSE row.c[q]
           S == {k \in 0 .. n : Cleared(k)}
<1>3. 0 \in S
  BY <1>1, <1>2
<1>4. ASSUME NEW k \in 0 .. n - 1, k \in S
      PROVE  k + 1 \in S
  <2>1. k + 1 \in 1 .. n /\ k + 1 \in 0 .. n /\ (k + 1) - 1 = k /\ k \in 0 .. n
    BY <1>1
  <2>2. st[k + 1] = substitute(st[k], a[k + 1], Unit(a[k + 1])) /\ st[k] \in SoundRow
    BY <1>2, <2>1
  <2>3. a[k + 1] \in Seqs
    BY <1>1, <2>1
  <2>4. /\ st[k + 1].c[a[k + 1]] = Nought
        /\ \A q \in Seqs \ {a[k + 1]} : st[k + 1].c[q] = st[k].c[q]
    BY <2>2, <2>3, SubstituteSound
  <2>5. \A q : (\E j \in 1 .. k + 1 : a[j] = q) <=> (q = a[k + 1] \/ \E j \in 1 .. k : a[j] = q)
    <3>1. 1 .. k + 1 = (1 .. k) \cup {k + 1}
      BY <1>1
    <3>. QED  BY <3>1
  <2>6. Cleared(k)
    BY <1>4
  <2>7. Cleared(k + 1)
    BY <2>4, <2>5, <2>6
  <2>. QED  BY <2>1, <2>7
<1>5. Cleared(n)
  <2>. HIDE DEF S
  <2>1. 0 .. n \subseteq S
    BY <1>1, <1>3, <1>4, IntervalInduction
  <2>2. n \in 0 .. n
    BY <1>1
  <2>. QED  BY <2>1, <2>2 DEF S
<1>6. n \in 0 .. n /\ \A q : (\E j \in 1 .. n : a[j] = q) <=> q \in cols
  BY <1>1
<1>7. eliminate_known(row, known) \in SoundRow
  BY <1>2, <1>6
<1>. QED  BY <1>2, <1>5, <1>6, <1>7 DEF cols

(* The rows a reduction goes through, pivot by pivot from the left.        *)
ReductionOf(st, row, table, cols) ==
    /\ st \in [0 .. Cardinality(cols) -> SoundRow]
    /\ st[0] = row
    /\ \A k \in 1 .. Cardinality(cols) :
          st[k] = sub_scaled(st[k - 1], st[k - 1].c[Ascending(cols)[k]], table[Ascending(cols)[k]])
    /\ reduce(row, table, cols) = st[Cardinality(cols)]

(* A reduction does go through such rows.                                  *)
LEMMA ReduceSteps ==
    ASSUME NEW row \in SoundRow, NEW table, NEW cols \in SUBSET Seqs,
           \A p \in cols : table[p] \in SoundRow
    PROVE  \E st : ReductionOf(st, row, table, cols)
<1> DEFINE n == Cardinality(cols)
           a == Ascending(cols)
           Eq(f) == f = [s \in SUBSET (1 .. n) |-> IF s = {} THEN row
                            ELSE sub_scaled(f[s \ {Max(s)}], f[s \ {Max(s)}].c[a[Max(s)]], table[a[Max(s)]])]
           iter == CHOOSE f : Eq(f)
           step == [x \in SoundRow \X (1 .. n) |-> sub_scaled(x[1], x[1].c[a[x[2]]], table[a[x[2]]])]
           st == [k \in 0 .. n |-> iter[1 .. k]]
<1>1. n \in Nat /\ a \in [1 .. n -> cols] /\ DOMAIN a = 1 .. n /\ cols \in SUBSET Seqs
  BY Columns
<1>2. reduce(row, table, cols)
         = (CHOOSE f : f = [s \in SUBSET (DOMAIN a) |-> IF s = {} THEN row
              ELSE sub_scaled(f[s \ {Max(s)}], f[s \ {Max(s)}].c[a[Max(s)]], table[a[Max(s)]])])[DOMAIN a]
  BY DEF reduce, FoldLeft, MapThenFoldSet
<1>. HIDE DEF n, a
<1>3. reduce(row, table, cols) = iter[1 .. n]
  BY <1>1, <1>2
<1>4. \A s : Max(s) = Greatest(s)
  BY DEF Max, Greatest
<1>5. step \in [SoundRow \X (1 .. n) -> SoundRow]
  <2>1. \A x \in SoundRow, k \in 1 .. n :
           sub_scaled(x, x.c[a[k]], table[a[k]]) \in SoundRow
    <3> SUFFICES ASSUME NEW x \in SoundRow, NEW k \in 1 .. n
                 PROVE  sub_scaled(x, x.c[a[k]], table[a[k]]) \in SoundRow
      OBVIOUS
    <3>1. table[a[k]] \in SoundRow /\ a[k] \in Seqs
      BY <1>1
    <3>2. x.c[a[k]] \in Field
      BY <3>1, SoundRowIsVector
    <3>. QED  BY <3>1, <3>2, SubScaledSound
  <2>. QED  BY <2>1
<1>6. PICK h \in [SUBSET (1 .. n) -> SoundRow] : FoldBy(h, n, row, step)
  <2>. HIDE DEF step
  <2>. QED  BY <1>1, <1>5, FoldExists
<1>7. ASSUME NEW s \in SUBSET (1 .. n), s # {}
      PROVE  /\ Greatest(s) \in 1 .. n /\ s \ {Greatest(s)} \in SUBSET (1 .. n)
  BY <1>1, <1>7, PositionsCount
<1>8. Eq(h)
  <2>1. \A s \in SUBSET (1 .. n) : s # {} =>
           step[<<h[s \ {Greatest(s)}], Greatest(s)>>]
             = sub_scaled(h[s \ {Greatest(s)}], h[s \ {Greatest(s)}].c[a[Greatest(s)]],
                          table[a[Greatest(s)]])
    BY <1>6, <1>7
  <2>. HIDE DEF step
  <2>2. h = [s \in SUBSET (1 .. n) |-> IF s = {} THEN row
               ELSE step[<<h[s \ {Greatest(s)}], Greatest(s)>>]]
    BY <1>6 DEF FoldBy
  <2>. QED  BY <1>4, <2>1, <2>2
<1>9. Eq(iter)
  <2>. HIDE DEF Eq
  <2>. QED  BY <1>8
<1>10. iter[1 .. 0] = row /\ \A k \in 1 .. n :
          iter[1 .. k] = sub_scaled(iter[1 .. k - 1], iter[1 .. k - 1].c[a[k]], table[a[k]])
  <2>. HIDE DEF iter
  <2>1. iter[{}] = row
    BY <1>9
  <2>2. ASSUME NEW k \in 1 .. n
        PROVE  iter[1 .. k] = sub_scaled(iter[1 .. k - 1], iter[1 .. k - 1].c[a[k]], table[a[k]])
    <3>1. /\ 1 .. k \in SUBSET (1 .. n) /\ 1 .. k # {}
          /\ Greatest(1 .. k) = k /\ (1 .. k) \ {k} = 1 .. k - 1
      BY <1>1, IntervalTop
    <3>2. iter[1 .. k] = sub_scaled(iter[(1 .. k) \ {Max(1 .. k)}],
                                    iter[(1 .. k) \ {Max(1 .. k)}].c[a[Max(1 .. k)]],
                                    table[a[Max(1 .. k)]])
      BY <1>9, <3>1
    <3>3. Max(1 .. k) = k
      BY <1>4, <3>1
    <3>. QED  BY <3>1, <3>2, <3>3
  <2>. QED  BY <2>1, <2>2
<1>. HIDE DEF iter
<1>11. \A k \in 0 .. n : iter[1 .. k] \in SoundRow
  <2> DEFINE S == {k \in 0 .. n : iter[1 .. k] \in SoundRow}
  <2>1. 0 \in S
    BY <1>1, <1>10
  <2>2. ASSUME NEW k \in 0 .. n - 1, k \in S
        PROVE  k + 1 \in S
    <3>1. k + 1 \in 1 .. n /\ k + 1 \in 0 .. n /\ (k + 1) - 1 = k
      BY <1>1
    <3>2. iter[1 .. k + 1] = sub_scaled(iter[1 .. k], iter[1 .. k].c[a[k + 1]], table[a[k + 1]])
      BY <1>10, <3>1
    <3>3. iter[1 .. k] \in SoundRow /\ a[k + 1] \in Seqs /\ table[a[k + 1]] \in SoundRow
      BY <1>1, <2>2, <3>1
    <3>4. iter[1 .. k].c[a[k + 1]] \in Field
      BY <3>3, SoundRowIsVector
    <3>5. sub_scaled(iter[1 .. k], iter[1 .. k].c[a[k + 1]], table[a[k + 1]]) \in SoundRow
      BY <3>3, <3>4, SubScaledSound
    <3>6. iter[1 .. k + 1] \in SoundRow
      BY <3>2, <3>5
    <3>. QED  BY <3>1, <3>6
  <2>. HIDE DEF S
  <2>3. 0 .. n \subseteq S
    BY <1>1, <2>1, <2>2, IntervalInduction
  <2>. QED  BY <2>3 DEF S
<1>12. /\ st \in [0 .. n -> SoundRow] /\ st[0] = row
       /\ \A k \in 1 .. n : st[k] = sub_scaled(st[k - 1], st[k - 1].c[a[k]], table[a[k]])
       /\ reduce(row, table, cols) = st[n]
  BY <1>1, <1>3, <1>10, <1>11
<1>. HIDE DEF st
<1>. QED  BY <1>12 DEF n, a, ReductionOf


(* What reduction by pivot rows that leave out each other's pivots leaves: *)
(* no pivot, and no column that neither the row nor a pivot row has.  It   *)
(* does nothing to a row without pivots, and takes one row from a row with *)
(* a 1 at one pivot.                                                       *)
LEMMA RowReduced ==
    ASSUME NEW row \in SoundRow, NEW table, NEW cols \in SUBSET Seqs,
           \A p \in cols : /\ table[p] \in SoundRow /\ table[p].c[p] = One
                           /\ \A q \in cols \ {p} : table[p].c[q] = Nought
    PROVE  LET r == reduce(row, table, cols)
           IN  /\ r \in SoundRow
               /\ \A p \in cols : r.c[p] = Nought
               /\ \A q \in Seqs : row.c[q] = Nought /\ (\A p \in cols : table[p].c[q] = Nought)
                                     => r.c[q] = Nought
               /\ (\A p \in cols : row.c[p] = Nought) => \A q \in Seqs : r.c[q] = row.c[q]
               /\ \A s \in cols : row.c[s] = One /\ (\A p \in cols \ {s} : row.c[p] = Nought)
                     => \A q \in Seqs : r.c[q] = Add(row.c[q], table[s].c[q])
<1> DEFINE n == Cardinality(cols)
           a == Ascending(cols)
           r == reduce(row, table, cols)
<1>1. /\ n \in Nat /\ a \in [1 .. n -> cols]
      /\ \A s \in cols : \E k \in 1 .. n : a[k] = s
      /\ \A i, k \in 1 .. n : a[i] = a[k] => i = k
  BY Columns
<1>2. PICK st : ReductionOf(st, row, table, cols)
  <2>1. \A p \in cols : table[p] \in SoundRow
    OBVIOUS
  <2>. QED  BY <2>1, ReduceSteps
<1>3. /\ st \in [0 .. n -> SoundRow] /\ st[0] = row
      /\ \A k \in 1 .. n : st[k] = sub_scaled(st[k - 1], st[k - 1].c[a[k]], table[a[k]])
      /\ r = st[n]
  BY <1>2 DEF ReductionOf
<1>. HIDE DEF n, a, r
<1>4. Nought \in Field /\ One \in Field /\ \A x \in Field : Add(x, Mul(x, One)) = Nought
                                            /\ Add(x, Nought) = x /\ Mul(x, Nought) = Nought
                                            /\ Mul(Nought, x) = Nought /\ Mul(One, x) = x
  BY Products, FieldAssumption
<1>5. n \in 0 .. n /\ r \in SoundRow
  BY <1>1, <1>3
(* One stage: the columns it leaves alone.                                 *)
<1>6. ASSUME NEW k \in 0 .. n - 1
      PROVE  /\ k + 1 \in 1 .. n /\ k + 1 \in 0 .. n /\ k \in 0 .. n /\ a[k + 1] \in cols
             /\ st[k].c[a[k + 1]] \in Field
             /\ \A q \in Seqs : /\ st[k].c[q] \in Field /\ table[a[k + 1]].c[q] \in Field
                                /\ st[k + 1].c[q] = Add(st[k].c[q], Mul(st[k].c[a[k + 1]],
                                                                        table[a[k + 1]].c[q]))
  <2>1. k + 1 \in 1 .. n /\ k + 1 \in 0 .. n /\ (k + 1) - 1 = k /\ k \in 0 .. n
    BY <1>1
  <2>2. st[k + 1] = sub_scaled(st[k], st[k].c[a[k + 1]], table[a[k + 1]]) /\ st[k] \in SoundRow
    BY <1>3, <2>1
  <2>3. a[k + 1] \in cols /\ a[k + 1] \in Seqs /\ table[a[k + 1]] \in SoundRow
    BY <1>1, <2>1
  <2>4. st[k].c[a[k + 1]] \in Field
    BY <2>2, <2>3, SoundRowIsVector
  <2>5. \A q \in Seqs : st[k].c[q] \in Field /\ table[a[k + 1]].c[q] \in Field
    BY <2>2, <2>3, SoundRowIsVector
  <2>6. \A x, y \in SoundRow, f \in Field : \A q \in Seqs :
           sub_scaled(x, f, y).c[q] = Add(x.c[q], Mul(f, y.c[q]))
    BY SubScaledSound
  <2>7. \A q \in Seqs : st[k + 1].c[q] = Add(st[k].c[q], Mul(st[k].c[a[k + 1]],
                                                           table[a[k + 1]].c[q]))
    BY <2>2, <2>3, <2>4, <2>6
  <2>. QED  BY <2>1, <2>3, <2>4, <2>5, <2>7
<1> DEFINE Cleared(k) == \A j \in 1 .. n :
              st[k].c[a[j]] = IF j <= k THEN Nought ELSE row.c[a[j]]
<1>7. \A k \in 0 .. n : Cleared(k)
  <2> DEFINE S == {k \in 0 .. n : Cleared(k)}
  <2>1. 0 \in S
    BY <1>1, <1>3
  <2>2. ASSUME NEW k \in 0 .. n - 1, k \in S
        PROVE  k + 1 \in S
    <3>1. /\ k + 1 \in 1 .. n /\ k + 1 \in 0 .. n /\ a[k + 1] \in cols /\ Cleared(k)
          /\ st[k].c[a[k + 1]] \in Field
      BY <1>6, <2>2
    <3>2. ASSUME NEW j \in 1 .. n
          PROVE  st[k + 1].c[a[j]] = IF j <= k + 1 THEN Nought ELSE row.c[a[j]]
      <4>1. a[j] \in cols /\ a[j] \in Seqs
        BY <1>1
      <4>2. st[k + 1].c[a[j]] = Add(st[k].c[a[j]], Mul(st[k].c[a[k + 1]], table[a[k + 1]].c[a[j]]))
        BY <1>6, <4>1
      <4>3. CASE j = k + 1
        <5>1. table[a[k + 1]].c[a[j]] = One
          BY <3>1, <4>3
        <5>2. st[k + 1].c[a[j]] = Nought
          BY <1>4, <3>1, <4>2, <4>3, <5>1
        <5>. QED  BY <3>1, <4>3, <5>2
      <4>4. CASE j # k + 1
        <5>1. a[k + 1] # a[j]
          BY <1>1, <3>1, <4>4
        <5>2. table[a[k + 1]].c[a[j]] = Nought
          BY <3>1, <4>1, <5>1
        <5>3. st[k].c[a[j]] \in Field
          BY <1>6, <4>1
        <5>4. st[k + 1].c[a[j]] = st[k].c[a[j]]
          BY <1>4, <3>1, <4>2, <5>2, <5>3
        <5>5. j <= k + 1 <=> j <= k
          BY <1>1, <4>4
        <5>. QED  BY <3>1, <5>4, <5>5
      <4>. QED  BY <4>3, <4>4
    <3>. QED  BY <3>1, <3>2
  <2>. HIDE DEF S
  <2>3. 0 .. n \subseteq S
    BY <1>1, <2>1, <2>2, IntervalInduction
  <2>. QED  BY <2>3 DEF S
<1>8. \A p \in cols : r.c[p] = Nought
  <2> SUFFICES ASSUME NEW p \in cols
               PROVE  r.c[p] = Nought
    OBVIOUS
  <2>1. PICK j \in 1 .. n : a[j] = p
    BY <1>1
  <2>2. j <= n
    BY <1>1
  <2>. QED  BY <1>3, <1>5, <1>7, <2>1, <2>2
(* The factor of a stage is what the row has at the pivot.                 *)
<1>9. \A k \in 0 .. n - 1 : st[k].c[a[k + 1]] = row.c[a[k + 1]]
  BY <1>1, <1>6, <1>7
<1>10. ASSUME NEW q \in Seqs, row.c[q] = Nought, \A p \in cols : table[p].c[q] = Nought
      PROVE  r.c[q] = Nought
  <2> DEFINE S == {k \in 0 .. n : st[k].c[q] = Nought}
  <2>1. 0 \in S
    BY <1>1, <1>3, <1>10
  <2>2. ASSUME NEW k \in 0 .. n - 1, k \in S
        PROVE  k + 1 \in S
    BY <1>4, <1>6, <1>10, <2>2
  <2>. HIDE DEF S
  <2>3. 0 .. n \subseteq S
    BY <1>1, <2>1, <2>2, IntervalInduction
  <2>. QED  BY <1>3, <1>5, <2>3 DEF S
<1>11. ASSUME \A p \in cols : row.c[p] = Nought, NEW q \in Seqs
       PROVE  r.c[q] = row.c[q]
  <2> DEFINE S == {k \in 0 .. n : st[k].c[q] = row.c[q]}
  <2>1. 0 \in S
    BY <1>1, <1>3
  <2>2. ASSUME NEW k \in 0 .. n - 1, k \in S
        PROVE  k + 1 \in S
    BY <1>4, <1>6, <1>9, <1>11, <2>2
  <2>. HIDE DEF S
  <2>3. 0 .. n \subseteq S
    BY <1>1, <2>1, <2>2, IntervalInduction
  <2>. QED  BY <1>3, <1>5, <2>3 DEF S
<1>12. ASSUME NEW s \in cols, row.c[s] = One, \A p \in cols \ {s} : row.c[p] = Nought,
              NEW q \in Seqs
       PROVE  r.c[q] = Add(row.c[q], table[s].c[q])
  <2>1. PICK m \in 1 .. n : a[m] = s
    BY <1>1
  <2> DEFINE S == {k \in 0 .. n : st[k].c[q] = IF m <= k THEN Add(row.c[q], table[s].c[q])
                                               ELSE row.c[q]}
  <2>2. 0 \in S
    BY <1>1, <1>3
  <2>3. ASSUME NEW k \in 0 .. n - 1, k \in S
        PROVE  k + 1 \in S
    <3>1. /\ k + 1 \in 1 .. n /\ k + 1 \in 0 .. n /\ a[k + 1] \in cols
          /\ st[k].c[q] \in Field /\ table[a[k + 1]].c[q] \in Field
          /\ st[k + 1].c[q] = Add(st[k].c[q], Mul(row.c[a[k + 1]], table[a[k + 1]].c[q]))
          /\ st[k].c[q] = IF m <= k THEN Add(row.c[q], table[s].c[q]) ELSE row.c[q]
      BY <1>6, <1>9, <2>3
    <3>2. CASE m = k + 1
      <4>1. row.c[a[k + 1]] = One /\ a[k + 1] = s
        BY <1>12, <2>1, <3>2
      <4>2. st[k + 1].c[q] = Add(st[k].c[q], table[s].c[q])
        BY <1>4, <3>1, <4>1
      <4>3. st[k].c[q] = row.c[q] /\ m <= k + 1
        BY <1>1, <3>1, <3>2
      <4>. QED  BY <3>1, <4>2, <4>3
    <3>3. CASE m # k + 1
      <4>1. a[k + 1] # s
        BY <1>1, <2>1, <3>1, <3>3
      <4>2. row.c[a[k + 1]] = Nought
        BY <1>12, <3>1, <4>1
      <4>3. st[k + 1].c[q] = st[k].c[q]
        BY <1>4, <3>1, <4>2
      <4>4. m <= k + 1 <=> m <= k
        BY <1>1, <3>3
      <4>. QED  BY <3>1, <4>3, <4>4
    <3>. QED  BY <3>2, <3>3
  <2>. HIDE DEF S
  <2>4. 0 .. n \subseteq S
    BY <1>1, <2>2, <2>3, IntervalInduction
  <2>5. m <= n
    BY <1>1
  <2>. QED  BY <1>3, <1>5, <2>4, <2>5 DEF S
<1>. QED  BY <1>5, <1>8, <1>10, <1>11, <1>12 DEF r
-----------------------------------------------------------------------------
(***************************************************************************)
(* Linear forms.  A form that vanishes on some equations vanishes on all   *)
(* that follow from them; what a set of equations determines is stated by  *)
(* way of the forms that vanish on it.                                     *)
(***************************************************************************)
Forms == {L \in [Vec -> Field] : \A v, w \in Vec, f \in Field :
                                    L[mul_acc(v, f, w)] = Add(L[v], Mul(f, L[w]))}

(* A form of a combination.                                                *)
LEMMA FormOfSum ==
    ASSUME NEW L \in Forms, NEW v \in Vec, NEW w \in Vec, NEW f \in Field
    PROVE  /\ L[v] \in Field /\ L[mul_acc(v, f, w)] = Add(L[v], Mul(f, L[w]))
           /\ L[w] = Nought => L[mul_acc(v, f, w)] = L[v]
           /\ L[Zero] = Nought
<1>1. /\ L \in [Vec -> Field]
      /\ \A x, y \in Vec, g \in Field : L[mul_acc(x, g, y)] = Add(L[x], Mul(g, L[y]))
  BY DEF Forms
<1>2. L[v] \in Field /\ L[w] \in Field /\ Zero \in Vec /\ L[Zero] \in Field /\ One \in Field
  BY <1>1, UnitVector, FieldAssumption
<1>3. L[w] = Nought => Add(L[v], Mul(f, L[w])) = L[v]
  <2>1. Mul(f, Nought) = Nought
    BY Products
  <2>2. Add(L[v], Nought) = L[v]
    BY <1>2, FieldAssumption
  <2>. QED  BY <2>1, <2>2
<1>4. mul_acc(Zero, One, Zero) = Zero
  <2>1. /\ mul_acc(Zero, One, Zero) \in Vec
        /\ \A s \in Seqs : mul_acc(Zero, One, Zero)[s] = Add(Zero[s], Mul(One, Zero[s]))
    BY <1>2, Combination
  <2>2. \A s \in Seqs : Zero[s] = Nought
    BY DEF Zero
  <2>3. Add(Nought, Mul(One, Nought)) = Nought
    BY FieldAssumption, Products
  <2>. QED  BY <1>2, <2>1, <2>2, <2>3 DEF Vec
<1>5. L[Zero] = Nought
  <2>1. L[mul_acc(Zero, One, Zero)] = Add(L[Zero], Mul(One, L[Zero]))
    BY <1>1, <1>2
  <2>2. \A a \in Field : Mul(One, a) = a /\ Add(a, a) = Nought
    BY FieldAssumption
  <2>. QED  BY <1>2, <1>4, <2>1, <2>2
<1>. QED  BY <1>1, <1>2, <1>3, <1>5

(* A form takes the same value without a column it vanishes on.            *)
LEMMA FormSubstitute ==
    ASSUME NEW L \in Forms, NEW row \in SoundRow, NEW s \in Seqs, L[Unit(s)] = Nought
    PROVE  L[substitute(row, s, Unit(s)).c] = L[row.c]
<1> DEFINE r == substitute(row, s, Unit(s))
<1>1. r \in SoundRow
  BY SubstituteSound
<1>2. r.d = mul_acc(row.d, row.c[s], Unit(s))
  BY DEF substitute
<1>. HIDE DEF r
<1>3. r.c = r.d
  BY <1>1, SoundRowIsVector
<1>4. row.d = row.c /\ row.c \in Vec /\ row.c[s] \in Field /\ Unit(s) \in Vec
  BY SoundRowIsVector, UnitVector
<1>5. L[mul_acc(row.c, row.c[s], Unit(s))] = L[row.c]
  BY <1>4, FormOfSum
<1>. QED  BY <1>2, <1>3, <1>4, <1>5 DEF r

(* And with an equation added that it vanishes on.                         *)
LEMMA FormSubScaled ==
    ASSUME NEW L \in Forms, NEW row \in SoundRow, NEW other \in SoundRow, NEW f \in Field,
           L[other.c] = Nought
    PROVE  L[sub_scaled(row, f, other).c] = L[row.c]
<1>1. row.c \in Vec /\ other.c \in Vec
  BY SoundRowIsVector
<1>2. sub_scaled(row, f, other).c = mul_acc(row.c, f, other.c)
  BY DEF sub_scaled
<1>. QED  BY <1>1, <1>2, FormOfSum

(* It vanishes on an equation exactly if it does on a multiple.            *)
LEMMA FormMultiple ==
    ASSUME NEW L \in Forms, NEW w \in Vec, NEW f \in Field, f # Nought
    PROVE  L[mul_acc(Zero, f, w)] = Nought <=> L[w] = Nought
<1>1. Zero \in Vec
  BY UnitVector
<1>2. L[mul_acc(Zero, f, w)] = Add(L[Zero], Mul(f, L[w])) /\ L[Zero] = Nought /\ L[w] \in Field
  BY <1>1, FormOfSum
<1>3. Mul(f, L[w]) \in Field /\ Add(Nought, Mul(f, L[w])) = Mul(f, L[w])
  BY <1>2, FieldAssumption
<1>4. Mul(f, Nought) = Nought /\ (Mul(f, L[w]) = Nought => L[w] = Nought)
  BY <1>2, Products
<1>. QED  BY <1>2, <1>3, <1>4

(* So on a normalized one.                                                 *)
LEMMA FormNormalized ==
    ASSUME NEW L \in Forms, NEW row \in SoundRow, Support(row) # {}
    PROVE  L[normalized(row).c] = Nought <=> L[row.c] = Nought
<1> DEFINE a == row.c[lead(row)]
<1>1. row.c \in Vec /\ a \in Field /\ a # Nought
  BY LeadIsLeast, SoundRowIsVector DEF Support
<1>. HIDE DEF a
<1>2. Inv(a) \in Field /\ Mul(a, Inv(a)) = One
  BY <1>1, FieldAssumption
<1>3. Inv(a) # Nought
  BY <1>1, <1>2, Products, FieldAssumption
<1>4. normalized(row).c = mul_acc(Zero, Inv(a), row.c)
  BY DEF normalized, scale, a
<1>. QED  BY <1>1, <1>2, <1>3, <1>4, FormMultiple

(* And on one of a single column, if it vanishes on that source.           *)
LEMMA FormUnit ==
    ASSUME NEW L \in Forms, NEW row \in SoundRow, NEW t \in Seqs, Support(row) = {t}
    PROVE  L[row.c] = Nought <=> L[Unit(t)] = Nought
<1> DEFINE a == row.c[t]
           v == mul_acc(Zero, a, Unit(t))
<1>1. row.c \in Vec /\ a \in Field /\ a # Nought /\ Unit(t) \in Vec /\ Zero \in Vec
  BY SoundRowIsVector, UnitVector DEF Support
<1>2. v \in Vec /\ \A s \in Seqs : v[s] = Add(Zero[s], Mul(a, Unit(t)[s]))
  BY <1>1, Combination
<1>3. ASSUME NEW s \in Seqs
      PROVE  v[s] = row.c[s]
  <2>1. Zero[s] = Nought /\ Mul(a, Nought) = Nought /\ Mul(a, One) = a /\ Add(Nought, a) = a
        /\ Add(Nought, Nought) = Nought
    BY <1>1, Products, FieldAssumption DEF Zero
  <2>2. CASE s = t
    BY <1>2, <2>1, <2>2, UnitVector DEF a
  <2>3. CASE s # t
    <3>1. row.c[s] = Nought /\ Unit(t)[s] = Nought
      BY <2>3, UnitVector DEF Support
    <3>. QED  BY <1>2, <2>1, <3>1
  <2>. QED  BY <2>2, <2>3
<1>. HIDE DEF v, a
<1>4. v = row.c
  BY <1>1, <1>2, <1>3 DEF Vec
<1>. QED  BY <1>1, <1>4, FormMultiple DEF v

(* A form takes the same value when the columns are eliminated.            *)
LEMMA FormEliminated ==
    ASSUME NEW L \in Forms, NEW row \in SoundRow, NEW known, DOMAIN known \in SUBSET Seqs,
           \A s \in DOMAIN known : known[s] = Unit(s) /\ L[Unit(s)] = Nought
    PROVE  L[eliminate_known(row, known).c] = L[row.c]
<1> DEFINE cols == DOMAIN known
           n == Cardinality(cols)
           a == Ascending(cols)
<1>1. n \in Nat /\ a \in [1 .. n -> cols] /\ cols \in SUBSET Seqs
  BY Columns
<1>2. PICK st \in [0 .. n -> SoundRow] :
         /\ st[0] = row
         /\ \A k \in 1 .. n : st[k] = substitute(st[k - 1], a[k], Unit(a[k]))
         /\ eliminate_known(row, known) = st[n]
  BY EliminateSteps
<1>3. \A s \in cols : L[Unit(s)] = Nought
  OBVIOUS
<1>. HIDE DEF cols, n, a
<1> DEFINE S == {k \in 0 .. n : L[st[k].c] = L[row.c]}
<1>4. 0 \in S
  BY <1>1, <1>2
<1>5. ASSUME NEW k \in 0 .. n - 1, k \in S
      PROVE  k + 1 \in S
  <2>1. k + 1 \in 1 .. n /\ k + 1 \in 0 .. n /\ (k + 1) - 1 = k /\ k \in 0 .. n
    BY <1>1
  <2>2. st[k + 1] = substitute(st[k], a[k + 1], Unit(a[k + 1])) /\ st[k] \in SoundRow
    BY <1>2, <2>1
  <2>3. a[k + 1] \in Seqs /\ L[Unit(a[k + 1])] = Nought
    BY <1>1, <1>3, <2>1
  <2>4. L[st[k + 1].c] = L[st[k].c]
    BY <2>2, <2>3, FormSubstitute
  <2>. QED  BY <1>5, <2>1, <2>4
<1>. HIDE DEF S
<1>6. n \in S
  <2>1. 0 .. n \subseteq S
    BY <1>1, <1>4, <1>5, IntervalInduction
  <2>. QED  BY <1>1, <2>1
<1>. QED  BY <1>2, <1>6 DEF S

(* And when an equation is reduced by rows it vanishes on.                 *)
LEMMA FormReduced ==
    ASSUME NEW L \in Forms, NEW row \in SoundRow, NEW table, NEW cols \in SUBSET Seqs,
           \A p \in cols : table[p] \in SoundRow /\ L[table[p].c] = Nought
    PROVE  /\ reduce(row, table, cols) \in SoundRow
           /\ L[reduce(row, table, cols).c] = L[row.c]
<1> DEFINE n == Cardinality(cols)
           a == Ascending(cols)
<1>1. n \in Nat /\ a \in [1 .. n -> cols]
  BY Columns
<1>2. PICK st : ReductionOf(st, row, table, cols)
  BY ReduceSteps
<1>3. /\ st \in [0 .. n -> SoundRow] /\ st[0] = row
      /\ \A k \in 1 .. n : st[k] = sub_scaled(st[k - 1], st[k - 1].c[a[k]], table[a[k]])
      /\ reduce(row, table, cols) = st[n]
  BY <1>2 DEF ReductionOf
<1>. HIDE DEF n, a
<1> DEFINE S == {k \in 0 .. n : L[st[k].c] = L[row.c]}
<1>4. 0 \in S
  BY <1>1, <1>3
<1>5. ASSUME NEW k \in 0 .. n - 1, k \in S
      PROVE  k + 1 \in S
  <2>1. k + 1 \in 1 .. n /\ k + 1 \in 0 .. n /\ (k + 1) - 1 = k /\ k \in 0 .. n
    BY <1>1
  <2>2. st[k + 1] = sub_scaled(st[k], st[k].c[a[k + 1]], table[a[k + 1]]) /\ st[k] \in SoundRow
    BY <1>3, <2>1
  <2>3. a[k + 1] \in cols /\ a[k + 1] \in Seqs
    BY <1>1, <2>1
  <2>4. table[a[k + 1]] \in SoundRow /\ L[table[a[k + 1]].c] = Nought /\ st[k].c[a[k + 1]] \in Field
    BY <2>2, <2>3, SoundRowIsVector
  <2>5. L[st[k + 1].c] = L[st[k].c]
    BY <2>2, <2>4, FormSubScaled
  <2>. QED  BY <1>5, <2>1, <2>5
<1>. HIDE DEF S
<1>6. n \in S
  <2>1. 0 .. n \subseteq S
    BY <1>1, <1>4, <1>5, IntervalInduction
  <2>. QED  BY <1>1, <2>1
<1>. QED  BY <1>3, <1>6 DEF S

(* The sum of a form and a multiple of another.                            *)
LEMMA SumOfForms ==
    ASSUME NEW L \in Forms, NEW M \in Forms, NEW e \in Field
    PROVE  \E K \in Forms : \A v \in Vec : K[v] = Add(L[v], Mul(M[v], e))
<1> DEFINE K == [v \in Vec |-> Add(L[v], Mul(M[v], e))]
<1>1. \A v \in Vec : L[v] \in Field /\ M[v] \in Field
  BY DEF Forms
<1>2. K \in [Vec -> Field]
  BY <1>1, FieldAssumption
<1>3. ASSUME NEW v \in Vec, NEW w \in Vec, NEW f \in Field
      PROVE  K[mul_acc(v, f, w)] = Add(K[v], Mul(f, K[w]))
  <2> DEFINE x == mul_acc(v, f, w)
             a == L[v]
             b == L[w]
             c == M[v]
             d == M[w]
  <2>1. x \in Vec /\ L[x] = Add(a, Mul(f, b)) /\ M[x] = Add(c, Mul(f, d))
    BY Combination, FormOfSum
  <2>2. a \in Field /\ b \in Field /\ c \in Field /\ d \in Field
    BY <1>1
  <2>3. K[v] = Add(a, Mul(c, e)) /\ K[w] = Add(b, Mul(d, e))
    OBVIOUS
  <2>4. K[x] = Add(L[x], Mul(M[x], e))
    BY <2>1
  <2>. HIDE DEF K, x, a, b, c, d
  <2>5. K[x] = Add(Add(a, Mul(f, b)), Mul(Add(c, Mul(f, d)), e))
    BY <2>1, <2>4
  <2>6. Mul(Add(c, Mul(f, d)), e) = Add(Mul(c, e), Mul(f, Mul(d, e)))
    <3>1. Mul(f, d) \in Field /\ Add(c, Mul(f, d)) \in Field
      BY <2>2, FieldAssumption
    <3>2. Mul(Add(c, Mul(f, d)), e) = Add(Mul(e, c), Mul(e, Mul(f, d)))
      BY <2>2, <3>1, FieldAssumption
    <3>3. Mul(e, c) = Mul(c, e)
      BY <2>2, FieldAssumption
    <3>4. Mul(e, Mul(f, d)) = Mul(Mul(f, d), e)
      BY <3>1, FieldAssumption
    <3>5. Mul(Mul(f, d), e) = Mul(f, Mul(d, e))
      BY <2>2, FieldAssumption
    <3>. QED  BY <3>2, <3>3, <3>4, <3>5
  <2>7. Mul(f, Add(b, Mul(d, e))) = Add(Mul(f, b), Mul(f, Mul(d, e)))
    <3>1. Mul(d, e) \in Field
      BY <2>2, FieldAssumption
    <3>. QED  BY <2>2, <3>1, FieldAssumption
  <2>8. \A p, q, r, t \in Field : Add(Add(p, q), Add(r, t)) = Add(Add(p, r), Add(q, t))
    <3> SUFFICES ASSUME NEW p \in Field, NEW q \in Field, NEW r \in Field, NEW t \in Field
                 PROVE  Add(Add(p, q), Add(r, t)) = Add(Add(p, r), Add(q, t))
      OBVIOUS
    <3>1. Add(r, t) \in Field /\ Add(q, t) \in Field
      BY FieldAssumption
    <3>2. Add(Add(p, q), Add(r, t)) = Add(p, Add(q, Add(r, t)))
      BY <3>1, FieldAssumption
    <3>3. Add(q, Add(r, t)) = Add(r, Add(q, t))
      <4>1. Add(q, Add(r, t)) = Add(Add(q, r), t)
        BY FieldAssumption
      <4>2. Add(q, r) = Add(r, q)
        BY FieldAssumption
      <4>3. Add(Add(r, q), t) = Add(r, Add(q, t))
        BY FieldAssumption
      <4>. QED  BY <4>1, <4>2, <4>3
    <3>4. Add(p, Add(r, Add(q, t))) = Add(Add(p, r), Add(q, t))
      BY <3>1, FieldAssumption
    <3>. QED  BY <3>2, <3>3, <3>4
  <2>9. Mul(f, b) \in Field /\ Mul(c, e) \in Field /\ Mul(f, Mul(d, e)) \in Field
    BY <2>2, FieldAssumption
  <2>10. K[x] = Add(Add(a, Mul(c, e)), Add(Mul(f, b), Mul(f, Mul(d, e))))
    BY <2>2, <2>5, <2>6, <2>8, <2>9
  <2>. QED  BY <2>3, <2>7, <2>10 DEF x
<1>4. \A v \in Vec : K[v] = Add(L[v], Mul(M[v], e))
  OBVIOUS
<1>5. K \in Forms
  <2>. HIDE DEF K
  <2>. QED  BY <1>2, <1>3 DEF Forms
<1>. HIDE DEF K
<1>. QED  BY <1>4, <1>5

(* A column is a form.                                                     *)
LEMMA ColumnForm ==
    ASSUME NEW k \in Seqs
    PROVE  \E K \in Forms : \A v \in Vec : K[v] = v[k]
<1> DEFINE K == [v \in Vec |-> v[k]]
<1>1. K \in [Vec -> Field]
  BY DEF Vec
<1>2. \A v, w \in Vec, f \in Field : K[mul_acc(v, f, w)] = Add(K[v], Mul(f, K[w]))
  <2>. SUFFICES ASSUME NEW v \in Vec, NEW w \in Vec, NEW f \in Field
                PROVE  K[mul_acc(v, f, w)] = Add(K[v], Mul(f, K[w]))
    OBVIOUS
  <2>1. mul_acc(v, f, w) \in Vec /\ mul_acc(v, f, w)[k] = Add(v[k], Mul(f, w[k]))
    BY Combination
  <2>. QED  BY <2>1
<1>3. \A v \in Vec : K[v] = v[k]
  OBVIOUS
<1>. HIDE DEF K
<1>4. K \in Forms
  BY <1>1, <1>2 DEF Forms
<1>. QED  BY <1>3, <1>4

(* The form of the first k columns of z.                                   *)
FormOf(L, z, k) ==
    /\ L \in Forms
    /\ \A s \in Seqs : L[Unit(s)] = IF s < k THEN z[s] ELSE Nought
    /\ \A v \in Vec : (\A s \in Seqs : v[s] = Nought \/ z[s] = Nought) => L[v] = Nought

(***************************************************************************)
(* There is a form with given values at the sources, which vanishes on     *)
(* what has no column in common with them.                                 *)
(***************************************************************************)
LEMMA FormExists ==
    ASSUME NEW z \in Vec
    PROVE  \E L \in Forms : /\ \A s \in Seqs : L[Unit(s)] = z[s]
                            /\ \A v \in Vec : (\A s \in Seqs : v[s] = Nought \/ z[s] = Nought)
                                                 => L[v] = Nought
<1> DEFINE S == {k \in 0 .. N : \E L : FormOf(L, z, k)}
<1>1. N \in Nat /\ \A k \in 0 .. N : k \in Int
  BY SizeAssumption
<1>2. 0 \in S
  <2> DEFINE L == [v \in Vec |-> Nought]
  <2>1. L \in [Vec -> Field]
    BY FieldAssumption
  <2>2. ASSUME NEW v \in Vec, NEW w \in Vec, NEW f \in Field
        PROVE  L[mul_acc(v, f, w)] = Add(L[v], Mul(f, L[w]))
    <3>1. mul_acc(v, f, w) \in Vec
      BY Combination
    <3>2. Add(Nought, Mul(f, Nought)) = Nought
      BY Products, FieldAssumption
    <3>. QED  BY <3>1, <3>2
  <2>3. \A s \in Seqs : Unit(s) \in Vec /\ s >= 0
    BY UnitVector DEF Seqs
  <2>4. FormOf(L, z, 0)
    <3>1. \A v \in Vec : L[v] = Nought
      OBVIOUS
    <3>2. L \in Forms
      BY <2>1, <2>2 DEF Forms
    <3>. HIDE DEF L
    <3>3. \A s \in Seqs : ~(s < 0)
      BY DEF Seqs
    <3>. QED  BY <2>3, <3>1, <3>2, <3>3 DEF FormOf
  <2>. HIDE DEF L
  <2>. QED  BY <1>1, <2>4
<1>3. ASSUME NEW k \in 0 .. N - 1, k \in S
      PROVE  k + 1 \in S
  <2>1. k \in Seqs /\ k + 1 \in 0 .. N /\ k \in Int
    BY <1>1 DEF Seqs
  <2>2. PICK L : FormOf(L, z, k)
    BY <1>3
  <2>3. /\ L \in Forms /\ L \in [Vec -> Field]
        /\ \A s \in Seqs : L[Unit(s)] = IF s < k THEN z[s] ELSE Nought
        /\ \A v \in Vec : (\A s \in Seqs : v[s] = Nought \/ z[s] = Nought) => L[v] = Nought
    BY <2>2 DEF FormOf, Forms
  <2>4. z[k] \in Field
    BY <2>1 DEF Vec
  <2>5. \A v \in Vec : v[k] \in Field /\ L[v] \in Field
    BY <2>1, <2>3 DEF Vec
  <2>6. PICK K \in Forms : \A v \in Vec : K[v] = v[k]
    BY <2>1, ColumnForm
  <2>7. PICK M \in Forms : \A v \in Vec : M[v] = Add(L[v], Mul(K[v], z[k]))
    BY <2>3, <2>4, SumOfForms
  <2>8. \A v \in Vec : M[v] = Add(L[v], Mul(v[k], z[k]))
    BY <2>6, <2>7
  <2>9. M \in Forms
    OBVIOUS
  <2>10. ASSUME NEW s \in Seqs
         PROVE  M[Unit(s)] = IF s < k + 1 THEN z[s] ELSE Nought
    <3>1. Unit(s) \in Vec /\ Unit(s)[s] = One /\ \A q \in Seqs \ {s} : Unit(s)[q] = Nought
      BY UnitVector
    <3>2. M[Unit(s)] = Add(L[Unit(s)], Mul(Unit(s)[k], z[k]))
      BY <2>8, <3>1
    <3>3. s \in Int /\ z[s] \in Field
      BY DEF Seqs, Vec
    <3>4. Mul(One, z[k]) = z[k] /\ Mul(Nought, z[k]) = Nought
      BY <2>4, Products, FieldAssumption
    <3>5. \A q \in Field : Add(Nought, q) = q /\ Add(q, Nought) = q
      BY FieldAssumption
    <3>6. CASE s = k
      <4>1. L[Unit(s)] = Nought
        BY <2>1, <2>3, <3>6
      <4>. QED  BY <2>1, <2>4, <3>1, <3>2, <3>4, <3>5, <3>6, <4>1
    <3>7. CASE s # k
      <4>1. Unit(s)[k] = Nought
        BY <2>1, <3>1, <3>7
      <4>2. s < k + 1 <=> s < k
        BY <2>1, <3>3, <3>7
      <4>3. L[Unit(s)] = IF s < k + 1 THEN z[s] ELSE Nought
        BY <2>3, <4>2
      <4>4. L[Unit(s)] \in Field
        BY <2>5, <3>1
      <4>. QED  BY <3>2, <3>4, <3>5, <4>1, <4>3, <4>4
    <3>. QED  BY <3>6, <3>7
  <2>11. ASSUME NEW v \in Vec, \A s \in Seqs : v[s] = Nought \/ z[s] = Nought
         PROVE  M[v] = Nought
    <3>1. L[v] = Nought
      BY <2>3, <2>11
    <3>2. Mul(v[k], z[k]) = Nought
      BY <2>1, <2>4, <2>5, <2>11, Products
    <3>. QED  BY <2>8, <3>1, <3>2, FieldAssumption
  <2>12. FormOf(M, z, k + 1)
    BY <2>9, <2>10, <2>11 DEF FormOf
  <2>. QED  BY <2>1, <2>12
<1>. HIDE DEF S
<1>4. N \in S
  <2>1. 0 .. N \subseteq S /\ N \in 0 .. N
    BY <1>1, <1>2, <1>3, IntervalInduction
  <2>. QED  BY <2>1
<1>5. PICK L : FormOf(L, z, N)
  BY <1>4 DEF S
<1>6. \A s \in Seqs : s < N
  BY <1>1 DEF Seqs
<1>. QED  BY <1>5, <1>6 DEF FormOf

(* A row is its pivot, a column q, and a rest without either.              *)
LEMMA RowSplits ==
    ASSUME NEW v \in Vec, NEW p \in Seqs, NEW q \in Seqs, p # q, v[p] = One
    PROVE  \E w \in Vec : /\ w[p] = Nought /\ w[q] = Nought
                          /\ \A s \in Seqs \ {p, q} : w[s] = v[s]
                          /\ v = mul_acc(mul_acc(w, One, Unit(p)), v[q], Unit(q))
<1> DEFINE w == [s \in Seqs |-> IF s \in {p, q} THEN Nought ELSE v[s]]
           x == mul_acc(w, One, Unit(p))
           y == mul_acc(x, v[q], Unit(q))
<1>1. /\ w \in Vec /\ w[p] = Nought /\ w[q] = Nought
      /\ \A s \in Seqs \ {p, q} : w[s] = v[s]
      /\ v[q] \in Field /\ One \in Field /\ Nought \in Field
      /\ \A s \in Seqs : v[s] \in Field
  BY FieldAssumption DEF Vec
<1>2. /\ Unit(p) \in Vec /\ Unit(p)[p] = One /\ \A s \in Seqs \ {p} : Unit(p)[s] = Nought
      /\ Unit(q) \in Vec /\ Unit(q)[q] = One /\ \A s \in Seqs \ {q} : Unit(q)[s] = Nought
  BY UnitVector
<1>. HIDE DEF w
<1>3. x \in Vec /\ \A s \in Seqs : x[s] = Add(w[s], Mul(One, Unit(p)[s]))
  <2>1. w \in Vec /\ Unit(p) \in Vec /\ One \in Field
    BY <1>1, <1>2
  <2>. QED  BY <2>1, Combination, Zenon
<1>. HIDE DEF x
<1>4. y \in Vec /\ \A s \in Seqs : y[s] = Add(x[s], Mul(v[q], Unit(q)[s]))
  <2>1. x \in Vec /\ Unit(q) \in Vec /\ v[q] \in Field
    BY <1>1, <1>2, <1>3
  <2>. QED  BY <2>1, Combination, Zenon
<1>. HIDE DEF y
<1>5. \A a \in Field : /\ Mul(a, Nought) = Nought /\ Mul(a, One) = a
                       /\ Add(a, Nought) = a /\ Add(Nought, a) = a
  BY <1>1, Products, FieldAssumption
<1>6. \A s \in Seqs : y[s] = v[s]
  <2>1. y[p] = One
    <3>1. x[p] = Add(Nought, Mul(One, One))
      BY <1>1, <1>2, <1>3
    <3>2. y[p] = Add(x[p], Mul(v[q], Nought))
      BY <1>2, <1>4
    <3>. QED  BY <1>1, <1>5, <3>1, <3>2
  <2>2. y[q] = v[q]
    <3>1. x[q] = Add(Nought, Mul(One, Nought))
      BY <1>1, <1>2, <1>3
    <3>2. y[q] = Add(x[q], Mul(v[q], One))
      BY <1>2, <1>4
    <3>. QED  BY <1>1, <1>5, <3>1, <3>2
  <2>3. ASSUME NEW s \in Seqs, s # p, s # q
        PROVE  y[s] = v[s]
    <3>1. x[s] = Add(v[s], Mul(One, Nought))
      BY <1>1, <1>2, <1>3, <2>3
    <3>2. y[s] = Add(x[s], Mul(v[q], Nought))
      BY <1>2, <1>4, <2>3
    <3>. QED  BY <1>1, <1>5, <3>1, <3>2
  <2>. QED  BY <2>1, <2>2, <2>3
<1>7. y = v
  BY <1>4, <1>6 DEF Vec
<1>. QED  BY <1>1, <1>7 DEF x, y

(* Such a row vanishes under a form that takes it apart so.                *)
LEMMA FormVanishes ==
    ASSUME NEW v \in Vec, NEW p \in Seqs, NEW q \in Seqs, p # q, v[p] = One,
           NEW L \in Forms, L[Unit(p)] = v[q], L[Unit(q)] = One,
           \A w \in Vec : w[p] = Nought /\ w[q] = Nought
                             /\ (\A s \in Seqs \ {p, q} : w[s] = v[s]) => L[w] = Nought
    PROVE  L[v] = Nought
<1>1. PICK w \in Vec : /\ w[p] = Nought /\ w[q] = Nought
                       /\ \A s \in Seqs \ {p, q} : w[s] = v[s]
                       /\ v = mul_acc(mul_acc(w, One, Unit(p)), v[q], Unit(q))
  BY RowSplits
<1>2. /\ L[w] = Nought /\ v[q] \in Field /\ One \in Field /\ Nought \in Field
      /\ Unit(p) \in Vec /\ Unit(q) \in Vec
  BY <1>1, UnitVector, FieldAssumption DEF Vec
<1> DEFINE x == mul_acc(w, One, Unit(p))
<1>3. x \in Vec /\ L[x] = Add(L[w], Mul(One, L[Unit(p)]))
  <2>1. w \in Vec /\ Unit(p) \in Vec /\ One \in Field
    BY <1>2
  <2>2. x \in Vec
    BY <2>1, Combination, Zenon
  <2>3. L[x] = Add(L[w], Mul(One, L[Unit(p)]))
    BY <2>1, FormOfSum
  <2>. QED  BY <2>2, <2>3
<1>. HIDE DEF x
<1>4. L[v] = Add(L[x], Mul(v[q], L[Unit(q)]))
  <2>1. L[mul_acc(x, v[q], Unit(q))] = Add(L[x], Mul(v[q], L[Unit(q)]))
    BY <1>2, <1>3, FormOfSum
  <2>. QED  BY <1>1, <2>1 DEF x
<1>5. L[x] = v[q]
  <2>1. Mul(One, v[q]) = v[q] /\ Add(Nought, v[q]) = v[q]
    BY <1>2, FieldAssumption
  <2>. QED  BY <1>2, <1>3, <2>1
<1>6. Add(v[q], Mul(v[q], One)) = Nought
  BY <1>2, FieldAssumption
<1>. QED  BY <1>4, <1>5, <1>6

-----------------------------------------------------------------------------
(***************************************************************************)
(* What follows from equations.                                            *)
(***************************************************************************)
Vanishes(L, G) == \A g \in G : L[g] = Nought

(* What follows from the equations G.                                      *)
Entailed(G) == {w \in Vec : \A L \in Forms : Vanishes(L, G) => L[w] = Nought}

(* From none only the trivial equation follows.                            *)
LEMMA NothingEntailed == Entailed({}) = {Zero}
<1>1. Zero \in Vec
  BY UnitVector
<1>2. \A L \in Forms : L[Zero] = Nought
  BY <1>1, FormOfSum, FieldAssumption
<1>3. ASSUME NEW w \in Entailed({})
      PROVE  w = Zero
  <2>1. w \in Vec /\ \A L \in Forms : L[w] = Nought
    BY <1>3 DEF Entailed, Vanishes
  <2>2. \A s \in Seqs : w[s] = Nought
    BY <2>1, ColumnForm
  <2>. QED  BY <2>1, <2>2 DEF Vec, Zero
<1>. QED  BY <1>1, <1>2, <1>3 DEF Entailed

(* An equation that a form tells from others is told by one that takes it  *)
(* to one.                                                                 *)
LEMMA FormScaled ==
    ASSUME NEW G \in SUBSET Vec, NEW v \in Vec, v \notin Entailed(G)
    PROVE  \E M \in Forms : Vanishes(M, G) /\ M[v] = One
<1>1. PICK L \in Forms : Vanishes(L, G) /\ L[v] # Nought
  BY DEF Entailed
<1> DEFINE b == Inv(L[v])
<1>2. L[v] \in Field /\ b \in Field /\ Mul(L[v], b) = One
  BY <1>1, FormOfSum, FieldAssumption
<1>. HIDE DEF b
<1>3. Add(b, One) \in Field /\ \A a \in Field : Mul(a, Nought) = Nought /\ Mul(Nought, a) = Nought
  BY <1>2, FieldAssumption, Products
<1>4. PICK M \in Forms : \A x \in Vec : M[x] = Add(L[x], Mul(L[x], Add(b, One)))
  BY <1>1, <1>3, SumOfForms
<1>5. M[v] = One
  <2>1. \A a \in Field : Add(a, Mul(a, Add(b, One))) = Mul(a, b)
    <3>. SUFFICES ASSUME NEW a \in Field
                  PROVE  Add(a, Mul(a, Add(b, One))) = Mul(a, b)
      OBVIOUS
    <3>1. Mul(a, b) \in Field /\ One \in Field /\ Mul(a, One) = a
      BY <1>2, FieldAssumption
    <3>2. Mul(a, Add(b, One)) = Add(Mul(a, b), a)
      BY <1>2, <3>1, FieldAssumption
    <3>3. Add(a, Add(Mul(a, b), a)) = Add(Add(Mul(a, b), a), a)
      <4>1. Add(Mul(a, b), a) \in Field
        BY <3>1, FieldAssumption
      <4>. QED  BY <4>1, FieldAssumption
    <3>4. Add(Add(Mul(a, b), a), a) = Add(Mul(a, b), Add(a, a))
      BY <3>1, FieldAssumption
    <3>5. Add(a, a) = Nought /\ Add(Mul(a, b), Nought) = Mul(a, b)
      BY <3>1, FieldAssumption
    <3>. QED  BY <3>2, <3>3, <3>4, <3>5
  <2>. QED  BY <1>2, <1>4, <2>1
<1>6. Vanishes(M, G)
  <2>1. Add(Nought, Nought) = Nought
    BY FieldAssumption
  <2>. QED  BY <1>1, <1>3, <1>4, <2>1 DEF Vanishes
<1>. QED  BY <1>5, <1>6

(* The combinations of what is known with one equation more.               *)
Combined(known, g) == {mul_acc(v, f, g) : v \in known, f \in Field}

(* What follows with one equation more are the combinations with it.       *)
LEMMA OneMore ==
    ASSUME NEW G \in SUBSET Vec, NEW v \in Vec
    PROVE  Combined(Entailed(G), v) = Entailed(G \cup {v})
<1>1. ASSUME NEW u \in Entailed(G), NEW f \in Field
      PROVE  mul_acc(u, f, v) \in Entailed(G \cup {v})
  <2>1. u \in Vec /\ mul_acc(u, f, v) \in Vec
    BY <1>1, Combination DEF Entailed
  <2>2. ASSUME NEW L \in Forms, Vanishes(L, G \cup {v})
        PROVE  L[mul_acc(u, f, v)] = Nought
    <3>1. L[v] = Nought /\ Vanishes(L, G)
      BY <2>2 DEF Vanishes
    <3>2. L[u] = Nought
      BY <1>1, <3>1 DEF Entailed
    <3>. QED  BY <2>1, <3>1, <3>2, FormOfSum
  <2>. QED  BY <2>1, <2>2 DEF Entailed
<1>2. ASSUME NEW w \in Entailed(G \cup {v}), v \in Entailed(G)
      PROVE  w \in Entailed(G)
  <2>1. \A L \in Forms : Vanishes(L, G) => Vanishes(L, G \cup {v})
    BY <1>2 DEF Entailed, Vanishes
  <2>. QED  BY <2>1 DEF Entailed
<1>3. ASSUME NEW w \in Entailed(G \cup {v})
      PROVE  \E u \in Entailed(G), f \in Field : w = mul_acc(u, f, v)
  <2>1. w \in Vec /\ Nought \in Field
    BY FieldAssumption DEF Entailed
  <2>2. \A a, b \in Field : /\ Add(a, Mul(Nought, b)) = a
                            /\ Add(Add(a, Mul(b, Nought)), Nought) = a
    BY Products, FieldAssumption
  <2>3. \A a, b \in Field : Add(Add(a, b), b) = a
    <3>1. \A a, b \in Field : Add(Add(a, b), b) = Add(a, Add(b, b))
      BY FieldAssumption
    <3>. QED  BY <3>1, FieldAssumption
  <2>4. CASE v \in Entailed(G)
    <3>1. w \in Entailed(G)
      BY <1>2, <1>3, <2>4
    <3>2. mul_acc(w, Nought, v) \in Vec
          /\ \A s \in Seqs : mul_acc(w, Nought, v)[s] = Add(w[s], Mul(Nought, v[s]))
      BY <2>1, Combination
    <3>3. \A s \in Seqs : w[s] \in Field /\ v[s] \in Field
      BY <2>1 DEF Vec
    <3>4. \A s \in Seqs : mul_acc(w, Nought, v)[s] = w[s]
      BY <2>2, <3>2, <3>3
    <3>5. mul_acc(w, Nought, v) = w
      BY <2>1, <3>2, <3>4 DEF Vec
    <3>. QED  BY <2>1, <3>1, <3>5
  <2>5. CASE v \notin Entailed(G)
    <3>1. PICK M \in Forms : Vanishes(M, G) /\ M[v] = One
      BY <2>5, FormScaled
    <3> DEFINE f == M[w]
               u == mul_acc(w, f, v)
    <3>2. f \in Field /\ u \in Vec /\ \A s \in Seqs : u[s] = Add(w[s], Mul(f, v[s]))
      <4>1. f \in Field
        BY <2>1, FormOfSum
      <4>. QED  BY <2>1, <4>1, Combination
    <3>. HIDE DEF u, f
    <3>3. ASSUME NEW L \in Forms, Vanishes(L, G)
          PROVE  L[u] = Nought
      <4>1. L[u] = Add(L[w], Mul(f, L[v])) /\ L[w] \in Field /\ L[v] \in Field
        BY <2>1, <3>2, FormOfSum DEF u
      <4>2. PICK K \in Forms : \A x \in Vec : K[x] = Add(L[x], Mul(M[x], L[v]))
        BY <3>1, <4>1, SumOfForms
      <4>3. Vanishes(K, G)
        <5>1. Add(Nought, Mul(Nought, L[v])) = Nought
          BY <2>1, <2>2, <4>1
        <5>. QED  BY <3>1, <3>3, <4>2, <5>1 DEF Vanishes
      <4>4. K[v] = Nought
        <5>1. Mul(One, L[v]) = L[v] /\ Add(L[v], L[v]) = Nought
          BY <4>1, FieldAssumption
        <5>. QED  BY <3>1, <4>2, <5>1
      <4>5. K[w] = Nought
        <5>1. Vanishes(K, G \cup {v})
          BY <4>3, <4>4 DEF Vanishes
        <5>. QED  BY <1>3, <5>1 DEF Entailed
      <4>. QED  BY <2>1, <4>1, <4>2, <4>5 DEF f
    <3>4. u \in Entailed(G)
      BY <3>2, <3>3 DEF Entailed
    <3>5. mul_acc(u, f, v) \in Vec
          /\ \A s \in Seqs : mul_acc(u, f, v)[s] = Add(Add(w[s], Mul(f, v[s])), Mul(f, v[s]))
      BY <3>2, Combination
    <3>6. \A s \in Seqs : w[s] \in Field /\ v[s] \in Field /\ Mul(f, v[s]) \in Field
      <4>1. \A s \in Seqs : w[s] \in Field /\ v[s] \in Field
        BY <2>1 DEF Vec
      <4>. QED  BY <3>2, <4>1, FieldAssumption
    <3>7. \A s \in Seqs : mul_acc(u, f, v)[s] = w[s]
      BY <2>3, <3>5, <3>6
    <3>8. mul_acc(u, f, v) = w
      BY <2>1, <3>5, <3>7 DEF Vec
    <3>. QED  BY <3>2, <3>4, <3>8
  <2>. QED  BY <2>4, <2>5
<1>4. Combined(Entailed(G), v) \subseteq Entailed(G \cup {v})
  BY <1>1 DEF Combined
<1>5. Entailed(G \cup {v}) \subseteq Combined(Entailed(G), v)
  BY <1>3 DEF Combined
<1>. QED  BY <1>4, <1>5

Some(G) == CHOOSE g \in G : TRUE

(* The combinations of finitely many equations, gathered one by one, are   *)
(* all that follow from them.                                              *)
LEMMA SpanIsEntailed ==
    ASSUME NEW G \in SUBSET Vec, IsFiniteSet(G)
    PROVE  Span(G) = Entailed(G)
<1> DEFINE By(h) == h = [s \in SUBSET G |-> IF s = {} THEN {Zero}
                                            ELSE Combined(h[s \ {Some(s)}], Some(s))]
           iter == CHOOSE h : By(h)
<1>1. Span(G) = iter[G]
  BY DEF Span, FoldSet, MapThenFoldSet, Some, Combined
<1>2. \A s \in SUBSET G : s # {} => Some(s) \in s /\ s \ {Some(s)} \in SUBSET G
  BY DEF Some
<1>3. \A s \in SUBSET G : s # {} =>
         Combined(Entailed(s \ {Some(s)}), Some(s)) = Entailed(s)
  <2>. SUFFICES ASSUME NEW s \in SUBSET G, s # {}
                PROVE  Combined(Entailed(s \ {Some(s)}), Some(s)) = Entailed(s)
    OBVIOUS
  <2>1. s \ {Some(s)} \in SUBSET Vec /\ Some(s) \in Vec /\ (s \ {Some(s)}) \cup {Some(s)} = s
    BY <1>2
  <2> DEFINE r == s \ {Some(s)}
             g == Some(s)
  <2>2. Combined(Entailed(r), g) = Entailed(r \cup {g})
    BY <2>1, OneMore
  <2>. HIDE DEF r, g
  <2>3. Combined(Entailed(r), g) = Entailed(s)
    BY <2>1, <2>2 DEF r, g
  <2>. QED  BY <2>3 DEF r, g
<1>4. By([s \in SUBSET G |-> Entailed(s)])
  <2>. QED  BY <1>2, <1>3, NothingEntailed
<1>5. By(iter)
  <2>. HIDE DEF By
  <2>. QED  BY <1>4
<1>. HIDE DEF iter
<1>6. \A s \in SUBSET G : iter[s] = IF s = {} THEN {Zero} ELSE Combined(iter[s \ {Some(s)}], Some(s))
  <2>. QED  BY <1>5
<1>7. /\ Cardinality(G) \in Nat
      /\ \A s \in SUBSET G : IsFiniteSet(s) /\ Cardinality(s) \in 0 .. Cardinality(G)
  BY FS_Subset, FS_CardinalityType
<1> DEFINE S == {k \in 0 .. Cardinality(G) :
                    \A s \in SUBSET G : Cardinality(s) <= k => iter[s] = Entailed(s)}
<1>8. 0 \in S
  <2>1. \A s \in SUBSET G : Cardinality(s) <= 0 => s = {}
    BY <1>7, FS_EmptySet
  <2>2. iter[{}] = Entailed({})
    <3>. QED  BY <1>6, NothingEntailed
  <2>3. 0 \in 0 .. Cardinality(G)
    BY <1>7
  <2>. QED  BY <2>1, <2>2, <2>3
<1>9. ASSUME NEW k \in 0 .. Cardinality(G) - 1, k \in S
      PROVE  k + 1 \in S
  <2>1. ASSUME NEW s \in SUBSET G, Cardinality(s) <= k + 1, s # {}
        PROVE  iter[s] = Entailed(s)
    <3> DEFINE r == s \ {Some(s)}
    <3>1. Some(s) \in s /\ r \in SUBSET G
      BY <1>2, <2>1
    <3>2. Cardinality(r) = Cardinality(s) - 1
      BY <1>7, <3>1, FS_RemoveElement
    <3>3. Cardinality(r) <= k
      BY <1>7, <2>1, <3>1, <3>2
    <3>4. iter[r] = Entailed(r)
      BY <1>9, <3>1, <3>3
    <3>. QED  BY <1>3, <1>6, <2>1, <3>4
  <2>2. iter[{}] = Entailed({})
    <3>. QED  BY <1>6, NothingEntailed
  <2>3. k + 1 \in 0 .. Cardinality(G)
    BY <1>7
  <2>. QED  BY <2>1, <2>2, <2>3
<1>. HIDE DEF S
<1>10. Cardinality(G) \in S
  <2>1. 0 .. Cardinality(G) \subseteq S /\ Cardinality(G) \in 0 .. Cardinality(G)
    BY <1>7, <1>8, <1>9, IntervalInduction
  <2>. QED  BY <2>1
<1>11. iter[G] = Entailed(G)
  BY <1>7, <1>10 DEF S
<1>. QED  BY <1>1, <1>11
=============================================================================
